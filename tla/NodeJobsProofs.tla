--------------------------- MODULE NodeJobsProofs ---------------------------
(***************************************************************************)
(* What a completed node job says about its nodes, and how many of them    *)
(* work on it at a time, for any number of nodes, executors and faults.    *)
(***************************************************************************)
EXTENDS NodeJobs, FiniteSetTheorems, TLAPS

IsSeq(s) == \E S : s \in Seq(S)

\* Only a node that has pulled the images is behind a successful report, a
\* successful status update or a successful task.
Earned ==
    /\ \A i \in 1..Len(reports) :
          reports[i].action = "Pull" /\ reports[i].succ => reports[i].node \in pulled
    /\ \A i \in 1..Len(updates) : updates[i].phase = "Successful" => updates[i].node \in pulled
    /\ \A n \in Nodes : task[n] = "Successful" => n \in pulled

IInv ==
    /\ IsSeq(reports) /\ IsSeq(updates)
    /\ task = [n \in Nodes |-> task[n]]
    /\ pulled \subseteq Nodes
    /\ Earned
    /\ CompletedMeansPulled

\* Append keeps the elements and puts the new one last.
LEMMA AppendSeq ==
    ASSUME NEW s, NEW x, IsSeq(s)
    PROVE  /\ IsSeq(Append(s, x))
           /\ Len(Append(s, x)) = Len(s) + 1 /\ Len(s) \in Nat
           /\ \A i \in 1..Len(s) : Append(s, x)[i] = s[i]
           /\ Append(s, x)[Len(s) + 1] = x
<1>1. PICK S : s \in Seq(S) BY DEF IsSeq
<1>2. s \in Seq(S \cup {x}) BY <1>1
<1>3. Append(s, x) \in Seq(S \cup {x}) BY <1>2
<1> QED BY <1>2, <1>3 DEF IsSeq

\* The tail of a queue holds the elements after the first.
LEMMA TailSeq ==
    ASSUME NEW s, IsSeq(s), s # << >>
    PROVE  /\ IsSeq(Tail(s))
           /\ Len(s) \in Nat /\ Len(s) > 0 /\ Len(Tail(s)) = Len(s) - 1
           /\ \A i \in 1..Len(Tail(s)) : i + 1 \in 1..Len(s) /\ Tail(s)[i] = s[i + 1]
           /\ Head(s) = s[1]
<1>1. PICK S : s \in Seq(S) BY DEF IsSeq
<1>2. Tail(s) \in Seq(S) BY <1>1
<1> QED BY <1>1, <1>2 DEF IsSeq

\* The empty queue is a queue.
LEMMA EmptySeq == IsSeq(<< >>) /\ Len(<< >>) = 0
<1>1. << >> \in Seq({}) OBVIOUS
<1> QED BY <1>1 DEF IsSeq

\* A job has finitely many nodes, and at least one.
LEMMA NodesFinite == IsFiniteSet(Nodes) /\ Len(NodeSeq) \in Nat /\ Len(NodeSeq) > 0
<1>1. Len(NodeSeq) \in Nat /\ Len(NodeSeq) > 0 BY JobAssumption
<1>2. IsFiniteSet(1..Len(NodeSeq)) BY <1>1, FS_Interval
<1>3. NodeSeq \in Surjection(1..Len(NodeSeq), Nodes) BY JobAssumption DEF Nodes, Surjection
<1>4. IsFiniteSet(Nodes) BY <1>2, <1>3, FS_Surjection
<1> QED BY <1>1, <1>4

\* Fewer failed nodes do not exceed a tolerance that more do not exceed.
LEMMA ExceedsMonotone ==
    ASSUME NEW A, NEW B, IsFiniteSet(B), A \subseteq B, ~Exceeds(Cardinality(B))
    PROVE  ~Exceeds(Cardinality(A))
<1>1. Cardinality(A) \in Nat /\ Cardinality(B) \in Nat /\ Cardinality(A) <= Cardinality(B)
  BY FS_Subset, FS_CardinalityType, ZenonT(30)
<1>2. PICK c \in Int : c = 2 * Len(NodeSeq) * (FailureTolerate + 1)
  BY NodesFinite, JobAssumption
<1> QED BY <1>1, <1>2, NodesFinite DEF Exceeds

\* Init satisfies the invariant: there are no reports, updates or results yet.
LEMMA InitInv == Init => IInv
<1> SUFFICES ASSUME Init PROVE IInv OBVIOUS
<1>1. /\ reports = << >> /\ updates = << >> /\ pulled = {} /\ phase = "new"
      /\ task = [n \in Nodes |-> "Pending"]
  BY ZenonT(30) DEF Init
<1>2. IsSeq(reports) /\ IsSeq(updates) /\ Len(reports) = 0 /\ Len(updates) = 0
  BY <1>1, EmptySeq, ZenonT(30)
<1> QED BY <1>1, <1>2 DEF IInv, Earned, CompletedMeansPulled

\* A status update moves one task to the phase of the update.
LEMMA UpdateStatusInv == IInv /\ UpdateStatus => IInv'
<1> SUFFICES ASSUME IInv, UpdateStatus PROVE IInv' OBVIOUS
<1> USE DEF UpdateStatus, Write, edgeVars
<1>1. /\ IsSeq(updates') /\ IsSeq(reports') /\ (pulled \subseteq Nodes)'
  BY TailSeq, ZenonT(30) DEF IInv
<1>2. (\A i \in 1..Len(updates) : updates[i].phase = "Successful" =>
                                  updates[i].node \in pulled)'
  BY TailSeq DEF IInv, Earned
<1>3. Head(updates).phase = "Successful" => Head(updates).node \in pulled
  BY TailSeq DEF IInv, Earned
<1>4. /\ (task = [n \in Nodes |-> task[n]])'
      /\ (\A n \in Nodes : task[n] = "Successful" => n \in pulled)'
  BY <1>3, ZenonT(30) DEF IInv, Earned
<1>5. CompletedMeansPulled' BY DEF IInv, CompletedMeansPulled
<1> QED BY <1>1, <1>2, <1>4, <1>5 DEF IInv, Earned

\* A restart of CloudCore empties both queues.
LEMMA RestartInv ==
    ASSUME IInv, CloudCoreRestarts, UNCHANGED <<phase, task, pulled>>
    PROVE  IInv'
<1>1. reports' = << >> /\ updates' = << >> BY DEF CloudCoreRestarts
<1>2. IsSeq(reports') /\ IsSeq(updates') /\ Len(reports') = 0 /\ Len(updates') = 0
  BY <1>1, EmptySeq, ZenonT(30)
<1> QED BY <1>1, <1>2 DEF IInv, Earned, CompletedMeansPulled

\* A report becomes a status update, successful only if the report was the
\* successful end of the flow.
LEMMA HandleReportInv == IInv /\ HandleReport => IInv'
<1> SUFFICES ASSUME IInv, HandleReport PROVE IInv' OBVIOUS
<1>0. UNCHANGED <<phase, task, pulled>> BY DEF HandleReport, objVars
<1>1. CASE CloudCoreRestarts
  BY <1>0, <1>1, RestartInv, ZenonT(30)
<1>2. CASE ~CloudCoreRestarts
  <2>1. PICK u : /\ updates' = Append(updates, u) /\ reports' = Tail(reports)
                 /\ u.phase = "Successful" => u.node \in pulled
    <3>1. reports # << >> /\ Head(reports) = reports[1] /\ 1 \in 1..Len(reports)
      BY TailSeq DEF HandleReport, IInv
    <3> DEFINE r == Head(reports)
               p == IF ~IsFinalAction(r) THEN "InProgress"
                    ELSE IF r.succ THEN "Successful" ELSE "Failure"
    <3>2. /\ updates' = Append(updates, [node |-> r.node, phase |-> p, wait |-> TRUE])
          /\ reports' = Tail(reports)
      BY <1>2, ZenonT(30) DEF HandleReport
    <3>3. p = "Successful" => r.action = "Pull" /\ r.succ BY DEF IsFinalAction
    <3>4. p = "Successful" => r.node \in pulled BY <3>1, <3>3 DEF IInv, Earned
    <3> HIDE DEF p, r
    <3> QED BY <3>2, <3>4
  <2>2. reports # << >> BY DEF HandleReport
  <2>3. /\ IsSeq(updates') /\ IsSeq(reports')
    BY <2>1, <2>2, AppendSeq, TailSeq, ZenonT(30) DEF IInv
  <2>4. (\A i \in 1..Len(updates) : updates[i].phase = "Successful" =>
                                    updates[i].node \in pulled)'
    BY <1>0, <2>1, AppendSeq DEF IInv, Earned
  <2>5. (\A i \in 1..Len(reports) : reports[i].action = "Pull" /\ reports[i].succ =>
                                    reports[i].node \in pulled)'
    BY <1>0, <2>1, <2>2, TailSeq DEF IInv, Earned
  <2> QED BY <1>0, <2>3, <2>4, <2>5 DEF IInv, Earned, CompletedMeansPulled
<1> QED BY <1>1, <1>2

\* A node reports the end of the flow in the step in which it has pulled.
LEMMA RunActionInv ==
    ASSUME NEW n \in Nodes, NEW k \in Execs, NEW succ \in BOOLEAN, IInv, RunAction(n, k, succ)
    PROVE  IInv'
<1>0. UNCHANGED <<phase, task, updates>> BY DEF RunAction, objVars, cloudVars
<1>1. PICK r : /\ r = [node |-> n, action |-> runs[n][k], succ |-> succ]
               /\ reports' = Append(reports, r)
               /\ pulled' = IF r.action = "Pull" /\ succ THEN pulled \cup {n} ELSE pulled
  BY ZenonT(30) DEF RunAction
<1>2. pulled \subseteq pulled' /\ (pulled \subseteq Nodes)' BY <1>1 DEF IInv
<1>3. IsSeq(reports') /\ IsSeq(updates') BY <1>0, <1>1, AppendSeq DEF IInv
<1>4. (\A i \in 1..Len(reports) : reports[i].action = "Pull" /\ reports[i].succ =>
                                  reports[i].node \in pulled)'
  BY <1>1, <1>2, AppendSeq DEF IInv, Earned
<1>5. CompletedMeansPulled'
  <2>1. CASE phase = "Completed" /\ ~(Nodes \subseteq pulled)
    <3>1. IsFiniteSet(Nodes \ pulled) BY NodesFinite, FS_Difference, ZenonT(30)
    <3>2. Nodes \ pulled' \subseteq Nodes \ pulled BY <1>2
    <3>3. ~Exceeds(Cardinality(Nodes \ pulled)) BY <2>1 DEF IInv, CompletedMeansPulled
    <3>4. ~Exceeds(Cardinality(Nodes \ pulled')) BY <3>1, <3>2, <3>3, ExceedsMonotone
    <3> QED BY <3>4 DEF CompletedMeansPulled, Exceeds
  <2>2. CASE phase # "Completed" BY <1>0, <2>2 DEF CompletedMeansPulled
  <2>3. CASE Nodes \subseteq pulled BY <1>2, <2>3 DEF CompletedMeansPulled
  <2> QED BY <2>1, <2>2, <2>3
<1> QED BY <1>0, <1>2, <1>3, <1>4, <1>5 DEF IInv, Earned

\* CalculateStatus calls a job completed only when few enough tasks failed, and
\* all others are successful.
LEMMA CalculateSound ==
    ASSUME IInv, CalculatePhase = "Completed"
    PROVE  Nodes \subseteq pulled \/ ~Exceeds(Cardinality(Nodes \ pulled))
<1> DEFINE failed == {n \in Nodes : task[n] \in {"Failure", "Unknown"}}
<1>1. \A n \in Nodes : task[n] \in TaskFinal BY DEF CalculatePhase
<1>2. failed = {} \/ ~Exceeds(Cardinality(failed)) BY DEF CalculatePhase
<1>3. Nodes \ pulled \subseteq failed BY <1>1 DEF IInv, Earned, TaskFinal
<1>4. IsFiniteSet(failed) BY NodesFinite, FS_Subset
<1> HIDE DEF failed
<1>5. CASE failed = {} BY <1>3, <1>5
<1>6. CASE ~Exceeds(Cardinality(failed)) BY <1>3, <1>4, <1>6, ExceedsMonotone
<1> QED BY <1>2, <1>5, <1>6

\* The steps of the controller manager change phases, never what was pulled.
LEMMA ManagerInv == IInv /\ (ManagerStep \/ TimerStep) => IInv'
<1> SUFFICES ASSUME IInv, ManagerStep \/ TimerStep PROVE IInv' OBVIOUS
<1> USE DEF Write, edgeVars, objVars, cloudVars
<1>1. ASSUME NEW ready \in SUBSET Nodes, InitNodesStatus(ready) PROVE IInv'
  BY <1>1, ZenonT(30) DEF InitNodesStatus, IInv, Earned, CompletedMeansPulled
<1>2. CASE Reconcile
  <2>1. /\ UNCHANGED <<updates, reports, pulled, task>>
        /\ phase' = "Completed" => CalculatePhase = "Completed"
    BY <1>2, ZenonT(30) DEF Reconcile
  <2>2. CompletedMeansPulled' BY <2>1, CalculateSound DEF CompletedMeansPulled, Exceeds
  <2> QED BY <2>1, <2>2 DEF IInv, Earned
<1>3. CASE ReconcileFinal
  BY <1>3, ZenonT(30) DEF ReconcileFinal, IInv, Earned, CompletedMeansPulled
<1>4. CASE ReconcileDeleted
  BY <1>4, ZenonT(30) DEF ReconcileDeleted, IInv, Earned, CompletedMeansPulled
<1>5. ASSUME NEW late \in SUBSET Nodes, CheckRead(late) PROVE IInv'
  BY <1>5, ZenonT(30) DEF CheckRead, IInv, Earned, CompletedMeansPulled
<1>6. CASE CheckReleased
  BY <1>6, ZenonT(30) DEF CheckReleased, IInv, Earned, CompletedMeansPulled
<1>7. CASE CheckWrite
  BY <1>7, ZenonT(30) DEF CheckWrite, IInv, Earned, CompletedMeansPulled
<1> QED BY <1>1, <1>2, <1>3, <1>4, <1>5, <1>6, <1>7 DEF ManagerStep, TimerStep

\* The executors put updates into the queue that are not successful.
LEMMA ExecInv ==
    ASSUME NEW k \in Execs, IInv, StartExecutor(k) \/ ExecStep(k)
    PROVE  IInv'
<1> USE DEF objVars, edgeVars
<1>1. CASE StartExecutor(k)
  BY <1>1, ZenonT(30) DEF StartExecutor, IInv, Earned, CompletedMeansPulled
<1>2. CASE ExecSend(k)
  BY <1>2, ZenonT(30) DEF ExecSend, IInv, Earned, CompletedMeansPulled
<1>3. CASE ExecUpdate(k)
  <2>1. PICK u : updates' = Append(updates, u) /\ u.phase # "Successful"
    BY <1>3 DEF ExecUpdate
  <2>2. UNCHANGED <<phase, task, reports, pulled>> BY <1>3 DEF ExecUpdate
  <2>3. (\A i \in 1..Len(updates) : updates[i].phase = "Successful" =>
                                    updates[i].node \in pulled)'
    BY <2>1, <2>2, AppendSeq DEF IInv, Earned
  <2>4. IsSeq(updates') BY <2>1, AppendSeq DEF IInv
  <2> QED BY <2>2, <2>3, <2>4 DEF IInv, Earned, CompletedMeansPulled
<1>4. CASE ExecDone(k)
  BY <1>4, ZenonT(30) DEF ExecDone, IInv, Earned, CompletedMeansPulled
<1> QED BY <1>1, <1>2, <1>3, <1>4 DEF ExecStep

\* Losses, restarts and a deletion take elements out of the queues.
LEMMA FaultsInv == IInv /\ Faults => IInv'
<1> SUFFICES ASSUME IInv, Faults PROVE IInv' OBVIOUS
<1> USE DEF objVars, cloudVars, edgeVars
<1>1. ASSUME NEW n \in Nodes, NEW k \in Execs, LoseTask(n, k) PROVE IInv'
  BY <1>1, ZenonT(30) DEF LoseTask, IInv, Earned, CompletedMeansPulled
<1>2. CASE LoseReport
  BY <1>2, TailSeq DEF LoseReport, IInv, Earned, CompletedMeansPulled
<1>3. ASSUME NEW n \in Nodes, EdgeRestarts(n) PROVE IInv'
  BY <1>3, ZenonT(30) DEF EdgeRestarts, IInv, Earned, CompletedMeansPulled
<1>4. CASE CloudRestart
  BY <1>4, RestartInv, ZenonT(30) DEF CloudRestart
<1>5. CASE ManagerRestart
  BY <1>5, ZenonT(30) DEF ManagerRestart, IInv, Earned, CompletedMeansPulled
<1>6. CASE DeleteJob
  BY <1>6, ZenonT(30) DEF DeleteJob, IInv, Earned, CompletedMeansPulled
<1>7. CASE UpdateFails
  BY <1>7, TailSeq DEF UpdateFails, IInv, Earned, CompletedMeansPulled
<1> QED BY <1>1, <1>2, <1>3, <1>4, <1>5, <1>6, <1>7 DEF Faults

\* Every step of the system keeps the invariant.
LEMMA NextInv == IInv /\ [Next]_vars => IInv'
<1> SUFFICES ASSUME IInv, [Next]_vars PROVE IInv' OBVIOUS
<1>1. CASE IgnoreEvent
  BY <1>1, ZenonT(30) DEF IgnoreEvent, objVars, edgeVars, IInv, Earned, CompletedMeansPulled
<1>2. ASSUME NEW n \in Nodes, NEW k \in Execs, EdgeReceive(n, k) PROVE IInv'
  BY <1>2, ZenonT(30) DEF EdgeReceive, objVars, cloudVars, IInv, Earned, CompletedMeansPulled
<1>3. CASE UNCHANGED vars BY <1>3 DEF vars, IInv, Earned, CompletedMeansPulled
<1> QED
  BY <1>1, <1>2, <1>3, UpdateStatusInv, HandleReportInv, RunActionInv, ManagerInv, ExecInv,
     FaultsInv, ZenonT(30) DEF Next, EdgeStep

\* A completed job was pulled by all the nodes it needed: CalculateStatus counts
\* phases written by several parties out of order, and still never completes a
\* job because of a report, update or write that does not stand for a pull.
THEOREM CompletedSound == Spec => []CompletedMeansPulled
<1>1. IInv => CompletedMeansPulled BY DEF IInv
<1> QED BY <1>1, InitInv, NextInv, PTL DEF Spec
-----------------------------------------------------------------------------
\* The record of an executor, and what is always true of one: the pool and the
\* wait group agree, and an executor in the middle of a task is at a task.
ExecRec ==
    [pc : {"unused", "acquire", "update", "wait", "gone"}, i : 1..(Len(NodeSeq) + 1),
     pending : SUBSET Nodes, sent : BOOLEAN, pool : 0..PoolSize, wg : 0..PoolSize,
     interrupted : BOOLEAN]
ExecOK(e) ==
    /\ e \in ExecRec /\ e.pool = e.wg
    /\ e.pc \in {"acquire", "update"} => e.i <= Len(NodeSeq)

ObjTypes ==
    /\ phase \in {"new", "Init", "InProgress", "gone"} \cup JobFinal
    /\ task \in [Nodes -> TaskPhases]
    /\ deleting \in BOOLEAN /\ expired \subseteq Nodes
QueueTypes ==
    /\ events \in Seq(SUBSET Nodes)
    /\ updates \in Seq([node : Nodes, phase : TaskPhases, wait : BOOLEAN])
    /\ reports \in Seq([node : Nodes, action : Actions, succ : BOOLEAN])
ExecTypes ==
    /\ exec \in [Execs -> ExecRec] /\ current \in 0..MaxExecs
    /\ \A k \in Execs : ExecOK(exec[k])
RunTypes == runs \in [Nodes -> [Execs -> {"none", "lost", "done"} \cup Working]]
RestTypes ==
    /\ registered \in BOOLEAN /\ ticker \in {"off", "idle", "ticked", "checking"}
    /\ disrupted \in BOOLEAN /\ panicked \subseteq {"cloudcore", "controllermanager"}
    /\ pulled \subseteq Nodes
    /\ budget \in [execs : 0..MaxExecs, faults : 0..MaxFaults]

TInv == ObjTypes /\ QueueTypes /\ ExecTypes /\ RunTypes /\ RestTypes

\* There is at least one slot.
LEMMA PoolType == PoolSize \in Nat /\ PoolSize > 0
  BY JobAssumption DEF PoolSize

\* The two records that executors begin and end with.
LEMMA NewExecOK ==
    /\ ExecOK(NewExec) /\ ExecOK(GoneExec)
    /\ NewExec.pc = "unused" /\ GoneExec.pc = "gone" /\ GoneExec.wg = 0
    /\ ~NewExec.interrupted /\ ~GoneExec.interrupted
<1>1. 0 \in 0..PoolSize /\ 1 \in 1..(Len(NodeSeq) + 1)
  BY PoolType, NodesFinite
<1>2. NewExec \in ExecRec
  BY <1>1, ZenonT(30) DEF ExecRec, NewExec
<1>3. GoneExec \in ExecRec
  BY <1>1, ZenonT(30) DEF ExecRec, NewExec, GoneExec
<1> QED
  BY <1>2, <1>3, ZenonT(30) DEF ExecOK, NewExec, GoneExec

\* The head of the loop of Execute: the executor goes on to a task it has, to
\* the end of the loop, or, when it was interrupted, away.
LEMMA ContinueOK ==
    ASSUME NEW e \in ExecRec, e.pool = e.wg
    PROVE  /\ ExecOK(Continue(e))
           /\ ~e.interrupted => /\ Continue(e).pc \in {"wait", "acquire"}
                                /\ Continue(e).wg = e.wg /\ ~Continue(e).interrupted
<1> DEFINE rest == {i \in e.i..Len(NodeSeq) : NodeSeq[i] \in e.pending}
           least == CHOOSE i \in rest : \A j \in rest : i <= j
<1>0. e.i \in Nat /\ e.i >= 1 /\ e.i <= Len(NodeSeq) + 1 /\ Len(NodeSeq) \in Nat
  BY NodesFinite DEF ExecRec
<1>1. CASE e.i <= Len(NodeSeq) /\ e.interrupted
  BY <1>1, NewExecOK, ZenonT(30) DEF Continue
<1>2. CASE ~(e.i <= Len(NodeSeq) /\ e.interrupted) /\ rest = {}
  <2>1. Continue(e) = [e EXCEPT !.pc = "wait", !.i = Len(NodeSeq) + 1]
    BY <1>2, ZenonT(30) DEF Continue
  <2>2. Len(NodeSeq) + 1 \in 1..(Len(NodeSeq) + 1)
    BY <1>0
  <2> QED
    BY <2>1, <2>2, ZenonT(30) DEF ExecOK, ExecRec
<1>3. CASE ~(e.i <= Len(NodeSeq) /\ e.interrupted) /\ rest # {}
  <2>1. Continue(e) = [e EXCEPT !.pc = "acquire", !.i = least]
    BY <1>3, ZenonT(30) DEF Continue
  <2>2. least \in rest
    <3>1. rest \subseteq Nat
      BY <1>0
    <3>2. \E i \in rest : \A j \in rest : i <= j
      <4>1. PICK i \in rest : \A j \in rest : <<j, i>> \notin OpToRel(<, Nat)
        BY <1>3, <3>1, NatLessThanWellFounded, WFMin, ZenonT(30)
      <4>2. \A j \in rest : ~(j < i)
        BY <3>1, <4>1, ZenonT(30) DEF OpToRel
      <4> QED
        BY <3>1, <4>2
    <3> QED
      BY <3>2, ZenonT(30)
  <2>3. least \in 1..(Len(NodeSeq) + 1) /\ least <= Len(NodeSeq)
    BY <1>0, <2>2
  <2> HIDE DEF least
  <2> QED
    BY <2>1, <2>3, ZenonT(30) DEF ExecOK, ExecRec
<1> QED
  BY <1>1, <1>2, <1>3, ZenonT(30)

\* Init has the types.
LEMMA TInit == Init => TInv
<1> SUFFICES ASSUME Init PROVE TInv
  OBVIOUS
<1>1. ObjTypes
  BY ZenonT(30) DEF Init, ObjTypes, TaskPhases
<1>2. QueueTypes
  BY DEF Init, QueueTypes
<1>3. ExecTypes
  <2>1. exec = [k \in Execs |-> NewExec] /\ current = 0 /\ 0 \in 0..MaxExecs
    BY JobAssumption DEF Init
  <2> QED
    BY <2>1, NewExecOK, ZenonT(30) DEF ExecTypes, ExecOK
<1>4. RunTypes
  BY ZenonT(30) DEF Init, RunTypes
<1>5. RestTypes
  BY JobAssumption, ZenonT(30) DEF Init, RestTypes
<1> QED
  BY <1>1, <1>2, <1>3, <1>4, <1>5, ZenonT(30) DEF TInv

\* A write of the object, and the event it causes.
LEMMA WriteTypes ==
    ASSUME TInv, NEW p \in {"new", "Init", "InProgress", "gone"} \cup JobFinal,
           NEW t \in [Nodes -> TaskPhases], Write(p, t), UNCHANGED <<deleting, updates, reports>>
    PROVE  ObjTypes' /\ QueueTypes'
<1>1. ObjTypes'
  BY ZenonT(30) DEF TInv, ObjTypes, Write
<1>2. events' \in Seq(SUBSET Nodes)
  <2>1. PendingOf(t) \in SUBSET Nodes
    BY ZenonT(30) DEF PendingOf
  <2> QED
    BY <2>1 DEF TInv, QueueTypes, Write
<1> QED
  BY <1>1, <1>2, ZenonT(30) DEF TInv, QueueTypes

\* A change of one executor.
LEMMA OneExec ==
    ASSUME ExecTypes, NEW k \in Execs, NEW e, ExecOK(e), exec' = [exec EXCEPT ![k] = e],
           current' \in 0..MaxExecs
    PROVE  ExecTypes'
  BY ZenonT(30) DEF ExecTypes, ExecOK

\* An element taken off a queue, and one put into it.
LEMMA QueueStep ==
    ASSUME NEW S, NEW s \in Seq(S)
    PROVE  /\ s # << >> => Tail(s) \in Seq(S) /\ Head(s) \in S
           /\ \A x \in S : Append(s, x) \in Seq(S)
           /\ << >> \in Seq(S) /\ \A x \in S : <<x>> \in Seq(S)
           /\ \A i \in 1..Len(s) : s[i] \in S
  OBVIOUS

\* What is spent of the bounds.
LEMMA Spend ==
    ASSUME NEW b \in [execs : 0..MaxExecs, faults : 0..MaxFaults]
    PROVE  /\ b.execs > 0 =>
                [b EXCEPT !.execs = @ - 1] \in [execs : 0..MaxExecs, faults : 0..MaxFaults]
           /\ b.faults > 0 =>
                [b EXCEPT !.faults = @ - 1] \in [execs : 0..MaxExecs, faults : 0..MaxFaults]
<1>1. /\ b.execs > 0 => b.execs - 1 \in 0..MaxExecs
      /\ b.faults > 0 => b.faults - 1 \in 0..MaxFaults
  BY JobAssumption
<1> QED
  BY <1>1, ZenonT(30)

\* A restart of CloudCore.
LEMMA RestartTypes ==
    ASSUME TInv, CloudCoreRestarts
    PROVE  QueueTypes' /\ ExecTypes' /\ RunTypes'
<1>1. QueueTypes'
  <2>1. PendingOf(task) \in SUBSET Nodes
    BY ZenonT(30) DEF PendingOf
  <2>2. events' \in Seq(SUBSET Nodes)
    <3>1. events \in Seq(SUBSET Nodes)
      BY ZenonT(30) DEF TInv, QueueTypes
    <3>2. <<PendingOf(task)>> \in Seq(SUBSET Nodes) /\ << >> \in Seq(SUBSET Nodes)
      BY <2>1, <3>1, QueueStep, ZenonT(30)
    <3> QED
      BY <3>2, ZenonT(30) DEF CloudCoreRestarts
  <2> QED
    BY <2>2 DEF CloudCoreRestarts, QueueTypes
<1>2. ExecTypes'
  <2>1. /\ exec' = [k \in Execs |-> IF exec[k].pc = "unused" THEN NewExec ELSE GoneExec]
        /\ current' = 0 /\ 0 \in 0..MaxExecs
    BY JobAssumption DEF CloudCoreRestarts
  <2>2. \A k \in Execs : ExecOK(exec'[k])
    BY <2>1, NewExecOK, ZenonT(30)
  <2> QED
    BY <2>1, <2>2, ZenonT(30) DEF ExecTypes, ExecOK
<1>3. RunTypes'
  BY ZenonT(30) DEF CloudCoreRestarts, TInv, RunTypes
<1> QED
  BY <1>1, <1>2, <1>3, ZenonT(30)

\* The executors keep the types: Execute takes a slot only when one is free,
\* and passes over a task only after it had one.
LEMMA ExecTyped ==
    ASSUME TInv, NEW k \in Execs, StartExecutor(k) \/ ExecStep(k)
    PROVE  TInv'
<1> USE DEF objVars, timerVars, edgeVars, histVars
<1>0. /\ ExecTypes /\ QueueTypes /\ exec[k] \in ExecRec /\ ExecOK(exec[k])
      /\ 0 \in 0..MaxExecs /\ k \in 0..MaxExecs
  BY JobAssumption DEF TInv, ExecTypes, Execs
<1>1. CASE StartExecutor(k)
  <2> DEFINE e == [NewExec EXCEPT !.pending = Head(events)]
  <2>1. /\ events' = Tail(events) /\ exec' = [exec EXCEPT ![k] = Continue(e)] /\ current' = k
        /\ events # << >>
    BY <1>1, ZenonT(30) DEF StartExecutor
  <2>2. Head(events) \in SUBSET Nodes /\ events' \in Seq(SUBSET Nodes)
    BY <1>0, <2>1, QueueStep, ZenonT(30) DEF QueueTypes
  <2>3. e \in ExecRec /\ e.pool = e.wg
    BY <2>2, NewExecOK, ZenonT(30) DEF ExecOK, ExecRec
  <2>4. ExecTypes'
    BY <1>0, <2>1, <2>3, ContinueOK, OneExec, ZenonT(30)
  <2>5. RestTypes'
    <3>1. /\ budget.execs > 0 /\ budget' = [budget EXCEPT !.execs = @ - 1]
          /\ UNCHANGED <<registered, ticker, disrupted, panicked, pulled>>
      BY <1>1, ZenonT(30) DEF StartExecutor
    <3>2. budget' \in [execs : 0..MaxExecs, faults : 0..MaxFaults]
      BY <3>1, Spend, ZenonT(30) DEF TInv, RestTypes
    <3> QED
      BY <3>1, <3>2, ZenonT(30) DEF TInv, RestTypes
  <2>6. UNCHANGED <<phase, task, deleting, expired, updates, reports, runs>>
    BY <1>1, ZenonT(30) DEF StartExecutor
  <2> QED
    BY <2>2, <2>4, <2>5, <2>6, ZenonT(30) DEF TInv, ObjTypes, QueueTypes, RunTypes
<1>2. CASE ExecSend(k)
  <2>1. UNCHANGED <<phase, task, deleting, expired, events, updates, reports, current, registered,
                    ticker, disrupted, panicked, pulled, budget>>
    BY <1>2, ZenonT(30) DEF ExecSend
  <2>2. exec[k].pool + 1 \in 0..PoolSize /\ exec[k].wg + 1 \in 0..PoolSize
    BY <1>0, <1>2, PoolType DEF ExecSend, ExecOK, ExecRec
  <2>3. PICK e : /\ exec' = [exec EXCEPT ![k] = e]
                 /\ \/ e = [exec[k] EXCEPT !.pc = "update", !.pool = @ + 1, !.wg = @ + 1,
                                           !.sent = TRUE]
                    \/ e = [exec[k] EXCEPT !.pc = "update", !.sent = FALSE]
    <3>1. CASE exec' = [exec EXCEPT ![k].pc = "update", ![k].pool = @ + 1, ![k].wg = @ + 1,
                                    ![k].sent = TRUE]
      BY <1>0, <3>1, ZenonT(30) DEF ExecTypes, ExecRec
    <3>2. CASE exec' = [exec EXCEPT ![k].pc = "update", ![k].sent = FALSE]
      BY <1>0, <3>2, ZenonT(30) DEF ExecTypes, ExecRec
    <3> QED
      BY <1>2, <3>1, <3>2, ZenonT(30) DEF ExecSend
  <2>4. e \in ExecRec
    BY <1>0, <2>2, <2>3, ZenonT(30) DEF ExecRec
  <2>5. ExecOK(e)
    <3>1. exec[k].i <= Len(NodeSeq) /\ exec[k].pool = exec[k].wg
      BY <1>0, <1>2, ZenonT(30) DEF ExecSend, ExecOK
    <3>2. e.i = exec[k].i /\ e.pool = e.wg
      <4> DEFINE x == exec[k]
      <4>1. x \in ExecRec /\ x.pool = x.wg
        BY <1>0, <3>1, ZenonT(30)
      <4>2. \/ e = [x EXCEPT !.pc = "update", !.pool = x.pool + 1, !.wg = x.wg + 1, !.sent = TRUE]
            \/ e = [x EXCEPT !.pc = "update", !.sent = FALSE]
        BY <2>3, ZenonT(30)
      <4> HIDE DEF x
      <4>3. e.i = x.i /\ e.pool = e.wg
        <5>1. CASE e = [x EXCEPT !.pc = "update", !.pool = x.pool + 1, !.wg = x.wg + 1, !.sent = TRUE]
          <6>1. e.i = x.i
            BY <4>1, <5>1, ZenonT(30) DEF ExecRec
          <6>2. e.pool = x.pool + 1
            BY <4>1, <5>1, ZenonT(30) DEF ExecRec
          <6>3. e.wg = x.wg + 1
            BY <4>1, <5>1, ZenonT(30) DEF ExecRec
          <6> QED
            BY <4>1, <6>1, <6>2, <6>3, ZenonT(30)
        <5>2. CASE e = [x EXCEPT !.pc = "update", !.sent = FALSE]
          BY <4>1, <5>2, ZenonT(30) DEF ExecRec
        <5> QED
          BY <4>2, <5>1, <5>2, ZenonT(30)
      <4> QED
        BY <4>3, ZenonT(30) DEF x
    <3> QED
      BY <2>4, <3>1, <3>2, ZenonT(30) DEF ExecOK
  <2>6. ExecTypes'
    BY <1>0, <2>1, <2>3, <2>5, OneExec, ZenonT(30) DEF ExecTypes
  <2>7. RunTypes'
    <3>1. runs' = runs \/ runs' = [runs EXCEPT ![At(k)][k] = "sent"]
      BY <1>2, ZenonT(30) DEF ExecSend
    <3> QED
      BY <3>1 DEF TInv, RunTypes, Working
  <2> QED
    BY <2>1, <2>6, <2>7, ZenonT(30) DEF TInv, ObjTypes, QueueTypes, RestTypes
<1>3. CASE ExecUpdate(k)
  <2> DEFINE e == [exec[k] EXCEPT !.i = @ + 1, !.sent = FALSE, !.pending = @ \ {At(k)}]
             u == [node |-> At(k), wait |-> FALSE,
                   phase |-> IF exec[k].sent THEN "InProgress" ELSE "Failure"]
  <2>1. UNCHANGED <<phase, task, deleting, expired, events, reports, runs, registered,
                    ticker, disrupted, panicked, pulled, budget>>
    BY <1>3, ZenonT(30) DEF ExecUpdate
  <2>2. exec[k].i \in 1..Len(NodeSeq)
    BY <1>0, <1>3, NodesFinite DEF ExecUpdate, ExecOK, ExecRec
  <2>3. At(k) \in Nodes
    BY <2>2, ZenonT(30) DEF At, Nodes
  <2>4. u \in [node : Nodes, phase : TaskPhases, wait : BOOLEAN]
    BY <2>3, ZenonT(30) DEF TaskPhases, TaskFinal
  <2>5. e \in ExecRec /\ e.pool = e.wg
    <3>1. exec[k].i + 1 \in 1..(Len(NodeSeq) + 1)
      BY <2>2, NodesFinite
    <3> QED
      BY <1>0, <3>1, ZenonT(30) DEF ExecOK, ExecRec
  <2>6. updates' = Append(updates, u) /\ exec' = [exec EXCEPT ![k] = Continue(e)]
    BY <1>3, ZenonT(30) DEF ExecUpdate
  <2>7. current' \in 0..MaxExecs
    BY <1>0, <1>3, ZenonT(30) DEF ExecUpdate, ExecTypes
  <2> HIDE DEF e, u
  <2>8. ExecTypes'
    BY <1>0, <2>5, <2>6, <2>7, ContinueOK, OneExec, ZenonT(30)
  <2>9. updates' \in Seq([node : Nodes, phase : TaskPhases, wait : BOOLEAN])
    BY <1>0, <2>4, <2>6, QueueStep, ZenonT(30) DEF QueueTypes
  <2> QED
    BY <2>1, <2>8, <2>9, ZenonT(30) DEF TInv, ObjTypes, QueueTypes, RunTypes, RestTypes
<1>4. CASE ExecDone(k)
  <2>1. UNCHANGED <<phase, task, deleting, expired, events, updates, reports, runs, registered,
                    ticker, disrupted, panicked, pulled, budget>>
    BY <1>4, ZenonT(30) DEF ExecDone
  <2>2. ExecTypes'
    BY <1>0, <1>4, NewExecOK, OneExec, ZenonT(30) DEF ExecDone
  <2> QED
    BY <2>1, <2>2, ZenonT(30) DEF TInv, ObjTypes, QueueTypes, RunTypes, RestTypes
<1> QED
  BY <1>1, <1>2, <1>3, <1>4, ZenonT(30) DEF ExecStep

\* The status updater and the upstream handler keep the types: FinishTask is
\* called only while the wait group is not zero, and gives back a slot with it.
LEMMA TaskManagerTyped ==
    ASSUME TInv, UpdateStatus \/ HandleReport \/ IgnoreEvent
    PROVE  TInv'
<1> USE DEF objVars, timerVars, edgeVars, histVars
<1>0. /\ events \in Seq(SUBSET Nodes)
      /\ updates \in Seq([node : Nodes, phase : TaskPhases, wait : BOOLEAN])
      /\ reports \in Seq([node : Nodes, action : Actions, succ : BOOLEAN])
  BY ZenonT(30) DEF TInv, QueueTypes
<1>1. CASE UpdateStatus
  <2> DEFINE u == Head(updates)
             t == [task EXCEPT ![u.node] = u.phase]
  <2>1. /\ UNCHANGED <<deleting, exec, current, registered, ticker, reports, runs, pulled, budget,
                       disrupted, panicked>>
        /\ updates # << >> /\ updates' = Tail(updates)
        /\ UNCHANGED <<phase, task, expired, events>> \/ Write(phase, t)
    BY <1>1, ZenonT(30) DEF UpdateStatus
  <2>2. /\ u \in [node : Nodes, phase : TaskPhases, wait : BOOLEAN]
        /\ updates' \in Seq([node : Nodes, phase : TaskPhases, wait : BOOLEAN])
    BY <1>0, <2>1, QueueStep, ZenonT(30)
  <2>3. t \in [Nodes -> TaskPhases]
    BY <2>2, ZenonT(30) DEF TInv, ObjTypes
  <2> HIDE DEF t
  <2>4. ObjTypes'
    BY <2>1, <2>3, ZenonT(30) DEF Write, TInv, ObjTypes
  <2>5. events' \in Seq(SUBSET Nodes)
    <3>1. PendingOf(t) \in SUBSET Nodes
      BY ZenonT(30) DEF PendingOf
    <3>2. Append(events, PendingOf(t)) \in Seq(SUBSET Nodes)
      BY <1>0, <3>1, QueueStep, ZenonT(30)
    <3> QED
      BY <1>0, <2>1, <3>2, ZenonT(30) DEF Write
  <2> QED
    BY <2>1, <2>2, <2>4, <2>5, ZenonT(30) DEF TInv, QueueTypes, ExecTypes, RunTypes, RestTypes
<1>2. CASE HandleReport
  <2> DEFINE r == Head(reports)
             p == IF ~IsFinalAction(r) THEN "InProgress"
                  ELSE IF r.succ THEN "Successful" ELSE "Failure"
             u == [node |-> r.node, phase |-> p, wait |-> TRUE]
  <2>1. UNCHANGED <<phase, task, deleting, expired, registered, ticker, pulled, budget, disrupted>>
    BY <1>2, ZenonT(30) DEF HandleReport
  <2>2. CASE CloudCoreRestarts /\ panicked' = panicked \cup {"cloudcore"}
    BY <2>1, <2>2, RestartTypes, ZenonT(30) DEF TInv, ObjTypes, RestTypes
  <2>3. CASE ~(CloudCoreRestarts /\ panicked' = panicked \cup {"cloudcore"})
    <3>1. /\ ~(IsFinalAction(r) /\ current # 0 /\ exec[current].wg = 0)
          /\ exec' = IF IsFinalAction(r) /\ current # 0 THEN FinishTask(current) ELSE exec
          /\ updates' = Append(updates, u) /\ reports # << >> /\ reports' = Tail(reports)
          /\ UNCHANGED <<events, current, runs, panicked>>
      BY <1>2, <2>3, ZenonT(30) DEF HandleReport
    <3>2. /\ r \in [node : Nodes, action : Actions, succ : BOOLEAN]
          /\ reports' \in Seq([node : Nodes, action : Actions, succ : BOOLEAN])
      BY <1>0, <3>1, QueueStep, ZenonT(30)
    <3>3. u \in [node : Nodes, phase : TaskPhases, wait : BOOLEAN]
      BY <3>2, ZenonT(30) DEF TaskPhases, TaskFinal
    <3>4. updates' \in Seq([node : Nodes, phase : TaskPhases, wait : BOOLEAN])
      BY <1>0, <3>1, <3>3, QueueStep, ZenonT(30)
    <3>5. ExecTypes'
      <4>1. CASE ~(IsFinalAction(r) /\ current # 0)
        BY <3>1, <4>1, ZenonT(30) DEF TInv, ExecTypes
      <4>2. CASE IsFinalAction(r) /\ current # 0
        <5> DEFINE x == exec[current]
                   e == [x EXCEPT !.pool = x.pool - 1, !.wg = x.wg - 1]
        <5>1. current \in Execs
          BY <4>2 DEF TInv, ExecTypes, Execs
        <5>2. x \in ExecRec /\ ExecOK(x) /\ x.wg # 0 /\ x.pool = x.wg
          BY <5>1, <4>2, <3>1, ZenonT(30) DEF TInv, ExecTypes, ExecOK
        <5>3. x.pool > 0 /\ x.wg - 1 \in 0..PoolSize /\ x.pool - 1 \in 0..PoolSize
          BY <5>2, PoolType DEF ExecRec
        <5>4. exec' = [exec EXCEPT ![current] = e]
          <6>1. exec' = [exec EXCEPT ![current].pool = IF @ > 0 THEN @ - 1 ELSE 0,
                                     ![current].wg = @ - 1]
            BY <3>1, <4>2, ZenonT(30) DEF FinishTask
          <6> QED
            BY <6>1, <5>1, <5>2, <5>3, ZenonT(30) DEF TInv, ExecTypes, ExecRec
        <5>5. e \in ExecRec /\ e.i = x.i /\ e.pc = x.pc
          BY <5>2, <5>3, ZenonT(30) DEF ExecRec
        <5>6. e.pool = e.wg
          <6>1. e.pool = x.pool - 1
            BY <5>2, ZenonT(30) DEF ExecRec
          <6>2. e.wg = x.wg - 1
            BY <5>2, ZenonT(30) DEF ExecRec
          <6> QED
            BY <5>2, <6>1, <6>2, ZenonT(30)
        <5>7. ExecOK(e)
          BY <5>2, <5>5, <5>6, ZenonT(30) DEF ExecOK
        <5> HIDE DEF e, x
        <5> QED
          BY <5>1, <5>4, <5>7, <3>1, OneExec, ZenonT(30) DEF TInv, ExecTypes
      <4> QED
        BY <4>1, <4>2, ZenonT(30)
    <3> QED
      BY <1>0, <2>1, <3>1, <3>2, <3>4, <3>5, ZenonT(30) DEF TInv, ObjTypes, QueueTypes, RunTypes, RestTypes
  <2> QED
    BY <2>2, <2>3, ZenonT(30)
<1>3. CASE IgnoreEvent
  <2>1. /\ UNCHANGED <<phase, task, deleting, expired, exec, current, updates, reports, runs,
                       registered, ticker, pulled, budget, disrupted, panicked>>
        /\ events # << >> /\ events' = Tail(events)
    BY <1>3, ZenonT(30) DEF IgnoreEvent
  <2>2. events' \in Seq(SUBSET Nodes)
    BY <1>0, <2>1, QueueStep, ZenonT(30)
  <2> QED
    BY <2>1, <2>2, ZenonT(30) DEF TInv, ObjTypes, QueueTypes, ExecTypes, RunTypes, RestTypes
<1> QED
  BY <1>1, <1>2, <1>3, ZenonT(30)

\* The edge nodes keep the types.
LEMMA EdgeTyped ==
    ASSUME TInv, NEW n \in Nodes, NEW k \in Execs, EdgeStep(n, k)
    PROVE  TInv'
<1> USE DEF objVars, cloudVars, timerVars, histVars
<1>1. UNCHANGED <<phase, task, deleting, expired, events, exec, current, updates, registered, ticker,
                  budget, disrupted, panicked>>
  BY ZenonT(30) DEF EdgeStep, EdgeReceive, RunAction
<1>2. CASE EdgeReceive(n, k)
  <2>1. UNCHANGED <<reports, pulled>> /\ runs' = [runs EXCEPT ![n][k] = "Check"]
    BY <1>2, ZenonT(30) DEF EdgeReceive
  <2>2. RunTypes'
    BY <2>1, ZenonT(30) DEF TInv, RunTypes, Working
  <2> QED
    BY <1>1, <2>1, <2>2, ZenonT(30) DEF TInv, ObjTypes, QueueTypes, ExecTypes, RestTypes
<1>3. ASSUME NEW succ \in BOOLEAN, RunAction(n, k, succ) PROVE TInv'
  <2>1. PICK r : /\ runs[n][k] \in Actions
                 /\ r = [node |-> n, action |-> runs[n][k], succ |-> succ]
                 /\ reports' = Append(reports, r)
                 /\ runs' = [runs EXCEPT ![n][k] = IF IsFinalAction(r) THEN "done" ELSE "Pull"]
                 /\ pulled' = IF r.action = "Pull" /\ succ THEN pulled \cup {n} ELSE pulled
    BY <1>3, ZenonT(30) DEF RunAction
  <2>2. r \in [node : Nodes, action : Actions, succ : BOOLEAN]
    BY <2>1, ZenonT(30)
  <2>3. reports' \in Seq([node : Nodes, action : Actions, succ : BOOLEAN])
    BY <2>1, <2>2, QueueStep, ZenonT(30) DEF TInv, QueueTypes
  <2>4. RunTypes'
    BY <2>1, ZenonT(30) DEF TInv, RunTypes, Working
  <2>5. (pulled \subseteq Nodes)'
    BY <2>1, ZenonT(30) DEF TInv, RestTypes
  <2> QED
    BY <1>1, <2>3, <2>4, <2>5, ZenonT(30) DEF TInv, ObjTypes, QueueTypes, ExecTypes, RestTypes
<1> QED
  BY <1>2, <1>3, ZenonT(30) DEF EdgeStep

\* The reconciler and the timeout job keep the types.
LEMMA ManagerTyped ==
    ASSUME TInv, ManagerStep \/ TimerStep
    PROVE  TInv'
<1> USE DEF objVars, cloudVars, edgeVars, histVars
<1>0. /\ phase \in {"new", "Init", "InProgress", "gone"} \cup JobFinal
      /\ task \in [Nodes -> TaskPhases]
  BY ZenonT(30) DEF TInv, ObjTypes
<1>1. ASSUME UNCHANGED <<exec, current, runs, pulled, budget, disrupted, panicked>>,
             registered' \in BOOLEAN, ticker' \in {"off", "idle", "ticked", "checking"},
             ObjTypes', QueueTypes'
      PROVE  TInv'
  BY <1>1, ZenonT(30) DEF TInv, ExecTypes, RunTypes, RestTypes
<1>2. registered \in BOOLEAN /\ ticker \in {"off", "idle", "ticked", "checking"}
  BY ZenonT(30) DEF TInv, RestTypes
<1>3. ASSUME NEW ready \in SUBSET Nodes, InitNodesStatus(ready) PROVE TInv'
  <2>1. UNCHANGED <<deleting, exec, current, updates, registered, ticker, reports, runs, pulled,
                    budget, disrupted, panicked>>
    BY <1>3, ZenonT(30) DEF InitNodesStatus, timerVars
  <2>2. [n \in Nodes |-> IF n \in ready THEN "Pending" ELSE "Failure"] \in [Nodes -> TaskPhases]
    BY ZenonT(30) DEF TaskPhases, TaskFinal
  <2>3. ObjTypes' /\ QueueTypes'
    BY <1>0, <1>3, <2>1, <2>2, WriteTypes, ZenonT(30) DEF InitNodesStatus, JobFinal
  <2> QED
    BY <1>1, <1>2, <2>1, <2>3, ZenonT(30)
<1>4. CASE Reconcile
  <2>1. /\ UNCHANGED <<deleting, exec, current, updates, reports, runs, pulled, budget, disrupted,
                       panicked>>
        /\ registered' = TRUE /\ ticker' \in {ticker, "idle"}
        /\ Write(CalculatePhase, task) \/ UNCHANGED <<phase, task, expired, events>>
    BY <1>4, ZenonT(30) DEF Reconcile
  <2>2. CalculatePhase \in {"new", "Init", "InProgress", "gone"} \cup JobFinal
    BY ZenonT(30) DEF CalculatePhase, JobFinal
  <2>3. ObjTypes' /\ QueueTypes'
    <3>1. CASE Write(CalculatePhase, task)
      BY <1>0, <2>1, <2>2, <3>1, WriteTypes, ZenonT(30)
    <3>2. CASE UNCHANGED <<phase, task, expired, events>>
      BY <2>1, <3>2, ZenonT(30) DEF TInv, ObjTypes, QueueTypes
    <3> QED
      BY <2>1, <3>1, <3>2, ZenonT(30)
  <2> QED
    BY <1>1, <1>2, <2>1, <2>3, ZenonT(30)
<1>5. CASE ReconcileFinal
  <2>1. /\ UNCHANGED <<expired, phase, task, deleting, events, exec, current, updates, reports, runs,
                       pulled, budget, disrupted, panicked>>
        /\ registered' = FALSE /\ ticker' \in {ticker, "off", "ticked"}
    BY <1>5, ZenonT(30) DEF ReconcileFinal, Release
  <2>2. ObjTypes' /\ QueueTypes'
    BY <2>1, ZenonT(30) DEF TInv, ObjTypes, QueueTypes
  <2> QED
    BY <1>1, <1>2, <2>1, <2>2, ZenonT(30)
<1>6. CASE ReconcileDeleted
  <2>1. /\ UNCHANGED <<task, deleting, events, updates, reports, runs, pulled, budget, disrupted,
                       panicked>>
        /\ registered' = FALSE /\ ticker' \in {ticker, "off", "ticked"}
        /\ phase' = "gone" /\ expired' = {} /\ current' = 0
    BY <1>6, ZenonT(30) DEF ReconcileDeleted, Release
  <2>2. ExecTypes'
    <3>0. 0 \in 0..MaxExecs
      BY JobAssumption
    <3>1. CASE current = 0
      BY <1>6, <2>1, <3>0, <3>1, ZenonT(30) DEF ReconcileDeleted, TInv, ExecTypes
    <3>2. CASE current # 0
      <4> DEFINE e == [exec[current] EXCEPT !.interrupted = TRUE]
      <4>1. current \in Execs /\ ExecOK(exec[current]) /\ ExecTypes
        BY <3>2 DEF TInv, ExecTypes, Execs
      <4>2. exec' = [exec EXCEPT ![current] = e]
        BY <1>6, <3>2, <4>1, ZenonT(30) DEF ReconcileDeleted, ExecTypes
      <4>3. ExecOK(e)
        BY <4>1, ZenonT(30) DEF ExecOK, ExecRec
      <4> QED
        BY <2>1, <3>0, <4>1, <4>2, <4>3, OneExec, ZenonT(30)
    <3> QED
      BY <3>1, <3>2, ZenonT(30)
  <2> QED
    BY <1>2, <2>1, <2>2, ZenonT(30) DEF TInv, ObjTypes, QueueTypes, RunTypes, RestTypes
<1>7. ASSUME NEW late \in SUBSET Nodes, CheckRead(late) PROVE TInv'
  <2>1. /\ UNCHANGED <<registered, phase, task, deleting, events, exec, current, updates, reports, runs,
                       pulled, budget, disrupted, panicked>>
        /\ expired' = late /\ ticker' = "checking"
    BY <1>7, ZenonT(30) DEF CheckRead
  <2>2. ObjTypes' /\ QueueTypes'
    BY <2>1, ZenonT(30) DEF TInv, ObjTypes, QueueTypes
  <2> QED
    BY <1>1, <1>2, <2>1, <2>2, ZenonT(30)
<1>8. CASE CheckReleased
  <2>1. /\ UNCHANGED <<registered, expired, phase, task, deleting, events, exec, current, updates,
                       reports, runs, pulled, budget, disrupted>>
        /\ ticker' = "off" /\ panicked' \in {panicked, panicked \cup {"controllermanager"}}
    BY <1>8, ZenonT(30) DEF CheckReleased
  <2> QED
    BY <2>1, ZenonT(30) DEF TInv, ObjTypes, QueueTypes, ExecTypes, RunTypes, RestTypes
<1>9. CASE CheckWrite
  <2> DEFINE t == [n \in Nodes |-> IF n \in expired THEN "Unknown" ELSE task[n]]
  <2>1. /\ UNCHANGED <<deleting, exec, current, updates, registered, reports, runs, pulled, budget,
                       disrupted, panicked>>
        /\ ticker' \in {"idle", "off"}
        /\ Write(phase, t) \/ UNCHANGED <<phase, task, expired, events>>
    BY <1>9, ZenonT(30) DEF CheckWrite
  <2>2. t \in [Nodes -> TaskPhases]
    BY <1>0, ZenonT(30) DEF TaskPhases, TaskFinal
  <2> HIDE DEF t
  <2>3. ObjTypes' /\ QueueTypes'
    <3>1. CASE Write(phase, t)
      BY <1>0, <2>1, <2>2, <3>1, WriteTypes, ZenonT(30)
    <3>2. CASE UNCHANGED <<phase, task, expired, events>>
      BY <2>1, <3>2, ZenonT(30) DEF TInv, ObjTypes, QueueTypes
    <3> QED
      BY <2>1, <3>1, <3>2, ZenonT(30)
  <2> QED
    BY <1>1, <1>2, <2>1, <2>3, ZenonT(30)
<1> QED
  BY <1>3, <1>4, <1>5, <1>6, <1>7, <1>8, <1>9, ZenonT(30) DEF ManagerStep, TimerStep

\* Faults keep the types.
LEMMA FaultsTyped ==
    ASSUME TInv, Faults
    PROVE  TInv'
<1> USE DEF objVars, cloudVars, timerVars, edgeVars
<1>0. ASSUME Fault PROVE budget' \in [execs : 0..MaxExecs, faults : 0..MaxFaults]
  BY <1>0, Spend, ZenonT(30) DEF Fault, TInv, RestTypes
<1>1. ASSUME NEW n \in Nodes, NEW k \in Execs, LoseTask(n, k) PROVE TInv'
  <2>1. /\ UNCHANGED <<reports, pulled, disrupted, panicked, expired, phase, task, deleting, events,
                       exec, current, updates, registered, ticker>>
        /\ Fault /\ runs' = [runs EXCEPT ![n][k] = "lost"]
    BY <1>1, ZenonT(30) DEF LoseTask
  <2>2. RunTypes'
    BY <2>1, ZenonT(30) DEF TInv, RunTypes
  <2> QED
    BY <1>0, <2>1, <2>2, ZenonT(30) DEF TInv, ObjTypes, QueueTypes, ExecTypes, RestTypes
<1>2. CASE LoseReport
  <2>1. /\ UNCHANGED <<runs, pulled, disrupted, panicked, expired, phase, task, deleting, events,
                       exec, current, updates, registered, ticker>>
        /\ Fault /\ reports # << >> /\ reports' = Tail(reports)
    BY <1>2, ZenonT(30) DEF LoseReport
  <2>2. reports' \in Seq([node : Nodes, action : Actions, succ : BOOLEAN])
    BY <2>1, QueueStep, ZenonT(30) DEF TInv, QueueTypes
  <2> QED
    BY <1>0, <2>1, <2>2, ZenonT(30) DEF TInv, ObjTypes, QueueTypes, ExecTypes, RunTypes, RestTypes
<1>3. ASSUME NEW n \in Nodes, EdgeRestarts(n) PROVE TInv'
  <2>1. /\ UNCHANGED <<reports, pulled, disrupted, panicked, expired, phase, task, deleting, events,
                       exec, current, updates, registered, ticker>>
        /\ Fault
        /\ runs' = [runs EXCEPT ![n] = [k \in Execs |-> IF @[k] \in Actions THEN "lost" ELSE @[k]]]
    BY <1>3, ZenonT(30) DEF EdgeRestarts
  <2>2. RunTypes'
    BY <2>1, ZenonT(30) DEF TInv, RunTypes
  <2> QED
    BY <1>0, <2>1, <2>2, ZenonT(30) DEF TInv, ObjTypes, QueueTypes, ExecTypes, RestTypes
<1>4. CASE CloudRestart
  <2>1. /\ UNCHANGED <<pulled, panicked, expired, phase, task, deleting, registered, ticker>>
        /\ Fault /\ CloudCoreRestarts /\ disrupted' = TRUE
    BY <1>4, ZenonT(30) DEF CloudRestart
  <2> QED
    BY <1>0, <2>1, RestartTypes, ZenonT(30) DEF TInv, ObjTypes, RestTypes
<1>5. CASE ManagerRestart
  <2>1. /\ UNCHANGED <<disrupted, panicked, phase, task, deleting, events, exec, current, updates,
                       reports, runs, pulled>>
        /\ Fault /\ registered' = FALSE /\ ticker' = "off" /\ expired' = {}
    BY <1>5, ZenonT(30) DEF ManagerRestart
  <2> QED
    BY <1>0, <2>1, ZenonT(30) DEF TInv, ObjTypes, QueueTypes, ExecTypes, RunTypes, RestTypes
<1>6. CASE DeleteJob
  <2>1. /\ UNCHANGED <<phase, task, exec, current, updates, panicked, registered, ticker, reports, runs,
                       pulled>>
        /\ Fault /\ deleting' = TRUE /\ disrupted' = TRUE /\ expired' = {}
        /\ events' \in {events, Append(events, PendingOf(task))}
    BY <1>6, ZenonT(30) DEF DeleteJob
  <2>2. events' \in Seq(SUBSET Nodes)
    <3>1. PendingOf(task) \in SUBSET Nodes
      BY ZenonT(30) DEF PendingOf
    <3>2. events \in Seq(SUBSET Nodes)
      BY ZenonT(30) DEF TInv, QueueTypes
    <3>3. Append(events, PendingOf(task)) \in Seq(SUBSET Nodes)
      BY <3>1, <3>2, QueueStep, ZenonT(30)
    <3> QED
      BY <2>1, <3>2, <3>3, ZenonT(30)
  <2> QED
    BY <1>0, <2>1, <2>2, ZenonT(30) DEF TInv, ObjTypes, QueueTypes, ExecTypes, RunTypes, RestTypes
<1>7. CASE UpdateFails
  <2>1. /\ UNCHANGED <<events, exec, current, disrupted, panicked, expired, phase, task, deleting,
                       registered, ticker, reports, runs, pulled>>
        /\ Fault /\ updates # << >> /\ updates' = Tail(updates)
    BY <1>7, ZenonT(30) DEF UpdateFails
  <2>2. updates' \in Seq([node : Nodes, phase : TaskPhases, wait : BOOLEAN])
    BY <2>1, QueueStep, ZenonT(30) DEF TInv, QueueTypes
  <2> QED
    BY <1>0, <2>1, <2>2, ZenonT(30) DEF TInv, ObjTypes, QueueTypes, ExecTypes, RunTypes, RestTypes
<1> QED
  BY <1>1, <1>2, <1>3, <1>4, <1>5, <1>6, <1>7, ZenonT(30) DEF Faults

\* Every step keeps the types.
LEMMA TStep == TInv /\ [Next]_vars => TInv'
<1> SUFFICES ASSUME TInv, [Next]_vars PROVE TInv'
  OBVIOUS
<1>1. CASE UNCHANGED vars
  BY <1>1, ZenonT(30) DEF vars, TInv, ObjTypes, QueueTypes, ExecTypes, RunTypes, RestTypes
<1> QED
  BY <1>1, ExecTyped, TaskManagerTyped, EdgeTyped, ManagerTyped, FaultsTyped, ZenonT(30) DEF Next

\* The types of the variables, the bound of the pool of every executor, and the
\* agreement of the pool with the wait group, which FinishTask releases one
\* after the other.
THEOREM JobsTyped == Spec => []TypeOK
<1>1. TInv => TypeOK
  <2> SUFFICES ASSUME TInv PROVE TypeOK
    OBVIOUS
  <2>1. /\ \A i \in 1..Len(events) : events[i] \subseteq Nodes
        /\ \A i \in 1..Len(updates) :
              updates[i] \in [node : Nodes, phase : TaskPhases, wait : BOOLEAN]
        /\ \A i \in 1..Len(reports) :
              reports[i] \in [node : Nodes, action : Actions, succ : BOOLEAN]
    <3>1. /\ events \in Seq(SUBSET Nodes)
          /\ updates \in Seq([node : Nodes, phase : TaskPhases, wait : BOOLEAN])
          /\ reports \in Seq([node : Nodes, action : Actions, succ : BOOLEAN])
      BY ZenonT(30) DEF TInv, QueueTypes
    <3>2. \A i \in 1..Len(events) : events[i] \in SUBSET Nodes
      BY <3>1, QueueStep, ZenonT(30)
    <3>3. \A i \in 1..Len(updates) :
              updates[i] \in [node : Nodes, phase : TaskPhases, wait : BOOLEAN]
      BY <3>1, QueueStep, ZenonT(30)
    <3>4. \A i \in 1..Len(reports) :
              reports[i] \in [node : Nodes, action : Actions, succ : BOOLEAN]
      BY <3>1, QueueStep, ZenonT(30)
    <3> QED
      BY <3>2, <3>3, <3>4, ZenonT(30)
  <2>2. exec \in [Execs -> ExecRec] /\ \A k \in Execs : exec[k].pool = exec[k].wg
    BY ZenonT(30) DEF TInv, ExecTypes, ExecOK
  <2>3. exec \in [Execs -> [pc : {"unused", "acquire", "update", "wait", "gone"},
                           i : 1..(Len(NodeSeq) + 1), pending : SUBSET Nodes,
                           sent : BOOLEAN, pool : 0..PoolSize, wg : 0..PoolSize,
                           interrupted : BOOLEAN]]
    BY <2>2, ZenonT(30) DEF ExecRec
  <2>4. current \in 0..MaxExecs
    BY ZenonT(30) DEF TInv, ExecTypes
  <2> QED
    BY <2>1, <2>2, <2>3, <2>4, Zenon DEF TypeOK, TInv, ObjTypes, RunTypes, RestTypes
<1> QED
  BY <1>1, TInit, TStep, PTL DEF Spec

\* A final phase is left only when the job is removed: the parties that write a
\* phase of their own write it over a new job or one under way, and the others
\* write back the phase that the object has.
THEOREM FinalPhaseKept == Spec => FinalPhaseStays
<1>1. ASSUME [Next]_vars, phase \in JobFinal
      PROVE  phase' \in {phase, "gone"}
  <2> USE DEF objVars, cloudVars, edgeVars, histVars, timerVars
  <2>0. phase \notin {"new", "Init", "InProgress"}
    BY <1>1, ZenonT(30) DEF JobFinal
  <2>1. CASE UNCHANGED vars
    BY <2>1, ZenonT(30) DEF vars
  <2>2. CASE IgnoreEvent \/ UpdateStatus \/ HandleReport
    BY <2>2, ZenonT(30) DEF IgnoreEvent, UpdateStatus, HandleReport, Write
  <2>3. ASSUME NEW k \in Execs, StartExecutor(k) \/ ExecStep(k)
        PROVE  phase' \in {phase, "gone"}
    BY <2>3, ZenonT(30) DEF StartExecutor, ExecStep, ExecSend, ExecUpdate, ExecDone
  <2>4. ASSUME NEW n \in Nodes, NEW k \in Execs, EdgeStep(n, k)
        PROVE  phase' \in {phase, "gone"}
    BY <2>4, ZenonT(30) DEF EdgeStep, EdgeReceive, RunAction
  <2>5. CASE ManagerStep
    BY <2>0, <2>5, ZenonT(30) DEF ManagerStep, InitNodesStatus, Reconcile, ReconcileFinal, ReconcileDeleted
  <2>6. CASE TimerStep
    BY <2>6, ZenonT(30) DEF TimerStep, CheckRead, CheckReleased, CheckWrite, Write
  <2>7. CASE Faults
    BY <2>7, ZenonT(30) DEF Faults, LoseTask, LoseReport, EdgeRestarts, CloudRestart, ManagerRestart, DeleteJob,
                UpdateFails
  <2> QED
    BY <1>1, <2>1, <2>2, <2>3, <2>4, <2>5, <2>6, <2>7, ZenonT(30) DEF Next
<1>2. [Next]_vars => [(phase \in JobFinal) => phase' \in {phase, "gone"}]_phase
  BY <1>1, ZenonT(30)
<1> QED
  BY <1>2, PTL DEF Spec, FinalPhaseStays
-----------------------------------------------------------------------------
\* The places of an executor that has not ended, the reports that are to give a
\* slot back, and the slots taken of the executor in the map.
Live == {"acquire", "update", "wait"}
FinalReports == {i \in 1..Len(reports) : IsFinalAction(reports[i])}
Taken == IF current = 0 THEN 0 ELSE exec[current].wg

\* As long as the job is not deleted and CloudCore is not restarted, the only
\* executor is the one in the map, nobody interrupts it, and every run that is
\* at work and every final report on its way has a slot of it.  A slot whose
\* message was lost is never given back.
SlotInv ==
    ~disrupted =>
        /\ ~deleting /\ phase # "gone" /\ panicked = {}
        /\ \A k \in Execs : ~exec[k].interrupted /\ (exec[k].pc \in Live => k = current)
        /\ Cardinality(AtWork) + Cardinality(FinalReports) <= Taken

\* The sizes of a finite set and of one that has at most one element more, or
\* at least one element less.
LEMMA Sizes ==
    ASSUME NEW S, NEW T, NEW x, IsFiniteSet(S)
    PROVE  /\ Cardinality(S) \in Nat
           /\ T \subseteq S => IsFiniteSet(T) /\ Cardinality(T) \in Nat
                                              /\ Cardinality(T) <= Cardinality(S)
           /\ T \subseteq S \cup {x} => Cardinality(T) <= Cardinality(S) + 1
           /\ x \in S /\ T \subseteq S \ {x} => Cardinality(T) + 1 <= Cardinality(S)
<1>1. Cardinality(S) \in Nat
  BY FS_CardinalityType, ZenonT(30)
<1>2. ASSUME NEW A, IsFiniteSet(A), NEW B, B \subseteq A
      PROVE  IsFiniteSet(B) /\ Cardinality(B) \in Nat /\ Cardinality(B) <= Cardinality(A)
  BY <1>2, FS_Subset, FS_CardinalityType, ZenonT(30)
<1>3. ASSUME T \subseteq S \cup {x} PROVE Cardinality(T) <= Cardinality(S) + 1
  <2>1. /\ IsFiniteSet(S \cup {x})
        /\ Cardinality(S \cup {x}) = IF x \in S THEN Cardinality(S) ELSE Cardinality(S) + 1
    BY FS_AddElement, ZenonT(30)
  <2>2. Cardinality(T) \in Nat /\ Cardinality(T) <= Cardinality(S \cup {x})
    BY <1>2, <1>3, <2>1, ZenonT(30)
  <2> QED
    BY <1>1, <2>1, <2>2
<1>4. ASSUME x \in S, T \subseteq S \ {x} PROVE Cardinality(T) + 1 <= Cardinality(S)
  <2>1. IsFiniteSet(S \ {x}) /\ Cardinality(S \ {x}) = Cardinality(S) - 1
    BY <1>4, FS_RemoveElement, ZenonT(30)
  <2>2. Cardinality(T) \in Nat /\ Cardinality(T) <= Cardinality(S \ {x})
    BY <1>2, <1>4, <2>1, ZenonT(30)
  <2> QED
    BY <1>1, <2>1, <2>2
<1> QED
  BY <1>1, <1>2, <1>3, <1>4, ZenonT(30)

\* There are finitely many runs.
LEMMA WorkFinite == IsFiniteSet(AtWork)
<1>1. IsFiniteSet(Execs)
  BY JobAssumption, FS_Interval DEF Execs
<1>2. IsFiniteSet(Nodes \X Execs)
  BY <1>1, NodesFinite, FS_Product, ZenonT(30)
<1> QED
  BY <1>2, FS_Subset, ZenonT(30) DEF AtWork

\* There are finitely many reports on their way.
LEMMA ReportsFinite ==
    ASSUME IsSeq(reports)
    PROVE  IsFiniteSet(FinalReports) /\ Len(reports) \in Nat
<1>1. Len(reports) \in Nat
  BY DEF IsSeq
<1>2. IsFiniteSet(1..Len(reports))
  BY <1>1, FS_Interval
<1> QED
  BY <1>1, <1>2, FS_Subset, ZenonT(30) DEF FinalReports

\* The same after a step.
LEMMA NextReports ==
    ASSUME IsSeq(reports')
    PROVE  Cardinality(FinalReports') \in Nat
<1>1. Len(reports') \in Nat
  BY DEF IsSeq
<1>2. IsFiniteSet(1..Len(reports'))
  BY <1>1, FS_Interval
<1>3. IsFiniteSet(FinalReports')
  BY <1>2, FS_Subset, ZenonT(30) DEF FinalReports
<1> QED
  BY <1>3, FS_CardinalityType, ZenonT(30)

\* A report put into the queue is one final report more if it is final.
LEMMA ReportAdded ==
    ASSUME IsSeq(reports), NEW r, reports' = Append(reports, r)
    PROVE  /\ Cardinality(FinalReports') <= Cardinality(FinalReports) + 1
           /\ ~IsFinalAction(r) => Cardinality(FinalReports') = Cardinality(FinalReports)
<1>1. /\ Len(reports') = Len(reports) + 1 /\ Len(reports) \in Nat
      /\ \A i \in 1..Len(reports) : reports'[i] = reports[i]
      /\ reports'[Len(reports) + 1] = r
  BY AppendSeq, ZenonT(30)
<1>2. /\ FinalReports' \subseteq FinalReports \cup {Len(reports) + 1}
      /\ ~IsFinalAction(r) => FinalReports' = FinalReports
  BY <1>1 DEF FinalReports, IsFinalAction
<1> QED
  BY <1>2, ReportsFinite, Sizes, ZenonT(30)

\* A report taken out of the queue is one final report less if it is final.
LEMMA ReportTaken ==
    ASSUME IsSeq(reports), reports # << >>, reports' = Tail(reports)
    PROVE  /\ Cardinality(FinalReports') <= Cardinality(FinalReports)
           /\ IsFinalAction(Head(reports)) =>
                 Cardinality(FinalReports') + 1 <= Cardinality(FinalReports)
<1> DEFINE rest == FinalReports \ {1}
           shift == [i \in FinalReports' |-> i + 1]
<1>1. /\ Len(reports) \in Nat /\ Len(reports) > 0 /\ Len(reports') = Len(reports) - 1
      /\ \A i \in 1..Len(reports') : i + 1 \in 1..Len(reports) /\ reports'[i] = reports[i + 1]
      /\ Head(reports) = reports[1]
  BY TailSeq, ZenonT(30)
<1>2. \A i \in FinalReports' : i \in Nat /\ i >= 1 /\ i + 1 \in rest
  <2> SUFFICES ASSUME NEW i \in FinalReports' PROVE i \in Nat /\ i >= 1 /\ i + 1 \in rest
    OBVIOUS
  <2>1. i \in 1..Len(reports') /\ IsFinalAction(reports'[i])
    BY ZenonT(30) DEF FinalReports, IsFinalAction
  <2>2. i \in Nat /\ i >= 1 /\ i + 1 \in 1..Len(reports) /\ reports'[i] = reports[i + 1]
    BY <1>1, <2>1
  <2> QED
    BY <2>1, <2>2 DEF FinalReports
<1>3. shift \in Injection(FinalReports', rest)
  BY <1>2 DEF Injection, IsInjective
<1>4. IsFiniteSet(FinalReports) /\ IsFiniteSet(rest)
  BY ReportsFinite, FS_RemoveElement, ZenonT(30)
<1>5. Cardinality(FinalReports') <= Cardinality(rest) /\ Cardinality(FinalReports') \in Nat
  BY <1>3, <1>4, FS_Injection, FS_CardinalityType, ZenonT(30)
<1>6. /\ Cardinality(FinalReports) \in Nat /\ Cardinality(rest) \in Nat
      /\ Cardinality(rest) <= Cardinality(FinalReports)
      /\ 1 \in FinalReports => Cardinality(rest) + 1 <= Cardinality(FinalReports)
  BY <1>4, Sizes, ZenonT(30)
<1>7. IsFinalAction(Head(reports)) => 1 \in FinalReports
  BY <1>1 DEF FinalReports
<1> HIDE DEF rest, shift
<1> QED
  BY <1>5, <1>6, <1>7

\* Initially there are no runs, reports or executors.
LEMMA SlotInit == Init => SlotInv
<1> SUFFICES ASSUME Init PROVE SlotInv
  OBVIOUS
<1>1. AtWork = {}
  BY ZenonT(30) DEF Init, AtWork, Working
<1>2. FinalReports = {}
  <2>1. Len(reports) = 0
    BY ZenonT(30) DEF Init
  <2> QED
    BY <2>1 DEF FinalReports
<1>3. \A k \in Execs : ~exec[k].interrupted /\ exec[k].pc = "unused"
  BY ZenonT(30) DEF Init, NewExec
<1>4. Cardinality(AtWork) + Cardinality(FinalReports) <= Taken
  BY <1>1, <1>2, FS_EmptySet DEF Init, Taken
<1> QED
  BY <1>3, <1>4, ZenonT(30) DEF SlotInv, Live, Init

\* The number of slots in use, and the one way in which most steps keep SlotInv:
\* they leave the executors alone and add neither a run nor a final report.
LEMMA SlotsKept ==
    ASSUME TInv, SlotInv, ~disrupted, UNCHANGED <<deleting, panicked, exec, current>>,
           phase' # "gone", AtWork' \subseteq AtWork,
           Cardinality(FinalReports') <= Cardinality(FinalReports),
           Cardinality(FinalReports') \in Nat
    PROVE  SlotInv'
<1>1. /\ Cardinality(AtWork') <= Cardinality(AtWork)
      /\ Cardinality(AtWork) \in Nat /\ Cardinality(AtWork') \in Nat
  BY WorkFinite, Sizes, ZenonT(30)
<1>2. Cardinality(FinalReports) \in Nat
  <2>1. IsSeq(reports)
    BY ZenonT(30) DEF TInv, QueueTypes, IsSeq
  <2> QED
    BY <2>1, ReportsFinite, FS_CardinalityType, ZenonT(30)
<1>3. Taken' = Taken /\ Taken \in Nat
  <2>1. current # 0 => exec[current] \in ExecRec
    BY DEF TInv, ExecTypes, Execs
  <2> QED
    BY <2>1, PoolType DEF Taken, ExecRec
<1>4. (Cardinality(AtWork) + Cardinality(FinalReports) <= Taken)'
  BY <1>1, <1>2, <1>3 DEF SlotInv
<1> QED
  BY <1>4, ZenonT(30) DEF SlotInv

\* Nobody but Execute takes a slot, and only for a run it sends.
LEMMA ExecSlots ==
    ASSUME TInv, TInv', SlotInv, ~disrupted, NEW k \in Execs, StartExecutor(k) \/ ExecStep(k)
    PROVE  SlotInv'
<1> USE DEF objVars, timerVars, edgeVars, histVars
<1>0. /\ ~deleting /\ phase # "gone" /\ panicked = {}
      /\ \A j \in Execs : ~exec[j].interrupted /\ (exec[j].pc \in Live => j = current)
      /\ Cardinality(AtWork) + Cardinality(FinalReports) <= Taken
  BY ZenonT(30) DEF SlotInv
<1>1. /\ Cardinality(AtWork) \in Nat /\ Cardinality(FinalReports) \in Nat
      /\ exec[k] \in ExecRec /\ exec = [j \in Execs |-> exec[j]] /\ ExecOK(exec[k])
      /\ exec[k].wg \in Nat
        /\ 0 \notin Execs
  <2>1. IsSeq(reports)
    BY ZenonT(30) DEF TInv, QueueTypes, IsSeq
  <2>2. Cardinality(AtWork) \in Nat /\ Cardinality(FinalReports) \in Nat
    BY <2>1, WorkFinite, ReportsFinite, FS_CardinalityType, ZenonT(30)
  <2>3. exec[k] \in ExecRec /\ exec = [j \in Execs |-> exec[j]] /\ ExecOK(exec[k])
        /\ 0 \notin Execs
    BY DEF TInv, ExecTypes, Execs
  <2>4. exec[k].wg \in Nat
    BY <2>3, PoolType DEF ExecRec
  <2> QED
    BY <2>2, <2>3, <2>4, ZenonT(30)
<1>2. /\ UNCHANGED <<phase, deleting, panicked, reports>>
      /\ FinalReports' = FinalReports
  <2>1. CASE StartExecutor(k) \/ ExecSend(k)
    BY <2>1, ZenonT(30) DEF StartExecutor, ExecSend, FinalReports, IsFinalAction
  <2>2. CASE ExecUpdate(k) \/ ExecDone(k)
    BY <2>2, ZenonT(30) DEF ExecUpdate, ExecDone, FinalReports, IsFinalAction
  <2> QED
    BY <2>1, <2>2, ZenonT(30) DEF ExecStep
<1>3. CASE StartExecutor(k)
  <2> DEFINE e == [NewExec EXCEPT !.pending = Head(events)]
  <2>1. /\ exec' = [exec EXCEPT ![k] = Continue(e)] /\ current' = k /\ current = 0
        /\ events # << >> /\ runs' = runs
    BY <1>3, ZenonT(30) DEF StartExecutor
  <2>2. Head(events) \in SUBSET Nodes
    BY <2>1, QueueStep, ZenonT(30) DEF TInv, QueueTypes
  <2>3. e \in ExecRec /\ e.pool = e.wg /\ ~e.interrupted /\ e.wg = 0
    BY <2>2, NewExecOK, ZenonT(30) DEF ExecOK, ExecRec, NewExec
  <2> HIDE DEF e
  <2>4. Continue(e).wg = 0 /\ ~Continue(e).interrupted
    BY <2>3, ContinueOK, ZenonT(30)
  <2>5. Taken = 0 /\ Taken' = 0
    BY <1>1, <2>1, <2>4, ZenonT(30) DEF Taken
  <2>6. AtWork' = AtWork
    BY <2>1, ZenonT(30) DEF AtWork
  <2>7. \A j \in Execs : (~exec[j].interrupted /\ (exec[j].pc \in Live => j = current))'
    BY <1>0, <1>1, <2>1, <2>4, ZenonT(30)
  <2> QED
    BY <1>0, <1>2, <2>5, <2>6, <2>7, ZenonT(30) DEF SlotInv
<1>4. CASE ExecSend(k)
  <2>1. k = current /\ current' = current /\ exec[k].pc = "acquire"
    BY <1>0, <1>4, ZenonT(30) DEF ExecSend, Live
  <2>2. Taken = exec[k].wg
    BY <1>1, <2>1, ZenonT(30) DEF Taken
  <2>3. CASE /\ runs' = [runs EXCEPT ![At(k)][k] = "sent"]
             /\ exec' = [exec EXCEPT ![k].pc = "update", ![k].pool = @ + 1, ![k].wg = @ + 1,
                                     ![k].sent = TRUE]
    <3>1. AtWork' \subseteq AtWork \cup {<<At(k), k>>}
      BY <2>3 DEF AtWork, TInv, RunTypes
    <3>2. Cardinality(AtWork') <= Cardinality(AtWork) + 1
      BY <3>1, WorkFinite, Sizes, ZenonT(30)
    <3>3. Cardinality(AtWork') \in Nat
      BY <3>1, WorkFinite, FS_AddElement, Sizes, ZenonT(30)
    <3>4. exec'[k].wg = exec[k].wg + 1 /\ ~exec'[k].interrupted
      BY <1>0, <1>1, <2>3, ZenonT(30) DEF ExecRec
    <3>5. Taken' = exec[k].wg + 1
      BY <1>1, <2>1, <3>4, ZenonT(30) DEF Taken
    <3>6. \A j \in Execs : (~exec[j].interrupted /\ (exec[j].pc \in Live => j = current))'
      BY <1>0, <1>1, <2>1, <2>3, <3>4, ZenonT(30)
    <3>7. (Cardinality(AtWork) + Cardinality(FinalReports) <= Taken)'
      BY <1>0, <1>1, <1>2, <2>2, <3>2, <3>3, <3>5
    <3> QED
      BY <1>0, <1>2, <3>6, <3>7, ZenonT(30) DEF SlotInv
  <2>4. CASE runs' = runs /\ exec' = [exec EXCEPT ![k].pc = "update", ![k].sent = FALSE]
    <3>1. exec'[k].wg = exec[k].wg /\ ~exec'[k].interrupted
      BY <1>0, <1>1, <2>4, ZenonT(30) DEF ExecRec
    <3>2. Taken' = Taken /\ AtWork' = AtWork
      BY <1>1, <2>1, <2>2, <2>4, <3>1, ZenonT(30) DEF Taken, AtWork
    <3>3. \A j \in Execs : (~exec[j].interrupted /\ (exec[j].pc \in Live => j = current))'
      BY <1>0, <1>1, <2>1, <2>4, <3>1, ZenonT(30)
    <3> QED
      BY <1>0, <1>2, <3>2, <3>3, ZenonT(30) DEF SlotInv
  <2> QED
    BY <1>4, <2>3, <2>4, ZenonT(30) DEF ExecSend
<1>5. CASE ExecUpdate(k)
  <2> DEFINE e == [exec[k] EXCEPT !.i = @ + 1, !.sent = FALSE, !.pending = @ \ {At(k)}]
  <2>1. k = current /\ exec[k].pc = "update" /\ runs' = runs
        /\ exec' = [exec EXCEPT ![k] = Continue(e)]
        /\ current' = IF exec'[k] = GoneExec THEN 0 ELSE current
    BY <1>0, <1>5, ZenonT(30) DEF ExecUpdate, Live
  <2>2. e \in ExecRec /\ e.pool = e.wg /\ e.wg = exec[k].wg /\ ~e.interrupted
    <3>1. exec[k].i + 1 \in 1..(Len(NodeSeq) + 1)
      BY <1>1, <2>1, NodesFinite DEF ExecOK, ExecRec
    <3> QED
      BY <1>0, <1>1, <3>1, ZenonT(30) DEF ExecOK, ExecRec
  <2> HIDE DEF e
  <2>3. /\ Continue(e).pc \in {"wait", "acquire"} /\ Continue(e).wg = exec[k].wg
        /\ ~Continue(e).interrupted
    BY <2>2, ContinueOK, ZenonT(30)
  <2>4. exec'[k] = Continue(e) /\ \A j \in Execs \ {k} : exec'[j] = exec[j]
    BY <1>1, <2>1, ZenonT(30)
  <2>5. current' = current
    BY <2>1, <2>3, <2>4, NewExecOK, ZenonT(30)
  <2>6. Taken' = Taken /\ AtWork' = AtWork
    BY <1>1, <2>1, <2>3, <2>4, <2>5, ZenonT(30) DEF Taken, AtWork
  <2>7. \A j \in Execs : (~exec[j].interrupted /\ (exec[j].pc \in Live => j = current))'
    BY <1>0, <2>1, <2>3, <2>4, <2>5, ZenonT(30)
  <2> QED
    BY <1>0, <1>2, <2>6, <2>7, ZenonT(30) DEF SlotInv
<1>6. CASE ExecDone(k)
  <2>1. /\ k = current /\ exec[k].wg = 0 /\ exec' = [exec EXCEPT ![k] = GoneExec] /\ current' = 0
        /\ runs' = runs
    BY <1>0, <1>6, ZenonT(30) DEF ExecDone, Live
  <2>2. Taken = 0 /\ Taken' = 0 /\ AtWork' = AtWork
    BY <1>1, <2>1, ZenonT(30) DEF Taken, AtWork
  <2>3. exec'[k] = GoneExec /\ \A j \in Execs \ {k} : exec'[j] = exec[j]
    BY <1>1, <2>1, ZenonT(30)
  <2>4. \A j \in Execs : (~exec[j].interrupted /\ (exec[j].pc \in Live => j = current))'
    BY <1>0, <2>1, <2>3, NewExecOK, ZenonT(30) DEF Live
  <2> QED
    BY <1>0, <1>2, <2>2, <2>4, ZenonT(30) DEF SlotInv
<1> QED
  BY <1>3, <1>4, <1>5, <1>6, ZenonT(30) DEF ExecStep

\* A final report finds the slot of its run taken: FinishTask gives it back, and
\* Done does not panic.
LEMMA ReportSlots ==
    ASSUME TInv, SlotInv, ~disrupted, HandleReport
    PROVE  SlotInv'
<1> USE DEF objVars, timerVars
<1> DEFINE r == Head(reports)
<1>0. /\ ~deleting /\ phase # "gone" /\ panicked = {}
      /\ \A j \in Execs : ~exec[j].interrupted /\ (exec[j].pc \in Live => j = current)
      /\ Cardinality(AtWork) + Cardinality(FinalReports) <= Taken
  BY ZenonT(30) DEF SlotInv
<1>1. IsSeq(reports) /\ reports # << >>
  BY ZenonT(30) DEF TInv, QueueTypes, IsSeq, HandleReport
<1>2. /\ Cardinality(AtWork) \in Nat /\ Cardinality(FinalReports) \in Nat
      /\ IsFiniteSet(FinalReports)
  BY <1>1, WorkFinite, ReportsFinite, FS_CardinalityType, ZenonT(30)
<1>3. IsFinalAction(r) => 1 \in FinalReports
  BY <1>1, TailSeq DEF FinalReports
<1>4. IsFinalAction(r) => Cardinality(FinalReports) >= 1
  BY <1>2, <1>3, FS_EmptySet
<1>5. IsFinalAction(r) => current # 0 /\ exec[current].wg # 0
  BY <1>0, <1>2, <1>4 DEF Taken
<1>6. /\ UNCHANGED <<phase, deleting, current, runs, panicked>> /\ reports' = Tail(reports)
      /\ exec' = IF IsFinalAction(r) THEN FinishTask(current) ELSE exec
  BY <1>5, ZenonT(30) DEF HandleReport
<1>7. AtWork' = AtWork
  BY <1>6, ZenonT(30) DEF AtWork
<1>8. /\ Cardinality(FinalReports') <= Cardinality(FinalReports)
      /\ IsFinalAction(r) => Cardinality(FinalReports') + 1 <= Cardinality(FinalReports)
  BY <1>1, <1>6, ReportTaken, ZenonT(30)
<1>9. Cardinality(FinalReports') \in Nat
  <2>1. IsSeq(reports')
    BY <1>1, <1>6, TailSeq, ZenonT(30)
  <2> QED
    BY <2>1, NextReports, ZenonT(30)
<1>10. CASE ~IsFinalAction(r)
  BY <1>0, <1>6, <1>7, <1>8, <1>9, <1>10, SlotsKept, ZenonT(30)
<1>11. CASE IsFinalAction(r)
  <2>1. /\ current \in Execs /\ exec[current] \in ExecRec /\ exec = [j \in Execs |-> exec[j]]
        /\ exec[current].wg \in Nat
    <3>1. current \in Execs /\ exec \in [Execs -> ExecRec]
      BY <1>5, <1>11 DEF TInv, ExecTypes, Execs
    <3> QED
      BY <3>1, PoolType DEF ExecRec
  <2>2. exec' = [exec EXCEPT ![current].pool = IF @ > 0 THEN @ - 1 ELSE 0, ![current].wg = @ - 1]
    BY <1>6, <1>11, ZenonT(30) DEF FinishTask
  <2>3. /\ exec'[current].wg = exec[current].wg - 1 /\ ~exec'[current].interrupted
        /\ exec'[current].pc = exec[current].pc
        /\ \A j \in Execs \ {current} : exec'[j] = exec[j]
    BY <1>0, <2>1, <2>2, ZenonT(30) DEF ExecRec
  <2>4. Taken' = Taken - 1 /\ Taken \in Nat
    BY <1>5, <1>6, <1>11, <2>1, <2>3, ZenonT(30) DEF Taken
  <2>5. (Cardinality(AtWork) + Cardinality(FinalReports) <= Taken)'
    BY <1>0, <1>2, <1>7, <1>8, <1>9, <1>11, <2>4
  <2>6. \A j \in Execs : (~exec[j].interrupted /\ (exec[j].pc \in Live => j = current))'
    BY <1>0, <1>6, <2>1, <2>3, ZenonT(30)
  <2> QED
    BY <1>0, <1>6, <2>5, <2>6, ZenonT(30) DEF SlotInv
<1> QED
  BY <1>10, <1>11, ZenonT(30)

\* The run that ends passes its slot on to its final report.
LEMMA EdgeSlots ==
    ASSUME TInv, TInv', SlotInv, ~disrupted, NEW n \in Nodes, NEW k \in Execs, EdgeStep(n, k)
    PROVE  SlotInv'
<1> USE DEF objVars, cloudVars, timerVars, histVars
<1>0. /\ ~deleting /\ phase # "gone" /\ panicked = {}
      /\ \A j \in Execs : ~exec[j].interrupted /\ (exec[j].pc \in Live => j = current)
      /\ Cardinality(AtWork) + Cardinality(FinalReports) <= Taken
  BY ZenonT(30) DEF SlotInv
<1>1. UNCHANGED <<phase, deleting, panicked, exec, current>>
  BY ZenonT(30) DEF EdgeStep, EdgeReceive, RunAction
<1>2. /\ IsSeq(reports) /\ IsSeq(reports')
      /\ runs \in [Nodes -> [Execs -> {"none", "lost", "done"} \cup Working]]
  BY ZenonT(30) DEF TInv, QueueTypes, RunTypes, IsSeq
<1>3. /\ Cardinality(AtWork) \in Nat /\ Cardinality(FinalReports) \in Nat
      /\ IsFiniteSet(FinalReports)
  BY <1>2, WorkFinite, ReportsFinite, FS_CardinalityType, ZenonT(30)
<1>4. CASE EdgeReceive(n, k)
  <2>1. reports' = reports /\ runs[n][k] = "sent" /\ runs' = [runs EXCEPT ![n][k] = "Check"]
    BY <1>4, ZenonT(30) DEF EdgeReceive
  <2>2. AtWork' \subseteq AtWork
    BY <1>2, <2>1, ZenonT(30) DEF AtWork, Working
  <2>3. FinalReports' = FinalReports
    BY <2>1, ZenonT(30) DEF FinalReports, IsFinalAction
  <2> QED
    BY <1>0, <1>1, <1>3, <2>2, <2>3, SlotsKept
<1>5. ASSUME NEW succ \in BOOLEAN, RunAction(n, k, succ) PROVE SlotInv'
  <2>1. PICK r : /\ runs[n][k] \in Actions
                 /\ r = [node |-> n, action |-> runs[n][k], succ |-> succ]
                 /\ reports' = Append(reports, r)
                 /\ runs' = [runs EXCEPT ![n][k] = IF IsFinalAction(r) THEN "done" ELSE "Pull"]
    BY <1>5, ZenonT(30) DEF RunAction
  <2>2. /\ Cardinality(FinalReports') <= Cardinality(FinalReports) + 1
        /\ ~IsFinalAction(r) => Cardinality(FinalReports') = Cardinality(FinalReports)
    BY <1>2, <2>1, ReportAdded, ZenonT(30)
  <2>3. <<n, k>> \in AtWork
    BY <2>1, ZenonT(30) DEF AtWork, Working, Actions
  <2>4. CASE ~IsFinalAction(r)
    <3>1. AtWork' \subseteq AtWork
      BY <1>2, <2>1, <2>3, <2>4, ZenonT(30) DEF AtWork
    <3> QED
      BY <1>0, <1>1, <1>3, <2>2, <2>4, <3>1, SlotsKept
  <2>5. CASE IsFinalAction(r)
    <3>1. AtWork' \subseteq AtWork \ {<<n, k>>}
      BY <1>2, <2>1, <2>5 DEF AtWork, Working
    <3>2. Cardinality(AtWork') + 1 <= Cardinality(AtWork) /\ Cardinality(AtWork') \in Nat
      BY <2>3, <3>1, WorkFinite, Sizes, ZenonT(30)
    <3>3. Taken' = Taken
      BY <1>1, ZenonT(30) DEF Taken
    <3>4. Cardinality(FinalReports') \in Nat
      BY <1>2, NextReports, ZenonT(30)
    <3>5. Taken \in Nat
      <4>1. current # 0 => exec[current] \in ExecRec
        BY DEF TInv, ExecTypes, Execs
      <4> QED
        BY <4>1, PoolType DEF Taken, ExecRec
    <3>6. (Cardinality(AtWork) + Cardinality(FinalReports) <= Taken)'
      BY <1>0, <1>3, <2>2, <3>2, <3>3, <3>4, <3>5
    <3> QED
      BY <1>0, <1>1, <3>6, ZenonT(30) DEF SlotInv
  <2> QED
    BY <2>4, <2>5, ZenonT(30)
<1> QED
  BY <1>4, <1>5, ZenonT(30) DEF EdgeStep

\* Every step keeps SlotInv.
LEMMA SlotStep ==
    ASSUME TInv, TInv', SlotInv, [Next]_vars
    PROVE  SlotInv'
<1> USE DEF objVars, cloudVars, timerVars, edgeVars, histVars
<1> SUFFICES ASSUME ~disrupted' PROVE SlotInv'
  BY ZenonT(30) DEF SlotInv
<1>1. /\ IsSeq(reports) /\ IsSeq(reports')
      /\ runs \in [Nodes -> [Execs -> {"none", "lost", "done"} \cup Working]]
  BY ZenonT(30) DEF TInv, QueueTypes, RunTypes, IsSeq
<1>2. Cardinality(FinalReports) \in Nat
  BY <1>1, ReportsFinite, FS_CardinalityType, ZenonT(30)
<1>3. ASSUME ~disrupted, UNCHANGED <<deleting, panicked, exec, current, reports>>, phase' # "gone",
             AtWork' \subseteq AtWork
      PROVE  SlotInv'
  <2>1. FinalReports' = FinalReports
    BY <1>3, ZenonT(30) DEF FinalReports, IsFinalAction
  <2> QED
    BY <1>2, <1>3, <2>1, SlotsKept
<1>4. ASSUME ~disrupted, UNCHANGED <<deleting, panicked, exec, current, reports, runs>>, phase' # "gone"
      PROVE  SlotInv'
  BY <1>3, <1>4, ZenonT(30) DEF AtWork
<1>5. ~disrupted => ~deleting /\ phase # "gone"
  BY ZenonT(30) DEF SlotInv
<1>6. CASE UNCHANGED vars
  BY <1>4, <1>5, <1>6, ZenonT(30) DEF vars
<1>7. CASE IgnoreEvent
  BY <1>4, <1>5, <1>7, ZenonT(30) DEF IgnoreEvent
<1>8. CASE UpdateStatus
  BY <1>4, <1>5, <1>8, ZenonT(30) DEF UpdateStatus, Write
<1>9. CASE HandleReport
  BY <1>9, ReportSlots, ZenonT(30) DEF HandleReport
<1>10. ASSUME NEW k \in Execs, StartExecutor(k) \/ ExecStep(k) PROVE SlotInv'
  <2>1. ~disrupted
    BY <1>10, ZenonT(30) DEF StartExecutor, ExecStep, ExecSend, ExecUpdate, ExecDone
  <2> QED
    BY <1>10, <2>1, ExecSlots, ZenonT(30)
<1>11. ASSUME NEW n \in Nodes, NEW k \in Execs, EdgeStep(n, k) PROVE SlotInv'
  <2>1. ~disrupted
    BY <1>11, ZenonT(30) DEF EdgeStep, EdgeReceive, RunAction
  <2> QED
    BY <1>11, <2>1, EdgeSlots, ZenonT(30)
<1>12. CASE ManagerStep
  <2>1. ~disrupted
    BY <1>12, ZenonT(30) DEF ManagerStep, InitNodesStatus, Reconcile, ReconcileFinal, ReconcileDeleted
  <2>2. ASSUME NEW ready \in SUBSET Nodes, InitNodesStatus(ready) PROVE SlotInv'
    BY <1>4, <1>5, <2>1, <2>2, ZenonT(30) DEF InitNodesStatus, Write
  <2>3. CASE Reconcile
    <3>1. CalculatePhase # "gone"
      BY ZenonT(30) DEF CalculatePhase
    <3> QED
      BY <1>4, <1>5, <2>1, <2>3, <3>1, ZenonT(30) DEF Reconcile, Write
  <2>4. CASE ReconcileFinal
    BY <1>4, <1>5, <2>1, <2>4, ZenonT(30) DEF ReconcileFinal
  <2>5. CASE ReconcileDeleted
    BY <1>5, <2>1, <2>5, ZenonT(30) DEF ReconcileDeleted
  <2> QED
    BY <1>12, <2>2, <2>3, <2>4, <2>5, ZenonT(30) DEF ManagerStep
<1>13. CASE TimerStep
  <2>1. ASSUME NEW late \in SUBSET Nodes, CheckRead(late) PROVE SlotInv'
    BY <1>4, <1>5, <2>1, ZenonT(30) DEF CheckRead
  <2>2. CASE CheckReleased
    BY <1>4, <1>5, <2>2, ZenonT(30) DEF CheckReleased
  <2>3. CASE CheckWrite
    BY <1>4, <1>5, <2>3, ZenonT(30) DEF CheckWrite, Write
  <2> QED
    BY <1>13, <2>1, <2>2, <2>3, ZenonT(30) DEF TimerStep
<1>14. CASE Faults
  <2>1. ASSUME NEW n \in Nodes, NEW k \in Execs, LoseTask(n, k) PROVE SlotInv'
    <3>1. AtWork' \subseteq AtWork
      BY <1>1, <2>1, ZenonT(30) DEF LoseTask, AtWork, Working
    <3> QED
      BY <1>3, <1>5, <2>1, <3>1, ZenonT(30) DEF LoseTask
  <2>2. CASE LoseReport
    <3>1. /\ UNCHANGED <<disrupted, deleting, panicked, exec, current, runs, phase>>
          /\ reports # << >> /\ reports' = Tail(reports)
      BY <2>2, ZenonT(30) DEF LoseReport
    <3>2. Cardinality(FinalReports') <= Cardinality(FinalReports)
      BY <1>1, <3>1, ReportTaken, ZenonT(30)
    <3>3. AtWork' = AtWork
      BY <3>1, ZenonT(30) DEF AtWork
    <3>4. Cardinality(FinalReports') \in Nat
      BY <1>1, NextReports, ZenonT(30)
    <3> QED
      BY <1>5, <3>1, <3>2, <3>3, <3>4, SlotsKept, ZenonT(30)
  <2>3. ASSUME NEW n \in Nodes, EdgeRestarts(n) PROVE SlotInv'
    <3>1. AtWork' \subseteq AtWork
      BY <1>1, <2>3, ZenonT(30) DEF EdgeRestarts, AtWork, Working
    <3> QED
      BY <1>3, <1>5, <2>3, <3>1, ZenonT(30) DEF EdgeRestarts
  <2>4. CASE CloudRestart \/ DeleteJob
    BY <2>4, ZenonT(30) DEF CloudRestart, DeleteJob
  <2>5. CASE ManagerRestart
    BY <1>4, <1>5, <2>5, ZenonT(30) DEF ManagerRestart
  <2>6. CASE UpdateFails
    BY <1>4, <1>5, <2>6, ZenonT(30) DEF UpdateFails
  <2> QED
    BY <1>14, <2>1, <2>2, <2>3, <2>4, <2>5, <2>6, ZenonT(30) DEF Faults
<1> QED
  BY <1>6, <1>7, <1>8, <1>9, <1>10, <1>11, <1>12, <1>13, <1>14, ZenonT(30) DEF Next

\* As long as the job is not deleted and CloudCore is not restarted, no more
\* nodes than the pool has slots work on the job at a time, FinishTask finds the
\* wait group above zero, and the timeout job finds the job it checks, for any
\* number of nodes and executors and any Concurrency.
THEOREM SlotsAreRespected == Spec => []SlotsRespected
<1>1. TInv /\ SlotInv => SlotsRespected
  <2> SUFFICES ASSUME TInv, SlotInv, ~disrupted PROVE SlotsRespected
    BY ZenonT(30) DEF SlotsRespected
  <2>1. IsSeq(reports)
    BY ZenonT(30) DEF TInv, QueueTypes, IsSeq
  <2>2. Cardinality(AtWork) \in Nat /\ Cardinality(FinalReports) \in Nat
    BY <2>1, WorkFinite, ReportsFinite, FS_CardinalityType, ZenonT(30)
  <2>3. Taken \in Nat /\ Taken <= PoolSize
    <3>1. current # 0 => exec[current] \in ExecRec
      BY DEF TInv, ExecTypes, Execs
    <3> QED
      BY <3>1, PoolType DEF Taken, ExecRec
  <2> QED
    BY <2>2, <2>3, PoolType DEF SlotInv, SlotsRespected
<1>2. TInv /\ SlotInv /\ [Next]_vars => TInv' /\ SlotInv'
  BY TStep, SlotStep, ZenonT(30)
<1> QED
  BY <1>1, <1>2, TInit, SlotInit, PTL DEF Spec
=============================================================================
