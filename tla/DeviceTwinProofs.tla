-------------------------- MODULE DeviceTwinProofs --------------------------
(***************************************************************************)
(* As long as no membership change meets a handler at work on the device it *)
(* changes, the locks of the device twin are balanced until SQLite refuses  *)
(* a new device; and the devices that no such meeting, no failed removal    *)
(* and no failed resynchronisation has disturbed are in memory as they are  *)
(* in SQLite, but for twins that the cloud has deleted by half.             *)
(***************************************************************************)
EXTENDS DeviceTwin, TLAPS

\* The places of a handler between Lock and Unlock, those among them that need
\* the device to be in the list, and the places of the membership worker in
\* the middle of a device.
Inside == {"get", "deal", "put", "db", "memory", "sync", "unlock"}
Needs == {"deal", "put", "db", "memory", "sync"}
MemBusy == {"deal", "db", "sync", "adddb", "remove"}

\* The variables are functions.
Shape ==
    /\ pc = [w \in Workers |-> pc[w]]
    /\ took = [w \in Handlers |-> took[w]]
    /\ job = [w \in Workers |-> job[w]]
    /\ list = [d \in Devices |-> list[d]]
    /\ mutex \in [Devices -> Mutexes \cup {None}]
    /\ owner \in [Mutexes -> Handlers \cup {None}]

\* What a handler knows: its mutex is the one in the map, it owns it between
\* Lock and Unlock, and its device is in the list once it has been found.
HandlerInv(w) ==
    /\ pc[w] \in Inside \cup {"idle", "rlock", "mlock"}
    /\ pc[w] = "idle" => took[w] = None /\ job[w] = NoJob
    /\ pc[w] # "idle" => job[w].dev \in Devices /\ took[w] = mutex[job[w].dev]
    /\ pc[w] \in {"rlock", "mlock"} => took[w] # None
    /\ pc[w] \in Inside /\ took[w] # None => owner[took[w]] = w
    /\ pc[w] \in Needs => list[job[w].dev] # None
    /\ pc[w] = "put" => job[w].ptr # None

\* Nobody else is busy with the device of the membership worker.
MemInv ==
    /\ pc["mem"] \in MemBusy \cup {"idle", "lockall", "apply"}
    /\ pc["mem"] \in MemBusy =>
          /\ job["mem"].dev \in Devices
          /\ \A w \in Handlers : job[w].dev # job["mem"].dev
    /\ pc["mem"] \in {"deal", "db", "sync"} =>
          list[job["mem"].dev] # None /\ job["mem"].kind = "attr"
    /\ pc["mem"] = "adddb" => mutex[job["mem"].dev] # None

\* Mutexes are not shared between devices, and owned only as Lock says.
LockInv ==
    /\ \A d, e \in Devices : mutex[d] = mutex[e] /\ mutex[d] # None => d = e
    /\ \A m \in Mutexes : owner[m] # None => /\ took[owner[m]] = m
                                              /\ pc[owner[m]] \in Inside
    /\ readers = Count("twin") + Count("device")
    /\ writer = "held" => readers = 0

Quiet == MemInv /\ LockInv /\ \A w \in Handlers : HandlerInv(w)

DInv == Shape /\ (raced = {} => Quiet \/ Ended)
----------------------------------------------------------------------------
\* NewObject and NewMutex are what they are named for.
LEMMA Fresh ==
    /\ SpareObjects # {} => /\ NewObject \in Objects /\ NewObject # None
                            /\ \A d \in Devices : list[d] # NewObject
                            /\ \A w \in Workers : job[w].ptr # NewObject
    /\ SpareMutexes # {} => /\ NewMutex \in Mutexes /\ NewMutex # None
                            /\ \A d \in Devices : mutex[d] # NewMutex
                            /\ \A w \in Handlers : took[w] # NewMutex
                            /\ owner[NewMutex] = None
<1>1. SpareObjects # {} => NewObject \in SpareObjects
  BY ZenonT(30) DEF NewObject
<1>2. SpareMutexes # {} => NewMutex \in SpareMutexes
  BY ZenonT(30) DEF NewMutex
<1> QED
  BY <1>1, <1>2, TwinAssumption, ZenonT(30) DEF SpareObjects, SpareMutexes, None

\* A membership change that met a handler is never forgotten.
LEMMA RacedGrows ==
    ASSUME [Next]_vars, raced' = {}
    PROVE  raced = {}
<1>1. CASE UNCHANGED vars
  BY <1>1, ZenonT(30) DEF vars
<1>2. CASE Message
  BY <1>2, ZenonT(30) DEF Message, Start, MemUpdate, MemDetail, history
<1>3. CASE MemStep
  BY <1>3, ZenonT(30) DEF MemStep, LockAll, AddDevice, RemoveRows, AddStored, AddFails, DealAttr, Store,
              StoreFails, Sync, GetRemoveList, RemoveEntry, MemDone, Meet, history
<1>4. ASSUME NEW w \in Handlers, HandlerStep(w) PROVE raced = {}
  BY <1>4, ZenonT(30) DEF HandlerStep, RLock, MLock, Finish, Get, DealTwin, PutTwin, DealAttr, Store,
              StoreFails, SetState, Sync, history
<1> QED
  BY <1>1, <1>2, <1>3, <1>4, ZenonT(30) DEF Next

\* Initially nobody is at work and every known device has its own mutex.
LEMMA DInit == Init => DInv
<1> SUFFICES ASSUME Init PROVE DInv
  OBVIOUS
<1> DEFINE first == CHOOSE f \in Injection(Known, Mutexes) : TRUE
<1>1. first \in Injection(Known, Mutexes)
  BY TwinAssumption, ZenonT(30)
<1>2. /\ first \in [Known -> Mutexes]
      /\ \A d, e \in Known : first[d] = first[e] => d = e
  BY <1>1, ZenonT(30) DEF Injection, IsInjective
<1>3. mutex = [d \in Devices |-> IF d \in Known THEN first[d] ELSE None]
  BY ZenonT(30) DEF Init
<1> HIDE DEF first
<1>4. Shape
  BY <1>2, <1>3 DEF Init, Shape, NoJob, Workers, Handlers
<1>5. MemInv
  BY ZenonT(30) DEF Init, MemInv, MemBusy, Workers
<1>6. LockInv
  <2>1. \A d, e \in Devices : mutex[d] = mutex[e] /\ mutex[d] # None => d = e
    BY <1>2, <1>3, TwinAssumption, ZenonT(30) DEF None
  <2>2. \A m \in Mutexes : owner[m] = None
    BY ZenonT(30) DEF Init
  <2>3. readers = 0 /\ Count("twin") = 0 /\ Count("device") = 0
    BY ZenonT(30) DEF Init, Count, Holds, Handlers
  <2> QED
    BY <2>1, <2>2, <2>3 DEF LockInv
<1>7. \A w \in Handlers : HandlerInv(w)
  BY ZenonT(30) DEF Init, HandlerInv, Handlers, Workers, Inside, Needs
<1> QED
  BY <1>4, <1>5, <1>6, <1>7, ZenonT(30) DEF DInv, Quiet

\* The fields of a job.
LEMMA JobFields ==
    ASSUME NEW d, NEW k, NEW v, NEW p, NEW b
    PROVE  /\ Job(d, k, v, p, b).dev = d /\ Job(d, k, v, p, b).kind = k
           /\ Job(d, k, v, p, b).ptr = p
  BY ZenonT(30) DEF Job

\* What a step leaves of the functions, when it changes one worker's job.
LEMMA ShapeKept ==
    ASSUME Shape, NEW w \in Workers, NEW j, NEW t, NEW h, NEW x,
           \/ pc' = Fatal \/ pc' = [pc EXCEPT ![w] = t] \/ pc' = pc,
           took' = took \/ took' = [took EXCEPT ![w] = h],
           job' = job \/ job' = [job EXCEPT ![w] = j],
           \/ list' = list \/ (\E d : list' = [list EXCEPT ![d] = x]),
           mutex' \in [Devices -> Mutexes \cup {None}],
           owner' \in [Mutexes -> Handlers \cup {None}]
    PROVE  Shape'
<1>1. (pc = [v \in Workers |-> pc[v]])'
  BY ZenonT(30) DEF Shape, Fatal
<1>2. (took = [v \in Handlers |-> took[v]])'
  BY ZenonT(30) DEF Shape
<1>3. (job = [v \in Workers |-> job[v]])'
  BY ZenonT(30) DEF Shape
<1>4. (list = [d \in Devices |-> list[d]])'
  BY ZenonT(30) DEF Shape
<1> QED
  BY <1>1, <1>2, <1>3, <1>4, ZenonT(30) DEF Shape

\* Shape is an invariant by itself.
LEMMA ShapeStep ==
    ASSUME Shape, [Next]_vars
    PROVE  Shape'
<1> DEFINE Mine == /\ mutex \in [Devices -> Mutexes \cup {None}]
                   /\ owner \in [Mutexes -> Handlers \cup {None}]
<1>0. Mine /\ "mem" \in Workers /\ Handlers \subseteq Workers
  BY ZenonT(30) DEF Shape, Workers
<1>3. CASE UNCHANGED vars
  BY <1>3, ZenonT(30) DEF vars, Shape
<1>4. ASSUME NEW w \in Handlers, NEW d \in Devices, NEW v, NEW kind, Start(w, d, kind, v)
      PROVE  Shape'
  BY <1>4, <1>0, ShapeKept, ZenonT(30) DEF Start, Goto, locks, data
<1>5. ASSUME NEW adds, NEW removes, MemUpdate(adds, removes) PROVE Shape'
  BY <1>5, <1>0, ShapeKept, ZenonT(30) DEF MemUpdate, Goto, locks, data
<1>6. ASSUME NEW devices, MemDetail(devices) PROVE Shape'
  BY <1>6, <1>0, ShapeKept, ZenonT(30) DEF MemDetail, Goto, data
<1>7. ASSUME LockAll PROVE Shape'
  BY <1>7, <1>0, ShapeKept, ZenonT(30) DEF LockAll, Goto, data
<1>8. ASSUME NEW d \in Devices, AddDevice(d) PROVE Shape'
  <2>1. /\ owner' = owner
        /\ \/ mutex' = mutex
           \/ SpareMutexes # {} /\ mutex' = [mutex EXCEPT ![d] = NewMutex]
    BY <1>8, ZenonT(30) DEF AddDevice
  <2>2. Mine'
    BY <1>0, <2>1, Fresh, ZenonT(30)
  <2> QED
    <3>1. /\ pc' = [pc EXCEPT !["mem"] = "deal"] \/ pc' = [pc EXCEPT !["mem"] = "adddb"]
          /\ took' = took /\ \E j : job' = [job EXCEPT !["mem"] = j]
          /\ list' = list \/ list' = [list EXCEPT ![d] = NewObject]
      BY <1>8, ZenonT(30) DEF AddDevice, Goto
    <3> QED
      BY <1>0, <2>2, <3>1, ShapeKept, ZenonT(30)
<1>9. ASSUME NEW d \in Devices, RemoveRows(d) PROVE Shape'
  BY <1>9, <1>0, ShapeKept, ZenonT(30) DEF RemoveRows, Goto, locks
<1>10. ASSUME AddStored PROVE Shape'
  BY <1>10, <1>0, ShapeKept, ZenonT(30) DEF AddStored, Goto, locks
<1>11. ASSUME AddFails PROVE Shape'
  <2>1. Mine'
    BY <1>11, <1>0, ZenonT(30) DEF AddFails, Unlock
  <2> QED
    BY <1>11, <1>0, <2>1, ShapeKept, ZenonT(30) DEF AddFails, Unlock, Goto
<1>12. ASSUME GetRemoveList PROVE Shape'
  BY <1>12, <1>0, ShapeKept, ZenonT(30) DEF GetRemoveList, locks, data
<1>13. ASSUME RemoveEntry PROVE Shape'
  <2>1. Mine'
    BY <1>13, <1>0, ZenonT(30) DEF RemoveEntry
  <2> QED
    BY <1>13, <1>0, <2>1, ShapeKept, ZenonT(30) DEF RemoveEntry, Goto
<1>14. ASSUME MemDone PROVE Shape'
  BY <1>14, <1>0, ShapeKept, ZenonT(30) DEF MemDone, Goto, data
<1>15. ASSUME NEW w \in Workers, DealAttr(w) \/ Store(w) \/ StoreFails(w) PROVE Shape'
  BY <1>15, <1>0, ShapeKept, ZenonT(30) DEF DealAttr, Store, StoreFails, Goto, locks, data
<1>16. ASSUME NEW w \in Workers, Sync(w) PROVE Shape'
  <2>1. Mine'
    BY <1>16, <1>0, Fresh, ZenonT(30) DEF Sync
  <2> QED
    BY <1>16, <1>0, <2>1, ShapeKept, ZenonT(30) DEF Sync, Goto
<1>17. ASSUME NEW w \in Handlers, RLock(w) PROVE Shape'
  BY <1>17, <1>0, ShapeKept, ZenonT(30) DEF RLock, Goto, data
<1>18. ASSUME NEW w \in Handlers, MLock(w) PROVE Shape'
  <2>1. Mine'
    BY <1>18, <1>0, ZenonT(30) DEF MLock
  <2> QED
    BY <1>18, <1>0, <2>1, ShapeKept, ZenonT(30) DEF MLock, Goto, data
<1>19. ASSUME NEW w \in Handlers, Finish(w) PROVE Shape'
  <2>1. Mine'
    BY <1>19, <1>0, ZenonT(30) DEF Finish, Unlock
  <2> QED
    BY <1>19, <1>0, <2>1, ShapeKept, ZenonT(30) DEF Finish, Unlock, Goto, data
<1>20. ASSUME NEW w \in Handlers, Get(w) PROVE Shape'
  BY <1>20, <1>0, ShapeKept, ZenonT(30) DEF Get, Goto, locks, data
<1>21. ASSUME NEW w \in Handlers, DealTwin(w) PROVE Shape'
  BY <1>21, <1>0, ShapeKept DEF DealTwin, Goto, locks
<1>22. ASSUME NEW w \in Handlers, PutTwin(w) \/ SetState(w) PROVE Shape'
  BY <1>22, <1>0, ShapeKept, ZenonT(30) DEF PutTwin, SetState, Goto, locks
<1>23. CASE Message
  BY <1>23, <1>4, <1>5, <1>6, ZenonT(30) DEF Message
<1>24. CASE MemStep
  BY <1>0, <1>24, <1>7, <1>8, <1>9, <1>10, <1>11, <1>12, <1>13, <1>14, <1>15, <1>16, ZenonT(30) DEF MemStep
<1>25. ASSUME NEW w \in Handlers, HandlerStep(w) PROVE Shape'
  BY <1>0, <1>25, <1>15, <1>16, <1>17, <1>18, <1>19, <1>20, <1>21, <1>22, ZenonT(30) DEF HandlerStep
<1> QED
  BY <1>3, <1>23, <1>24, <1>25, ZenonT(30) DEF Next

----------------------------------------------------------------------------
\* What a step of a handler between Lock and Unlock does, seen from the locks.
Works(w) ==
    /\ pc[w] \in Inside \ {"unlock"} /\ pc'[w] \in Inside
    /\ UNCHANGED <<mutex, owner, readers, writer, took>>
    /\ \A v \in Workers \ {w} : pc'[v] = pc[v] /\ job'[v] = job[v]
    /\ job'[w].dev = job[w].dev
    /\ \A d \in Devices : list[d] # None => list'[d] # None
    /\ pc'[w] \in Needs => list'[job[w].dev] # None
    /\ pc'[w] = "put" => job'[w].ptr # None

\* Such a step keeps the locks as they are.
LEMMA WorkKeeps ==
    ASSUME Shape, Quiet, NEW w \in Handlers, Works(w)
    PROVE  Quiet'
<1>1. /\ w \in Workers /\ w # "mem" /\ "mem" \in Workers /\ Handlers \subseteq Workers
      /\ pc[w] # "idle"
  BY ZenonT(30) DEF Works, Workers, Handlers, Inside
<1>2. \A v \in Workers : job'[v].dev = job[v].dev
  BY <1>1, ZenonT(30) DEF Works
<1>3. MemInv'
  BY <1>1, <1>2, ZenonT(30) DEF Quiet, MemInv, Works
<1>4. \A v \in Handlers : Count(v)' = Count(v)
  BY <1>1, ZenonT(30) DEF Works, Count, Holds, Inside
<1>5. LockInv'
  <2>1. \A m \in Mutexes : owner[m] # None => (took[owner[m]] = m /\ pc[owner[m]] \in Inside)'
    <3> TAKE m \in Mutexes
    <3> HAVE owner[m] # None
    <3>1. took[owner[m]] = m /\ pc[owner[m]] \in Inside
      BY ZenonT(30) DEF Quiet, LockInv
    <3> QED
      BY <3>1, <1>1, ZenonT(30) DEF Works, Shape
  <2> QED
    BY <2>1, <1>4, ZenonT(30) DEF Quiet, LockInv, Works, Handlers
<1>6. HandlerInv(w)'
  BY <1>1, <1>2, ZenonT(30) DEF Quiet, HandlerInv, Works, Inside
<1>7. ASSUME NEW v \in Handlers, v # w PROVE HandlerInv(v)'
  BY <1>1, <1>2, <1>7 DEF Quiet, HandlerInv, Works, Inside, Needs
<1> QED
  BY <1>3, <1>5, <1>6, <1>7, ZenonT(30) DEF Quiet


\* The handlers' steps between Lock and Unlock are of that kind.
LEMMA HandlerWorks ==
    ASSUME Shape, Quiet, NEW w \in Handlers,
           Get(w) \/ DealTwin(w) \/ PutTwin(w) \/ DealAttr(w) \/ Store(w) \/ StoreFails(w)
             \/ SetState(w) \/ Sync(w)
    PROVE  Works(w)
<1>1. /\ w \in Workers /\ w # "mem" /\ pc = [v \in Workers |-> pc[v]]
      /\ job = [v \in Workers |-> job[v]] /\ list = [d \in Devices |-> list[d]]
  BY ZenonT(30) DEF Workers, Handlers, Shape
<1>2. pc[w] \in Inside => job[w].dev \in Devices
  BY ZenonT(30) DEF Quiet, HandlerInv, Inside
<1>3. pc[w] \in Needs => list[job[w].dev] # None
  BY ZenonT(30) DEF Quiet, HandlerInv
<1>4. CASE Get(w)
  <2> DEFINE j == Job(job[w].dev, job[w].kind, job[w].val, list[job[w].dev], FALSE)
  <2>1. j.dev = job[w].dev
    BY ZenonT(30) DEF Job
  <2> HIDE DEF j
  <2>2. job' = [job EXCEPT ![w] = j]
    BY <1>4, ZenonT(30) DEF Get, j
  <2>3. pc[w] = "get" /\ UNCHANGED <<list, took, mutex, owner, readers, writer>>
    BY <1>4, ZenonT(30) DEF Get, locks, data
  <2>4. PICK t : pc' = [pc EXCEPT ![w] = t] /\ t \in {"unlock", "db", "deal"}
                   /\ (t # "unlock" => list[job[w].dev] # None)
    BY <1>4, Zenon DEF Get, Goto
  <2> QED
    BY <1>1, <1>2, <2>1, <2>2, <2>3, <2>4, ZenonT(30) DEF Works, Inside, Needs
<1>5. CASE DealTwin(w)
  <2>1. list[job[w].dev] # None
    BY <1>5, <1>3, ZenonT(30) DEF DealTwin, Needs
  <2>2. PICK write \in BOOLEAN :
            job' = [job EXCEPT ![w] = Job(job[w].dev, "twin", job[w].val, list[job[w].dev], write)]
    BY <1>5, <2>1, ZenonT(30) DEF DealTwin
  <2> DEFINE j == Job(job[w].dev, "twin", job[w].val, list[job[w].dev], write)
  <2>3. j.dev = job[w].dev /\ j.ptr = list[job[w].dev]
    BY JobFields
  <2>4. job' = [job EXCEPT ![w] = j]
    BY <2>2, ZenonT(30)
  <2> HIDE DEF j
  <2>5. /\ pc[w] = "deal" /\ UNCHANGED <<list, took, mutex, owner, readers, writer>>
        /\ pc' = [pc EXCEPT ![w] = "put"] \/ pc' = [pc EXCEPT ![w] = "sync"]
    BY <1>5, <2>1, ZenonT(30) DEF DealTwin, Goto, locks
  <2> QED
    BY <1>1, <1>2, <2>1, <2>3, <2>4, <2>5, ZenonT(30) DEF Works, Inside, Needs
<1>6. CASE PutTwin(w)
  <2>1. job[w].ptr # None
    BY <1>6, ZenonT(30) DEF PutTwin, Quiet, HandlerInv
  <2> QED
    BY <1>6, <1>1, <1>2, <2>1, ZenonT(30) DEF PutTwin, Goto, Works, Inside, Needs, locks
<1>7. CASE DealAttr(w) \/ Store(w) \/ StoreFails(w) \/ SetState(w)
  <2>1. /\ pc[w] \in {"deal", "db", "memory"}
        /\ UNCHANGED <<list, job, took, mutex, owner, readers, writer>>
        /\ \E t \in {"unlock", "db", "memory", "sync"} : pc' = [pc EXCEPT ![w] = t]
    BY <1>7, <1>1, ZenonT(30) DEF DealAttr, Store, StoreFails, SetState, Goto, After, locks, data
  <2> QED
    BY <1>1, <1>2, <1>3, <2>1, SMTT(30) DEF Works, Inside, Needs
<1>8. CASE Sync(w)
  <2>1. list[job[w].dev] # None
    BY <1>8, <1>3, ZenonT(30) DEF Sync, Needs
  <2>2. /\ pc[w] = "sync" /\ pc' = [pc EXCEPT ![w] = "unlock"]
        /\ UNCHANGED <<job, took, mutex, owner, readers, writer>>
    BY <1>8, <1>1, <2>1, ZenonT(30) DEF Sync, Goto, After
  <2>3. \/ list' = list
        \/ SpareObjects # {} /\ list' = [list EXCEPT ![job[w].dev] = NewObject]
    BY <1>8, ZenonT(30) DEF Sync
  <2> QED
    BY <1>1, <1>2, <2>1, <2>2, <2>3, Fresh, ZenonT(30) DEF Works, Inside, Needs
<1> QED
  BY <1>4, <1>5, <1>6, <1>7, <1>8, ZenonT(30)

\* What a step of the membership worker does, seen from the locks: it leaves
\* the devices that the handlers are busy with alone.
LeavesBusy ==
    /\ UNCHANGED <<owner, readers, took>>
    /\ \A w \in Handlers : pc'[w] = pc[w] /\ job'[w] = job[w]
    /\ \A w \in Handlers : pc[w] # "idle" =>
          mutex'[job[w].dev] = mutex[job[w].dev] /\ list'[job[w].dev] = list[job[w].dev]
    /\ \A d, e \in Devices : mutex'[d] = mutex'[e] /\ mutex'[d] # None => d = e
    /\ writer' = "held" => readers = 0
    /\ MemInv'

\* Such a step keeps the locks as they are.
LEMMA LeavesKeeps ==
    ASSUME Shape, Quiet, LeavesBusy
    PROVE  Quiet'
<1>1. \A v \in Handlers : Count(v)' = Count(v)
  BY ZenonT(30) DEF LeavesBusy, Count, Holds
<1>2. LockInv'
  <2>1. \A m \in Mutexes : owner[m] # None => (took[owner[m]] = m /\ pc[owner[m]] \in Inside)'
    BY SMTT(30) DEF LeavesBusy, Quiet, LockInv, Shape
  <2>2. (readers = Count("twin") + Count("device"))'
    BY <1>1, ZenonT(30) DEF LeavesBusy, Quiet, LockInv, Handlers
  <2> QED
    BY <2>1, <2>2, ZenonT(30) DEF LeavesBusy, LockInv
<1>3. ASSUME NEW w \in Handlers PROVE HandlerInv(w)'
  BY DEF LeavesBusy, Quiet, HandlerInv, Needs
<1> QED
  BY <1>2, <1>3, ZenonT(30) DEF Quiet, LeavesBusy


\* Every step of the membership worker that meets no handler is of that kind,
\* but for an insertion that SQLite refuses.
LEMMA MemLeaves ==
    ASSUME Shape, Quiet, raced' = {}, ~AddFails,
           \/ MemStep
           \/ \E adds, removes : MemUpdate(adds, removes)
           \/ \E devices : MemDetail(devices)
    PROVE  LeavesBusy
<1>1. /\ "mem" \in Workers /\ Handlers \subseteq Workers /\ "mem" \notin Handlers
      /\ pc = [v \in Workers |-> pc[v]] /\ job = [v \in Workers |-> job[v]]
      /\ list = [d \in Devices |-> list[d]] /\ mutex = [d \in Devices |-> mutex[d]]
  BY ZenonT(30) DEF Workers, Handlers, Shape
<1>2. MemInv /\ LockInv /\ (\A w \in Handlers : pc[w] # "idle" => job[w].dev \in Devices)
  BY ZenonT(30) DEF Quiet, HandlerInv
<1>3. /\ pc["mem"] \in MemBusy =>
          /\ job["mem"].dev \in Devices
          /\ \A w \in Handlers : job[w].dev # job["mem"].dev
      /\ pc["mem"] \in {"deal", "db", "sync"} =>
          list[job["mem"].dev] # None /\ job["mem"].kind = "attr"
  BY <1>2, ZenonT(30) DEF MemInv
<1>4. ASSUME NEW t, pc' = [pc EXCEPT !["mem"] = t], t \in {"idle", "lockall", "apply"},
             UNCHANGED <<owner, readers, took>>,
             job' = job \/ (\E j : job' = [job EXCEPT !["mem"] = j]),
             mutex' = mutex \/ (pc["mem"] \in MemBusy
                                  /\ mutex' = [mutex EXCEPT ![job["mem"].dev] = None]),
             list' = list \/ (pc["mem"] \in MemBusy
                                  /\ \E o : list' = [list EXCEPT ![job["mem"].dev] = o]),
             writer' = "held" => readers = 0
      PROVE  LeavesBusy
  <2>1. MemInv'
    BY <1>1, <1>4, ZenonT(30) DEF MemInv, MemBusy
  <2>2. \A w \in Handlers : pc'[w] = pc[w] /\ job'[w] = job[w]
    BY <1>1, <1>4, ZenonT(30)
  <2>3. \A d, e \in Devices : mutex'[d] = mutex'[e] /\ mutex'[d] # None => d = e
    BY <1>1, <1>2, <1>4, ZenonT(30) DEF LockInv
  <2>4. \A w \in Handlers : pc[w] # "idle" =>
          mutex'[job[w].dev] = mutex[job[w].dev] /\ list'[job[w].dev] = list[job[w].dev]
    BY <1>1, <1>2, <1>3, <1>4, SMTT(30)
  <2> QED
    BY <2>1, <2>2, <2>3, <2>4, <1>4, ZenonT(30) DEF LeavesBusy
<1>5. writer = "held" => readers = 0
  BY <1>2, ZenonT(30) DEF LockInv
<1>6. CASE \E adds, removes : MemUpdate(adds, removes)
  BY <1>6, <1>4, <1>5, ZenonT(30) DEF MemUpdate, Goto, locks, data
<1>7. CASE \E devices : MemDetail(devices)
  BY <1>7, <1>4, <1>5, ZenonT(30) DEF MemDetail, Goto, data
<1>8. CASE LockAll
  BY <1>8, <1>4, <1>5, ZenonT(30) DEF LockAll, Goto, data
<1>9. CASE AddStored
  BY <1>9, <1>4, <1>5, ZenonT(30) DEF AddStored, Goto, locks
<1>10. CASE MemDone
  BY <1>10, <1>4, <1>5, ZenonT(30) DEF MemDone, Goto, data
<1>11. CASE RemoveEntry
  BY <1>11, <1>4, <1>5, ZenonT(30) DEF RemoveEntry, Goto, MemBusy
<1>13. CASE GetRemoveList
  <2>1. pc["mem"] = "apply" /\ UNCHANGED <<pc, job, list, mutex, owner, readers, writer, took>>
    BY <1>13, ZenonT(30) DEF GetRemoveList, locks, data
  <2> QED
    BY <2>1, <1>2, <1>5, ZenonT(30) DEF LeavesBusy, MemInv, LockInv, MemBusy
<1>14. ASSUME NEW d \in Devices, AddDevice(d) PROVE LeavesBusy
  <2> DEFINE j == Job(d, "attr", Initial, None, FALSE)
  <2>1. j.dev = d /\ j.kind = "attr"
    BY ZenonT(30) DEF Job
  <2>2. job' = [job EXCEPT !["mem"] = j]
    BY <1>14, ZenonT(30) DEF AddDevice
  <2> HIDE DEF j
  <2>3. \A w \in Handlers : job[w].dev # d
    BY <1>14, ZenonT(30) DEF AddDevice, Meet, Busy
  <2>4. UNCHANGED <<owner, readers, took, writer>>
    BY <1>14, ZenonT(30) DEF AddDevice
  <2>5. \/ list[d] # None /\ pc' = [pc EXCEPT !["mem"] = "deal"] /\ UNCHANGED <<list, mutex>>
        \/ /\ pc' = [pc EXCEPT !["mem"] = "adddb"]
           /\ SpareMutexes # {} /\ mutex' = [mutex EXCEPT ![d] = NewMutex]
           /\ list' = [list EXCEPT ![d] = NewObject]
    BY <1>14, ZenonT(30) DEF AddDevice, Goto
  <2>6. \A w \in Handlers : pc'[w] = pc[w] /\ job'[w] = job[w]
    BY <1>1, <2>2, <2>5, ZenonT(30)
  <2>10. pc'["mem"] = "adddb" => mutex'[d] # None
    BY <1>1, <2>5, Fresh, ZenonT(30)
  <2>7. MemInv'
    BY <1>1, <2>1, <2>2, <2>3, <2>5, <2>6, <2>10, ZenonT(30) DEF MemInv, MemBusy
  <2>8. \A x, e \in Devices : mutex'[x] = mutex'[e] /\ mutex'[x] # None => x = e
    BY <1>1, <1>2, <2>5, Fresh DEF LockInv
  <2>9. \A w \in Handlers : pc[w] # "idle" =>
          mutex'[job[w].dev] = mutex[job[w].dev] /\ list'[job[w].dev] = list[job[w].dev]
    BY <1>1, <1>2, <2>3, <2>5, ZenonT(30)
  <2> QED
    BY <2>4, <2>6, <2>7, <2>8, <2>9, <1>5, ZenonT(30) DEF LeavesBusy
<1>15. ASSUME NEW d \in Devices, RemoveRows(d) PROVE LeavesBusy
  <2> DEFINE j == Job(d, None, Initial, None, FALSE)
  <2>1. j.dev = d
    BY ZenonT(30) DEF Job
  <2>2. CASE list[d] = None
    <3>1. pc["mem"] = "apply" /\ UNCHANGED <<pc, job, list, mutex, owner, readers, writer, took>>
      BY <1>15, <2>2, ZenonT(30) DEF RemoveRows, locks
    <3> QED
      BY <3>1, <1>2, <1>5, ZenonT(30) DEF LeavesBusy, MemInv, LockInv, MemBusy
  <2>3. CASE list[d] # None
    <3>1. /\ job' = [job EXCEPT !["mem"] = j] /\ pc' = [pc EXCEPT !["mem"] = "remove"]
          /\ UNCHANGED <<list, mutex, owner, readers, writer, took>>
      BY <1>15, <2>3, ZenonT(30) DEF RemoveRows, Goto, locks
    <3>2. \A w \in Handlers : job[w].dev # d
      BY <1>15, <2>3, ZenonT(30) DEF RemoveRows, Meet, Busy
    <3> HIDE DEF j
    <3>3. \A w \in Handlers : pc'[w] = pc[w] /\ job'[w] = job[w]
      BY <1>1, <3>1, ZenonT(30)
    <3>4. MemInv'
      BY <1>1, <2>1, <3>1, <3>2, <3>3, ZenonT(30) DEF MemInv, MemBusy
    <3> QED
      BY <3>1, <3>3, <3>4, <1>2, <1>5, ZenonT(30) DEF LeavesBusy, LockInv
  <2> QED
    BY <2>2, <2>3, ZenonT(30)
<1>16. CASE DealAttr("mem") \/ Store("mem") \/ StoreFails("mem")
  <2>1. /\ pc["mem"] \in {"deal", "db"}
        /\ UNCHANGED <<job, list, mutex, owner, readers, writer, took>>
    BY <1>16, ZenonT(30) DEF DealAttr, Store, StoreFails, locks, data
  <2>2. \E t \in {"apply", "db", "sync"} : pc' = [pc EXCEPT !["mem"] = t]
    BY <1>16, <1>3, <2>1, Zenon DEF DealAttr, Store, StoreFails, Goto, After
  <2>3. MemInv'
    BY <1>1, <1>3, <2>1, <2>2, ZenonT(30) DEF MemInv, MemBusy
  <2> QED
    BY <1>1, <1>2, <1>5, <2>1, <2>2, <2>3, ZenonT(30) DEF LeavesBusy, LockInv
<1>17. CASE Sync("mem")
  <2>1. pc["mem"] = "sync" /\ list[job["mem"].dev] # None
    BY <1>17, <1>3, ZenonT(30) DEF Sync
  <2>2. /\ pc' = [pc EXCEPT !["mem"] = "apply"]
        /\ UNCHANGED <<job, mutex, owner, readers, writer, took>>
        /\ list' = list \/ list' = [list EXCEPT ![job["mem"].dev] = NewObject]
    BY <1>17, <2>1, ZenonT(30) DEF Sync, Goto, After
  <2> QED
    BY <2>1, <2>2, <1>4, <1>5, ZenonT(30) DEF MemBusy
<1> QED
  BY <1>6, <1>7, <1>8, <1>9, <1>10, <1>11, <1>13, <1>14, <1>15, <1>16, <1>17, ZenonT(30) DEF MemStep


\* Lock's lookup.
LEMMA StartKeeps ==
    ASSUME Shape, Quiet, raced' = {}, NEW w \in Handlers, NEW d \in Devices, NEW kind, NEW v,
           Start(w, d, kind, v)
    PROVE  Quiet'
<1> DEFINE j == Job(d, kind, v, None, FALSE)
<1>1. j.dev = d
  BY ZenonT(30) DEF Job
<1>2. /\ "mem" \in Workers /\ Handlers \subseteq Workers /\ w # "mem"
      /\ pc = [x \in Workers |-> pc[x]] /\ job = [x \in Workers |-> job[x]]
      /\ took = [x \in Handlers |-> took[x]]
  BY ZenonT(30) DEF Workers, Handlers, Shape
<1>3. /\ job' = [job EXCEPT ![w] = j] /\ took' = [took EXCEPT ![w] = mutex[d]]
      /\ pc[w] = "idle" /\ UNCHANGED <<list, mutex, owner, readers, writer>>
  BY ZenonT(30) DEF Start, locks, data
<1>4. PICK t : /\ pc' = [pc EXCEPT ![w] = t]
               /\ t = IF mutex[d] = None THEN "get" ELSE "rlock"
  BY ZenonT(30) DEF Start, Goto
<1> HIDE DEF j
<1>5. ~(pc["mem"] # "apply" /\ job["mem"].dev = d)
  BY ZenonT(30) DEF Start
<1>6. MemInv /\ LockInv /\ (\A x \in Handlers : HandlerInv(x)) /\ took[w] = None
  BY <1>3, ZenonT(30) DEF Quiet, HandlerInv
<1>7. MemInv'
  BY <1>1, <1>2, <1>3, <1>4, <1>5, <1>6, ZenonT(30) DEF MemInv, MemBusy
<1>8. LockInv'
  <2>1. \A x \in Handlers : Count(x)' = Count(x)
    BY <1>2, <1>3, <1>4, <1>6, ZenonT(30) DEF Count, Holds
  <2>2. \A m \in Mutexes : owner[m] # None => (took[owner[m]] = m /\ pc[owner[m]] \in Inside)'
    <3> TAKE m \in Mutexes
    <3> HAVE owner[m] # None
    <3>1. /\ took[owner[m]] = m /\ pc[owner[m]] \in Inside
          /\ owner[m] \in Handlers /\ owner[m] # w
      BY <1>3, <1>6, ZenonT(30) DEF LockInv, Shape, Inside
    <3> QED
      BY <3>1, <1>2, <1>3, <1>4, ZenonT(30)
  <2> QED
    BY <2>1, <2>2, <1>3, <1>6, ZenonT(30) DEF LockInv, Handlers
<1>9. HandlerInv(w)'
  BY <1>1, <1>2, <1>3, <1>4, ZenonT(30) DEF HandlerInv, Inside, Needs
<1>10. ASSUME NEW x \in Handlers, x # w PROVE HandlerInv(x)'
  BY <1>2, <1>3, <1>4, <1>6, <1>10, ZenonT(30) DEF HandlerInv, Inside, Needs
<1> QED
  BY <1>7, <1>8, <1>9, <1>10, ZenonT(30) DEF Quiet

\* Lock's read lock and its mutex, and Unlock.
LEMMA LockKeeps ==
    ASSUME Shape, Quiet, NEW w \in Handlers, RLock(w) \/ MLock(w) \/ Finish(w)
    PROVE  Quiet'
<1>1. /\ "mem" \in Workers /\ Handlers \subseteq Workers /\ w # "mem"
      /\ pc = [x \in Workers |-> pc[x]] /\ job = [x \in Workers |-> job[x]]
      /\ took = [x \in Handlers |-> took[x]]
      /\ owner \in [Mutexes -> Handlers \cup {None}]
      /\ mutex \in [Devices -> Mutexes \cup {None}]
  BY ZenonT(30) DEF Workers, Handlers, Shape
<1>2. MemInv /\ LockInv /\ (\A x \in Handlers : HandlerInv(x))
  BY ZenonT(30) DEF Quiet
<1>3. readers \in Nat /\ \A x \in Handlers : Count(x) \in {0, 1}
  BY <1>2 DEF LockInv, Count
<1>4. PICK x \in Handlers : x # w /\ Handlers = {w, x} /\ readers = Count(w) + Count(x)
  BY <1>2, <1>3 DEF LockInv, Handlers
<1>5. ASSUME Count(x)' = Count(x), readers' = Count(w)' + Count(x)', Count(w)' \in {0, 1}
      PROVE  (readers = Count("twin") + Count("device"))'
  BY <1>3, <1>4, <1>5 DEF Handlers
<1>6. /\ x # None
      /\ pc[x] \in Inside /\ took[x] # None => owner[took[x]] = x /\ took[x] \in Mutexes
  <2>1. HandlerInv(x) /\ x # None
    BY <1>2, ZenonT(30) DEF Handlers, None
  <2> QED
    BY <2>1, <1>1, ZenonT(30) DEF HandlerInv, Inside
<1>7. CASE RLock(w)
  <2>1. /\ pc[w] = "rlock" /\ writer = "no" /\ readers' = readers + 1
        /\ pc' = [pc EXCEPT ![w] = "mlock"]
        /\ UNCHANGED <<list, mutex, owner, writer, job, took>>
    BY <1>7, ZenonT(30) DEF RLock, Goto, data
  <2>2. took[w] # None
    BY <1>2, <2>1, ZenonT(30) DEF HandlerInv
  <2>3. MemInv'
    BY <1>1, <1>2, <2>1, ZenonT(30) DEF MemInv
  <2>4. Count(w)' = 1 /\ Count(w) = 0 /\ Count(x)' = Count(x)
    BY <1>1, <1>4, <2>1, <2>2, ZenonT(30) DEF Count, Holds
  <2>5. \A m \in Mutexes : owner[m] # None => (took[owner[m]] = m /\ pc[owner[m]] \in Inside)'
    BY <1>1, <1>2, <2>1 DEF LockInv, Inside
  <2>6. (readers = Count("twin") + Count("device"))'
    BY <1>3, <1>4, <1>5, <2>1, <2>4
  <2>7. LockInv'
    BY <1>2, <2>1, <2>5, <2>6, ZenonT(30) DEF LockInv
  <2>8. \A y \in Handlers : HandlerInv(y)'
    BY <1>1, <1>2, <2>1, <2>2, ZenonT(30) DEF HandlerInv, Inside, Needs
  <2> QED
    BY <2>3, <2>7, <2>8, ZenonT(30) DEF Quiet
<1>8. CASE MLock(w)
  <2>1. /\ pc[w] = "mlock" /\ owner[took[w]] = None
        /\ owner' = [owner EXCEPT ![took[w]] = w]
        /\ pc' = [pc EXCEPT ![w] = "get"]
        /\ UNCHANGED <<list, mutex, readers, writer, job, took>>
    BY <1>8, ZenonT(30) DEF MLock, Goto, data
  <2>2. took[w] # None /\ took[w] \in Mutexes /\ w # None
    BY <1>1, <1>2, <2>1 DEF HandlerInv, Handlers, None
  <2>3. MemInv'
    BY <1>1, <1>2, <2>1, ZenonT(30) DEF MemInv
  <2>4. Count(w)' = Count(w) /\ Count(x)' = Count(x)
    BY <1>1, <1>4, <2>1, <2>2, ZenonT(30) DEF Count, Holds
  <2>5. \A m \in Mutexes : (owner[m] # None => took[owner[m]] = m /\ pc[owner[m]] \in Inside)'
    BY <1>1, <1>2, <2>1, <2>2, SMTT(30) DEF LockInv, Inside
  <2>6. (readers = Count("twin") + Count("device"))'
    BY <1>3, <1>4, <1>5, <2>1, <2>4, ZenonT(30)
  <2>7. LockInv'
    BY <1>2, <2>1, <2>5, <2>6, ZenonT(30) DEF LockInv
  <2>8. HandlerInv(w)'
    BY <1>1, <1>2, <2>1, <2>2, ZenonT(30) DEF HandlerInv, Inside, Needs
  <2>9. HandlerInv(x)'
    <3>1. pc[x] \in Inside /\ took[x] # None => owner'[took[x]] = x
      BY <1>1, <1>6, <2>1, <2>2, ZenonT(30)
    <3> QED
      BY <3>1, <1>1, <1>2, <1>4, <2>1, ZenonT(30) DEF HandlerInv
  <2> QED
    BY <1>4, <2>3, <2>7, <2>8, <2>9, ZenonT(30) DEF Quiet
<1>9. CASE Finish(w)
  <2> DEFINE d == job[w].dev
  <2>1. /\ pc[w] = "unlock" /\ Unlock(d, w, "idle")
        /\ job' = [job EXCEPT ![w] = NoJob] /\ took' = [took EXCEPT ![w] = None]
        /\ UNCHANGED <<list, mutex, writer>>
    BY <1>9, ZenonT(30) DEF Finish, data
  <2>2. d \in Devices /\ took[w] = mutex[d] /\ (took[w] # None => owner[took[w]] = w)
    BY <1>2, <2>1, ZenonT(30) DEF HandlerInv, Inside
  <2>3. w # None /\ NoJob.dev = None /\ None \notin Devices \cup Mutexes
    BY TwinAssumption, ZenonT(30) DEF Handlers, None, NoJob, Job
  <2> HIDE DEF d
  <2>4. Count(w) = IF took[w] = None THEN 0 ELSE 1
    BY <2>1, ZenonT(30) DEF Count, Holds
  <2>5. /\ pc' = [pc EXCEPT ![w] = "idle"] /\ readers' = readers - Count(w)
        /\ IF took[w] = None THEN owner' = owner ELSE owner' = [owner EXCEPT ![took[w]] = None]
    <3>1. CASE took[w] = None
      <4>1. readers' = readers /\ owner' = owner /\ pc' = [pc EXCEPT ![w] = "idle"]
        BY <3>1, <2>1, <2>2, ZenonT(30) DEF Unlock, Goto
      <4> QED
        BY <3>1, <4>1, <1>3, <2>4
    <3>2. CASE took[w] # None
      <4>1. readers > 0 /\ owner[mutex[d]] # None
        BY <3>2, <1>3, <1>4, <2>2, <2>3, <2>4
      <4> QED
        BY <3>2, <4>1, <1>3, <2>1, <2>2, <2>4 DEF Unlock, Goto
    <3> QED
      BY <3>1, <3>2, ZenonT(30)
  <2>6. MemInv'
    BY <1>1, <1>2, <2>1, <2>3, <2>5, ZenonT(30) DEF MemInv
  <2>7. Count(w)' = 0 /\ Count(x)' = Count(x)
    BY <1>1, <1>4, <2>1, <2>5, ZenonT(30) DEF Count, Holds
  <2>8. (readers = Count("twin") + Count("device"))'
    BY <1>3, <1>4, <1>5, <2>5, <2>7
  <2>9. \A m \in Mutexes : (owner[m] # None => took[owner[m]] = m /\ pc[owner[m]] \in Inside)'
    <3> TAKE m \in Mutexes
    <3>1. owner[m] # None => took[owner[m]] = m /\ pc[owner[m]] \in Inside
      BY <1>2, ZenonT(30) DEF LockInv
    <3>2. owner'[m] # None => owner'[m] = owner[m] /\ owner[m] \in Handlers /\ owner[m] # w
      <4>1. CASE took[w] = None
        BY <4>1, <1>1, <2>3, <2>5, <3>1
      <4>2. CASE took[w] # None
        BY <4>2, <1>1, <2>2, <2>5, <3>1
      <4> QED
        BY <4>1, <4>2, ZenonT(30)
    <3> QED
      BY <3>1, <3>2, <1>1, <2>1, <2>5, ZenonT(30)
  <2>10. (writer = "held" => readers = 0)'
    BY <1>2, <1>3, <1>4, <2>1, <2>5 DEF LockInv
  <2>11. LockInv'
    BY <1>2, <2>1, <2>8, <2>9, <2>10, ZenonT(30) DEF LockInv
  <2>12. HandlerInv(w)'
    BY <1>1, <2>1, <2>5, ZenonT(30) DEF HandlerInv, Inside, Needs
  <2>13. HandlerInv(x)'
    <3>1. HandlerInv(x) /\ pc'[x] = pc[x] /\ took'[x] = took[x] /\ job'[x] = job[x]
      BY <1>1, <1>2, <1>4, <2>1, <2>5, ZenonT(30)
    <3>2. pc[x] \in Inside /\ took[x] # None => owner'[took[x]] = x
      <4> SUFFICES ASSUME pc[x] \in Inside, took[x] # None PROVE owner'[took[x]] = x
        OBVIOUS
      <4>1. owner[took[x]] = x /\ took[x] \in Mutexes
        BY <1>6, ZenonT(30)
      <4> QED
        BY <4>1, <1>1, <1>4, <2>2, <2>5, ZenonT(30)
    <3> QED
      BY <3>1, <3>2, <2>1, ZenonT(30) DEF HandlerInv
  <2> QED
    BY <1>4, <2>6, <2>11, <2>12, <2>13, ZenonT(30) DEF Quiet
<1> QED
  BY <1>7, <1>8, <1>9, ZenonT(30)

\* Nobody holds the mutex of a new device, so addDevice ends the process when it
\* unlocks it.
LEMMA AddFailsEnds ==
    ASSUME Shape, Quiet, AddFails
    PROVE  Ended'
<1> DEFINE d == job["mem"].dev
           m == mutex[d]
<1>1. pc["mem"] = "adddb" /\ Unlock(d, "mem", "apply") /\ refused' = refused \cup {d}
  BY ZenonT(30) DEF AddFails
<1>2. d \in Devices /\ m # None /\ m \in Mutexes /\ \A w \in Handlers : job[w].dev # d
  BY <1>1, ZenonT(30) DEF Quiet, MemInv, MemBusy, Shape
<1>3. owner[m] = None
  <2> SUFFICES ASSUME owner[m] # None PROVE FALSE
    OBVIOUS
  <2>1. PICK w \in Handlers : w = owner[m]
    BY <1>2, ZenonT(30) DEF Shape
  <2>2. took[w] = m /\ pc[w] \in Inside /\ HandlerInv(w)
    BY <1>2, <2>1, ZenonT(30) DEF Quiet, LockInv
  <2>3. job[w].dev \in Devices /\ mutex[job[w].dev] = mutex[d]
    BY <2>2, ZenonT(30) DEF HandlerInv, Inside
  <2>4. job[w].dev = d
    BY <1>2, <2>3, ZenonT(30) DEF Quiet, LockInv
  <2> QED
    BY <1>2, <2>4, ZenonT(30)
<1>4. pc' = Fatal
  BY <1>1, <1>2, <1>3, ZenonT(30) DEF Unlock
<1> QED
  BY <1>1, <1>4, ZenonT(30) DEF Ended

\* A process that has ended takes no step.
LEMMA NothingAfterEnd ==
    ASSUME pc = Fatal, [Next]_vars
    PROVE  UNCHANGED vars
<1>1. \A w \in Workers : pc[w] = "dead"
  BY ZenonT(30) DEF Fatal
<1>2. "mem" \in Workers /\ Handlers \subseteq Workers
  BY ZenonT(30) DEF Workers
<1>3. ~Message
  BY <1>1, <1>2, ZenonT(30) DEF Message, Start, MemUpdate, MemDetail
<1>4. ~MemStep
  BY <1>1, <1>2, ZenonT(30) DEF MemStep, LockAll, AddDevice, RemoveRows, AddStored, AddFails,
              DealAttr, Store, StoreFails, Sync, GetRemoveList, RemoveEntry, MemDone
<1>5. \A w \in Handlers : ~HandlerStep(w)
  BY <1>1, <1>2, ZenonT(30) DEF HandlerStep, RLock, MLock, Finish, Get, DealTwin, PutTwin,
              DealAttr, Store, StoreFails, SetState, Sync
<1> QED
  BY <1>3, <1>4, <1>5, ZenonT(30) DEF Next

\* DInv is inductive.
LEMMA DStep == DInv /\ [Next]_vars => DInv'
<1> SUFFICES ASSUME DInv, [Next]_vars PROVE DInv'
  OBVIOUS
<1>1. Shape /\ Shape'
  BY ShapeStep, ZenonT(30) DEF DInv
<1>2. ASSUME raced' = {}, pc = Fatal, Ended PROVE Ended'
  BY <1>2, NothingAfterEnd, ZenonT(30) DEF vars, Ended
<1>3. ASSUME raced' = {}, AddFails, Quiet PROVE Ended'
  BY <1>1, <1>3, AddFailsEnds, ZenonT(30)
<1>4. ASSUME raced' = {}, ~AddFails, Quiet PROVE Quiet'
  <2>1. Quiet
    BY <1>4, ZenonT(30)
  <2>2. CASE UNCHANGED vars
    BY <2>1, <2>2 DEF vars, Quiet, MemInv, LockInv, HandlerInv, Count, Holds
  <2>3. CASE MemStep
    BY <1>1, <1>4, <2>1, <2>3, MemLeaves, LeavesKeeps, ZenonT(30)
  <2>4. CASE Message
    <3>1. CASE \E w \in Handlers, d \in Devices, v \in Vals : \E kind \in Kinds(w) :
                  Start(w, d, kind, v)
      BY <1>1, <1>4, <2>1, <3>1, StartKeeps, ZenonT(30)
    <3>2. CASE \/ \E adds, removes : MemUpdate(adds, removes)
               \/ \E devices : MemDetail(devices)
      BY <1>1, <1>4, <2>1, <3>2, MemLeaves, LeavesKeeps, ZenonT(30)
    <3> QED
      BY <2>4, <3>1, <3>2, ZenonT(30) DEF Message
  <2>5. ASSUME NEW w \in Handlers, HandlerStep(w) PROVE Quiet'
    <3>1. CASE RLock(w) \/ MLock(w) \/ Finish(w)
      BY <1>1, <2>1, <3>1, LockKeeps, ZenonT(30)
    <3>2. CASE ~(RLock(w) \/ MLock(w) \/ Finish(w))
      BY <1>1, <2>1, <2>5, <3>2, HandlerWorks, WorkKeeps, ZenonT(30) DEF HandlerStep
    <3> QED
      BY <3>1, <3>2, ZenonT(30)
  <2> QED
    BY <2>2, <2>3, <2>4, <2>5, ZenonT(30) DEF Next
<1> QED
  BY <1>1, <1>2, <1>3, <1>4, RacedGrows, ZenonT(30) DEF DInv, Ended

\* LocksBalanced is what DInv says of the locks; the process that ended has no
\* worker at any of the places of HandlerInv.
LEMMA DImplies == DInv => LocksBalanced
<1> SUFFICES ASSUME DInv, raced = {}, ~Ended PROVE LocksBalanced
  BY ZenonT(30) DEF LocksBalanced
<1>1. LockInv /\ HandlerInv("twin")
  BY ZenonT(30) DEF DInv, Quiet, Handlers
<1>2. pc # Fatal
  BY <1>1, ZenonT(30) DEF HandlerInv, Inside, Fatal, Workers, Handlers
<1> QED
  BY <1>1, <1>2, ZenonT(30) DEF LockInv, LocksBalanced

\* As long as no membership change has met a handler on the device it changes,
\* Lock and Unlock of the device twin's context are balanced, and no Unlock ends
\* the process but that of a new device which SQLite has refused.
THEOREM LocksStayBalanced == Spec => []LocksBalanced
  BY DInit, DStep, DImplies, PTL DEF Spec
----------------------------------------------------------------------------
(***************************************************************************)
(* Memory and SQLite agree.  The argument goes device by device: a step of  *)
(* a worker touches the structures of one device only, and a worker that is *)
(* in the middle of a device no membership change has met a handler on is   *)
(* there alone.                                                             *)
(***************************************************************************)
Places == Inside \cup MemBusy \cup {"idle", "rlock", "mlock", "lockall", "apply", "dead"}
JobRec == [dev : Devices \cup {None}, kind : {"twin", "attr", "state", None},
           val : Vals, ptr : Objects \cup {None}, write : BOOLEAN]
MemRec == [kind : {"update", "detail", "remove", None}, adds : SUBSET Devices,
           removes : SUBSET Devices, keep : SUBSET Devices]

\* The types; a process that ended has ended for all of its workers.
DataTyped ==
    /\ list \in [Devices -> Objects \cup {None}]
    /\ heap \in [Objects -> Structures]
    /\ db \in [Devices -> Contents \cup {Absent}]
LockTyped ==
    /\ mutex \in [Devices -> Mutexes \cup {None}]
    /\ owner \in [Mutexes -> Handlers \cup {None}]
    /\ readers \in Nat /\ writer \in {"no", "waiting", "held"}
WorkTyped ==
    /\ took \in [Handlers -> Mutexes \cup {None}]
    /\ job \in [Workers -> JobRec]
    /\ pc \in [Workers -> Places]
    /\ \A w \in Workers : pc[w] = "dead" => pc = Fatal
    /\ stale \subseteq Devices /\ raced \subseteq Devices

\* Where a worker may be, and what its job is there.
HandlerTyped(w) ==
    \/ pc[w] = "dead"
    \/ pc[w] = "idle" /\ job[w] = NoJob /\ took[w] = None
    \/ /\ pc[w] \in Inside \cup {"rlock", "mlock"}
       /\ job[w].dev \in Devices /\ job[w].kind \in Kinds(w)
       /\ pc[w] = "put" => job[w].kind = "twin"
       /\ pc[w] = "memory" => job[w].kind = "state"
       /\ pc[w] \in {"deal", "sync"} => job[w].kind # "state"

MemTyped ==
    /\ mem \in MemRec /\ job["mem"].ptr = None
    /\ \/ pc["mem"] \in {"dead", "apply"}
       \/ pc["mem"] \in {"idle", "lockall"} /\ job["mem"] = NoJob
       \/ /\ pc["mem"] \in MemBusy /\ job["mem"].dev \in Devices
          /\ pc["mem"] \in {"deal", "db", "sync"} => job["mem"].kind = "attr"
    /\ pc["mem"] # "dead" =>
        /\ pc["mem"] = "lockall" => mem.kind = "detail"
        /\ writer = IF pc["mem"] = "lockall" THEN "waiting"
                    ELSE IF pc["mem"] # "idle" /\ mem.kind \in {"detail", "remove"} THEN "held"
                    ELSE "no"

Placed(w) == IF w = "mem" THEN MemTyped ELSE HandlerTyped(w)

\* Two devices share neither an entry nor a mutex, and what a worker holds of
\* either belongs to its own device if it belongs to any.
Apart ==
    /\ \A d, e \in Devices : list[d] = list[e] /\ list[d] # None => d = e
    /\ \A d, e \in Devices : mutex[d] = mutex[e] /\ mutex[d] # None => d = e
    /\ \A w \in Workers, d \in Devices :
          job[w].ptr = list[d] /\ list[d] # None => job[w].dev = d
    /\ \A v, w \in Workers : job[v].ptr = job[w].ptr /\ job[v].ptr # None => job[v].dev = job[w].dev
    /\ \A w \in Handlers, d \in Devices :
          took[w] = mutex[d] /\ mutex[d] # None => job[w].dev = d

\* The lock of a device that no membership change has met a handler on.
HandlerLock(w, d) ==
    /\ took[w] = mutex[d]
    /\ pc[w] \in {"rlock", "mlock"} => took[w] # None
    /\ pc[w] \in Inside /\ took[w] # None => owner[took[w]] = w
    /\ pc[w] \in Needs => list[d] # None
    /\ pc[w] \in {"put", "memory"} \/ (pc[w] = "db" /\ job[w].kind = "state") => job[w].ptr = list[d]

LockOf(d) == d \notin raced =>
    /\ pc["mem"] # "dead" => (mutex[d] = None <=> list[d] = None)
    /\ \A w \in Handlers : job[w].dev = d /\ pc[w] # "dead" => HandlerLock(w, d)
    /\ pc["mem"] \in MemBusy /\ job["mem"].dev = d =>
          list[d] # None /\ \A w \in Handlers : job[w].dev # d
    /\ pc["mem"] = "adddb" /\ job["mem"].dev = d => owner[mutex[d]] = None

\* Field f of a device is v in memory, or a twin that the cloud deleted by half.
HasValue(d, f, v) == heap[list[d]][f] = v \/ (f = "twin" /\ heap[list[d]][f] = Half)

\* Memory and SQLite agree on a device; they agree on all of it but one field.
Agree(d) ==
    IF list[d] = None THEN db[d] = Absent
    ELSE db[d] # Absent /\ \A f \in {"twin", "attr", "state"} : HasValue(d, f, db[d][f])
AgreeBut(d, k) ==
    /\ list[d] # None /\ db[d] # Absent
    /\ \A f \in {"twin", "attr", "state"} \ {k} : HasValue(d, f, db[d][f])

\* Worker w is where the two may differ on device d, and how they may differ.
Mid(w, d) ==
    /\ job[w].dev = d
    /\ \/ pc[w] \in {"memory", "sync", "adddb", "remove", "dead"}
       \/ pc[w] = "put" /\ job[w].write
       \/ pc[w] = "db" /\ job[w].kind # "state"
MidOK(w, d) ==
    /\ pc[w] = "memory" => AgreeBut(d, "state") /\ db[d].state = job[w].val
    /\ (pc[w] = "put" /\ job[w].write) \/ (pc[w] = "db" /\ job[w].kind # "state") =>
          AgreeBut(d, job[w].kind) /\ HasValue(d, job[w].kind, job[w].val)
    /\ pc[w] = "adddb" => list[d] # None /\ heap[list[d]] = NewDevice
    /\ pc[w] = "remove" => db[d] = Absent

DataOf(d) == d \notin raced \cup stale =>
    /\ (\A w \in Workers : ~Mid(w, d)) => Agree(d)
    /\ \A w \in Workers : job[w].dev = d => MidOK(w, d)

MInv ==
    /\ DataTyped /\ LockTyped /\ WorkTyped /\ \A w \in Workers : Placed(w)
    /\ Apart
    /\ \A d \in Devices : LockOf(d) /\ DataOf(d)
----------------------------------------------------------------------------
\* A step of worker w that touches the structures of device e only.
Acts(w) ==
    /\ pc[w] # "dead"
    /\ pc' = Fatal \/ \E t \in Places \ {"dead"} : pc' = [pc EXCEPT ![w] = t]
    /\ \A v \in Workers \ {w} : job'[v] = job[v]
    /\ \A v \in Handlers \ {w} : took'[v] = took[v]
    /\ w # "mem" => UNCHANGED <<mem, writer>>

\* What else it leaves alone.
Spares(w, e) ==
    /\ \A d \in Devices \ {e} : list'[d] = list[d] /\ mutex'[d] = mutex[d] /\ db'[d] = db[d]
    /\ \A o \in Objects : heap'[o] # heap[o] => e \in Devices /\
          \/ o = list[e] \/ (job[w].dev = e /\ o = job[w].ptr)
          \/ SpareObjects # {} /\ o = NewObject
    /\ \A m \in Mutexes : owner'[m] # owner[m] => e \in Devices /\
          (m = mutex[e] \/ (w \in Handlers /\ job[w].dev = e /\ m = took[w]))
    /\ raced \subseteq raced' /\ raced' \subseteq raced \cup {e}
    /\ \A d \in Devices \ {e} : /\ d \in stale' <=> d \in stale
                                /\ job[w].dev = d => w = "mem" /\ pc[w] = "apply"
                                /\ job'[w].dev = d => w = "mem" /\ pc'[w] = "apply"

\* Where what it refers to afterwards comes from.
Refers(w, e) ==
    /\ e \in Devices =>
          /\ \/ list'[e] \in {list[e], None}
             \/ list'[e] = job[w].ptr /\ job[w].dev = e
             \/ SpareObjects # {} /\ list'[e] = NewObject
          /\ mutex'[e] \in {mutex[e], None} \/ (SpareMutexes # {} /\ mutex'[e] = NewMutex)
    /\ \/ job'[w].ptr = None
       \/ e \in Devices /\ job'[w].dev = e /\ job'[w].ptr = list[e] /\ list'[e] = list[e]
       \/ job'[w].ptr = job[w].ptr /\ job'[w].dev = job[w].dev
    /\ w \in Handlers =>
          \/ took'[w] = None
          \/ e \in Devices /\ job'[w].dev = e /\ took'[w] = mutex[e] /\ mutex'[e] = mutex[e]
          \/ took'[w] = took[w] /\ job'[w].dev = job[w].dev

Touches(w, e) == Acts(w) /\ Spares(w, e) /\ Refers(w, e)

\* No device, entry, mutex or worker is None; the workers are the handlers and mem.
LEMMA Names ==
    /\ None \notin Devices /\ None \notin Objects /\ None \notin Mutexes
    /\ "mem" \in Workers /\ Handlers \subseteq Workers /\ "mem" \notin Handlers
    /\ \A w \in Workers : w \in Handlers \/ w = "mem"
    /\ \A w \in Handlers : w # None
  BY TwinAssumption, ZenonT(30) DEF None, Workers, Handlers

\* The other workers stay where they are, unless the process ends.
LEMMA OthersStay ==
    ASSUME MInv, NEW w \in Workers, Acts(w)
    PROVE  \A v \in Workers \ {w} : /\ job'[v] = job[v] /\ pc[v] # "dead"
                                    /\ pc'[v] = pc[v] \/ (pc' = Fatal /\ pc'[v] = "dead")
<1>1. WorkTyped
  BY ZenonT(30) DEF MInv
<1>2. \A v \in Workers : pc[v] # "dead"
  BY <1>1, ZenonT(30) DEF WorkTyped, Acts, Fatal
<1>3. CASE pc' = Fatal
  BY <1>2, <1>3, ZenonT(30) DEF Acts, Fatal
<1>4. CASE pc' # Fatal
  BY <1>1, <1>2, <1>4, ZenonT(30) DEF Acts, WorkTyped
<1> QED
  BY <1>3, <1>4, ZenonT(30)

\* So they are at a place they may be at.
LEMMA OthersPlaced ==
    ASSUME MInv, NEW w \in Workers, Acts(w)
    PROVE  \A v \in Workers \ {w} : Placed(v)'
<1> TAKE v \in Workers \ {w}
<1>1. /\ job'[v] = job[v] /\ pc[v] # "dead" /\ Placed(v)
      /\ pc'[v] = pc[v] \/ pc'[v] = "dead"
  BY OthersStay, ZenonT(30) DEF MInv
<1>2. CASE v = "mem"
  <2>1. UNCHANGED <<mem, writer>> /\ MemTyped
    BY <1>1, <1>2, ZenonT(30) DEF Acts, Placed
  <2>2. MemTyped'
    BY <1>1, <1>2, <2>1, ZenonT(30) DEF MemTyped
  <2> QED
    BY <1>2, <2>2, ZenonT(30) DEF Placed
<1>3. CASE v # "mem"
  <2>1. v \in Handlers /\ HandlerTyped(v) /\ took'[v] = took[v]
    BY <1>1, <1>3, Names, ZenonT(30) DEF Acts, Placed
  <2>2. HandlerTyped(v)'
    BY <1>1, <2>1, ZenonT(30) DEF HandlerTyped
  <2> QED
    BY <1>3, <2>2, ZenonT(30) DEF Placed
<1> QED
  BY <1>2, <1>3, ZenonT(30)

\* Entries and mutexes stay apart.
LEMMA ApartKept ==
    ASSUME MInv, NEW w \in Workers, NEW e, Touches(w, e)
    PROVE  Apart'
<1>1. DataTyped /\ LockTyped /\ WorkTyped /\ Apart
  BY ZenonT(30) DEF MInv
<1>2. Acts(w) /\ Spares(w, e) /\ Refers(w, e)
  BY ZenonT(30) DEF Touches
<1>3. \A v \in Workers \ {w} : job'[v] = job[v]
  BY <1>2, ZenonT(30) DEF Acts
<1>4. \A d \in Devices \ {e} : list'[d] = list[d] /\ mutex'[d] = mutex[d]
  BY <1>2, ZenonT(30) DEF Spares
<1>5. /\ SpareObjects # {} => /\ NewObject # None
                              /\ \A d \in Devices : list[d] # NewObject
                              /\ \A v \in Workers : job[v].ptr # NewObject
      /\ SpareMutexes # {} => /\ NewMutex # None
                              /\ \A d \in Devices : mutex[d] # NewMutex
                              /\ \A v \in Handlers : took[v] # NewMutex
  BY Fresh, ZenonT(30)
<1>6. e \in Devices =>
          /\ \/ list'[e] \in {list[e], None}
             \/ list'[e] = job[w].ptr /\ job[w].dev = e
             \/ SpareObjects # {} /\ list'[e] = NewObject
          /\ mutex'[e] \in {mutex[e], None} \/ (SpareMutexes # {} /\ mutex'[e] = NewMutex)
  BY <1>2, ZenonT(30) DEF Refers
<1>7. \/ job'[w].ptr = None
      \/ e \in Devices /\ job'[w].dev = e /\ job'[w].ptr = list[e] /\ list'[e] = list[e]
      \/ job'[w].ptr = job[w].ptr /\ job'[w].dev = job[w].dev
  BY <1>2, ZenonT(30) DEF Refers
<1>8. \A d, x \in Devices : list'[d] = list'[x] /\ list'[d] # None => d = x
  BY <1>1, <1>4, <1>5, <1>6 DEF Apart
<1>9. \A d, x \in Devices : mutex'[d] = mutex'[x] /\ mutex'[d] # None => d = x
  BY <1>1, <1>4, <1>5, <1>6 DEF Apart
<1>10. \A v \in Workers, d \in Devices : job'[v].ptr = list'[d] /\ list'[d] # None => job'[v].dev = d
  <2> SUFFICES ASSUME NEW v \in Workers, NEW d \in Devices, job'[v].ptr = list'[d], list'[d] # None
               PROVE  job'[v].dev = d
    OBVIOUS
  <2>1. CASE v # w /\ d # e
    BY <1>1, <1>3, <1>4, <2>1 DEF Apart
  <2>2. CASE v # w /\ d = e
    BY <1>1, <1>3, <1>5, <1>6, <2>2 DEF Apart
  <2>3. CASE v = w /\ d # e
    BY <1>1, <1>4, <1>7, <2>3 DEF Apart
  <2>4. CASE v = w /\ d = e
    BY <1>1, <1>5, <1>6, <1>7, <2>4 DEF Apart
  <2> QED
    BY <2>1, <2>2, <2>3, <2>4, ZenonT(30)
<1>11. \A u, v \in Workers : job'[u].ptr = job'[v].ptr /\ job'[u].ptr # None => job'[u].dev = job'[v].dev
  <2>1. ASSUME NEW v \in Workers, v # w, job'[v].ptr = job'[w].ptr, job'[v].ptr # None
        PROVE  job'[v].dev = job'[w].dev
    BY <1>1, <1>3, <1>7, <2>1 DEF Apart
  <2>2. ASSUME NEW u \in Workers, NEW v \in Workers, u # w, v # w,
               job'[u].ptr = job'[v].ptr, job'[u].ptr # None
        PROVE  job'[u].dev = job'[v].dev
    BY <1>1, <1>3, <2>2 DEF Apart
  <2> QED
    BY <2>1, <2>2, ZenonT(30)
<1>12. \A v \in Handlers, d \in Devices : took'[v] = mutex'[d] /\ mutex'[d] # None => job'[v].dev = d
  <2> SUFFICES ASSUME NEW v \in Handlers, NEW d \in Devices, took'[v] = mutex'[d], mutex'[d] # None
               PROVE  job'[v].dev = d
    OBVIOUS
  <2>1. \/ mutex'[d] = mutex[d]
        \/ d = e /\ SpareMutexes # {} /\ mutex'[d] = NewMutex
    BY <1>4, <1>6, ZenonT(30)
  <2>2. v # w => took'[v] = took[v] /\ job'[v] = job[v]
    BY <1>2, <1>3, Names, ZenonT(30) DEF Acts
  <2>3. v = w => \/ took'[w] = None
                 \/ /\ e \in Devices /\ job'[w].dev = e /\ took'[w] = mutex[e]
                    /\ mutex'[e] = mutex[e]
                 \/ took'[w] = took[w] /\ job'[w].dev = job[w].dev
    BY <1>2, ZenonT(30) DEF Refers
  <2>4. CASE v # w
    BY <1>1, <1>5, <2>1, <2>2, <2>4 DEF Apart
  <2>5. CASE v = w
    BY <1>1, <1>5, <2>1, <2>3, <2>5 DEF Apart
  <2> QED
    BY <2>4, <2>5, ZenonT(30)
<1> QED
  BY <1>8, <1>9, <1>10, <1>11, <1>12, ZenonT(30) DEF Apart

\* The locks of the other devices stay as they are.
LEMMA ElsewhereLocked ==
    ASSUME MInv, NEW w \in Workers, NEW e, Touches(w, e), NEW d \in Devices \ {e}
    PROVE  LockOf(d)'
<1>1. LockTyped /\ WorkTyped /\ Apart /\ LockOf(d)
  BY ZenonT(30) DEF MInv
<1>2. Acts(w) /\ Spares(w, e)
  BY ZenonT(30) DEF Touches
<1>3. /\ list'[d] = list[d] /\ mutex'[d] = mutex[d] /\ (d \notin raced' => d \notin raced)
      /\ job'[w].dev = d => w = "mem" /\ pc'[w] = "apply"
      /\ job[w].dev = d => w = "mem" /\ pc[w] = "apply"
  BY <1>2, ZenonT(30) DEF Spares
<1>4. \A v \in Workers \ {w} : job'[v] = job[v] /\ (pc'[v] = pc[v] \/ pc'[v] = "dead")
  BY <1>2, OthersStay, ZenonT(30)
<1> SUFFICES ASSUME d \notin raced'
             PROVE  /\ mutex'[d] = None <=> list'[d] = None
                    /\ \A v \in Handlers : job'[v].dev = d /\ pc'[v] # "dead" => HandlerLock(v, d)'
                    /\ pc'["mem"] \in MemBusy /\ job'["mem"].dev = d =>
                          list'[d] # None /\ \A v \in Handlers : job'[v].dev # d
                    /\ pc'["mem"] = "adddb" /\ job'["mem"].dev = d => owner'[mutex'[d]] = None
  BY ZenonT(30) DEF LockOf
<1>0. pc["mem"] # "dead"
  BY <1>2, OthersStay, Names, ZenonT(30) DEF Acts
<1>5. /\ mutex[d] = None <=> list[d] = None
      /\ \A v \in Handlers : job[v].dev = d /\ pc[v] # "dead" => HandlerLock(v, d)
      /\ pc["mem"] \in MemBusy /\ job["mem"].dev = d =>
            list[d] # None /\ \A v \in Handlers : job[v].dev # d
      /\ pc["mem"] = "adddb" /\ job["mem"].dev = d => owner[mutex[d]] = None
  BY <1>0, <1>1, <1>3, ZenonT(30) DEF LockOf
<1>8. mutex[d] # None => owner'[mutex[d]] = owner[mutex[d]]
  <2> SUFFICES ASSUME mutex[d] # None PROVE owner'[mutex[d]] = owner[mutex[d]]
    OBVIOUS
  <2>1. mutex[d] \in Mutexes
    BY <1>1, ZenonT(30) DEF LockTyped
  <2>2. e \in Devices => mutex[e] # mutex[d]
    BY <1>1, ZenonT(30) DEF Apart
  <2>3. w \in Handlers /\ job[w].dev = e => took[w] # mutex[d]
    BY <1>1, ZenonT(30) DEF Apart
  <2> QED
    BY <1>2, <2>1, <2>2, <2>3, ZenonT(30) DEF Spares
<1>6. ASSUME NEW v \in Handlers, job'[v].dev = d, pc'[v] # "dead"
      PROVE  HandlerLock(v, d)'
  <2>1. v # w /\ v \in Workers \ {w}
    BY <1>3, <1>6, Names, ZenonT(30)
  <2>2. job'[v] = job[v] /\ pc'[v] = pc[v] /\ took'[v] = took[v] /\ HandlerLock(v, d)
    BY <1>2, <1>4, <1>5, <1>6, <2>1, ZenonT(30) DEF Acts
  <2>3. took[v] # None => owner'[took[v]] = owner[took[v]]
    BY <1>8, <2>2, ZenonT(30) DEF HandlerLock
  <2> QED
    BY <1>3, <2>2, <2>3, ZenonT(30) DEF HandlerLock
<1>7. ASSUME pc'["mem"] \in MemBusy, job'["mem"].dev = d
      PROVE  list'[d] # None /\ \A v \in Handlers : job'[v].dev # d
  <2>1. w # "mem" /\ job'["mem"] = job["mem"] /\ pc'["mem"] = pc["mem"]
    BY <1>3, <1>4, <1>7, Names, ZenonT(30) DEF MemBusy
  <2>2. list[d] # None /\ \A v \in Handlers : job[v].dev # d
    BY <1>5, <1>7, <2>1, ZenonT(30)
  <2> QED
    BY <1>3, <1>4, <2>1, <2>2, Names, ZenonT(30)
<1>9. ASSUME pc'["mem"] = "adddb", job'["mem"].dev = d PROVE owner'[mutex'[d]] = None
  <2>1. w # "mem" /\ job'["mem"] = job["mem"] /\ pc'["mem"] = pc["mem"]
    BY <1>3, <1>4, <1>9, Names, ZenonT(30)
  <2>2. owner[mutex[d]] = None /\ mutex[d] # None
    BY <1>5, <1>9, <2>1, ZenonT(30) DEF MemBusy
  <2> QED
    BY <1>3, <1>8, <2>2, ZenonT(30)
<1> QED
  BY <1>3, <1>5, <1>6, <1>7, <1>9, ZenonT(30)

\* So does what memory and SQLite hold of them.
LEMMA ElsewhereAgrees ==
    ASSUME MInv, NEW w \in Workers, NEW e, Touches(w, e), NEW d \in Devices \ {e}
    PROVE  DataOf(d)'
<1>1. DataTyped /\ WorkTyped /\ Apart /\ DataOf(d)
  BY ZenonT(30) DEF MInv
<1>2. Acts(w) /\ Spares(w, e)
  BY ZenonT(30) DEF Touches
<1>3. /\ list'[d] = list[d] /\ db'[d] = db[d]
      /\ (d \notin raced' \cup stale' => d \notin raced \cup stale)
      /\ job'[w].dev = d => w = "mem" /\ pc'[w] = "apply"
      /\ job[w].dev = d => w = "mem" /\ pc[w] = "apply"
  BY <1>2, ZenonT(30) DEF Spares
<1>4. \A v \in Workers \ {w} : job'[v] = job[v] /\ (pc'[v] = pc[v] \/ pc'[v] = "dead")
  BY <1>2, OthersStay, ZenonT(30)
<1>5. list[d] # None => heap'[list[d]] = heap[list[d]]
  <2> SUFFICES ASSUME list[d] # None PROVE heap'[list[d]] = heap[list[d]]
    OBVIOUS
  <2>1. list[d] \in Objects
    BY <1>1, ZenonT(30) DEF DataTyped
  <2>2. /\ e \in Devices => list[e] # list[d]
        /\ job[w].dev = e => job[w].ptr # list[d]
        /\ SpareObjects # {} => NewObject # list[d]
    BY <1>1, Fresh, ZenonT(30) DEF Apart
  <2> QED
    BY <1>2, <2>1, <2>2, ZenonT(30) DEF Spares
<1>6. Agree(d) => Agree(d)'
  BY <1>3, <1>5, ZenonT(30) DEF Agree, HasValue
<1>7. \A k : AgreeBut(d, k) => AgreeBut(d, k)'
  BY <1>3, <1>5, ZenonT(30) DEF AgreeBut, HasValue
<1>8. \A v \in Workers : Mid(v, d) => Mid(v, d)'
  BY <1>3, <1>4, ZenonT(30) DEF Mid
<1>9. ASSUME NEW v \in Workers, job'[v].dev = d, d \notin raced \cup stale
      PROVE  MidOK(v, d)'
  <2>1. CASE v = w
    BY <1>3, <1>9, <2>1, ZenonT(30) DEF MidOK
  <2>2. CASE v # w
    <3>1. /\ job'[v] = job[v] /\ MidOK(v, d)
          /\ pc'[v] = pc[v] \/ pc'[v] = "dead"
      BY <1>1, <1>4, <1>9, <2>2, ZenonT(30) DEF DataOf
    <3>2. CASE pc'[v] = "dead"
      BY <3>2, ZenonT(30) DEF MidOK
    <3>3. CASE pc'[v] = pc[v]
      <4>1. \A k : AgreeBut(d, k) => heap'[list'[d]] = heap[list[d]]
        BY <1>3, <1>5, ZenonT(30) DEF AgreeBut
      <4>2. /\ pc[v] = "memory" => AgreeBut(d, "state")' /\ db'[d].state = job'[v].val
            /\ pc[v] = "remove" => db'[d] = Absent
        BY <1>3, <1>7, <3>1, ZenonT(30) DEF MidOK
      <4>3. (pc[v] = "put" /\ job[v].write) \/ (pc[v] = "db" /\ job[v].kind # "state") =>
              AgreeBut(d, job[v].kind)' /\ HasValue(d, job[v].kind, job[v].val)'
        BY <1>3, <1>7, <3>1, <4>1, ZenonT(30) DEF MidOK, HasValue
      <4>4. pc[v] = "adddb" => list'[d] # None /\ heap'[list'[d]] = NewDevice
        BY <1>3, <1>5, <3>1, ZenonT(30) DEF MidOK
      <4> QED
        BY <3>1, <3>3, <4>2, <4>3, <4>4, ZenonT(30) DEF MidOK
    <3> QED
      BY <3>1, <3>2, <3>3, ZenonT(30)
  <2> QED
    BY <2>1, <2>2, ZenonT(30)
<1> QED
  BY <1>1, <1>3, <1>6, <1>8, <1>9, ZenonT(30) DEF DataOf

\* What is left to show of a step.
LEMMA Assembled ==
    ASSUME MInv, NEW w \in Workers, NEW e, Touches(w, e),
           DataTyped', LockTyped', WorkTyped', Placed(w)',
           e \in Devices => LockOf(e)' /\ DataOf(e)'
    PROVE  MInv'
<1>1. \A v \in Workers : Placed(v)'
  BY OthersPlaced, ZenonT(30) DEF Touches
<1>2. \A d \in Devices : LockOf(d)' /\ DataOf(d)'
  BY ElsewhereLocked, ElsewhereAgrees, ZenonT(30)
<1> QED
  BY <1>1, <1>2, ApartKept, ZenonT(30) DEF MInv
\* The types of the workers' state after a step.
LEMMA WorkersTyped ==
    ASSUME MInv, NEW w \in Workers, Acts(w),
           job' \in [Workers -> JobRec], took' \in [Handlers -> Mutexes \cup {None}],
           stale' \subseteq Devices, raced' \subseteq Devices
    PROVE  WorkTyped'
<1>1. WorkTyped /\ \A v \in Workers : pc[v] # "dead"
  BY OthersStay, ZenonT(30) DEF MInv, Acts
<1>2. CASE pc' = Fatal
  BY <1>2, ZenonT(30) DEF WorkTyped, Fatal, Places
<1>3. CASE pc' # Fatal
  <2>1. PICK t \in Places \ {"dead"} : pc' = [pc EXCEPT ![w] = t]
    BY <1>3, ZenonT(30) DEF Acts
  <2>2. pc' \in [Workers -> Places] /\ \A v \in Workers : pc'[v] # "dead"
    BY <1>1, <2>1, ZenonT(30) DEF WorkTyped
  <2> QED
    BY <2>2, ZenonT(30) DEF WorkTyped
<1> QED
  BY <1>2, <1>3, ZenonT(30)

\* Worker w is in the middle of device d.
At(w, d) ==
    /\ job[w].dev = d
    /\ \/ w \in Handlers /\ pc[w] \in Inside
       \/ w = "mem" /\ pc[w] \in MemBusy

\* Then nobody else is, if the device is in the list and no membership change
\* has met a handler on it.
LEMMA Alone ==
    ASSUME MInv, NEW w \in Workers, NEW d \in Devices \ raced, At(w, d), list[d] # None
    PROVE  \A v \in Workers \ {w} : job[v].dev = d =>
              pc[v] \in IF v = "mem" THEN {"apply"} ELSE {"rlock", "mlock"}
<1> SUFFICES ASSUME NEW v \in Workers \ {w}, job[v].dev = d
             PROVE  pc[v] \in IF v = "mem" THEN {"apply"} ELSE {"rlock", "mlock"}
  OBVIOUS
<1>0. WorkTyped /\ pc[w] # "dead"
  BY ZenonT(30) DEF MInv, At, Inside, MemBusy
<1>1. LockOf(d) /\ Placed(v) /\ pc[v] # "dead" /\ pc["mem"] # "dead"
  BY <1>0, Names, ZenonT(30) DEF MInv, WorkTyped, Fatal
<1>2. NoJob.dev = None /\ d # None
  BY Names, ZenonT(30) DEF NoJob, Job
<1>3. /\ mutex[d] # None
      /\ \A x \in Handlers : job[x].dev = d /\ pc[x] # "dead" => HandlerLock(x, d)
      /\ pc["mem"] \in MemBusy /\ job["mem"].dev = d => \A x \in Handlers : job[x].dev # d
  BY <1>1, ZenonT(30) DEF LockOf
<1>4. CASE v = "mem"
  <2>1. w \in Handlers
    BY <1>4, Names, ZenonT(30)
  <2>2. pc["mem"] \notin MemBusy
    BY <1>3, <1>4, <2>1, ZenonT(30) DEF At
  <2> QED
    BY <1>1, <1>2, <1>4, <2>2, ZenonT(30) DEF Placed, MemTyped
<1>5. CASE v # "mem"
  <2>1. v \in Handlers /\ HandlerTyped(v)
    BY <1>1, <1>5, Names, ZenonT(30) DEF Placed
  <2>2. pc[v] \notin Inside
    <3> SUFFICES ASSUME pc[v] \in Inside PROVE FALSE
      OBVIOUS
    <3>1. w \in Handlers /\ pc[w] \in Inside
      BY <1>3, <2>1, ZenonT(30) DEF At
    <3>2. HandlerLock(v, d) /\ HandlerLock(w, d)
      BY <1>3, <2>1, <3>1, ZenonT(30) DEF At, Inside
    <3>3. owner[mutex[d]] = v /\ owner[mutex[d]] = w
      BY <1>3, <3>1, <3>2, ZenonT(30) DEF HandlerLock
    <3> QED
      BY <3>3, ZenonT(30)
  <2>3. pc[v] # "idle"
    BY <1>2, <2>1, ZenonT(30) DEF HandlerTyped, Inside
  <2> QED
    BY <1>1, <1>5, <2>1, <2>2, <2>3, ZenonT(30) DEF HandlerTyped
<1> QED
  BY <1>4, <1>5, ZenonT(30)

\* The locks of the device worker w is in the middle of, after its step.
LEMMA LockedHere ==
    ASSUME MInv, NEW w \in Workers, NEW d \in Devices \ raced, At(w, d), list[d] # None,
           Acts(w), pc' # Fatal, job'[w].dev = d, owner' = owner,
           mutex'[d] = None <=> list'[d] = None,
           w = "mem" /\ pc'["mem"] \in MemBusy => list'[d] # None, pc'[w] # "adddb",
           w \in Handlers => /\ took'[w] = took[w] /\ pc'[w] \in Inside
                             /\ list'[d] # None /\ mutex'[d] = mutex[d]
                             /\ pc'[w] \in {"put", "memory"}
                                  \/ (pc'[w] = "db" /\ job'[w].kind = "state") => job'[w].ptr = list'[d]
    PROVE  LockOf(d)'
<1>1. LockOf(d)
  BY ZenonT(30) DEF MInv
<1>2. /\ \A v \in Handlers : job[v].dev = d /\ pc[v] # "dead" => HandlerLock(v, d)
      /\ pc["mem"] \in MemBusy /\ job["mem"].dev = d => \A v \in Handlers : job[v].dev # d
  BY <1>1, ZenonT(30) DEF LockOf
<1>3. \A v \in Workers \ {w} : /\ job'[v] = job[v] /\ pc[v] # "dead" /\ pc'[v] = pc[v]
                               /\ v \in Handlers => took'[v] = took[v]
  BY OthersStay, ZenonT(30) DEF Acts
<1>4. CASE w = "mem"
  <2>1. \A v \in Handlers : job'[v].dev # d
    BY <1>2, <1>3, <1>4, Names, ZenonT(30) DEF At
  <2> QED
    BY <1>4, <2>1, ZenonT(30) DEF LockOf
<1>5. CASE w # "mem"
  <2>1. w \in Handlers /\ pc[w] \in Inside /\ HandlerLock(w, d)
    BY <1>2, <1>5, Names, ZenonT(30) DEF At, Inside
  <2>2. HandlerLock(w, d)'
    BY <2>1, ZenonT(30) DEF HandlerLock, Inside
  <2>3. ASSUME NEW v \in Handlers, v # w, job'[v].dev = d PROVE HandlerLock(v, d)'
    <3>1. /\ job[v].dev = d /\ pc'[v] = pc[v] /\ took'[v] = took[v]
          /\ pc[v] \in {"rlock", "mlock"}
      BY <1>3, <2>3, Names, Alone
    <3>2. HandlerLock(v, d) /\ mutex'[d] = mutex[d]
      BY <1>2, <2>1, <3>1, ZenonT(30)
    <3> QED
      BY <3>1, <3>2, ZenonT(30) DEF HandlerLock, Inside, Needs
  <2>4. ~(pc'["mem"] \in MemBusy /\ job'["mem"].dev = d)
    BY <1>2, <1>3, <1>5, <2>1, Names, ZenonT(30) DEF At
  <2> QED
    BY <2>1, <2>2, <2>3, <2>4, ZenonT(30) DEF LockOf, MemBusy
<1> QED
  BY <1>4, <1>5, ZenonT(30)

\* What memory and SQLite hold of it then depends on where w is.
LEMMA AgreesHere ==
    ASSUME MInv, NEW w \in Workers, NEW d \in Devices \ raced, At(w, d), list[d] # None,
           Acts(w), pc' # Fatal,
           d \notin stale' => Mid(w, d)' \/ Agree(d)',
           d \notin stale' /\ job'[w].dev = d => MidOK(w, d)'
    PROVE  DataOf(d)'
<1>1. \A v \in Workers \ {w} : job'[v].dev = d => MidOK(v, d)'
  <2> SUFFICES ASSUME NEW v \in Workers \ {w}, job'[v].dev = d PROVE MidOK(v, d)'
    OBVIOUS
  <2>1. job'[v] = job[v] /\ pc'[v] = pc[v]
    BY OthersStay, ZenonT(30)
  <2>2. pc'[v] \in {"apply", "rlock", "mlock"}
    BY <2>1, Alone, ZenonT(30)
  <2> QED
    BY <2>2, ZenonT(30) DEF MidOK
<1> QED
  BY <1>1, ZenonT(30) DEF DataOf
----------------------------------------------------------------------------
\* A step of worker w in the middle of device d that moves it to place t and
\* keeps its job.
Plain(w, d, t) ==
    /\ pc' = [pc EXCEPT ![w] = t] /\ t \in Places \ {"dead", "adddb"}
    /\ UNCHANGED <<owner, readers, writer, job, took, mem, raced>>
    /\ \A x \in Devices \ {d} : list'[x] = list[x] /\ mutex'[x] = mutex[x] /\ db'[x] = db[x]
    /\ \A x \in Devices \ {d} : x \in stale' <=> x \in stale

\* The entry, the structures and the mutex that such a step may change.
PlainRefs(w, d) ==
    /\ \/ list'[d] \in {list[d], None} \/ list'[d] = job[w].ptr
       \/ SpareObjects # {} /\ list'[d] = NewObject
    /\ mutex'[d] \in {mutex[d], None} \/ (SpareMutexes # {} /\ mutex'[d] = NewMutex)
    /\ \A o \in Objects : heap'[o] # heap[o] =>
          \/ o \in {list[d], job[w].ptr}
          \/ SpareObjects # {} /\ o = NewObject

\* What it has to leave behind.
PlainEnd(w, d) ==
    /\ list[d] # None
    /\ mutex'[d] = None <=> list'[d] = None
    /\ w = "mem" /\ pc'["mem"] \in MemBusy => list'[d] # None
    /\ w \in Handlers => /\ list'[d] # None /\ mutex'[d] = mutex[d]
                         /\ pc'[w] \in {"put", "memory"}
                              \/ (pc'[w] = "db" /\ job[w].kind = "state") => job[w].ptr = list'[d]
    /\ d \notin stale' => (Mid(w, d)' \/ Agree(d)') /\ MidOK(w, d)'

\* A step in the middle of a device keeps the invariant when it leaves the job
\* and the locks alone and what is claimed of the device holds after it.
LEMMA PlainKeeps ==
    ASSUME MInv, NEW w \in Workers, NEW d \in Devices, At(w, d), NEW t, Plain(w, d, t),
           PlainRefs(w, d), DataTyped', mutex' \in [Devices -> Mutexes \cup {None}],
           stale' \subseteq Devices, Placed(w)', w \in Handlers => t \in Inside,
           d \notin raced => PlainEnd(w, d)
    PROVE  MInv'
<1>1. LockTyped /\ WorkTyped /\ pc \in [Workers -> Places] /\ pc[w] # "dead"
  BY ZenonT(30) DEF MInv, WorkTyped, At, Inside, MemBusy
<1>2. pc'[w] = t /\ pc' # Fatal
  BY <1>1, ZenonT(30) DEF Plain, Fatal
<1>3. Acts(w) /\ t # "adddb"
  BY <1>1, ZenonT(30) DEF Acts, Plain
<1>4. Spares(w, d)
  BY ZenonT(30) DEF Plain, PlainRefs, Spares, At
<1>5. Refers(w, d)
  BY ZenonT(30) DEF Plain, PlainRefs, Refers, At
<1>6. LockTyped' /\ WorkTyped'
  BY <1>1, <1>3, WorkersTyped, ZenonT(30) DEF LockTyped, WorkTyped, Plain
<1>7. ASSUME d \notin raced' PROVE LockOf(d)' /\ DataOf(d)'
  <2>1. d \in Devices \ raced /\ PlainEnd(w, d)
    BY <1>7, ZenonT(30) DEF Plain
  <2>2. job'[w].dev = d /\ owner' = owner /\ list[d] # None /\ took' = took /\ job' = job
    BY <2>1, ZenonT(30) DEF Plain, PlainEnd, At
  <2>3. LockOf(d)'
    BY <1>2, <1>3, <2>1, <2>2, LockedHere, ZenonT(30) DEF PlainEnd
  <2>4. DataOf(d)'
    BY <1>2, <1>3, <2>1, <2>2, AgreesHere, ZenonT(30) DEF PlainEnd
  <2> QED
    BY <2>3, <2>4, ZenonT(30)
<1>8. LockOf(d)' /\ DataOf(d)'
  BY <1>7, ZenonT(30) DEF LockOf, DataOf
<1> QED
  BY <1>3, <1>4, <1>5, <1>6, <1>8, Assembled, ZenonT(30) DEF Touches

\* What is known of a device in the middle of a step, and of the worker there.
LEMMA Middle ==
    ASSUME MInv, NEW w \in Workers, pc[w] \in Needs \cup {"adddb", "remove"}
    PROVE  /\ job[w].dev \in Devices /\ job[w] \in JobRec /\ At(w, job[w].dev)
           /\ DataTyped /\ mutex \in [Devices -> Mutexes \cup {None}]
           /\ stale \subseteq Devices /\ pc \in [Workers -> Places]
           /\ w = "mem" => /\ MemTyped /\ job[w].ptr = None
                           /\ pc[w] \in {"deal", "db", "sync"} => job[w].kind = "attr"
           /\ w # "mem" => w \in Handlers /\ HandlerTyped(w) /\ job[w].kind \in Kinds(w)
           /\ job[w].dev \notin raced =>
                /\ list[job[w].dev] # None /\ mutex[job[w].dev] # None
                /\ w # "mem" => HandlerLock(w, job[w].dev)
<1>1. DataTyped /\ LockTyped /\ WorkTyped /\ Placed(w) /\ \A d \in Devices : LockOf(d)
  BY ZenonT(30) DEF MInv
<1>2. job[w] \in JobRec /\ pc[w] # "dead" /\ pc["mem"] # "dead"
  BY <1>1, Names, ZenonT(30) DEF WorkTyped, Needs, Fatal
<1>3. CASE w = "mem"
  <2>1. MemTyped
    BY <1>1, <1>3, ZenonT(30) DEF Placed
  <2>2. /\ job[w].dev \in Devices /\ pc[w] \in MemBusy /\ job[w].ptr = None
        /\ pc[w] \in {"deal", "db", "sync"} => job[w].kind = "attr"
    BY <1>3, <2>1, ZenonT(30) DEF MemTyped, Needs, MemBusy
  <2>3. job[w].dev \notin raced => list[job[w].dev] # None /\ mutex[job[w].dev] # None
    BY <1>1, <1>2, <1>3, <2>2, ZenonT(30) DEF LockOf
  <2> QED
    BY <1>1, <1>2, <1>3, <2>1, <2>2, <2>3, ZenonT(30) DEF At, LockTyped, WorkTyped
<1>4. CASE w # "mem"
  <2>1. w \in Handlers /\ HandlerTyped(w)
    BY <1>1, <1>4, Names, ZenonT(30) DEF Placed
  <2>2. job[w].dev \in Devices /\ pc[w] \in Inside /\ pc[w] \in Needs /\ job[w].kind \in Kinds(w)
    BY <1>2, <2>1, ZenonT(30) DEF HandlerTyped, Needs, Inside
  <2>3. job[w].dev \notin raced =>
          /\ HandlerLock(w, job[w].dev)
          /\ mutex[job[w].dev] = None <=> list[job[w].dev] = None
    BY <1>1, <1>2, <2>1, <2>2, ZenonT(30) DEF LockOf
  <2>4. job[w].dev \notin raced => list[job[w].dev] # None
    BY <2>2, <2>3, ZenonT(30) DEF HandlerLock
  <2> QED
    BY <1>1, <1>2, <1>4, <2>1, <2>2, <2>3, <2>4, ZenonT(30) DEF At, LockTyped, WorkTyped
<1> QED
  BY <1>3, <1>4, ZenonT(30)

\* The place of a worker after a step that keeps its job.
LEMMA PlacedAfter ==
    ASSUME MInv, NEW w \in Workers, pc[w] \in Needs \cup {"adddb", "remove"},
           NEW t, pc' = [pc EXCEPT ![w] = t], UNCHANGED <<job, mem, writer>>,
           w = "mem" => t \in {"apply", "db", "sync"} /\ (t # "apply" => job[w].kind = "attr"),
           w # "mem" => /\ t \in {"db", "memory", "sync", "unlock"}
                        /\ t = "memory" => job[w].kind = "state"
                        /\ t = "sync" => job[w].kind # "state"
    PROVE  Placed(w)'
<1>1. /\ job[w].dev \in Devices /\ pc[w] # "dead" /\ pc'[w] = t
      /\ w = "mem" => MemTyped /\ job[w].ptr = None
      /\ w # "mem" => job[w].kind \in Kinds(w)
  BY Middle, ZenonT(30) DEF Needs
<1>2. CASE w = "mem"
  <2>1. /\ mem \in MemRec
        /\ writer = IF mem.kind \in {"detail", "remove"} THEN "held" ELSE "no"
    BY <1>1, <1>2, ZenonT(30) DEF MemTyped, Needs
  <2>2. MemTyped'
    BY <1>1, <1>2, <2>1, ZenonT(30) DEF MemTyped, MemBusy
  <2> QED
    BY <1>2, <2>2, ZenonT(30) DEF Placed
<1>3. CASE w # "mem"
  <2>1. HandlerTyped(w)'
    BY <1>1, <1>3, ZenonT(30) DEF HandlerTyped, Inside
  <2> QED
    BY <1>3, <2>1, ZenonT(30) DEF Placed
<1> QED
  BY <1>2, <1>3, ZenonT(30)

\* What memory and SQLite hold of a device before a step of the worker there.
LEMMA Before ==
    ASSUME MInv, NEW w \in Workers, NEW d \in Devices \ (raced \cup stale), At(w, d), list[d] # None
    PROVE  MidOK(w, d) /\ (Mid(w, d) \/ Agree(d))
<1>1. DataOf(d)
  BY ZenonT(30) DEF MInv
<1>2. \A v \in Workers \ {w} : ~Mid(v, d)
  BY Alone DEF Mid
<1> QED
  BY <1>1, <1>2, ZenonT(30) DEF DataOf, At

\* Changing one field of a device in SQLite.
LEMMA SetField ==
    ASSUME NEW r \in Contents, NEW k \in {"twin", "attr", "state"}, NEW v \in Vals
    PROVE  /\ [r EXCEPT ![k] = v] \in Contents /\ [r EXCEPT ![k] = v][k] = v
           /\ \A f \in {"twin", "attr", "state"} \ {k} : [r EXCEPT ![k] = v][f] = r[f]
  BY ZenonT(30) DEF Contents

\* Changing one field of a device in memory.
LEMMA SetMemory ==
    ASSUME NEW r \in Structures, NEW k \in {"twin", "attr", "state"},
           NEW v \in Vals \cup {Half}, k # "twin" => v \in Vals
    PROVE  /\ [r EXCEPT ![k] = v] \in Structures /\ [r EXCEPT ![k] = v][k] = v
           /\ \A f \in {"twin", "attr", "state"} \ {k} : [r EXCEPT ![k] = v][f] = r[f]
  BY ZenonT(30) DEF Structures

\* Memory can hold any row.
LEMMA RowsFit == Contents \subseteq Structures /\ Absent \notin Contents /\ NewDevice \in Contents
<1>1. Contents \subseteq Structures
  BY DEF Contents, Structures
<1>2. Absent \notin Contents /\ NewDevice \in Contents
  BY TwinAssumption, ZenonT(30) DEF Contents, NewDevice
<1> QED
  BY <1>1, <1>2

\* DealMsgAttr changes the attribute in memory first.
LEMMA DealAttrKeeps ==
    ASSUME MInv, NEW w \in Workers, DealAttr(w) PROVE MInv'
<1> DEFINE d == job[w].dev
           o == list[d]
           same == o = None \/ (o # None /\ heap[o].attr = job[w].val)
           t == IF same THEN After(w) ELSE "db"
<1>1. /\ pc[w] = "deal" /\ job[w].kind = "attr" /\ pc' = [pc EXCEPT ![w] = t]
      /\ heap' = IF same THEN heap ELSE [heap EXCEPT ![o].attr = job[w].val]
      /\ UNCHANGED <<list, db, job, took, mem, stale, raced, mutex, owner, readers, writer>>
  BY ZenonT(30) DEF DealAttr, Goto, history, locks
<1>2. /\ d \in Devices /\ At(w, d) /\ DataTyped /\ mutex \in [Devices -> Mutexes \cup {None}]
      /\ stale \subseteq Devices /\ job[w] \in JobRec /\ pc \in [Workers -> Places]
      /\ d \notin raced => o # None /\ mutex[d] # None
      /\ w # "mem" => w \in Handlers
  BY <1>1, Middle, ZenonT(30) DEF Needs
<1>3. /\ t \in {"apply", "unlock", "db"} /\ (w = "mem" => t # "unlock") /\ (w # "mem" => t # "apply")
      /\ (same => t # "db") /\ (~same => t = "db")
  BY ZenonT(30) DEF After
<1>4. pc'[w] = t
  BY <1>1, <1>2, ZenonT(30)
<1>5. /\ ~same => o \in Objects /\ heap[o] \in Structures
      /\ job[w].val \in Vals
  BY <1>2, ZenonT(30) DEF DataTyped, JobRec
<1>6. DataTyped'
  <2>1. ~same => [heap[o] EXCEPT !["attr"] = job[w].val] \in Structures
    BY <1>5, SetMemory, ZenonT(30)
  <2> QED
    BY <1>1, <1>2, <1>5, <2>1, ZenonT(30) DEF DataTyped
<1>7. Placed(w)'
  BY <1>1, <1>3, PlacedAfter, ZenonT(30) DEF Needs
<1>8. ASSUME d \notin raced, d \notin stale'
      PROVE  (Mid(w, d)' \/ Agree(d)') /\ MidOK(w, d)'
  <2>1. d \in Devices \ (raced \cup stale) /\ o # None
    BY <1>1, <1>2, <1>8, ZenonT(30)
  <2>2. Agree(d)
    <3>1. ~Mid(w, d)
      BY <1>1, ZenonT(30) DEF Mid
    <3> QED
      BY <1>2, <2>1, <3>1, Before, ZenonT(30)
  <2>3. CASE same
    <3>1. Agree(d)'
      BY <1>1, <2>2, <2>3, ZenonT(30) DEF Agree, HasValue
    <3>2. MidOK(w, d)'
      BY <1>3, <1>4, <2>3, ZenonT(30) DEF MidOK
    <3> QED
      BY <3>1, <3>2, ZenonT(30)
  <2>4. CASE ~same
    <3>1. Mid(w, d)'
      BY <1>1, <1>3, <1>4, <2>4, ZenonT(30) DEF Mid
    <3>2. /\ db[d] # Absent /\ heap[o] \in Structures /\ o \in Objects
          /\ \A f \in {"twin", "attr", "state"} : HasValue(d, f, db[d][f])
      BY <1>5, <2>1, <2>2, <2>4, ZenonT(30) DEF Agree
    <3>3. heap'[o] = [heap[o] EXCEPT !["attr"] = job[w].val]
      BY <1>1, <1>2, <2>4, <3>2, ZenonT(30) DEF DataTyped
    <3>4. /\ heap'[o]["attr"] = job[w].val
          /\ \A f \in {"twin", "attr", "state"} \ {"attr"} : heap'[o][f] = heap[o][f]
      BY <1>5, <3>2, <3>3, SetMemory
    <3>6. AgreeBut(d, "attr")'
      BY <1>1, <2>1, <3>2, <3>4, ZenonT(30) DEF AgreeBut, HasValue
    <3> QED
      BY <1>1, <1>3, <1>4, <2>4, <3>1, <3>4, <3>6, ZenonT(30) DEF MidOK, HasValue
  <2> QED
    BY <2>3, <2>4, ZenonT(30)
<1> HIDE DEF same, t
<1>9. Plain(w, d, t)
  BY <1>1, <1>3, ZenonT(30) DEF Plain, Places, Inside
<1>10. PlainRefs(w, d)
  BY <1>1, <1>2, <1>5, ZenonT(30) DEF PlainRefs, DataTyped
<1>11. d \notin raced => PlainEnd(w, d)
  BY <1>1, <1>2, <1>3, <1>4, <1>8, ZenonT(30) DEF PlainEnd
<1> QED
  BY <1>1, <1>2, <1>3, <1>6, <1>7, <1>9, <1>10, <1>11, PlainKeeps, Names, ZenonT(30) DEF Inside

\* DeviceAttrTrans, DeviceTwinTrans and the state update change the row.
LEMMA StoreKeeps ==
    ASSUME MInv, NEW w \in Workers, Store(w) PROVE MInv'
<1> DEFINE d == job[w].dev
           k == job[w].kind
           t == IF k = "state" THEN "memory" ELSE After(w)
<1>1. /\ pc[w] = "db" /\ pc' = [pc EXCEPT ![w] = t]
      /\ db' = IF db[d] = Absent THEN db ELSE [db EXCEPT ![d][k] = job[w].val]
      /\ UNCHANGED <<list, heap, job, took, mem, stale, raced, mutex, owner, readers, writer>>
  BY ZenonT(30) DEF Store, Goto, history, locks
<1>2. /\ d \in Devices /\ At(w, d) /\ DataTyped /\ mutex \in [Devices -> Mutexes \cup {None}]
      /\ stale \subseteq Devices /\ job[w] \in JobRec /\ pc \in [Workers -> Places]
      /\ d \notin raced => list[d] # None /\ mutex[d] # None /\ (w # "mem" => HandlerLock(w, d))
      /\ w # "mem" => w \in Handlers /\ k \in Kinds(w)
      /\ w = "mem" => k = "attr"
  BY <1>1, Middle, ZenonT(30) DEF Needs
<1>3. k \in {"twin", "attr", "state"} /\ job[w].val \in Vals
  BY <1>2, ZenonT(30) DEF Kinds, JobRec
<1>4. /\ k = "state" => t = "memory" /\ w # "mem"
      /\ k # "state" => t = IF w = "mem" THEN "apply" ELSE "unlock"
  BY <1>2, ZenonT(30) DEF After
<1>5. pc'[w] = t
  BY <1>1, <1>2, ZenonT(30)
<1>6. db[d] # Absent => /\ db[d] \in Contents /\ db'[d] \in Contents
                        /\ db'[d][k] = job[w].val
                        /\ \A f \in {"twin", "attr", "state"} \ {k} : db'[d][f] = db[d][f]
  <2> SUFFICES ASSUME db[d] # Absent
               PROVE  /\ db[d] \in Contents /\ db'[d] \in Contents
                      /\ db'[d][k] = job[w].val
                      /\ \A f \in {"twin", "attr", "state"} \ {k} : db'[d][f] = db[d][f]
    OBVIOUS
  <2>1. db[d] \in Contents /\ db'[d] = [db[d] EXCEPT ![k] = job[w].val]
    BY <1>1, <1>2, ZenonT(30) DEF DataTyped
  <2> QED
    BY <1>3, <2>1, SetField
<1>7. /\ DataTyped'
      /\ \A x \in Devices \ {d} : db'[x] = db[x]
  <2>1. db' \in [Devices -> Contents \cup {Absent}]
    BY <1>1, <1>2, <1>6, ZenonT(30) DEF DataTyped
  <2> QED
    BY <1>1, <1>2, <2>1, ZenonT(30) DEF DataTyped
<1> HIDE DEF t
<1>8. Placed(w)'
  BY <1>1, <1>2, <1>4, PlacedAfter, ZenonT(30) DEF Needs
<1>9. ASSUME d \notin raced, d \notin stale'
      PROVE  (Mid(w, d)' \/ Agree(d)') /\ MidOK(w, d)'
  <2>1. d \in Devices \ (raced \cup stale) /\ list[d] # None
    BY <1>1, <1>2, <1>9, ZenonT(30)
  <2>2. MidOK(w, d) /\ (Mid(w, d) \/ Agree(d))
    BY <1>2, <2>1, Before, ZenonT(30)
  <2>4. CASE k = "state"
    <3>1. db[d] # Absent /\ \A f \in {"twin", "attr", "state"} : HasValue(d, f, db[d][f])
      BY <1>1, <2>1, <2>2, <2>4, ZenonT(30) DEF Mid, Agree
    <3>2. AgreeBut(d, "state")' /\ db'[d]["state"] = job[w].val
      BY <1>1, <1>6, <2>1, <2>4, <3>1, RowsFit, ZenonT(30) DEF AgreeBut, HasValue
    <3>3. Mid(w, d)'
      BY <1>1, <1>4, <1>5, <2>4, ZenonT(30) DEF Mid
    <3> QED
      BY <1>1, <1>4, <1>5, <2>4, <3>2, <3>3, ZenonT(30) DEF MidOK
  <2>5. CASE k # "state"
    <3>1. AgreeBut(d, k) /\ HasValue(d, k, job[w].val)
      BY <1>1, <2>2, <2>5, ZenonT(30) DEF MidOK
    <3>2. db'[d] # Absent /\ db'[d][k] = job[w].val
      BY <1>6, <3>1, RowsFit, ZenonT(30) DEF AgreeBut
    <3>3. \A f \in {"twin", "attr", "state"} : HasValue(d, f, db[d][f])' \/ f = k
      BY <1>1, <1>6, <3>1, ZenonT(30) DEF AgreeBut, HasValue
    <3>4. Agree(d)'
      BY <1>1, <2>1, <3>1, <3>2, <3>3, ZenonT(30) DEF Agree, HasValue
    <3>5. MidOK(w, d)'
      BY <1>4, <1>5, <2>5, ZenonT(30) DEF MidOK
    <3> QED
      BY <3>4, <3>5, ZenonT(30)
  <2> QED
    BY <2>4, <2>5, ZenonT(30)
<1>10. Plain(w, d, t)
  BY <1>1, <1>4, <1>7, ZenonT(30) DEF Plain, Places, Inside
<1>11. PlainRefs(w, d)
  BY <1>1, ZenonT(30) DEF PlainRefs
<1>12. d \notin raced => PlainEnd(w, d)
  <2> SUFFICES ASSUME d \notin raced PROVE PlainEnd(w, d)
    OBVIOUS
  <2>1. k = "state" => job[w].ptr = list[d]
    BY <1>1, <1>2, <1>4, ZenonT(30) DEF HandlerLock
  <2>2. pc'[w] \notin MemBusy /\ pc'[w] \notin {"put", "db"} /\ (pc'[w] = "memory" => k = "state")
    BY <1>4, <1>5, ZenonT(30) DEF MemBusy
  <2> QED
    BY <1>1, <1>2, <1>9, <2>1, <2>2, ZenonT(30) DEF PlainEnd
<1>13. w \in Handlers => t \in Inside
  BY <1>4, Names, ZenonT(30) DEF Inside
<1> QED
  BY <1>1, <1>2, <1>7, <1>8, <1>10, <1>11, <1>12, <1>13, PlainKeeps, ZenonT(30)

\* A write to SQLite that fails leaves the two apart, or untouched.
LEMMA StoreFailsKeeps ==
    ASSUME MInv, NEW w \in Workers, StoreFails(w) PROVE MInv'
<1> DEFINE d == job[w].dev
           t == IF job[w].kind = "state" THEN "unlock" ELSE "sync"
<1>1. /\ pc[w] = "db" /\ pc' = [pc EXCEPT ![w] = t]
      /\ UNCHANGED <<list, heap, db, job, took, mem, stale, raced, mutex, owner, readers, writer>>
  BY ZenonT(30) DEF StoreFails, Goto, history, locks, data
<1>2. /\ d \in Devices /\ At(w, d) /\ DataTyped /\ mutex \in [Devices -> Mutexes \cup {None}]
      /\ stale \subseteq Devices /\ pc \in [Workers -> Places]
      /\ d \notin raced => list[d] # None /\ mutex[d] # None
      /\ w = "mem" => job[w].kind = "attr"
  BY <1>1, Middle, ZenonT(30) DEF Needs
<1>3. /\ pc'[w] = t /\ t \in {"unlock", "sync"} /\ DataTyped'
      /\ t = "unlock" <=> job[w].kind = "state"
  BY <1>1, <1>2, ZenonT(30) DEF DataTyped
<1> HIDE DEF t
<1>4. Placed(w)'
  BY <1>1, <1>2, <1>3, PlacedAfter, ZenonT(30) DEF Needs
<1>5. ASSUME d \notin raced, d \notin stale'
      PROVE  (Mid(w, d)' \/ Agree(d)') /\ MidOK(w, d)'
  <2>1. d \in Devices \ (raced \cup stale) /\ list[d] # None
    BY <1>1, <1>2, <1>5, ZenonT(30)
  <2>2. Mid(w, d) \/ Agree(d)
    BY <1>2, <2>1, Before, ZenonT(30)
  <2>3. Agree(d) => Agree(d)'
    BY <1>1, ZenonT(30) DEF Agree, HasValue
  <2>4. Mid(w, d)' \/ Agree(d)'
    BY <1>1, <1>3, <2>2, <2>3, ZenonT(30) DEF Mid
  <2>5. MidOK(w, d)'
    BY <1>3, ZenonT(30) DEF MidOK
  <2> QED
    BY <2>4, <2>5, ZenonT(30)
<1>6. Plain(w, d, t)
  BY <1>1, <1>3, ZenonT(30) DEF Plain, Places, Inside
<1>7. PlainRefs(w, d)
  BY <1>1, ZenonT(30) DEF PlainRefs
<1>8. d \notin raced => PlainEnd(w, d)
  BY <1>1, <1>2, <1>3, <1>5, ZenonT(30) DEF PlainEnd
<1>9. t \in Inside
  BY <1>3, ZenonT(30) DEF Inside
<1> QED
  BY <1>1, <1>2, <1>3, <1>4, <1>6, <1>7, <1>8, <1>9, PlainKeeps, ZenonT(30)

\* The state in memory follows the row.
LEMMA SetStateKeeps ==
    ASSUME MInv, NEW w \in Handlers, SetState(w) PROVE MInv'
<1> DEFINE d == job[w].dev
           p == job[w].ptr
<1>1. /\ pc[w] = "memory" /\ pc' = [pc EXCEPT ![w] = "unlock"]
      /\ heap' = [heap EXCEPT ![p].state = job[w].val]
      /\ UNCHANGED <<list, db, job, took, mem, stale, raced, mutex, owner, readers, writer>>
  BY ZenonT(30) DEF SetState, Goto, history, locks
<1>2. /\ d \in Devices /\ At(w, d) /\ DataTyped /\ mutex \in [Devices -> Mutexes \cup {None}]
      /\ stale \subseteq Devices /\ job[w] \in JobRec /\ pc \in [Workers -> Places]
      /\ d \notin raced => list[d] # None /\ mutex[d] # None /\ HandlerLock(w, d)
      /\ w \in Workers /\ w # "mem"
  BY <1>1, Middle, Names, ZenonT(30) DEF Needs
<1>3. pc'[w] = "unlock" /\ job[w].val \in Vals
  BY <1>1, <1>2, ZenonT(30) DEF JobRec
<1>4. /\ \A o \in Objects \ {p} : heap'[o] = heap[o]
      /\ p \in Objects => /\ heap[p] \in Structures /\ heap'[p] \in Structures
                          /\ heap'[p]["state"] = job[w].val
                          /\ \A f \in {"twin", "attr", "state"} \ {"state"} : heap'[p][f] = heap[p][f]
  <2>1. \A o \in Objects \ {p} : heap'[o] = heap[o]
    BY <1>1, <1>2, ZenonT(30) DEF DataTyped
  <2>2. p \in Objects => heap[p] \in Structures /\ heap'[p] = [heap[p] EXCEPT !["state"] = job[w].val]
    BY <1>1, <1>2, ZenonT(30) DEF DataTyped
  <2>3. ASSUME p \in Objects
        PROVE  /\ heap[p] \in Structures /\ heap'[p] \in Structures
               /\ heap'[p]["state"] = job[w].val
               /\ \A f \in {"twin", "attr", "state"} \ {"state"} : heap'[p][f] = heap[p][f]
    <3>1. PICK c \in Structures : c = heap[p] /\ heap'[p] = [c EXCEPT !["state"] = job[w].val]
      BY <2>2, <2>3, ZenonT(30)
    <3>2. PICK n : n = [c EXCEPT !["state"] = job[w].val]
      BY ZenonT(30)
    <3>3. /\ n \in Structures /\ n["state"] = job[w].val
          /\ \A f \in {"twin", "attr", "state"} \ {"state"} : n[f] = c[f]
      BY <1>3, <3>2, ZenonT(30) DEF Structures
    <3>4. c = heap[p] /\ n = heap'[p]
      BY <3>1, <3>2, ZenonT(30)
    <3> QED
      BY <3>3, <3>4, ZenonT(30)
  <2> QED
    BY <2>1, <2>3, ZenonT(30)
<1>5. DataTyped'
  <2>1. heap' \in [Objects -> Structures]
    BY <1>1, <1>2, <1>4, ZenonT(30) DEF DataTyped
  <2> QED
    BY <1>1, <1>2, <2>1, ZenonT(30) DEF DataTyped
<1>6. Placed(w)'
  BY <1>1, <1>2, PlacedAfter, ZenonT(30) DEF Needs
<1>7. ASSUME d \notin raced, d \notin stale'
      PROVE  (Mid(w, d)' \/ Agree(d)') /\ MidOK(w, d)'
  <2>1. d \in Devices \ (raced \cup stale) /\ list[d] # None /\ p = list[d] /\ p \in Objects
    BY <1>1, <1>2, <1>7, ZenonT(30) DEF DataTyped, HandlerLock
  <2>2. AgreeBut(d, "state") /\ db[d]["state"] = job[w].val
    BY <1>1, <1>2, <2>1, Before, ZenonT(30) DEF MidOK
  <2>3. db[d] # Absent /\ heap'[p]["state"] = db[d]["state"]
    BY <1>4, <2>1, <2>2, ZenonT(30) DEF AgreeBut
  <2>4. \A f \in {"twin", "attr", "state"} \ {"state"} : HasValue(d, f, db[d][f])'
    <3>1. \A f \in {"twin", "attr", "state"} \ {"state"} :
            HasValue(d, f, db[d][f]) /\ heap'[list[d]][f] = heap[list[d]][f]
      BY <1>4, <2>1, <2>2, ZenonT(30) DEF AgreeBut
    <3> QED
      BY <1>1, <3>1, ZenonT(30) DEF HasValue
  <2>5. HasValue(d, "state", db[d]["state"])'
    BY <1>1, <2>1, <2>3, ZenonT(30) DEF HasValue
  <2>6. Agree(d)'
    BY <1>1, <2>1, <2>3, <2>4, <2>5, ZenonT(30) DEF Agree
  <2>7. MidOK(w, d)'
    BY <1>3, ZenonT(30) DEF MidOK
  <2> QED
    BY <2>6, <2>7, ZenonT(30)
<1>8. Plain(w, d, "unlock")
  BY <1>1, ZenonT(30) DEF Plain, Places, Inside
<1>9. PlainRefs(w, d)
  BY <1>1, <1>4, ZenonT(30) DEF PlainRefs
<1>10. d \notin raced => PlainEnd(w, d)
  BY <1>1, <1>2, <1>3, <1>7, ZenonT(30) DEF PlainEnd
<1> QED
  BY <1>1, <1>2, <1>5, <1>6, <1>8, <1>9, <1>10, PlainKeeps, ZenonT(30) DEF Inside

\* DealMsgTwin puts the entry it has changed back into the list.
LEMMA PutTwinKeeps ==
    ASSUME MInv, NEW w \in Handlers, PutTwin(w) PROVE MInv'
<1> DEFINE d == job[w].dev
           p == job[w].ptr
           t == IF job[w].write THEN "db" ELSE "unlock"
<1>1. /\ pc[w] = "put" /\ pc' = [pc EXCEPT ![w] = t] /\ list' = [list EXCEPT ![d] = p]
      /\ UNCHANGED <<heap, db, job, took, mem, stale, raced, mutex, owner, readers, writer>>
  BY ZenonT(30) DEF PutTwin, Goto, history, locks
<1>2. /\ d \in Devices /\ At(w, d) /\ DataTyped /\ mutex \in [Devices -> Mutexes \cup {None}]
      /\ stale \subseteq Devices /\ job[w] \in JobRec /\ pc \in [Workers -> Places]
      /\ d \notin raced => list[d] # None /\ mutex[d] # None /\ HandlerLock(w, d)
      /\ w \in Workers /\ w # "mem" /\ HandlerTyped(w)
  BY <1>1, Middle, Names, ZenonT(30) DEF Needs
<1>3. pc'[w] = t /\ t \in {"db", "unlock"} /\ job[w].kind = "twin"
  BY <1>1, <1>2, ZenonT(30) DEF HandlerTyped
<1>4. DataTyped' /\ list'[d] = p
  BY <1>1, <1>2, ZenonT(30) DEF DataTyped, JobRec
<1>5. t = "db" <=> job[w].write
  OBVIOUS
<1> HIDE DEF t
<1>6. Placed(w)'
  BY <1>1, <1>2, <1>3, PlacedAfter, ZenonT(30) DEF Needs
<1>7. d \notin raced => p = list[d]
  BY <1>1, <1>2, ZenonT(30) DEF HandlerLock
<1>8. ASSUME d \notin raced, d \notin stale'
      PROVE  (Mid(w, d)' \/ Agree(d)') /\ MidOK(w, d)'
  <2>1. d \in Devices \ (raced \cup stale) /\ list[d] # None /\ list'[d] = list[d]
    BY <1>1, <1>2, <1>4, <1>7, <1>8, ZenonT(30)
  <2>2. MidOK(w, d) /\ (Mid(w, d) \/ Agree(d))
    BY <1>2, <2>1, Before, ZenonT(30)
  <2>3. CASE job[w].write
    <3>1. AgreeBut(d, job[w].kind) /\ HasValue(d, job[w].kind, job[w].val)
      BY <1>1, <2>2, <2>3, ZenonT(30) DEF MidOK
    <3>2. AgreeBut(d, job[w].kind)' /\ HasValue(d, job[w].kind, job[w].val)'
      BY <1>1, <2>1, <3>1, ZenonT(30) DEF AgreeBut, HasValue
    <3>3. Mid(w, d)'
      BY <1>1, <1>3, <1>5, <2>3, ZenonT(30) DEF Mid
    <3> QED
      BY <1>1, <1>3, <1>5, <2>1, <2>3, <3>1, <3>2, <3>3, ZenonT(30) DEF MidOK
  <2>4. CASE ~job[w].write
    <3>1. Agree(d)
      BY <1>1, <2>2, <2>4, ZenonT(30) DEF Mid
    <3>2. Agree(d)'
      BY <1>1, <2>1, <3>1, ZenonT(30) DEF Agree, HasValue
    <3>3. MidOK(w, d)'
      BY <1>3, <1>5, <2>4, ZenonT(30) DEF MidOK
    <3> QED
      BY <3>2, <3>3, ZenonT(30)
  <2> QED
    BY <2>3, <2>4, ZenonT(30)
<1>9. Plain(w, d, t)
  BY <1>1, <1>2, <1>3, ZenonT(30) DEF Plain, Places, Inside, DataTyped
<1>10. PlainRefs(w, d)
  BY <1>1, <1>4, ZenonT(30) DEF PlainRefs
<1>11. d \notin raced => PlainEnd(w, d)
  BY <1>1, <1>2, <1>3, <1>4, <1>7, <1>8, ZenonT(30) DEF PlainEnd
<1>12. t \in Inside
  BY <1>3, ZenonT(30) DEF Inside
<1> QED
  BY <1>1, <1>2, <1>4, <1>6, <1>9, <1>10, <1>11, <1>12, PlainKeeps, ZenonT(30)

\* SyncDeviceFromSqlite copies the row to memory, or fails and leaves them apart.
LEMMA SyncKeeps ==
    ASSUME MInv, NEW w \in Workers, Sync(w) PROVE MInv'
<1> DEFINE d == job[w].dev
           t == After(w)
<1>1. /\ pc[w] = "sync" /\ pc' = [pc EXCEPT ![w] = t]
      /\ UNCHANGED <<db, job, took, mem, raced, owner, readers, writer>>
  BY ZenonT(30) DEF Sync, Goto
<1>2. \/ list[d] = None /\ SpareMutexes # {} /\ mutex' = [mutex EXCEPT ![d] = NewMutex]
      \/ list[d] # None /\ mutex' = mutex
  BY ZenonT(30) DEF Sync
<1>3. \/ /\ db[d] # Absent /\ SpareObjects # {}
         /\ list' = [list EXCEPT ![d] = NewObject] /\ heap' = [heap EXCEPT ![NewObject] = db[d]]
         /\ stale' = stale \ {d}
      \/ stale' = stale \cup {d} /\ UNCHANGED <<list, heap>>
  BY ZenonT(30) DEF Sync
<1>4. /\ d \in Devices /\ At(w, d) /\ DataTyped /\ mutex \in [Devices -> Mutexes \cup {None}]
      /\ stale \subseteq Devices /\ pc \in [Workers -> Places]
      /\ d \notin raced => list[d] # None /\ mutex[d] # None
  BY <1>1, Middle, ZenonT(30) DEF Needs
<1>5. pc'[w] = t /\ t = IF w = "mem" THEN "apply" ELSE "unlock"
  BY <1>1, <1>4, ZenonT(30) DEF After
<1> HIDE DEF t
<1>6. /\ SpareObjects # {} => NewObject \in Objects /\ NewObject # None
      /\ SpareMutexes # {} => NewMutex \in Mutexes
  BY Fresh, ZenonT(30)
<1>7. /\ DataTyped' /\ mutex' \in [Devices -> Mutexes \cup {None}] /\ stale' \subseteq Devices
  BY <1>1, <1>2, <1>3, <1>4, <1>6, RowsFit DEF DataTyped
<1>8. /\ \A x \in Devices \ {d} : /\ list'[x] = list[x] /\ mutex'[x] = mutex[x]
                                  /\ x \in stale' <=> x \in stale
      /\ list[d] # None => list'[d] # None /\ mutex'[d] = mutex[d]
  BY <1>2, <1>3, <1>4, <1>6, ZenonT(30) DEF DataTyped
<1>9. Placed(w)'
  BY <1>1, <1>5, PlacedAfter, ZenonT(30) DEF Needs
<1>10. MidOK(w, d)'
  BY <1>5, ZenonT(30) DEF MidOK
<1>11. d \notin stale' => Agree(d)'
  <2> SUFFICES ASSUME d \notin stale' PROVE Agree(d)'
    OBVIOUS
  <2>1. db'[d] # Absent /\ list'[d] # None /\ heap'[list'[d]] = db'[d]
    BY <1>1, <1>3, <1>4, <1>6, ZenonT(30) DEF DataTyped
  <2> QED
    BY <1>1, <2>1, ZenonT(30) DEF Agree, HasValue
<1>12. Plain(w, d, t)
  BY <1>1, <1>5, <1>8, ZenonT(30) DEF Plain, Places, Inside
<1>13. PlainRefs(w, d)
  <2>1. /\ list'[d] = list[d] \/ (SpareObjects # {} /\ list'[d] = NewObject)
        /\ mutex'[d] = mutex[d] \/ (SpareMutexes # {} /\ mutex'[d] = NewMutex)
    BY <1>2, <1>3, <1>4, ZenonT(30) DEF DataTyped
  <2>2. \A o \in Objects : heap'[o] # heap[o] => SpareObjects # {} /\ o = NewObject
    BY <1>3, <1>4, ZenonT(30) DEF DataTyped
  <2> QED
    BY <2>1, <2>2, ZenonT(30) DEF PlainRefs
<1>14. d \notin raced => PlainEnd(w, d)
  BY <1>4, <1>5, <1>8, <1>10, <1>11, ZenonT(30) DEF PlainEnd, MemBusy
<1>15. w \in Handlers => t \in Inside
  BY <1>5, Names, ZenonT(30) DEF Inside
<1> QED
  BY <1>4, <1>7, <1>9, <1>12, <1>13, <1>14, <1>15, PlainKeeps, ZenonT(30)

\* addDevice ends with the row stored, removeDevice with the entry deleted.
LEMMA MemEndKeeps ==
    ASSUME MInv, AddStored \/ RemoveEntry PROVE MInv'
<1> DEFINE w == "mem"
           d == job[w].dev
<1>1. /\ pc[w] \in {"adddb", "remove"} /\ pc' = [pc EXCEPT ![w] = "apply"]
      /\ UNCHANGED <<heap, job, took, mem, stale, raced, owner, readers, writer>>
  BY ZenonT(30) DEF AddStored, RemoveEntry, Goto, history, locks
<1>2. \/ pc[w] = "adddb" /\ db' = [db EXCEPT ![d] = NewDevice] /\ UNCHANGED <<list, mutex>>
      \/ /\ pc[w] = "remove" /\ db' = db /\ list' = [list EXCEPT ![d] = None]
         /\ mutex' = [mutex EXCEPT ![d] = None]
  BY ZenonT(30) DEF AddStored, RemoveEntry, locks
<1>3. /\ d \in Devices /\ At(w, d) /\ DataTyped /\ mutex \in [Devices -> Mutexes \cup {None}]
      /\ stale \subseteq Devices /\ pc \in [Workers -> Places]
      /\ d \notin raced => list[d] # None /\ mutex[d] # None
      /\ w \in Workers /\ w \notin Handlers
  BY <1>1, Middle, Names, ZenonT(30)
<1>4. NewDevice \in Contents
  BY RowsFit, ZenonT(30)
<1>5. DataTyped' /\ mutex' \in [Devices -> Mutexes \cup {None}] /\ pc'[w] = "apply"
  BY <1>1, <1>2, <1>3, <1>4 DEF DataTyped
<1>6. Placed(w)'
  BY <1>1, <1>3, PlacedAfter, ZenonT(30)
<1>7. MidOK(w, d)'
  BY <1>5, ZenonT(30) DEF MidOK
<1>8. ASSUME d \notin raced, d \notin stale' PROVE Agree(d)'
  <2>1. MidOK(w, d) /\ list[d] # None
    BY <1>1, <1>3, <1>8, Before, ZenonT(30)
  <2>2. CASE pc[w] = "adddb"
    <3>1. heap'[list'[d]] = NewDevice /\ db'[d] = NewDevice /\ list'[d] # None
      BY <1>1, <1>2, <1>3, <2>1, <2>2, ZenonT(30) DEF MidOK, DataTyped
    <3> QED
      BY <1>1, <3>1, RowsFit, ZenonT(30) DEF Agree, HasValue
  <2>3. CASE pc[w] = "remove"
    BY <1>1, <1>2, <1>3, <2>1, <2>3, ZenonT(30) DEF MidOK, Agree, DataTyped
  <2> QED
    BY <1>1, <2>2, <2>3, ZenonT(30)
<1>9. Plain(w, d, "apply")
  BY <1>1, <1>2, <1>3, ZenonT(30) DEF Plain, Places, DataTyped, Inside, MemBusy
<1>10. PlainRefs(w, d)
  BY <1>1, <1>2, <1>3, ZenonT(30) DEF PlainRefs, DataTyped
<1>11. d \notin raced => PlainEnd(w, d)
  <2>1. d \notin raced => list[d] # None /\ (mutex'[d] = None <=> list'[d] = None)
    BY <1>2, <1>3, ZenonT(30) DEF DataTyped
  <2> QED
    BY <1>3, <1>5, <1>7, <1>8, <2>1, ZenonT(30) DEF PlainEnd, MemBusy
<1> QED
  BY <1>1, <1>3, <1>5, <1>6, <1>9, <1>10, <1>11, PlainKeeps, ZenonT(30)
----------------------------------------------------------------------------
\* The locks of a device whose entry and mutex a step leaves alone.
LEMMA StillLocked ==
    ASSUME MInv, NEW w \in Handlers, NEW d \in Devices \ raced', Acts(w), raced \subseteq raced',
           list'[d] = list[d], mutex'[d] = mutex[d],
           \A v \in Handlers \ {w} : job[v].dev = d /\ pc[v] \in Inside /\ took[v] # None
                => owner'[took[v]] = owner[took[v]],
           job'[w].dev = d => /\ pc'[w] # "dead" => HandlerLock(w, d)'
                              /\ pc["mem"] \in MemBusy => job["mem"].dev # d,
           pc["mem"] \in MemBusy /\ job["mem"].dev = d => owner' = owner
    PROVE  LockOf(d)'
<1>0. w \in Workers /\ "mem" \in Workers \ {w}
  BY Names, ZenonT(30)
<1>1. LockOf(d) /\ d \notin raced /\ pc["mem"] # "dead"
  BY <1>0, OthersStay, ZenonT(30) DEF MInv
<1>2. /\ mutex[d] = None <=> list[d] = None
      /\ \A v \in Handlers : job[v].dev = d /\ pc[v] # "dead" => HandlerLock(v, d)
      /\ pc["mem"] \in MemBusy /\ job["mem"].dev = d =>
            list[d] # None /\ \A v \in Handlers : job[v].dev # d
      /\ pc["mem"] = "adddb" /\ job["mem"].dev = d => owner[mutex[d]] = None
  BY <1>1, ZenonT(30) DEF LockOf
<1>3. \A v \in Workers \ {w} : /\ job'[v] = job[v] /\ pc[v] # "dead"
                               /\ pc'[v] = pc[v] \/ pc'[v] = "dead"
                               /\ v \in Handlers => took'[v] = took[v]
  BY Names, OthersStay, ZenonT(30) DEF Acts
<1>4. ASSUME NEW v \in Handlers, job'[v].dev = d, pc'[v] # "dead" PROVE HandlerLock(v, d)'
  <2>1. CASE v = w
    BY <1>4, <2>1, ZenonT(30)
  <2>2. CASE v # w
    <3>1. job'[v] = job[v] /\ pc'[v] = pc[v] /\ took'[v] = took[v] /\ HandlerLock(v, d)
      BY <1>2, <1>3, <1>4, <2>2, Names, ZenonT(30)
    <3>2. pc[v] \in Inside /\ took[v] # None => owner'[took[v]] = v
      BY <1>4, <2>2, <3>1, ZenonT(30) DEF HandlerLock
    <3> QED
      BY <3>1, <3>2, ZenonT(30) DEF HandlerLock
  <2> QED
    BY <2>1, <2>2, ZenonT(30)
<1>5. ASSUME pc'["mem"] \in MemBusy, job'["mem"].dev = d
      PROVE  list'[d] # None /\ \A v \in Handlers : job'[v].dev # d
  <2>1. job["mem"].dev = d /\ pc["mem"] \in MemBusy
    BY <1>3, <1>5, Names, ZenonT(30) DEF MemBusy
  <2> QED
    BY <1>2, <1>3, <2>1, Names, ZenonT(30)
<1>6. ASSUME pc'["mem"] = "adddb", job'["mem"].dev = d PROVE owner'[mutex'[d]] = None
  <2>1. job["mem"].dev = d /\ pc["mem"] = "adddb"
    BY <1>3, <1>6, Names, ZenonT(30)
  <2> QED
    BY <1>2, <2>1, ZenonT(30) DEF MemBusy
<1> QED
  BY <1>2, <1>4, <1>5, <1>6, ZenonT(30) DEF LockOf

\* What memory and SQLite hold of a device that a step leaves alone.
LEMMA StillAgrees ==
    ASSUME MInv, NEW w \in Workers, NEW d \in Devices, Acts(w), raced \subseteq raced',
           UNCHANGED <<list, heap, db, stale>>, ~Mid(w, d),
           job'[w].dev = d => MidOK(w, d)'
    PROVE  DataOf(d)'
<1>1. DataOf(d)
  BY ZenonT(30) DEF MInv
<1>2. \A v \in Workers \ {w} : job'[v] = job[v] /\ (pc'[v] = pc[v] \/ pc'[v] = "dead")
  BY OthersStay, ZenonT(30)
<1>3. \A v \in Workers : Mid(v, d) => Mid(v, d)'
  BY <1>2, ZenonT(30) DEF Mid
<1>4. Agree(d) => Agree(d)'
  BY ZenonT(30) DEF Agree, HasValue
<1>5. \A k : AgreeBut(d, k) => AgreeBut(d, k)'
  BY ZenonT(30) DEF AgreeBut, HasValue
<1>6. ASSUME NEW v \in Workers \ {w}, MidOK(v, d) PROVE MidOK(v, d)'
  <2>1. CASE pc'[v] = "dead"
    BY <2>1, ZenonT(30) DEF MidOK
  <2>2. CASE pc'[v] = pc[v]
    BY <1>2, <1>5, <1>6, <2>2, ZenonT(30) DEF MidOK, HasValue
  <2> QED
    BY <1>2, <2>1, <2>2, ZenonT(30)
<1> QED
  BY <1>1, <1>2, <1>3, <1>4, <1>6, ZenonT(30) DEF DataOf

\* What is known of a handler that has a job.
LEMMA Working ==
    ASSUME MInv, NEW w \in Handlers, pc[w] \in Inside \cup {"rlock", "mlock"}
    PROVE  /\ w \in Workers /\ w # "mem" /\ job[w] \in JobRec /\ job[w].dev \in Devices
           /\ HandlerTyped(w) /\ job[w].kind \in Kinds(w)
           /\ DataTyped /\ LockTyped /\ WorkTyped
           /\ job[w].dev \notin raced =>
                /\ HandlerLock(w, job[w].dev)
                /\ ~(pc["mem"] \in MemBusy /\ job["mem"].dev = job[w].dev)
<1>1. DataTyped /\ LockTyped /\ WorkTyped /\ Placed(w) /\ (\A d \in Devices : LockOf(d)) /\ w \in Workers
  BY Names, ZenonT(30) DEF MInv
<1>2. HandlerTyped(w) /\ pc[w] # "dead" /\ w # "mem"
  BY <1>1, Names, ZenonT(30) DEF Placed, Inside
<1>3. job[w].dev \in Devices /\ job[w].kind \in Kinds(w) /\ job[w] \in JobRec
  BY <1>1, <1>2, ZenonT(30) DEF HandlerTyped, WorkTyped, Inside
<1>4. job[w].dev \notin raced => /\ HandlerLock(w, job[w].dev)
                                 /\ ~(pc["mem"] \in MemBusy /\ job["mem"].dev = job[w].dev)
  BY <1>1, <1>2, <1>3, ZenonT(30) DEF LockOf
<1> QED
  BY <1>1, <1>2, <1>3, <1>4, ZenonT(30)

\* A handler looks its device up.
LEMMA GetKeeps ==
    ASSUME MInv, NEW w \in Handlers, Get(w) PROVE MInv'
<1>0. PICK d : d = job[w].dev
  OBVIOUS
<1> DEFINE o == list[d]
           j == Job(d, job[w].kind, job[w].val, o, FALSE)
           t == IF o = None THEN "unlock" ELSE IF job[w].kind = "state" THEN "db" ELSE "deal"
<1>1. /\ pc[w] = "get" /\ pc' = [pc EXCEPT ![w] = t] /\ job' = [job EXCEPT ![w] = j]
      /\ UNCHANGED <<list, heap, db, took, mem, stale, raced, mutex, owner, readers, writer>>
  BY <1>0, ZenonT(30) DEF Get, Goto, history, locks, data
<1>2. /\ w \in Workers /\ w # "mem" /\ job[w] \in JobRec /\ d \in Devices
      /\ job[w].kind \in Kinds(w) /\ DataTyped /\ LockTyped /\ WorkTyped
      /\ d \notin raced => /\ HandlerLock(w, d)
                           /\ ~(pc["mem"] \in MemBusy /\ job["mem"].dev = d)
  BY <1>0, <1>1, Working, ZenonT(30) DEF Inside
<1>3. /\ j.dev = d /\ j.kind = job[w].kind /\ j.ptr = o /\ j \in JobRec
  <2>1. o \in Objects \cup {None}
    BY <1>2, ZenonT(30) DEF DataTyped
  <2> QED
    BY <1>2, <2>1, ZenonT(30) DEF JobRec, Job
<1>4. /\ t \in {"unlock", "db", "deal"} /\ (t # "unlock" => o # None)
      /\ t = "deal" => job[w].kind # "state"
      /\ t = "db" => job[w].kind = "state"
  OBVIOUS
<1> HIDE DEF j, t
<1>5. /\ pc'[w] = t /\ job'[w] = j /\ pc[w] # "dead"
      /\ job' \in [Workers -> JobRec] /\ \A v \in Workers \ {w} : job'[v] = job[v]
  BY <1>1, <1>2, <1>3, ZenonT(30) DEF WorkTyped
<1>6. Acts(w)
  BY <1>1, <1>4, <1>5, ZenonT(30) DEF Acts, Places, Inside
<1>7. Touches(w, d)
  <2>1. Spares(w, d)
    BY <1>0, <1>1, <1>3, <1>5, ZenonT(30) DEF Spares
  <2>2. Refers(w, d)
    BY <1>0, <1>1, <1>2, <1>3, <1>5, ZenonT(30) DEF Refers
  <2> QED
    BY <1>6, <2>1, <2>2, ZenonT(30) DEF Touches
<1>8. DataTyped' /\ LockTyped' /\ WorkTyped'
  <2>1. DataTyped' /\ LockTyped'
    BY <1>1, <1>2, ZenonT(30) DEF DataTyped, LockTyped
  <2>2. took' \in [Handlers -> Mutexes \cup {None}] /\ stale' \subseteq Devices /\ raced' \subseteq Devices
    BY <1>1, <1>2, ZenonT(30) DEF WorkTyped
  <2> QED
    BY <1>2, <1>5, <1>6, <2>1, <2>2, WorkersTyped, ZenonT(30)
<1>9. Placed(w)'
  <2>1. HandlerTyped(w)'
    BY <1>2, <1>3, <1>4, <1>5, ZenonT(30) DEF HandlerTyped, Inside
  <2> QED
    BY <1>2, <2>1, ZenonT(30) DEF Placed
<1>10. LockOf(d)'
  <2> SUFFICES ASSUME d \notin raced' PROVE LockOf(d)'
    BY ZenonT(30) DEF LockOf
  <2>1. HandlerLock(w, d) /\ pc[w] \in Inside /\ d \notin raced
    BY <1>1, <1>2, ZenonT(30) DEF Inside
  <2>2. HandlerLock(w, d)'
    BY <1>1, <1>3, <1>4, <1>5, <2>1, ZenonT(30) DEF HandlerLock, Needs
  <2>3. /\ list' = list /\ mutex' = mutex /\ owner' = owner /\ raced' = raced
        /\ ~(pc["mem"] \in MemBusy /\ job["mem"].dev = d)
    BY <1>1, <1>2, <2>1, ZenonT(30)
  <2> QED
    BY <1>2, <1>6, <2>2, <2>3, StillLocked, ZenonT(30)
<1>11. DataOf(d)'
  <2>1. ~Mid(w, d) /\ MidOK(w, d)'
    BY <1>1, <1>3, <1>4, <1>5, ZenonT(30) DEF Mid, MidOK
  <2>2. UNCHANGED <<list, heap, db, stale>> /\ raced' = raced
    BY <1>1, ZenonT(30)
  <2> QED
    BY <1>2, <1>6, <2>1, <2>2, StillAgrees, ZenonT(30)
<1> QED
  BY <1>2, <1>7, <1>8, <1>9, <1>10, <1>11, Assembled, ZenonT(30)

\* DealMsgTwin changes the twin in memory first.
LEMMA DealTwinKeeps ==
    ASSUME MInv, NEW w \in Handlers, DealTwin(w) PROVE MInv'
<1>0. PICK d : d = job[w].dev
  OBVIOUS
<1> DEFINE o == list[d]
<1>1. /\ pc[w] = "deal" /\ job[w].kind = "twin"
      /\ UNCHANGED <<list, db, took, mem, stale, raced, mutex, owner, readers, writer>>
  BY ZenonT(30) DEF DealTwin, history, locks
<1>2. /\ w \in Workers /\ w # "mem" /\ job[w] \in JobRec /\ d \in Devices
      /\ DataTyped /\ LockTyped /\ WorkTyped /\ At(w, d)
      /\ d \notin raced => o # None /\ mutex[d] # None
  BY <1>0, <1>1, Working, Middle, ZenonT(30) DEF Inside, Needs
<1>3. CASE o = None
  <2>1. PICK t \in {"sync", "unlock"} : pc' = [pc EXCEPT ![w] = t] /\ heap' = heap /\ job' = job
    BY <1>0, <1>3, ZenonT(30) DEF DealTwin, Goto
  <2>2. Plain(w, d, t) /\ PlainRefs(w, d) /\ t \in Inside
    BY <1>0, <1>1, <2>1, ZenonT(30) DEF Plain, PlainRefs, Places, Inside
  <2>3. Placed(w)'
    BY <1>0, <1>1, <1>2, <2>1, PlacedAfter, ZenonT(30) DEF Needs
  <2>4. DataTyped' /\ mutex' \in [Devices -> Mutexes \cup {None}] /\ stale' \subseteq Devices
    BY <1>1, <1>2, <2>1, ZenonT(30) DEF DataTyped, LockTyped, WorkTyped
  <2> QED
    BY <1>2, <1>3, <2>2, <2>3, <2>4, PlainKeeps, ZenonT(30)
<1>4. CASE o # None
  <2>1. PICK b \in BOOLEAN :
            /\ \E n \in IF b THEN Written(heap[o].twin, job[w].val)
                              ELSE Unwritten(heap[o].twin, job[w].val) :
                  heap' = [heap EXCEPT ![o].twin = n]
            /\ job' = [job EXCEPT ![w] = Job(d, "twin", job[w].val, o, b)]
            /\ pc' = [pc EXCEPT ![w] = "put"] \/ (b /\ pc' = [pc EXCEPT ![w] = "sync"])
    BY <1>0, <1>4, ZenonT(30) DEF DealTwin, Goto
  <2>16. PICK n \in IF b THEN Written(heap[o].twin, job[w].val)
                           ELSE Unwritten(heap[o].twin, job[w].val) :
              heap' = [heap EXCEPT ![o].twin = n]
    BY <2>1, ZenonT(30)
  <2> DEFINE j == Job(d, "twin", job[w].val, o, b)
  <2>2. o \in Objects /\ heap[o] \in Structures /\ job[w].val \in Vals
    BY <1>2, <1>4, ZenonT(30) DEF DataTyped, JobRec
  <2>17. /\ n \in Vals \cup {Half}
         /\ b => n \in {job[w].val, Half}
         /\ ~b => n \in {heap[o].twin, Half}
    <3>1. heap[o].twin \in Vals \cup {Half}
      BY <2>2, ZenonT(30) DEF Structures
    <3> QED
      BY <2>2, <2>16, <3>1, ZenonT(30) DEF Written, Unwritten
  <2>3. /\ j.dev = d /\ j.kind = "twin" /\ j.ptr = o /\ j.write = b /\ j.val = job[w].val
        /\ j \in JobRec
    BY <1>2, <2>2, ZenonT(30) DEF JobRec, Job
  <2>4. job' = [job EXCEPT ![w] = j]
    BY <2>1, ZenonT(30)
  <2> HIDE DEF j
  <2>5. PICK t \in {"put", "sync"} : pc' = [pc EXCEPT ![w] = t] /\ (t = "sync" => b)
    BY <2>1, ZenonT(30)
  <2>6. /\ pc'[w] = t /\ job'[w] = j /\ pc[w] # "dead" /\ pc' # Fatal
        /\ job' \in [Workers -> JobRec] /\ \A v \in Workers \ {w} : job'[v] = job[v]
    BY <1>1, <1>2, <2>3, <2>4, <2>5, ZenonT(30) DEF WorkTyped, Fatal
  <2>7. Acts(w)
    BY <1>1, <2>5, <2>6, ZenonT(30) DEF Acts, Places, Inside
  <2>8. /\ \A x \in Objects \ {o} : heap'[x] = heap[x]
        /\ heap' \in [Objects -> Structures]
        /\ \A f \in {"twin", "attr", "state"} \ {"twin"} : heap'[o][f] = heap[o][f]
        /\ heap'[o]["twin"] = n
    <3>1. heap' = [heap EXCEPT ![o] = [heap[o] EXCEPT !["twin"] = n]]
      BY <2>16, ZenonT(30)
    <3>2. /\ [heap[o] EXCEPT !["twin"] = n] \in Structures
          /\ [heap[o] EXCEPT !["twin"] = n]["twin"] = n
          /\ \A f \in {"twin", "attr", "state"} \ {"twin"} :
                [heap[o] EXCEPT !["twin"] = n][f] = heap[o][f]
      BY <2>2, <2>17, SetMemory
    <3> QED
      BY <1>2, <2>2, <3>1, <3>2, ZenonT(30) DEF DataTyped
  <2>9. Touches(w, d)
    <3>1. Spares(w, d)
      BY <1>0, <1>1, <1>2, <2>3, <2>6, <2>8, ZenonT(30) DEF Spares
    <3>2. Refers(w, d)
      BY <1>0, <1>1, <1>2, <2>3, <2>6, ZenonT(30) DEF Refers
    <3> QED
      BY <2>7, <3>1, <3>2, ZenonT(30) DEF Touches
  <2>10. DataTyped' /\ LockTyped' /\ WorkTyped'
    <3>1. DataTyped' /\ LockTyped'
      BY <1>1, <1>2, <2>8, ZenonT(30) DEF DataTyped, LockTyped
    <3>2. took' \in [Handlers -> Mutexes \cup {None}] /\ stale' \subseteq Devices /\ raced' \subseteq Devices
      BY <1>1, <1>2, ZenonT(30) DEF WorkTyped
    <3> QED
      BY <1>2, <2>6, <2>7, <3>1, <3>2, WorkersTyped, ZenonT(30)
  <2>11. Placed(w)'
    <3>1. "twin" \in Kinds(w)
      BY <1>1, Working, ZenonT(30) DEF Inside
    <3>2. HandlerTyped(w)'
      BY <1>2, <2>3, <2>6, <3>1, ZenonT(30) DEF HandlerTyped, Inside
    <3> QED
      BY <1>2, <3>2, ZenonT(30) DEF Placed
  <2>12. ASSUME d \notin raced PROVE LockOf(d)'
    BY <1>1, <1>2, <1>4, <2>3, <2>6, <2>7, <2>12, LockedHere, ZenonT(30) DEF Inside
  <2>13. ASSUME d \notin raced, d \notin stale
         PROVE  (Mid(w, d)' \/ Agree(d)') /\ MidOK(w, d)'
    <3>1. db[d] # Absent /\ \A f \in {"twin", "attr", "state"} : HasValue(d, f, db[d][f])
      BY <1>1, <1>2, <1>4, <2>13, Before, ZenonT(30) DEF Mid, Agree
    <3>2. \A f \in {"twin", "attr", "state"} \ {"twin"} : HasValue(d, f, db[d][f])'
      BY <1>1, <2>8, <3>1, ZenonT(30) DEF HasValue
    <3>3. AgreeBut(d, "twin")' /\ (b => HasValue(d, "twin", job[w].val)')
      BY <1>1, <1>4, <2>3, <2>6, <2>8, <2>17, <3>1, <3>2, ZenonT(30) DEF AgreeBut, HasValue
    <3>4. ~b => Agree(d)'
      <4>1. ~b => HasValue(d, "twin", db[d]["twin"])'
        BY <1>1, <2>8, <2>17, <3>1, ZenonT(30) DEF HasValue
      <4> QED
        BY <1>1, <1>4, <3>1, <3>2, <4>1, ZenonT(30) DEF Agree
    <3>5. b => Mid(w, d)'
      BY <2>3, <2>6, ZenonT(30) DEF Mid
    <3>6. MidOK(w, d)'
      BY <1>1, <2>3, <2>6, <2>8, <3>3, ZenonT(30) DEF MidOK
    <3> QED
      BY <3>4, <3>5, <3>6, ZenonT(30)
  <2>14. ASSUME d \notin raced PROVE DataOf(d)'
    BY <1>1, <1>2, <1>4, <2>6, <2>7, <2>13, <2>14, AgreesHere, ZenonT(30)
  <2>15. LockOf(d)' /\ DataOf(d)'
    BY <1>1, <2>12, <2>14, ZenonT(30) DEF LockOf, DataOf
  <2> QED
    BY <1>2, <2>9, <2>10, <2>11, <2>15, Assembled, ZenonT(30)
<1> QED
  BY <1>3, <1>4, ZenonT(30)

\* A handler takes a message and finds the mutex of its device.
LEMMA StartHolds ==
    ASSUME MInv, NEW w \in Handlers, NEW d \in Devices, NEW v \in Vals, NEW kind \in Kinds(w),
           Start(w, d, kind, v)
    PROVE  MInv'
<1> DEFINE j == Job(d, kind, v, None, FALSE)
           t == IF mutex[d] = None THEN "get" ELSE "rlock"
<1>1. /\ pc[w] = "idle" /\ pc' = [pc EXCEPT ![w] = t] /\ job' = [job EXCEPT ![w] = j]
      /\ took' = [took EXCEPT ![w] = mutex[d]]
      /\ raced' = IF pc["mem"] # "apply" /\ job["mem"].dev = d THEN raced \cup {d} ELSE raced
      /\ UNCHANGED <<list, heap, db, mem, stale, mutex, owner, readers, writer>>
  BY ZenonT(30) DEF Start, Goto, locks, data
<1>2. w \in Workers /\ w # "mem" /\ DataTyped /\ LockTyped /\ WorkTyped /\ HandlerTyped(w)
  BY Names, ZenonT(30) DEF MInv, Placed
<1>3. job[w] = NoJob /\ job[w].dev = None /\ took[w] = None
  BY <1>1, <1>2 DEF HandlerTyped, NoJob, Job, Inside
<1>4. /\ j.dev = d /\ j.kind = kind /\ j.ptr = None /\ j \in JobRec
  BY ZenonT(30) DEF JobRec, Job, Kinds
<1>5. t \in {"get", "rlock"} /\ (t = "get" <=> mutex[d] = None)
  OBVIOUS
<1> HIDE DEF j, t
<1>6. /\ pc'[w] = t /\ job'[w] = j /\ pc[w] # "dead" /\ took'[w] = mutex[d]
      /\ job' \in [Workers -> JobRec] /\ took' \in [Handlers -> Mutexes \cup {None}]
      /\ \A x \in Workers \ {w} : job'[x] = job[x]
      /\ \A x \in Handlers \ {w} : took'[x] = took[x]
  BY <1>1, <1>2, <1>4, ZenonT(30) DEF WorkTyped, LockTyped
<1>7. Acts(w)
  BY <1>1, <1>5, <1>6, ZenonT(30) DEF Acts, Places, Inside
<1>8. Touches(w, d)
  <2>1. Spares(w, d)
    BY <1>1, <1>3, <1>4, <1>6, Names DEF Spares
  <2>2. Refers(w, d)
    BY <1>1, <1>4, <1>6, ZenonT(30) DEF Refers
  <2> QED
    BY <1>7, <2>1, <2>2, ZenonT(30) DEF Touches
<1>9. DataTyped' /\ LockTyped' /\ WorkTyped'
  <2>1. DataTyped' /\ LockTyped'
    BY <1>1, <1>2, ZenonT(30) DEF DataTyped, LockTyped
  <2>2. stale' \subseteq Devices /\ raced' \subseteq Devices
    BY <1>1, <1>2, ZenonT(30) DEF WorkTyped
  <2> QED
    BY <1>2, <1>6, <1>7, <2>1, <2>2, WorkersTyped, ZenonT(30)
<1>10. Placed(w)'
  <2>1. HandlerTyped(w)'
    BY <1>2, <1>4, <1>5, <1>6, ZenonT(30) DEF HandlerTyped, Inside
  <2> QED
    BY <1>2, <2>1, ZenonT(30) DEF Placed
<1>11. raced \subseteq raced'
  BY <1>1, ZenonT(30)
<1>12. LockOf(d)'
  <2> SUFFICES ASSUME d \notin raced' PROVE LockOf(d)'
    BY ZenonT(30) DEF LockOf
  <2>1. HandlerLock(w, d)'
    BY <1>1, <1>5, <1>6, ZenonT(30) DEF HandlerLock, Inside, Needs
  <2>2. ~(pc["mem"] \in MemBusy /\ job["mem"].dev = d)
    BY <1>1, ZenonT(30) DEF MemBusy
  <2> QED
    BY <1>1, <1>7, <1>11, <2>1, <2>2, StillLocked, ZenonT(30)
<1>13. DataOf(d)'
  <2>1. ~Mid(w, d) /\ MidOK(w, d)'
    BY <1>3, <1>5, <1>6, Names, ZenonT(30) DEF Mid, MidOK
  <2> QED
    BY <1>1, <1>2, <1>7, <1>11, <2>1, StillAgrees, ZenonT(30)
<1> QED
  BY <1>2, <1>8, <1>9, <1>10, <1>12, <1>13, Assembled, ZenonT(30)

\* Lock takes the context's read lock, then the mutex.
LEMMA LockHolds ==
    ASSUME MInv, NEW w \in Handlers, RLock(w) \/ MLock(w) PROVE MInv'
<1>0. PICK d : d = job[w].dev
  OBVIOUS
<1>1. /\ UNCHANGED <<list, heap, db, mem, stale, raced, mutex, writer, job, took>>
      /\ \/ pc[w] = "rlock" /\ pc' = [pc EXCEPT ![w] = "mlock"] /\ owner' = owner /\ readers' = readers + 1
         \/ /\ pc[w] = "mlock" /\ pc' = [pc EXCEPT ![w] = "get"] /\ readers' = readers
            /\ owner[took[w]] = None /\ owner' = [owner EXCEPT ![took[w]] = w]
  BY ZenonT(30) DEF RLock, MLock, Goto, history, data
<1>2. /\ w \in Workers /\ w # "mem" /\ job[w] \in JobRec /\ d \in Devices
      /\ job[w].kind \in Kinds(w) /\ DataTyped /\ LockTyped /\ WorkTyped
      /\ d \notin raced => /\ HandlerLock(w, d)
                           /\ ~(pc["mem"] \in MemBusy /\ job["mem"].dev = d)
  BY <1>0, <1>1, Working, ZenonT(30)
<1>3. PICK t \in {"mlock", "get"} : pc' = [pc EXCEPT ![w] = t] /\ (t = "get" <=> pc[w] = "mlock")
  BY <1>1, ZenonT(30)
<1>4. pc'[w] = t /\ pc[w] \in {"rlock", "mlock"}
  BY <1>1, <1>2, <1>3, ZenonT(30) DEF WorkTyped
<1>5. Acts(w)
  BY <1>1, <1>3, <1>4, ZenonT(30) DEF Acts, Places, Inside
<1>6. \A m \in Mutexes : owner'[m] # owner[m] => m = took[w] /\ owner[m] = None
  BY <1>1, <1>2, ZenonT(30) DEF LockTyped
<1>7. Touches(w, d)
  <2>1. Spares(w, d)
    BY <1>0, <1>1, <1>2, <1>6, ZenonT(30) DEF Spares
  <2>2. Refers(w, d)
    BY <1>0, <1>1, <1>2, ZenonT(30) DEF Refers, DataTyped
  <2> QED
    BY <1>5, <2>1, <2>2, ZenonT(30) DEF Touches
<1>8. DataTyped' /\ LockTyped' /\ WorkTyped'
  <2>1. DataTyped' /\ LockTyped'
    BY <1>1, <1>2 DEF DataTyped, LockTyped
  <2>2. /\ job' \in [Workers -> JobRec] /\ took' \in [Handlers -> Mutexes \cup {None}]
        /\ stale' \subseteq Devices /\ raced' \subseteq Devices
    BY <1>1, <1>2, ZenonT(30) DEF WorkTyped
  <2> QED
    BY <1>2, <1>5, <2>1, <2>2, WorkersTyped, ZenonT(30)
<1>9. Placed(w)'
  <2>1. HandlerTyped(w)'
    BY <1>0, <1>1, <1>2, <1>4, ZenonT(30) DEF HandlerTyped, Inside
  <2> QED
    BY <1>2, <2>1, ZenonT(30) DEF Placed
<1>10. LockOf(d)'
  <2> SUFFICES ASSUME d \notin raced' PROVE LockOf(d)'
    BY ZenonT(30) DEF LockOf
  <2>1. HandlerLock(w, d) /\ took[w] # None /\ took[w] \in Mutexes
    BY <1>1, <1>2, <1>4, ZenonT(30) DEF HandlerLock, WorkTyped
  <2>2. HandlerLock(w, d)'
    BY <1>1, <1>2, <1>3, <1>4, <2>1, ZenonT(30) DEF HandlerLock, Inside, Needs, LockTyped
  <2>3. ASSUME NEW v \in Handlers \ {w}, job[v].dev = d, pc[v] \in Inside, took[v] # None
        PROVE  owner'[took[v]] = owner[took[v]]
    <3>1. owner[took[v]] = v /\ took[v] \in Mutexes
      BY <1>1, <1>2, <2>3, Working, ZenonT(30) DEF HandlerLock, WorkTyped
    <3> QED
      BY <1>6, <3>1, Names, ZenonT(30)
  <2> QED
    BY <1>1, <1>2, <1>5, <2>2, <2>3, StillLocked, ZenonT(30)
<1>11. DataOf(d)'
  <2>1. ~Mid(w, d) /\ MidOK(w, d)'
    BY <1>3, <1>4, ZenonT(30) DEF Mid, MidOK
  <2> QED
    BY <1>1, <1>2, <1>5, <2>1, StillAgrees, ZenonT(30)
<1> QED
  BY <1>2, <1>7, <1>8, <1>9, <1>10, <1>11, Assembled, ZenonT(30)
\* What Unlock does.
LEMMA Unlocked ==
    ASSUME MInv, NEW w \in Workers, NEW d \in Devices, NEW place, Unlock(d, w, place)
    PROVE  /\ pc' = Fatal \/ pc' = [pc EXCEPT ![w] = place]
           /\ owner' \in [Mutexes -> Handlers \cup {None}] /\ readers' \in Nat
           /\ \A m \in Mutexes : owner'[m] # owner[m] => m = mutex[d]
<1>1. LockTyped
  BY ZenonT(30) DEF MInv
<1> QED
  BY <1>1 DEF LockTyped, Unlock, Goto

\* A handler unlocks and is done with its message.
LEMMA FinishHolds ==
    ASSUME MInv, NEW w \in Handlers, Finish(w) PROVE MInv'
<1>0. PICK d : d = job[w].dev
  OBVIOUS
<1>1. /\ pc[w] = "unlock" /\ Unlock(d, w, "idle")
      /\ job' = [job EXCEPT ![w] = NoJob] /\ took' = [took EXCEPT ![w] = None]
      /\ UNCHANGED <<list, heap, db, mem, stale, raced, mutex, writer>>
  BY <1>0, ZenonT(30) DEF Finish, history, data
<1>2. /\ w \in Workers /\ w # "mem" /\ job[w] \in JobRec /\ d \in Devices
      /\ DataTyped /\ LockTyped /\ WorkTyped
      /\ d \notin raced => /\ HandlerLock(w, d)
                           /\ ~(pc["mem"] \in MemBusy /\ job["mem"].dev = d)
  BY <1>0, <1>1, Working, ZenonT(30) DEF Inside
<1>3. /\ pc' = Fatal \/ pc' = [pc EXCEPT ![w] = "idle"]
      /\ owner' \in [Mutexes -> Handlers \cup {None}] /\ readers' \in Nat
      /\ \A m \in Mutexes : owner'[m] # owner[m] => m = mutex[d]
  BY <1>1, <1>2, Unlocked, ZenonT(30)
<1>4. NoJob \in JobRec /\ NoJob.dev = None /\ NoJob.ptr = None
  BY TwinAssumption, ZenonT(30) DEF NoJob, Job, JobRec
<1>5. /\ job'[w] = NoJob /\ took'[w] = None /\ pc[w] # "dead"
      /\ pc'[w] = "dead" \/ pc'[w] = "idle"
      /\ job' \in [Workers -> JobRec] /\ took' \in [Handlers -> Mutexes \cup {None}]
      /\ \A x \in Workers \ {w} : job'[x] = job[x]
      /\ \A x \in Handlers \ {w} : took'[x] = took[x]
  BY <1>1, <1>2, <1>3, <1>4, ZenonT(30) DEF WorkTyped, Fatal
<1>6. Acts(w)
  BY <1>1, <1>3, <1>5, ZenonT(30) DEF Acts, Places
<1>7. Touches(w, d)
  <2>1. Spares(w, d)
    BY <1>0, <1>1, <1>2, <1>3, <1>4, <1>5, Names DEF Spares
  <2>2. Refers(w, d)
    BY <1>1, <1>4, <1>5, ZenonT(30) DEF Refers
  <2> QED
    BY <1>6, <2>1, <2>2, ZenonT(30) DEF Touches
<1>8. DataTyped' /\ LockTyped' /\ WorkTyped'
  <2>1. DataTyped' /\ LockTyped'
    BY <1>1, <1>2, <1>3, ZenonT(30) DEF DataTyped, LockTyped
  <2>2. stale' \subseteq Devices /\ raced' \subseteq Devices
    BY <1>1, <1>2, ZenonT(30) DEF WorkTyped
  <2> QED
    BY <1>2, <1>5, <1>6, <2>1, <2>2, WorkersTyped, ZenonT(30)
<1>9. Placed(w)'
  <2>1. HandlerTyped(w)'
    BY <1>5, ZenonT(30) DEF HandlerTyped
  <2> QED
    BY <1>2, <2>1, ZenonT(30) DEF Placed
<1>10. LockOf(d)'
  <2> SUFFICES ASSUME d \notin raced' PROVE LockOf(d)'
    BY ZenonT(30) DEF LockOf
  <2>1. ASSUME NEW v \in Handlers \ {w}, job[v].dev = d, pc[v] \in Inside, took[v] # None
        PROVE  owner'[took[v]] = owner[took[v]]
    <3>1. owner[took[v]] = v /\ took[v] = mutex[d]
      BY <1>1, <1>2, <2>1, Working, ZenonT(30) DEF HandlerLock
    <3>2. owner[took[w]] = w /\ took[w] = mutex[d]
      BY <1>0, <1>1, <1>2, <2>1, <3>1, ZenonT(30) DEF HandlerLock, Inside
    <3> QED
      BY <3>1, <3>2, ZenonT(30)
  <2>2. job'[w].dev # d
    BY <1>2, <1>4, <1>5, Names, ZenonT(30)
  <2> QED
    BY <1>1, <1>2, <1>6, <2>1, <2>2, StillLocked, ZenonT(30)
<1>11. DataOf(d)'
  <2>1. ~Mid(w, d) /\ job'[w].dev # d
    BY <1>1, <1>2, <1>4, <1>5, Names, ZenonT(30) DEF Mid
  <2> QED
    BY <1>1, <1>2, <1>6, <2>1, StillAgrees, ZenonT(30)
<1> QED
  BY <1>2, <1>7, <1>8, <1>9, <1>10, <1>11, Assembled, ZenonT(30)
----------------------------------------------------------------------------
\* A step of the membership worker that touches no device.
LEMMA MemIdles ==
    ASSUME MInv, NEW t \in {"idle", "lockall", "apply"}, pc' = [pc EXCEPT !["mem"] = t],
           pc["mem"] \in {"idle", "lockall", "apply"},
           UNCHANGED <<list, heap, db, mutex, owner, readers, took, stale, raced>>,
           \/ job' = job /\ (t = "apply" \/ job["mem"] = NoJob)
           \/ job' = [job EXCEPT !["mem"] = NoJob],
           writer' \in {"no", "waiting", "held"}, MemTyped'
    PROVE  MInv'
<1> DEFINE w == "mem"
<1>1. w \in Workers /\ DataTyped /\ LockTyped /\ WorkTyped /\ MemTyped /\ w \notin Handlers
  BY Names, ZenonT(30) DEF MInv, Placed
<1>2. NoJob \in JobRec /\ NoJob.dev = None /\ NoJob.ptr = None
  BY TwinAssumption, ZenonT(30) DEF NoJob, Job, JobRec
<1>3. /\ pc'[w] = t /\ job' \in [Workers -> JobRec]
      /\ \A v \in Workers \ {w} : job'[v] = job[v]
      /\ job'[w] = NoJob \/ (t = "apply" /\ job'[w] = job[w])
  BY <1>1, <1>2, ZenonT(30) DEF WorkTyped
<1>4. Acts(w)
  BY <1>1, <1>3, ZenonT(30) DEF Acts, Places
<1>5. Touches(w, None)
  <2>1. pc[w] = "apply" \/ job[w] = NoJob
    BY <1>1, ZenonT(30) DEF MemTyped, MemBusy
  <2>2. Spares(w, None)
    BY <1>2, <1>3, <2>1, Names, ZenonT(30) DEF Spares
  <2>3. Refers(w, None)
    BY <1>1, <1>2, <1>3, Names, ZenonT(30) DEF Refers
  <2> QED
    BY <1>4, <2>2, <2>3, ZenonT(30) DEF Touches
<1>6. DataTyped' /\ LockTyped' /\ WorkTyped'
  <2>1. DataTyped' /\ LockTyped'
    BY <1>1, ZenonT(30) DEF DataTyped, LockTyped
  <2>2. /\ took' \in [Handlers -> Mutexes \cup {None}]
        /\ stale' \subseteq Devices /\ raced' \subseteq Devices
    BY <1>1, ZenonT(30) DEF WorkTyped
  <2> QED
    BY <1>1, <1>3, <1>4, <2>1, <2>2, WorkersTyped, ZenonT(30)
<1>7. Placed(w)'
  BY ZenonT(30) DEF Placed
<1> QED
  BY <1>1, <1>5, <1>6, <1>7, Assembled, Names, ZenonT(30)

\* The membership worker takes a message.
LEMMA MemMessageKeeps ==
    ASSUME MInv, NEW adds \in SUBSET Devices, NEW removes \in SUBSET Devices,
           MemUpdate(adds, removes) \/ MemDetail(adds)
    PROVE  MInv'
<1>1. MemTyped /\ WorkTyped /\ "mem" \in Workers
  BY Names, ZenonT(30) DEF MInv, Placed
<1>2. pc["mem"] = "idle" /\ job["mem"] = NoJob /\ writer = "no" /\ NoJob.ptr = None
  BY <1>1, ZenonT(30) DEF MemUpdate, MemDetail, MemTyped, MemBusy, NoJob, Job
<1>3. CASE MemUpdate(adds, removes)
  <2>1. /\ pc' = [pc EXCEPT !["mem"] = "apply"]
        /\ UNCHANGED <<list, heap, db, mutex, owner, readers, writer, took, job, stale, raced>>
        /\ mem' = [NoMem EXCEPT !.kind = "update", !.adds = adds, !.removes = removes]
    BY <1>3, ZenonT(30) DEF MemUpdate, Goto, data, locks, history
  <2>2. mem' \in MemRec /\ mem'.kind = "update"
    BY <2>1, ZenonT(30) DEF NoMem, MemRec
  <2>3. MemTyped'
    BY <1>1, <1>2, <2>1, <2>2, ZenonT(30) DEF MemTyped, WorkTyped
  <2> QED
    BY <1>2, <2>1, <2>3, MemIdles, ZenonT(30)
<1>4. CASE MemDetail(adds)
  <2>1. /\ pc' = [pc EXCEPT !["mem"] = "lockall"] /\ writer' = "waiting"
        /\ UNCHANGED <<list, heap, db, mutex, owner, readers, took, job, stale, raced>>
        /\ mem' = [NoMem EXCEPT !.kind = "detail", !.adds = adds, !.keep = adds]
    BY <1>4, ZenonT(30) DEF MemDetail, Goto, data, history
  <2>2. mem' \in MemRec /\ mem'.kind = "detail"
    BY <2>1, ZenonT(30) DEF NoMem, MemRec
  <2>3. MemTyped'
    BY <1>1, <1>2, <2>1, <2>2, ZenonT(30) DEF MemTyped, WorkTyped
  <2> QED
    BY <1>2, <2>1, <2>3, MemIdles, ZenonT(30)
<1> QED
  BY <1>3, <1>4, ZenonT(30)

\* It locks all devices, computes what to remove, and is done.
LEMMA MemControlKeeps ==
    ASSUME MInv,
           \/ LockAll \/ GetRemoveList \/ MemDone
           \/ \E d \in Devices : RemoveRows(d) /\ list[d] = None
    PROVE  MInv'
<1>1. MemTyped /\ WorkTyped /\ "mem" \in Workers /\ mem \in MemRec
  BY Names, ZenonT(30) DEF MInv, Placed, MemTyped
<1>2. NoJob.ptr = None /\ NoMem \in MemRec
  BY ZenonT(30) DEF NoJob, Job, NoMem, MemRec
<1>3. pc["mem"] = "apply" =>
        /\ pc = [pc EXCEPT !["mem"] = "apply"] /\ job["mem"].ptr = None
        /\ writer = IF mem.kind \in {"detail", "remove"} THEN "held" ELSE "no"
  BY <1>1, ZenonT(30) DEF MemTyped, WorkTyped
<1>4. CASE LockAll
  <2>1. /\ pc["mem"] = "lockall" /\ pc' = [pc EXCEPT !["mem"] = "apply"] /\ writer' = "held"
        /\ UNCHANGED <<list, heap, db, mutex, owner, readers, took, job, mem, stale, raced>>
    BY <1>4, ZenonT(30) DEF LockAll, Goto, data, history
  <2>2. MemTyped'
    BY <1>1, <2>1, ZenonT(30) DEF MemTyped, WorkTyped
  <2> QED
    BY <2>1, <2>2, MemIdles, ZenonT(30)
<1>5. CASE GetRemoveList
  <2>1. /\ pc["mem"] = "apply" /\ mem.kind = "detail"
        /\ mem' = [mem EXCEPT !.kind = "remove", !.keep = {},
                              !.removes = {d \in Devices : list[d] # None} \ mem.keep]
        /\ UNCHANGED <<list, heap, db, mutex, owner, readers, writer, pc, took, job, stale, raced>>
    BY <1>5, ZenonT(30) DEF GetRemoveList, data, locks, history
  <2>2. mem' \in MemRec /\ mem'.kind = "remove"
    BY <1>1, <2>1, ZenonT(30) DEF MemRec
  <2>3. MemTyped'
    BY <1>3, <2>1, <2>2, ZenonT(30) DEF MemTyped
  <2> QED
    BY <1>3, <2>1, <2>3, MemIdles, ZenonT(30) DEF MemTyped
<1>6. CASE MemDone
  <2>1. /\ pc["mem"] = "apply" /\ pc' = [pc EXCEPT !["mem"] = "idle"]
        /\ writer' = IF writer = "held" THEN "no" ELSE writer
        /\ mem' = NoMem /\ job' = [job EXCEPT !["mem"] = NoJob]
        /\ UNCHANGED <<list, heap, db, mutex, owner, readers, took, stale, raced>>
    BY <1>6, ZenonT(30) DEF MemDone, Goto, data, history
  <2>2. writer' = "no" /\ job'["mem"] = NoJob /\ pc'["mem"] = "idle"
    BY <1>1, <1>3, <2>1, ZenonT(30) DEF WorkTyped
  <2>3. MemTyped'
    BY <1>2, <2>1, <2>2, ZenonT(30) DEF MemTyped
  <2> QED
    BY <2>1, <2>2, <2>3, MemIdles, ZenonT(30)
<1>7. ASSUME NEW d \in Devices, RemoveRows(d), list[d] = None PROVE MInv'
  <2>1. /\ pc["mem"] = "apply" /\ mem' = [mem EXCEPT !.removes = @ \ {d}]
        /\ UNCHANGED <<list, heap, db, mutex, owner, readers, writer, pc, took, job, stale, raced>>
    BY <1>7, ZenonT(30) DEF RemoveRows, locks, history
  <2>2. mem' \in MemRec /\ mem'.kind = mem.kind
    BY <1>1, <2>1, ZenonT(30) DEF MemRec
  <2>3. MemTyped'
    BY <1>3, <2>1, <2>2, ZenonT(30) DEF MemTyped
  <2> QED
    BY <1>3, <2>1, <2>3, MemIdles, ZenonT(30) DEF MemTyped
<1> QED
  BY <1>4, <1>5, <1>6, <1>7, ZenonT(30)
\* The membership worker turns to a device.
LEMMA MemTurns ==
    ASSUME MInv, NEW d \in Devices, NEW j \in JobRec, NEW t \in MemBusy,
           pc["mem"] = "apply", pc' = [pc EXCEPT !["mem"] = t], job' = [job EXCEPT !["mem"] = j],
           j.dev = d, j.ptr = None, t \in {"deal", "db", "sync"} => j.kind = "attr",
           mem' \in MemRec, mem'.kind = mem.kind,
           UNCHANGED <<owner, readers, writer, took>>, Meet(d),
           DataTyped', mutex' \in [Devices -> Mutexes \cup {None}], stale' \subseteq Devices,
           \A x \in Devices \ {d} : /\ list'[x] = list[x] /\ mutex'[x] = mutex[x] /\ db'[x] = db[x]
                                    /\ x \in stale' <=> x \in stale,
           list'[d] = list[d] \/ (SpareObjects # {} /\ list'[d] = NewObject),
           mutex'[d] = mutex[d] \/ (SpareMutexes # {} /\ mutex'[d] = NewMutex),
           \A o \in Objects : heap'[o] # heap[o] => SpareObjects # {} /\ o = NewObject,
           list'[d] # None, d \notin raced => mutex'[d] # None,
           t = "adddb" => owner[mutex'[d]] = None,
           d \notin raced' \cup stale' =>
              (d \notin raced \cup stale /\ Agree(d) => Agree(d)' \/ Mid("mem", d)') /\ MidOK("mem", d)',
           d \in stale => d \in stale'
    PROVE  MInv'
<1> DEFINE w == "mem"
<1>1. /\ w \in Workers /\ DataTyped /\ LockTyped /\ WorkTyped /\ MemTyped /\ w \notin Handlers
      /\ LockOf(d) /\ DataOf(d)
  BY Names, ZenonT(30) DEF MInv, Placed
<1>2. /\ pc'[w] = t /\ job' \in [Workers -> JobRec] /\ job'[w] = j
      /\ \A v \in Workers \ {w} : job'[v] = job[v] /\ pc'[v] = pc[v]
  BY <1>1, ZenonT(30) DEF WorkTyped
<1>3. Acts(w)
  BY <1>1, <1>2, ZenonT(30) DEF Acts, Places, MemBusy
<1>4. raced \subseteq raced' /\ raced' \subseteq raced \cup {d} /\ raced' \subseteq Devices
  BY <1>1, ZenonT(30) DEF Meet, WorkTyped
<1>5. Touches(w, d)
  <2>1. Spares(w, d)
    BY <1>2, <1>4, ZenonT(30) DEF Spares
  <2>2. Refers(w, d)
    BY <1>1, <1>2, ZenonT(30) DEF Refers
  <2> QED
    BY <1>3, <2>1, <2>2, ZenonT(30) DEF Touches
<1>6. LockTyped' /\ WorkTyped'
  <2>1. LockTyped'
    BY <1>1, ZenonT(30) DEF LockTyped
  <2>2. took' \in [Handlers -> Mutexes \cup {None}]
    BY <1>1, ZenonT(30) DEF WorkTyped
  <2> QED
    BY <1>1, <1>2, <1>3, <1>4, <2>1, <2>2, WorkersTyped, ZenonT(30)
<1>7. Placed(w)'
  <2>1. writer = IF mem.kind \in {"detail", "remove"} THEN "held" ELSE "no"
    BY <1>1, ZenonT(30) DEF MemTyped
  <2>2. MemTyped'
    BY <1>2, <2>1, ZenonT(30) DEF MemTyped, MemBusy
  <2> QED
    BY <2>2, ZenonT(30) DEF Placed
<1>8. ASSUME d \notin raced' PROVE LockOf(d)' /\ DataOf(d)'
  <2>1. \A v \in Handlers : job[v].dev # d /\ job'[v].dev # d
    BY <1>1, <1>2, <1>8, Names, ZenonT(30) DEF Meet, Busy
  <2>2. LockOf(d)'
    BY <1>2, <1>4, <1>8, <2>1, ZenonT(30) DEF LockOf
  <2>3. ASSUME d \notin stale' PROVE Agree(d)' \/ Mid(w, d)'
    <3>1. \A v \in Workers : ~Mid(v, d)
      BY <2>1, Names, ZenonT(30) DEF Mid
    <3>2. d \notin raced \cup stale /\ Agree(d)
      BY <1>1, <1>4, <1>8, <2>3, <3>1, ZenonT(30) DEF DataOf
    <3> QED
      BY <1>8, <2>3, <3>2, ZenonT(30)
  <2>4. DataOf(d)'
    BY <1>1, <1>8, <2>1, <2>3, Names, ZenonT(30) DEF DataOf
  <2> QED
    BY <2>2, <2>4, ZenonT(30)
<1>9. LockOf(d)' /\ DataOf(d)'
  BY <1>8, ZenonT(30) DEF LockOf, DataOf
<1> QED
  BY <1>1, <1>5, <1>6, <1>7, <1>9, Assembled, ZenonT(30)

\* addDevice puts a new device in memory, or deals with the attributes of one
\* that is there.
LEMMA AddDeviceKeeps ==
    ASSUME MInv, NEW d \in Devices, AddDevice(d) PROVE MInv'
<1> DEFINE j == Job(d, "attr", Initial, None, FALSE)
<1>1. /\ DataTyped /\ LockTyped /\ WorkTyped /\ MemTyped /\ LockOf(d) /\ "mem" \in Workers
      /\ NewDevice \in Structures
  BY Names, RowsFit, ZenonT(30) DEF MInv, Placed
<1>2. /\ pc["mem"] = "apply" /\ mem' = [mem EXCEPT !.adds = @ \ {d}]
      /\ job' = [job EXCEPT !["mem"] = j] /\ Meet(d)
      /\ UNCHANGED <<db, owner, readers, writer, took, stale>>
  BY ZenonT(30) DEF AddDevice
<1>3. j \in JobRec /\ j.dev = d /\ j.ptr = None /\ j.kind = "attr"
  BY TwinAssumption, ZenonT(30) DEF Job, JobRec
<1> HIDE DEF j
<1>4. mem' \in MemRec /\ mem'.kind = mem.kind
  BY <1>1, <1>2, ZenonT(30) DEF MemTyped, MemRec
<1>5. raced \subseteq raced'
  BY <1>2, ZenonT(30) DEF Meet
<1>6. CASE list[d] # None
  <2>1. pc' = [pc EXCEPT !["mem"] = "deal"] /\ UNCHANGED <<list, heap, mutex>>
    BY <1>6, ZenonT(30) DEF AddDevice, Goto
  <2>2. /\ DataTyped' /\ mutex' \in [Devices -> Mutexes \cup {None}] /\ stale' \subseteq Devices
        /\ list'[d] # None /\ (d \notin raced => mutex'[d] # None) /\ pc'["mem"] = "deal"
    BY <1>1, <1>2, <1>6, <2>1, ZenonT(30) DEF DataTyped, LockTyped, WorkTyped, LockOf
  <2>3. (Agree(d) => Agree(d)') /\ MidOK("mem", d)'
    BY <1>2, <2>1, <2>2, ZenonT(30) DEF Agree, HasValue, MidOK
  <2>4. "deal" \in MemBusy
    BY ZenonT(30) DEF MemBusy
  <2> QED
    BY <1>2, <1>3, <1>4, <2>1, <2>2, <2>3, <2>4, MemTurns, ZenonT(30)
<1>7. CASE list[d] = None
  <2>1. /\ pc' = [pc EXCEPT !["mem"] = "adddb"] /\ SpareMutexes # {} /\ SpareObjects # {}
        /\ mutex' = [mutex EXCEPT ![d] = NewMutex] /\ list' = [list EXCEPT ![d] = NewObject]
        /\ heap' = [heap EXCEPT ![NewObject] = NewDevice]
    BY <1>7, ZenonT(30) DEF AddDevice, Goto
  <2>2. /\ NewObject \in Objects /\ NewObject # None /\ NewMutex \in Mutexes /\ NewMutex # None
        /\ owner[NewMutex] = None
    BY <2>1, Fresh, ZenonT(30)
  <2>3. /\ DataTyped' /\ mutex' \in [Devices -> Mutexes \cup {None}] /\ stale' \subseteq Devices
        /\ list'[d] = NewObject /\ mutex'[d] = NewMutex /\ pc'["mem"] = "adddb"
        /\ heap'[NewObject] = NewDevice
        /\ \A x \in Devices \ {d} : list'[x] = list[x] /\ mutex'[x] = mutex[x]
        /\ \A o \in Objects : heap'[o] # heap[o] => o = NewObject
    BY <1>1, <1>2, <2>1, <2>2, ZenonT(30) DEF DataTyped, LockTyped, WorkTyped
  <2>4. job'["mem"] = j
    BY <1>1, <1>2, ZenonT(30) DEF WorkTyped
  <2>5. Mid("mem", d)' /\ MidOK("mem", d)'
    <3>1. Mid("mem", d)'
      BY <1>3, <2>3, <2>4, ZenonT(30) DEF Mid
    <3>2. list'[d] # None /\ heap'[list'[d]] = NewDevice
      BY <2>2, <2>3, ZenonT(30)
    <3> QED
      BY <2>3, <3>1, <3>2, ZenonT(30) DEF MidOK
  <2>6. "adddb" \in MemBusy /\ owner[mutex'[d]] = None /\ mutex'[d] # None /\ list'[d] # None
    BY <2>2, <2>3, ZenonT(30) DEF MemBusy
  <2>7. /\ \A x \in Devices \ {d} : /\ list'[x] = list[x] /\ mutex'[x] = mutex[x] /\ db'[x] = db[x]
                                    /\ x \in stale' <=> x \in stale
        /\ \A o \in Objects : heap'[o] # heap[o] => SpareObjects # {} /\ o = NewObject
        /\ SpareObjects # {} /\ list'[d] = NewObject /\ SpareMutexes # {} /\ mutex'[d] = NewMutex
    BY <1>2, <2>1, <2>3, ZenonT(30)
  <2>8. /\ pc' = [pc EXCEPT !["mem"] = "adddb"] /\ DataTyped'
        /\ mutex' \in [Devices -> Mutexes \cup {None}] /\ stale' \subseteq Devices
        /\ d \in stale => d \in stale'
    BY <1>2, <2>1, <2>3, ZenonT(30)
  <2> QED
    BY <1>2, <1>3, <1>4, <2>5, <2>6, <2>7, <2>8, MemTurns, ZenonT(30)
<1> QED
  BY <1>6, <1>7, ZenonT(30)

\* removeDevice deletes the row first.
LEMMA RemoveRowsKeeps ==
    ASSUME MInv, NEW d \in Devices, RemoveRows(d), list[d] # None PROVE MInv'
<1> DEFINE j == Job(d, None, Initial, None, FALSE)
<1>1. DataTyped /\ LockTyped /\ WorkTyped /\ MemTyped /\ LockOf(d) /\ "mem" \in Workers
  BY Names, ZenonT(30) DEF MInv, Placed
<1>2. /\ pc["mem"] = "apply" /\ mem' = [mem EXCEPT !.removes = @ \ {d}]
      /\ job' = [job EXCEPT !["mem"] = j] /\ Meet(d) /\ pc' = [pc EXCEPT !["mem"] = "remove"]
      /\ UNCHANGED <<list, heap, mutex, owner, readers, writer, took>>
      /\ \/ db' = [db EXCEPT ![d] = Absent] /\ stale' = stale
         \/ stale' = stale \cup {d} /\ db' = db
  BY ZenonT(30) DEF RemoveRows, Goto, locks
<1>3. j \in JobRec /\ j.dev = d /\ j.ptr = None
  BY TwinAssumption, ZenonT(30) DEF Job, JobRec
<1> HIDE DEF j
<1>4. mem' \in MemRec /\ mem'.kind = mem.kind
  BY <1>1, <1>2, ZenonT(30) DEF MemTyped, MemRec
<1>5. /\ DataTyped' /\ mutex' \in [Devices -> Mutexes \cup {None}] /\ stale' \subseteq Devices
      /\ list'[d] # None /\ (d \notin raced => mutex'[d] # None) /\ pc'["mem"] = "remove"
      /\ \A x \in Devices \ {d} : db'[x] = db[x] /\ (x \in stale' <=> x \in stale)
      /\ d \notin stale' => db'[d] = Absent
  BY <1>1, <1>2, ZenonT(30) DEF DataTyped, LockTyped, WorkTyped, LockOf
<1>6. job'["mem"] = j
  BY <1>1, <1>2, ZenonT(30) DEF WorkTyped
<1>7. d \notin stale' => Mid("mem", d)' /\ MidOK("mem", d)'
  BY <1>3, <1>5, <1>6, ZenonT(30) DEF Mid, MidOK
<1>8. "remove" \in MemBusy
  BY ZenonT(30) DEF MemBusy
<1> QED
  BY <1>2, <1>3, <1>4, <1>5, <1>7, <1>8, MemTurns, ZenonT(30)

\* addDevice takes the device back when the row could not be stored.
LEMMA AddFailsKeeps ==
    ASSUME MInv, AddFails PROVE MInv'
<1> DEFINE w == "mem"
           d == job[w].dev
<1>1. /\ pc[w] = "adddb" /\ Unlock(d, w, "apply")
      /\ list' = [list EXCEPT ![d] = None]
      /\ UNCHANGED <<heap, db, mutex, writer, job, took, mem, stale, raced>>
  BY ZenonT(30) DEF AddFails
<1>2. /\ DataTyped /\ LockTyped /\ WorkTyped /\ MemTyped /\ w \in Workers /\ w \notin Handlers
      /\ d \in Devices
  BY <1>1, Names, Middle, ZenonT(30) DEF MInv, Placed
<1>3. /\ pc' = Fatal \/ pc' = [pc EXCEPT ![w] = "apply"]
      /\ owner' \in [Mutexes -> Handlers \cup {None}] /\ readers' \in Nat
      /\ \A m \in Mutexes : owner'[m] # owner[m] => m = mutex[d]
  BY <1>1, <1>2, Unlocked, ZenonT(30)
<1>4. pc'[w] = "dead" \/ pc'[w] = "apply"
  BY <1>2, <1>3, ZenonT(30) DEF WorkTyped, Fatal
<1>5. Acts(w)
  BY <1>1, <1>2, <1>3, ZenonT(30) DEF Acts, Places
<1>6. Touches(w, d)
  <2>1. Spares(w, d)
    BY <1>1, <1>2, <1>3, ZenonT(30) DEF Spares, DataTyped
  <2>2. Refers(w, d)
    BY <1>1, <1>2, ZenonT(30) DEF Refers, DataTyped
  <2> QED
    BY <1>5, <2>1, <2>2, ZenonT(30) DEF Touches
<1>7. DataTyped' /\ LockTyped' /\ WorkTyped'
  <2>1. DataTyped' /\ LockTyped'
    BY <1>1, <1>2, <1>3, ZenonT(30) DEF DataTyped, LockTyped
  <2>2. /\ job' \in [Workers -> JobRec] /\ took' \in [Handlers -> Mutexes \cup {None}]
        /\ stale' \subseteq Devices /\ raced' \subseteq Devices
    BY <1>1, <1>2, ZenonT(30) DEF WorkTyped
  <2> QED
    BY <1>2, <1>5, <2>1, <2>2, WorkersTyped, ZenonT(30)
<1>8. Placed(w)'
  <2>1. MemTyped'
    BY <1>1, <1>2, <1>4, ZenonT(30) DEF MemTyped
  <2> QED
    BY <2>1, ZenonT(30) DEF Placed
<1>9. ASSUME d \notin raced PROVE LockOf(d)' /\ DataOf(d)'
  <2>1. mutex[d] # None /\ owner[mutex[d]] = None
    BY <1>1, <1>2, <1>9, Middle, ZenonT(30) DEF MInv, LockOf
  <2>2. pc' = Fatal
    BY <1>1, <2>1, ZenonT(30) DEF Unlock
  <2>3. (\A v \in Workers : pc'[v] = "dead") /\ Handlers \subseteq Workers
    BY <2>2, Names, ZenonT(30) DEF Fatal
  <2>4. LockOf(d)'
    BY <1>2, <2>3, ZenonT(30) DEF LockOf, MemBusy
  <2>5. Mid(w, d)'
    BY <1>1, <1>2, <2>3, ZenonT(30) DEF Mid
  <2>6. \A v \in Workers : MidOK(v, d)'
    BY <2>3, ZenonT(30) DEF MidOK
  <2> QED
    BY <1>2, <2>4, <2>5, <2>6, ZenonT(30) DEF DataOf
<1>10. LockOf(d)' /\ DataOf(d)' /\ job' = job
  BY <1>1, <1>9, ZenonT(30) DEF LockOf, DataOf
<1> QED
  BY <1>2, <1>6, <1>7, <1>8, <1>10, Assembled, ZenonT(30)
----------------------------------------------------------------------------
\* Initially memory holds what SyncSqlite found, and nobody is at work.
LEMMA MInit == Init => MInv
<1> SUFFICES ASSUME Init PROVE MInv
  OBVIOUS
<1> DEFINE entry == CHOOSE f \in Injection(Known, Objects) : TRUE
           lock == CHOOSE f \in Injection(Known, Mutexes) : TRUE
<1>1. entry \in Injection(Known, Objects) /\ lock \in Injection(Known, Mutexes)
  BY TwinAssumption, ZenonT(30)
<1>2. /\ entry \in [Known -> Objects] /\ \A d, e \in Known : entry[d] = entry[e] => d = e
      /\ lock \in [Known -> Mutexes] /\ \A d, e \in Known : lock[d] = lock[e] => d = e
  BY <1>1, ZenonT(30) DEF Injection, IsInjective
<1>3. /\ list = [d \in Devices |-> IF d \in Known THEN entry[d] ELSE None]
      /\ mutex = [d \in Devices |-> IF d \in Known THEN lock[d] ELSE None]
  BY ZenonT(30) DEF Init
<1> HIDE DEF entry, lock
<1>4. /\ heap = [o \in Objects |-> NewDevice]
      /\ db = [d \in Devices |-> IF d \in Known THEN NewDevice ELSE Absent]
      /\ owner = [m \in Mutexes |-> None] /\ readers = 0 /\ writer = "no"
      /\ pc = [w \in Workers |-> "idle"]
      /\ job = [w \in Workers |-> NoJob] /\ took = [w \in Handlers |-> None]
      /\ mem = NoMem /\ stale = {} /\ raced = {}
  BY ZenonT(30) DEF Init
<1>5. /\ NewDevice \in Contents /\ NoJob \in JobRec /\ NoJob.dev = None /\ NoJob.ptr = None
      /\ NoMem \in MemRec
  BY TwinAssumption, RowsFit, ZenonT(30) DEF NoJob, Job, JobRec, NoMem, MemRec
<1>6. DataTyped
  BY <1>2, <1>3, <1>4, <1>5, RowsFit, ZenonT(30) DEF DataTyped
<1>7. LockTyped
  BY <1>2, <1>3, <1>4, ZenonT(30) DEF LockTyped
<1>8. WorkTyped
  BY <1>4, <1>5, ZenonT(30) DEF WorkTyped, Places
<1>9. \A w \in Workers : Placed(w)
  BY <1>4, <1>5, Names, ZenonT(30) DEF Placed, MemTyped, HandlerTyped
<1>10. Apart
  <2>1. \A d, e \in Devices : list[d] = list[e] /\ list[d] # None => d = e
    BY <1>2, <1>3, Names, ZenonT(30)
  <2>2. \A d, e \in Devices : mutex[d] = mutex[e] /\ mutex[d] # None => d = e
    BY <1>2, <1>3, Names, ZenonT(30)
  <2> QED
    BY <1>4, <1>5, <2>1, <2>2, Names, ZenonT(30) DEF Apart
<1>11. ASSUME NEW d \in Devices PROVE LockOf(d) /\ DataOf(d)
  <2>1. \A w \in Workers : job[w].dev # d
    BY <1>4, <1>5, Names, ZenonT(30)
  <2>2. mutex[d] = None <=> list[d] = None
    BY <1>2, <1>3, Names
  <2>3. LockOf(d)
    BY <1>4, <2>1, <2>2, Names, ZenonT(30) DEF LockOf
  <2>4. Agree(d)
    <3>1. d \in Known => list[d] \in Objects /\ heap[list[d]] = db[d] /\ db[d] = NewDevice
      BY <1>2, <1>3, <1>4, ZenonT(30)
    <3>2. d \notin Known => list[d] = None /\ db[d] = Absent
      BY <1>3, <1>4, ZenonT(30)
    <3> QED
      BY <3>1, <3>2, RowsFit, Names, ZenonT(30) DEF Agree, HasValue
  <2> QED
    BY <2>1, <2>3, <2>4, ZenonT(30) DEF DataOf
<1> QED
  BY <1>6, <1>7, <1>8, <1>9, <1>10, <1>11, ZenonT(30) DEF MInv

\* Every step keeps the invariant.
LEMMA MStep == MInv /\ [Next]_vars => MInv'
<1> SUFFICES ASSUME MInv, [Next]_vars PROVE MInv'
  OBVIOUS
<1>1. CASE UNCHANGED vars
  <2>1. /\ UNCHANGED <<list, heap, db, mutex, owner, readers, writer>>
        /\ UNCHANGED <<pc, job, took, mem, stale, raced>>
    BY <1>1, ZenonT(30) DEF vars
  <2>2. DataTyped' /\ LockTyped' /\ WorkTyped' /\ Apart'
    BY <2>1, ZenonT(30) DEF MInv, DataTyped, LockTyped, WorkTyped, Apart
  <2>3. \A w \in Workers : Placed(w)'
    BY <2>1, ZenonT(30) DEF MInv, Placed, MemTyped, HandlerTyped
  <2>4. \A d \in Devices : LockOf(d)'
    BY <2>1, ZenonT(30) DEF MInv, LockOf, HandlerLock
  <2>5. \A d \in Devices : DataOf(d)'
    BY <2>1 DEF MInv, DataOf, Mid, MidOK, Agree, AgreeBut, HasValue
  <2> QED
    BY <2>2, <2>3, <2>4, <2>5, ZenonT(30) DEF MInv
<1>2. CASE Message
  <2>1. ASSUME NEW d \in Devices, MemUpdate({d}, {}) \/ MemUpdate({}, {d}) PROVE MInv'
    BY <2>1, MemMessageKeeps
  <2>2. ASSUME NEW devices \in SUBSET Devices, MemDetail(devices) PROVE MInv'
    BY <2>2, MemMessageKeeps, ZenonT(30)
  <2> QED
    BY <1>2, <2>1, <2>2, StartHolds, ZenonT(30) DEF Message
<1>3. CASE MemStep
  <2>1. ASSUME NEW d \in Devices, RemoveRows(d) PROVE MInv'
    BY <2>1, MemControlKeeps, RemoveRowsKeeps, ZenonT(30)
  <2>2. CASE DealAttr("mem") \/ Store("mem") \/ StoreFails("mem") \/ Sync("mem")
    BY <2>2, Names, DealAttrKeeps, StoreKeeps, StoreFailsKeeps, SyncKeeps, ZenonT(30)
  <2> QED
    BY <1>3, <2>1, <2>2, MemControlKeeps, AddDeviceKeeps, MemEndKeeps, AddFailsKeeps, ZenonT(30) DEF MemStep
<1>4. ASSUME NEW w \in Handlers, HandlerStep(w) PROVE MInv'
  <2>1. CASE RLock(w) \/ MLock(w) \/ Finish(w) \/ Get(w) \/ DealTwin(w) \/ PutTwin(w) \/ SetState(w)
    BY <2>1, LockHolds, FinishHolds, GetKeeps, DealTwinKeeps, PutTwinKeeps, SetStateKeeps, ZenonT(30)
  <2>2. CASE DealAttr(w) \/ Store(w) \/ StoreFails(w) \/ Sync(w)
    BY <2>2, Names, DealAttrKeeps, StoreKeeps, StoreFailsKeeps, SyncKeeps, ZenonT(30)
  <2> QED
    BY <1>4, <2>1, <2>2, ZenonT(30) DEF HandlerStep
<1> QED
  BY <1>1, <1>2, <1>3, <1>4, ZenonT(30) DEF Next

\* What SQLite refuses to insert is a device.
LEMMA RefusedStep == MInv /\ refused \subseteq Devices /\ [Next]_vars => (refused \subseteq Devices)'
<1> SUFFICES ASSUME MInv, refused \subseteq Devices, [Next]_vars PROVE refused' \subseteq Devices
  OBVIOUS
<1>1. AddFails => job["mem"].dev \in Devices /\ refused' = refused \cup {job["mem"].dev}
  BY Middle, Names, ZenonT(30) DEF AddFails
<1>2. CASE UNCHANGED vars
  BY <1>2, ZenonT(30) DEF vars
<1>3. CASE Message
  BY <1>3, ZenonT(30) DEF Message, Start, MemUpdate, MemDetail, history
<1>4. CASE MemStep
  BY <1>1, <1>4, ZenonT(30) DEF MemStep, LockAll, AddDevice, RemoveRows, AddStored, DealAttr, Store,
              StoreFails, Sync, GetRemoveList, RemoveEntry, MemDone, history
<1>5. ASSUME NEW w \in Handlers, HandlerStep(w) PROVE refused' \subseteq Devices
  BY <1>5, ZenonT(30) DEF HandlerStep, RLock, MLock, Finish, Get, DealTwin, PutTwin, DealAttr, Store,
              StoreFails, SetState, Sync, history
<1> QED
  BY <1>2, <1>3, <1>4, <1>5, ZenonT(30) DEF Next

\* The types of the device twin's state, and the write lock of the context is
\* held exactly while dealMembershipDetail is at work.
THEOREM TwinTyped == Spec => []TypeOK
<1>1. MInv /\ refused \subseteq Devices => TypeOK
  <2> SUFFICES ASSUME MInv, refused \subseteq Devices PROVE TypeOK
    OBVIOUS
  <2>1. DataTyped /\ LockTyped /\ WorkTyped /\ MemTyped
    BY Names, ZenonT(30) DEF MInv, Placed
  <2>2. pc # Fatal => (writer = "held" <=> /\ pc["mem"] \notin {"idle", "lockall"}
                                           /\ mem.kind \in {"detail", "remove"})
    BY <2>1, Names, ZenonT(30) DEF MemTyped, WorkTyped
  <2> QED
    BY <2>1, <2>2, ZenonT(30) DEF TypeOK, DataTyped, LockTyped, WorkTyped, JobRec
<1>2. Init => refused \subseteq Devices
  BY ZenonT(30) DEF Init
<1> QED
  BY <1>1, <1>2, MInit, MStep, RefusedStep, PTL DEF Spec

\* A device that no worker is busy with is in memory what it is in SQLite, but
\* for a twin of which the cloud has deleted a part only, as long as no membership
\* change has met a handler on the device and its last removal or
\* resynchronisation has not failed.
THEOREM StoreIsMatched == Spec => []MemoryMatchesStore
<1>1. MInv => MemoryMatchesStore
  <2> SUFFICES ASSUME MInv, NEW d \in Devices \ (raced \cup stale),
                      \A w \in Workers : job[w].dev # d
               PROVE  Agree(d)
    BY ZenonT(30) DEF MemoryMatchesStore, Agree, HasValue
  <2>1. DataOf(d)
    BY ZenonT(30) DEF MInv
  <2> QED
    BY <2>1, ZenonT(30) DEF DataOf, Mid
<1> QED
  BY <1>1, MInit, MStep, PTL DEF Spec
============================================================================
