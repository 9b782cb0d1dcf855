----------------------------- MODULE DeviceTwin -----------------------------
(***************************************************************************)
(* The device twin of an edge node: the twin worker, the device worker and *)
(* the membership worker share the device list in memory, the tables in    *)
(* SQLite, one mutex per device kept in a map, and the read-write lock of  *)
(* the context.  Lock and Unlock both look the device's mutex up in the    *)
(* map, and membership changes replace or delete it there.                 *)
(*                                                                         *)
(* A device is reduced to one twin, one attribute and its state; Initial   *)
(* stands for a twin or an attribute that is not there.  The membership    *)
(* messages of this cloud carry neither twins nor attributes.  The device  *)
(* list holds pointers: heap is what they point to.                        *)
(***************************************************************************)
EXTENDS Integers, Functions

CONSTANTS Devices,  \* device IDs
          Known,    \* the devices SyncSqlite finds when the module starts
          Vals,     \* values of a twin, an attribute or a state
          Initial,  \* the values of a new device
          Half,     \* a twin in memory of which the cloud has deleted a part only
          Absent,   \* there are no rows
          Objects,  \* identities of Device structures
          Mutexes,  \* identities of device mutexes
          Budgets   \* bounds: msgs to the twin and the device worker, mems to the
                    \* membership worker, fails: statements SQLite keeps refusing

ASSUME TwinAssumption ==
    /\ Known \subseteq Devices /\ Initial \in Vals /\ Half \notin Vals
    /\ "none" \notin Devices \cup Objects \cup Mutexes
    /\ Injection(Known, Objects) # {} /\ Injection(Known, Mutexes) # {}
    /\ Absent \notin [twin : Vals, attr : Vals, state : Vals]
    /\ Budgets \subseteq [msgs : Nat, mems : Nat, fails : Nat]

VARIABLES list,    \* DeviceList
          heap,    \* the Device structures
          db,      \* the rows of SQLite
          mutex,   \* DeviceMutex
          owner,   \* who holds each mutex
          readers, \* read locks of the context's RWMutex
          writer,  \* its write lock: "no", "waiting" or "held"
          pc,      \* where each worker is
          job,     \* the device each worker is busy with, and what it does to it
          took,    \* the mutex that Lock found for the twin and the device worker
          mem,     \* the message of the membership worker
          left,    \* what the bounds still allow
          stale,   \* history: devices whose resynchronisation or removal failed
          raced,   \* history: devices a membership change met a handler on
          refused  \* history: new devices whose rows SQLite would not insert

vars == <<list, heap, db, mutex, owner, readers, writer, pc, job, took, mem, left, stale,
          raced, refused>>
data == <<list, heap, db>>
locks == <<mutex, owner, readers, writer>>
history == <<stale, raced, refused>>

None == "none"
Handlers == {"twin", "device"}
Workers == Handlers \cup {"mem"}
Kinds(w) == IF w = "twin" THEN {"twin"} ELSE {"attr", "state"}
Contents == [twin : Vals, attr : Vals, state : Vals]
Structures == [twin : Vals \cup {Half}, attr : Vals, state : Vals]
NewDevice == [twin |-> Initial, attr |-> Initial, state |-> Initial]
Job(d, kind, v, o, write) == [dev |-> d, kind |-> kind, val |-> v, ptr |-> o, write |-> write]
NoJob == Job(None, None, Initial, None, FALSE)
NoMem == [kind |-> None, adds |-> {}, removes |-> {}, keep |-> {}]

\* A new Device structure, and a new mutex: ones that nobody refers to.
SpareObjects == {o \in Objects : /\ \A d \in Devices : list[d] # o
                                 /\ \A w \in Workers : job[w].ptr # o}
NewObject == CHOOSE o \in SpareObjects : TRUE
SpareMutexes == {m \in Mutexes : /\ owner[m] = None
                                 /\ \A d \in Devices : mutex[d] # m
                                 /\ \A w \in Handlers : took[w] # m}
NewMutex == CHOOSE m \in SpareMutexes : TRUE

\* SyncSqlite has loaded what the tables hold.
Init ==
    /\ LET first(S) == CHOOSE f \in Injection(Known, S) : TRUE
       IN /\ list = [d \in Devices |-> IF d \in Known THEN first(Objects)[d] ELSE None]
          /\ mutex = [d \in Devices |-> IF d \in Known THEN first(Mutexes)[d] ELSE None]
    /\ heap = [o \in Objects |-> NewDevice]
    /\ db = [d \in Devices |-> IF d \in Known THEN NewDevice ELSE Absent]
    /\ owner = [m \in Mutexes |-> None]
    /\ readers = 0 /\ writer = "no"
    /\ pc = [w \in Workers |-> "idle"]
    /\ job = [w \in Workers |-> NoJob] /\ took = [w \in Handlers |-> None]
    /\ mem = NoMem
    /\ left \in Budgets
    /\ stale = {} /\ raced = {} /\ refused = {}

Fatal == [w \in Workers |-> "dead"]
Goto(w, place) == pc' = [pc EXCEPT ![w] = place]
Fail == left.fails > 0 /\ left' = [left EXCEPT !.fails = @ - 1]
Busy(d) == \E w \in Handlers : job[w].dev = d

(***************************************************************************)
(* Lock and Unlock of the context.                                         *)
(***************************************************************************)

\* The handler receives a message; Lock looks up the mutex.  When there is
\* none it returns false, which no caller looks at.
Start(w, d, kind, v) ==
    /\ pc[w] = "idle" /\ left.msgs > 0
    /\ left' = [left EXCEPT !.msgs = @ - 1]
    /\ job' = [job EXCEPT ![w] = Job(d, kind, v, None, FALSE)]
    /\ took' = [took EXCEPT ![w] = mutex[d]]
    /\ raced' = IF pc["mem"] # "apply" /\ job["mem"].dev = d THEN raced \cup {d} ELSE raced
    /\ Goto(w, IF mutex[d] = None THEN "get" ELSE "rlock")
    /\ UNCHANGED <<data, mem, stale, refused, locks>>

\* RLock: a waiting writer keeps new readers out.
RLock(w) ==
    /\ pc[w] = "rlock" /\ writer = "no"
    /\ readers' = readers + 1
    /\ Goto(w, "mlock")
    /\ UNCHANGED <<data, mutex, owner, writer, job, took, mem, left, history>>

MLock(w) ==
    /\ pc[w] = "mlock" /\ owner[took[w]] = None
    /\ owner' = [owner EXCEPT ![took[w]] = w]
    /\ Goto(w, "get")
    /\ UNCHANGED <<data, mutex, readers, writer, job, took, mem, left, history>>

\* A mutant of Unlock: the read lock of the context is not given back.
UnlockMutexOnly(d, w, place) ==
    IF mutex[d] = None THEN Goto(w, place) /\ UNCHANGED <<owner, readers>>
    ELSE /\ owner' = [owner EXCEPT ![mutex[d]] = None]
         /\ IF owner[mutex[d]] = None THEN pc' = Fatal ELSE Goto(w, place)
         /\ UNCHANGED readers

\* Unlock looks the mutex up again; the worker goes on at the place.
\* Unlocking a mutex that is not locked, or giving back a read lock that
\* nobody holds, ends the process.
Unlock(d, w, place) ==
    IF mutex[d] = None THEN Goto(w, place) /\ UNCHANGED <<owner, readers>>
    ELSE /\ owner' = [owner EXCEPT ![mutex[d]] = None]
         /\ readers' = IF readers > 0 THEN readers - 1 ELSE 0
         /\ IF owner[mutex[d]] = None \/ readers = 0 THEN pc' = Fatal ELSE Goto(w, place)

Finish(w) ==
    /\ pc[w] = "unlock"
    /\ Unlock(job[w].dev, w, "idle")
    /\ job' = [job EXCEPT ![w] = NoJob] /\ took' = [took EXCEPT ![w] = None]
    /\ UNCHANGED <<data, mutex, writer, left, mem, history>>

(***************************************************************************)
(* The twin worker (dealTwinUpdate, dealTwinSync) and the device worker    *)
(* (dealDeviceAttrUpdate, dealDeviceStateUpdate).  The membership worker   *)
(* runs UpdateDeviceAttr as well, from its DealAttr step on.               *)
(***************************************************************************)
After(w) == IF w = "mem" THEN "apply" ELSE "unlock"

\* A mutant of Get: the lookup takes the read lock once more.
GetReadLocked(w) ==
    /\ pc[w] = "get" /\ writer = "no"
    /\ LET o == list[job[w].dev]
       IN /\ job' = [job EXCEPT ![w] = Job(job[w].dev, job[w].kind, job[w].val, o, FALSE)]
          /\ Goto(w, IF o = None THEN "unlock" ELSE IF job[w].kind = "state" THEN "db" ELSE "deal")
    /\ UNCHANGED <<data, took, mem, left, history, locks>>

\* The first lookup: a device that is not in the list is refused.
Get(w) ==
    /\ pc[w] = "get"
    /\ LET o == list[job[w].dev]
       IN /\ job' = [job EXCEPT ![w] = Job(job[w].dev, job[w].kind, job[w].val, o, FALSE)]
          /\ Goto(w, IF o = None THEN "unlock" ELSE IF job[w].kind = "state" THEN "db" ELSE "deal")
    /\ UNCHANGED <<data, took, mem, left, history, locks>>

\* What DealMsgTwin may leave of a twin in memory; Initial is also the value of a
\* deleted one.  With a statement for SQLite it is the message's value; a twin the
\* cloud has deleted by half keeps what it lacks if the message carries its other
\* half.
Written(old, val) == {val} \cup (IF old = Half /\ val # Initial THEN {Half} ELSE {})

\* Without a statement it is what was there; but the cloud's delete of a twin is
\* also given up when one version has been accepted, its half has been cleared
\* in memory, and the other version is refused.
Unwritten(old, val) == {old} \cup (IF old # Initial /\ val = Initial THEN {Half} ELSE {})

\* DealMsgTwin looks the device up again and changes what it finds.  A REST
\* update that is refused, half way or because the device is gone, is undone
\* from SQLite; nothing undoes a message from the cloud.
DealTwin(w) ==
    /\ pc[w] = "deal" /\ job[w].kind = "twin"
    /\ LET o == list[job[w].dev]
           val == job[w].val
       IN \/ /\ o = None
             /\ Goto(w, "sync") \/ Goto(w, "unlock")
             /\ UNCHANGED <<heap, job>>
          \/ /\ o # None
             /\ \E write \in BOOLEAN :
                /\ \E v \in IF write THEN Written(heap[o].twin, val)
                            ELSE Unwritten(heap[o].twin, val) :
                       heap' = [heap EXCEPT ![o].twin = v]
                /\ job' = [job EXCEPT ![w] = Job(job[w].dev, "twin", val, o, write)]
                /\ Goto(w, "put") \/ (write /\ Goto(w, "sync"))
    /\ UNCHANGED <<list, db, took, mem, left, history, locks>>

\* DealMsgTwin ends by putting the device it found into the list.
PutTwin(w) ==
    /\ pc[w] = "put"
    /\ list' = [list EXCEPT ![job[w].dev] = job[w].ptr]
    /\ Goto(w, IF job[w].write THEN "db" ELSE "unlock")
    /\ UNCHANGED <<heap, db, job, took, mem, left, history, locks>>

\* DealMsgAttr; an attribute that is the same already is not written.
DealAttr(w) ==
    /\ pc[w] = "deal" /\ job[w].kind = "attr"
    /\ LET o == list[job[w].dev]
           same == o = None \/ (o # None /\ heap[o].attr = job[w].val)
       IN /\ heap' = IF same THEN heap ELSE [heap EXCEPT ![o].attr = job[w].val]
          /\ Goto(w, IF same THEN After(w) ELSE "db")
    /\ UNCHANGED <<list, db, job, took, mem, left, history, locks>>

\* The statements of the handler; the state is stored before memory has it.
Store(w) ==
    /\ pc[w] = "db"
    /\ LET d == job[w].dev
       IN db' = IF db[d] = Absent THEN db ELSE [db EXCEPT ![d][job[w].kind] = job[w].val]
    /\ Goto(w, IF job[w].kind = "state" THEN "memory" ELSE After(w))
    /\ UNCHANGED <<list, heap, job, took, mem, left, history, locks>>

\* A mutant of StoreFails: memory keeps what could not be stored.
StoreFailsUnsynced(w) ==
    /\ pc[w] = "db" /\ Fail
    /\ Goto(w, After(w))
    /\ UNCHANGED <<data, job, took, mem, history, locks>>

\* The statements fail RetryTimes times; the handlers that have changed memory
\* already read the rows back.
StoreFails(w) ==
    /\ pc[w] = "db" /\ Fail
    /\ Goto(w, IF job[w].kind = "state" THEN "unlock" ELSE "sync")
    /\ UNCHANGED <<data, job, took, mem, history, locks>>

\* dealDeviceStateUpdate goes on with the device it found at the start.
SetState(w) ==
    /\ pc[w] = "memory"
    /\ heap' = [heap EXCEPT ![job[w].ptr].state = job[w].val]
    /\ Goto(w, "unlock")
    /\ UNCHANGED <<list, db, job, took, mem, left, history, locks>>

\* SyncDeviceFromSqlite: a device that has left the list gets a new mutex,
\* one that has rows is built again from them.
Sync(w) ==
    /\ pc[w] = "sync"
    /\ LET d == job[w].dev
       IN /\ \/ list[d] = None /\ SpareMutexes # {} /\ mutex' = [mutex EXCEPT ![d] = NewMutex]
             \/ list[d] # None /\ UNCHANGED mutex
          /\ \/ /\ db[d] # Absent /\ SpareObjects # {}
                /\ list' = [list EXCEPT ![d] = NewObject]
                /\ heap' = [heap EXCEPT ![NewObject] = db[d]]
                /\ stale' = stale \ {d}
                /\ UNCHANGED left
             \/ /\ IF db[d] = Absent THEN UNCHANGED left ELSE Fail
                /\ stale' = stale \cup {d}
                /\ UNCHANGED <<list, heap>>
    /\ Goto(w, After(w))
    /\ UNCHANGED <<db, owner, readers, writer, job, took, mem, raced, refused>>

(***************************************************************************)
(* The membership worker: dealMembershipUpdate takes no lock, and          *)
(* dealMembershipDetail takes the write lock of the context.               *)
(***************************************************************************)
\* The cloud adds or removes one device with each message.
MemUpdate(adds, removes) ==
    /\ pc["mem"] = "idle" /\ left.mems > 0
    /\ left' = [left EXCEPT !.mems = @ - 1]
    /\ mem' = [NoMem EXCEPT !.kind = "update", !.adds = adds, !.removes = removes]
    /\ Goto("mem", "apply")
    /\ UNCHANGED <<data, locks, job, took, history>>

MemDetail(devices) ==
    /\ pc["mem"] = "idle" /\ left.mems > 0
    /\ left' = [left EXCEPT !.mems = @ - 1]
    /\ mem' = [NoMem EXCEPT !.kind = "detail", !.adds = devices, !.keep = devices]
    /\ writer' = "waiting"
    /\ Goto("mem", "lockall")
    /\ UNCHANGED <<data, mutex, owner, readers, job, took, history>>

LockAll ==
    /\ pc["mem"] = "lockall" /\ readers = 0
    /\ writer' = "held"
    /\ Goto("mem", "apply")
    /\ UNCHANGED <<data, mutex, owner, readers, job, took, mem, left, history>>

Meet(d) == raced' = IF Busy(d) THEN raced \cup {d} ELSE raced

\* addDevice: a device that exists gets the attributes of the message, that
\* is none; a new one gets a mutex and an entry.
AddDevice(d) ==
    /\ pc["mem"] = "apply" /\ d \in mem.adds
    /\ mem' = [mem EXCEPT !.adds = @ \ {d}]
    /\ job' = [job EXCEPT !["mem"] = Job(d, "attr", Initial, None, FALSE)]
    /\ Meet(d)
    /\ \/ /\ list[d] # None
          /\ Goto("mem", "deal")
          /\ UNCHANGED <<list, heap, mutex>>
       \/ /\ list[d] = None
          /\ SpareMutexes # {} /\ mutex' = [mutex EXCEPT ![d] = NewMutex]
          /\ SpareObjects # {} /\ list' = [list EXCEPT ![d] = NewObject]
          /\ heap' = [heap EXCEPT ![NewObject] = NewDevice]
          /\ Goto("mem", "adddb")
    /\ UNCHANGED <<db, owner, readers, writer, took, left, stale, refused>>

\* AddDeviceTrans inserts the row; that fails if there is one already.  Then
\* the entry is taken back, and a lock that was never taken is released.
AddStored ==
    /\ pc["mem"] = "adddb" /\ db[job["mem"].dev] = Absent
    /\ db' = [db EXCEPT ![job["mem"].dev] = NewDevice]
    /\ Goto("mem", "apply")
    /\ UNCHANGED <<list, heap, locks, job, took, mem, left, history>>

AddFails ==
    /\ pc["mem"] = "adddb"
    /\ IF db[job["mem"].dev] # Absent THEN UNCHANGED left ELSE Fail
    /\ list' = [list EXCEPT ![job["mem"].dev] = None]
    /\ Unlock(job["mem"].dev, "mem", "apply")
    /\ refused' = refused \cup {job["mem"].dev}
    /\ UNCHANGED <<heap, db, mutex, writer, job, took, mem, stale, raced>>

\* getRemoveList of dealMembershipDetail.
GetRemoveList ==
    /\ pc["mem"] = "apply" /\ mem.kind = "detail" /\ mem.adds = {}
    /\ mem' = [mem EXCEPT !.kind = "remove", !.keep = {},
                          !.removes = {d \in Devices : list[d] # None} \ mem.keep]
    /\ UNCHANGED <<data, locks, pc, job, took, left, history>>

\* removeDevice: the rows, then, whether that worked or not, the entry and the
\* mutex.
RemoveRows(d) ==
    /\ pc["mem"] = "apply" /\ mem.adds = {} /\ d \in mem.removes
    /\ mem' = [mem EXCEPT !.removes = @ \ {d}]
    /\ \/ /\ list[d] = None
          /\ UNCHANGED <<db, pc, job, left, stale, raced>>
       \/ /\ list[d] # None
          /\ job' = [job EXCEPT !["mem"] = Job(d, None, Initial, None, FALSE)]
          /\ Meet(d)
          /\ \/ db' = [db EXCEPT ![d] = Absent] /\ UNCHANGED <<left, stale>>
             \/ Fail /\ stale' = stale \cup {d} /\ UNCHANGED db
          /\ Goto("mem", "remove")
    /\ UNCHANGED <<list, heap, locks, took, refused>>

RemoveEntry ==
    /\ pc["mem"] = "remove"
    /\ list' = [list EXCEPT ![job["mem"].dev] = None]
    /\ mutex' = [mutex EXCEPT ![job["mem"].dev] = None]
    /\ Goto("mem", "apply")
    /\ UNCHANGED <<heap, db, owner, readers, writer, job, took, mem, left, history>>

\* A mutant of MemDone: dealMembershipDetail returns without UnlockAll.
MemDoneLocked ==
    /\ pc["mem"] = "apply" /\ mem.adds = {} /\ mem.removes = {} /\ mem.kind # "detail"
    /\ mem' = NoMem /\ job' = [job EXCEPT !["mem"] = NoJob]
    /\ Goto("mem", "idle")
    /\ UNCHANGED <<data, locks, took, left, history>>

MemDone ==
    /\ pc["mem"] = "apply" /\ mem.adds = {} /\ mem.removes = {} /\ mem.kind # "detail"
    /\ writer' = IF writer = "held" THEN "no" ELSE writer
    /\ mem' = NoMem /\ job' = [job EXCEPT !["mem"] = NoJob]
    /\ Goto("mem", "idle")
    /\ UNCHANGED <<data, mutex, owner, readers, took, left, history>>

HandlerStep(w) ==
    \/ RLock(w) \/ MLock(w) \/ Finish(w)
    \/ Get(w) \/ DealTwin(w) \/ PutTwin(w) \/ DealAttr(w)
    \/ Store(w) \/ StoreFails(w) \/ SetState(w) \/ Sync(w)

MemStep ==
    \/ LockAll
    \/ \E d \in Devices : AddDevice(d) \/ RemoveRows(d)
    \/ AddStored \/ AddFails
    \/ DealAttr("mem") \/ Store("mem") \/ StoreFails("mem") \/ Sync("mem")
    \/ GetRemoveList \/ RemoveEntry \/ MemDone

Message ==
    \/ \E w \in Handlers, d \in Devices, v \in Vals : \E kind \in Kinds(w) : Start(w, d, kind, v)
    \/ \E d \in Devices : MemUpdate({d}, {}) \/ MemUpdate({}, {d})
    \/ \E devices \in SUBSET Devices : MemDetail(devices)

Next == Message \/ MemStep \/ \E w \in Handlers : HandlerStep(w)

\* Every worker is a goroutine of its own; sync.Mutex and sync.RWMutex let a
\* waiting goroutine in eventually.
Fairness ==
    /\ WF_vars(MemStep)
    /\ \A w \in Handlers : /\ WF_vars(HandlerStep(w))
                           /\ SF_vars(RLock(w)) /\ SF_vars(MLock(w))

Spec == Init /\ [][Next]_vars /\ Fairness
----------------------------------------------------------------------------
\* Types; and the write lock is held exactly while dealMembershipDetail is at
\* work.
TypeOK ==
    /\ list \in [Devices -> Objects \cup {None}]
    /\ heap \in [Objects -> Structures]
    /\ db \in [Devices -> Contents \cup {Absent}]
    /\ mutex \in [Devices -> Mutexes \cup {None}]
    /\ owner \in [Mutexes -> Handlers \cup {None}]
    /\ readers \in Nat /\ writer \in {"no", "waiting", "held"}
    /\ took \in [Handlers -> Mutexes \cup {None}]
    /\ job \in [Workers -> [dev : Devices \cup {None}, kind : {"twin", "attr", "state", None},
                            val : Vals, ptr : Objects \cup {None}, write : BOOLEAN]]
    /\ stale \subseteq Devices /\ raced \subseteq Devices /\ refused \subseteq Devices
    /\ pc # Fatal => (writer = "held" <=> /\ pc["mem"] \notin {"idle", "lockall"}
                                          /\ mem.kind \in {"detail", "remove"})

\* Holds(w): worker w is between the two halves of Lock and the end of Unlock.
Holds(w) == took[w] # None /\ pc[w] # "rlock"
Count(w) == IF Holds(w) THEN 1 ELSE 0

\* Ended: SQLite would not insert a new device, addDevice released a lock that
\* it never took, and the process has ended.
Ended == refused # {} /\ pc = Fatal

\* As long as no membership change has met a handler at work on the device it
\* changes, whichever device that is, Lock and Unlock are balanced: the read
\* locks are exactly those of the handlers that are in Lock or past it, a mutex
\* is held only by the handler that took it, no write lock is held beside a read
\* lock, and only the Unlock of an addDevice that SQLite refused ends the
\* process.
LocksBalanced ==
    raced = {} =>
        \/ Ended
        \/ /\ pc # Fatal
           /\ readers = Count("twin") + Count("device")
           /\ \A m \in Mutexes : owner[m] # None => took[owner[m]] = m
           /\ writer = "held" => readers = 0

\* As long as no membership change has met a handler on the device, a device
\* that no worker is busy with is in memory what it is in SQLite, unless a
\* removal of it failed or a resynchronisation of it could not read the rows:
\* what was changed in memory before a statement that failed is taken back.
\* The one value that may differ is that of a twin which the cloud has deleted
\* by half; nothing takes that back.
MemoryMatchesStore ==
    \A d \in Devices \ (raced \cup stale) :
        (\A w \in Workers : job[w].dev # d)
            => IF list[d] = None THEN db[d] = Absent
               ELSE /\ db[d] # Absent
                    /\ heap[list[d]].attr = db[d].attr
                    /\ heap[list[d]].state = db[d].state
                    /\ heap[list[d]].twin \in {db[d].twin, Half}

\* Every worker finishes every message it has begun, in spite of the two kinds
\* of lock and of refused statements, with two exceptions: a membership change
\* has met a handler on the device it changes, after which a lock may be lost
\* that the workers for any device wait for; or SQLite refused a new device,
\* which ends the process.
EveryMessageHandled ==
    \A w \in Workers : pc[w] # "idle" ~> (pc[w] = "idle" \/ raced # {} \/ Ended)

\* "Unlock remove the lock of the device" (the comment of DTContext.Unlock): a
\* handler that has finished holds no mutex any more.
UnlockRemovesTheLock ==
    \A m \in Mutexes : owner[m] # None => pc[owner[m]] # "idle"
=============================================================================
