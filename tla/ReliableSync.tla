---------------------------- MODULE ReliableSync ----------------------------
(***************************************************************************)
(* Reliable delivery of Kubernetes objects from cloudcore to one edge node. *)
(*                                                                         *)
(*   informer -> edgecontroller -> messageDispatcher -> NodeMessagePool     *)
(*     -> NodeSession (send, retry, ack) -> edgehub -> metamanager store    *)
(*     -> ack -> NodeSession.saveSuccessPoint -> ObjectSync                 *)
(*   syncController: ObjectSync versus object -> messageDispatcher          *)
(*                                                                         *)
(* An object is identified by its UID; NameOf gives the key under which the *)
(* edge stores it, so that two UIDs with one name are a delete followed by  *)
(* a re-creation.  The API server and the informer's indexer are one state  *)
(* (obj): no code here looks at anything newer than the indexer.            *)
(***************************************************************************)
EXTENDS Integers, Sequences, FiniteSets, Functions

CONSTANTS
  Uids,         \* object UIDs
  Names,        \* resource keys (namespace/type/name)
  NameOf,       \* the key of each UID
  Pods,         \* the keys that are pods: the edge deletes those by UID
  MaxRV,        \* bound: versions an object goes through
  MaxId,        \* bound: message IDs in use at one time
  RetryTimes,   \* rewrites before ErrWaitTimeout (4 in the code)
  ChanCap,      \* bound: length of the controllers' channel to cloudhub
  Cases         \* bounds: the objects that may be created, and how many
                \* updates, deletions, queries and faults of each kind

Kinds == {"update", "terminate", "delete", "query", "late", "api", "edge",
          "disconnect", "crash", "reorder"}

ASSUME UidsAssumption ==
  IsFiniteSet(Uids) /\ NameOf \in [Uids -> Names] /\ Pods \subseteq Names
ASSUME BoundsAssumption ==
  /\ MaxRV \in Nat /\ MaxId \in Nat
  /\ RetryTimes \in Nat /\ ChanCap \in Nat
  /\ Cases \subseteq [objects : SUBSET Uids, budget : [Kinds -> Nat]]

VARIABLES
  obj,        \* Kubernetes object of each UID: [st, rv]
  events,     \* informer events on their way through edgecontroller
  chan,       \* messages of syncController and query responses
  disp,       \* the message DispatchDownstream is working on
  dispPc,     \* where it is in enqueueAckMessage
  dispStale,  \* the pool it looked up has been replaced meanwhile
  api,        \* ObjectSync.Status.ObjectResourceVersion in the API server
  lister,     \* the same in the ObjectSync informer's cache
  store,      \* AckMessageStore of the node's current pool
  queue,      \* AckMessageQueue: keys waiting
  redo,       \* AckMessageQueue: the key being processed was added again
  delayed,    \* AckMessageQueue: keys waiting in AddRateLimited
  connected,  \* a node session is running
  sMsg, sPc, sRetry, sAcked, sSeen,  \* SendAckMessage goroutine of the session
  oMsg, oPc, oSeen,  \* that goroutine of a terminated session, still saving
  down,       \* copies on the way to, or inside, the edge node
  up,         \* acks on the way back
  edge,       \* the edge's meta table
  asking,     \* the remote query the edge waits on, per key (0: none)
  budget,     \* what is left of the case's budget
  persisted,  \* history: <<uid, rv>> ever written to the meta table
  removed     \* history: UIDs whose delete the edge ever carried out

k8sVars  == <<obj, events>>
dispVars == <<disp, dispPc, dispStale>>
poolVars == <<store, queue, redo, delayed>>
sendVars == <<sMsg, sPc, sRetry, sAcked, sSeen>>
oldVars  == <<oMsg, oPc, oSeen>>
netVars  == <<down, up>>
edgeVars == <<edge, asking, persisted, removed>>
vars == <<k8sVars, chan, dispVars, api, lister, poolVars, connected, sendVars,
          oldVars, netVars, edgeVars, budget>>

-----------------------------------------------------------------------------
(* ObjectSync status: absent, present with an empty status, or a version.   *)
NoCR  == -2
Empty == -1
Statuses == {NoCR, Empty} \cup 0..MaxRV

(* The SendAckMessage goroutine waits for an ack, then records it.           *)
SavePcs == {"wait", "create", "put"}
Pcs     == SavePcs \cup {"idle"}

(* "terminate" is an update whose object carries a deletionTimestamp; insert *)
(* and update are one operation, nothing here tells them apart.              *)
Ops == {"update", "terminate", "delete", "response"}
Content == [uid : Uids, op : Ops, rv : 0..MaxRV, parent : Nat]
Message == [uid : Uids, op : Ops, rv : 0..MaxRV, parent : Nat, id : Nat \ {0}]
NoMsg   == [id |-> 0]
NoEntry == [rv |-> 0]
Row     == [uid : Uids, rv : Nat]

Live(u) == obj[u].st \in {"live", "term"}
NewContent(u, op, rv, q) == [uid |-> u, op |-> op, rv |-> rv, parent |-> q]
UpdateOp(st) == IF st = "term" THEN "terminate" ELSE "update"

(* isDeleteMessage: a delete, or an object with a deletionTimestamp.         *)
isDeleteMessage(m) == m.op \in {"delete", "terminate"}

Spend(k) == budget[k] > 0 /\ budget' = [budget EXCEPT ![k] = @ - 1]

(* What is in flight is a sequence in the order of writing.  Each message is *)
(* handed on by a goroutine of its own (SendToGroup), so the receiver takes  *)
(* any element.  A case without reordering is one in which the goroutines    *)
(* run in the order they start, so that it takes the oldest.                 *)
Takes(s) == IF budget["reorder"] = 0 /\ s # <<>> THEN {1} ELSE DOMAIN s
Without(s, i) == [j \in 1..(Len(s) - 1) |-> IF j < i THEN s[j] ELSE s[j + 1]]

(* Subsequences: what a broken connection may leave.                         *)
Survivors(s) ==
  UNION {{t \in [1..n -> Range(s)] :
           \E f \in [1..n -> DOMAIN s] :
             /\ \A j \in 1..n : t[j] = s[f[j]]
             /\ \A j \in 2..n : f[j - 1] < f[j]} : n \in 0..Len(s)}

(* Every message some part of the system still holds; an ID in none of them  *)
(* is as good as a new UUID.                                                 *)
Carried == {store[u] : u \in Uids} \cup {sMsg, oMsg}
             \cup Range(down) \cup Range(up)
FreeIds == {i \in 1..MaxId : \A m \in Carried : m.id # i}
NewId   == CHOOSE i \in FreeIds : TRUE

(* workqueue.Add: a key already waiting is not added twice, a key being      *)
(* processed is added when Done is called.                                   *)
processing(u) == sPc # "idle" /\ sMsg.uid = u
QueueAdd(u) ==
  IF processing(u) THEN redo' = TRUE /\ queue' = queue
  ELSE /\ queue' = IF u \in Range(queue) THEN queue ELSE Append(queue, u)
       /\ redo' = redo

(* workqueue.Done, at the end of syncAckMessage.                             *)
QueueDone ==
  /\ queue' = IF redo THEN Append(queue, sMsg.uid) ELSE queue
  /\ redo' = FALSE
  /\ sMsg' = NoMsg /\ sPc' = "idle" /\ sRetry' = 0 /\ sAcked' = FALSE

(* The objects of the case are still to come, others were deleted long ago.   *)
Init ==
  /\ \E c \in Cases :
       /\ obj = [u \in Uids |-> [st |-> IF u \in c.objects THEN "none" ELSE "gone", rv |-> 0]]
       /\ budget = c.budget
  /\ events = <<>> /\ chan = <<>>
  /\ disp = NoMsg /\ dispPc = "idle" /\ dispStale = FALSE
  /\ api = [u \in Uids |-> NoCR] /\ lister = [u \in Uids |-> NoCR]
  /\ store = [u \in Uids |-> NoMsg]
  /\ queue = <<>> /\ redo = FALSE /\ delayed = {}
  /\ connected = FALSE
  /\ sMsg = NoMsg /\ sPc = "idle" /\ sRetry = 0 /\ sAcked = FALSE
  /\ oMsg = NoMsg /\ oPc = "idle"
  /\ sSeen = NoCR /\ oSeen = NoCR
  /\ down = <<>> /\ up = <<>>
  /\ edge = [n \in Names |-> NoEntry] /\ asking = [n \in Names |-> 0]
  /\ persisted = {} /\ removed = {}

-----------------------------------------------------------------------------
(* Kubernetes changes an object; the informer's indexer takes the change and *)
(* hands the event to edgecontroller.                                        *)
Emit(u, op, rv) == events' = Append(events, NewContent(u, op, rv, 0))
K8sUnchanged == UNCHANGED <<chan, dispVars, api, lister, poolVars, connected,
                            sendVars, oldVars, netVars, edgeVars>>

K8sCreate(u) ==
  /\ obj[u].st = "none"
  /\ \A v \in Uids : NameOf[v] = NameOf[u] => ~Live(v)
  /\ MaxRV >= 1
  /\ obj' = [obj EXCEPT ![u] = [st |-> "live", rv |-> 1]]
  /\ Emit(u, "update", 1)
  /\ UNCHANGED budget /\ K8sUnchanged

K8sUpdate(u) ==
  /\ Live(u) /\ obj[u].rv < MaxRV /\ Spend("update")
  /\ obj' = [obj EXCEPT ![u].rv = @ + 1]
  /\ Emit(u, UpdateOp(obj[u].st), obj[u].rv + 1)
  /\ K8sUnchanged

K8sTerminate(u) ==
  /\ obj[u].st = "live" /\ obj[u].rv < MaxRV /\ Spend("terminate")
  /\ obj' = [obj EXCEPT ![u] = [st |-> "term", rv |-> obj[u].rv + 1]]
  /\ Emit(u, "terminate", obj[u].rv + 1)
  /\ K8sUnchanged

K8sDelete(u) ==
  /\ Live(u) /\ Spend("delete")
  /\ obj' = [obj EXCEPT ![u].st = "gone"]
  /\ Emit(u, "delete", obj[u].rv)
  /\ K8sUnchanged

-----------------------------------------------------------------------------
(* DispatchDownstream takes the next message, looks up the node's pool and   *)
(* decides in enqueueAckMessage whether to enqueue it.  Create and           *)
(* UpdateStatus of the ObjectSync are steps of their own (API calls), and so *)
(* are store.Add and queue.Add (the session reads the store in between).     *)
DispUnchanged == UNCHANGED <<obj, connected, sendVars, oldVars, netVars,
                             edgeVars, lister>>

DispIdle == dispPc' = "idle" /\ disp' = NoMsg /\ dispStale' = FALSE

(* The version of a message against what is known to be sent already.        *)
Newer(m) ==
  LET u == m.uid IN
  \/ isDeleteMessage(m) \/ m.op = "response"
  \/ /\ store[u] # NoMsg
     /\ ~isDeleteMessage(store[u]) /\ m.rv > store[u].rv
  \/ store[u] = NoMsg /\ lister[u] >= 0 /\ m.rv > lister[u]

FirstTime(m) ==
  /\ ~isDeleteMessage(m) /\ m.op # "response"
  /\ store[m.uid] = NoMsg /\ lister[m.uid] = NoCR

enqueueAckMessage(m) ==
  \/ /\ Newer(m)
     /\ dispPc' = "add" /\ disp' = m /\ dispStale' = FALSE
  \/ /\ FirstTime(m)
     /\ dispPc' = "create" /\ disp' = m /\ dispStale' = FALSE
  \/ /\ ~Newer(m) /\ ~FirstTime(m)
     /\ DispIdle

DispatchEvent ==
  /\ dispPc = "idle" /\ events # <<>>
  /\ events' = Tail(events)
  /\ enqueueAckMessage(Head(events))
  /\ UNCHANGED <<chan, api, poolVars, budget>> /\ DispUnchanged

DispatchChan ==
  /\ dispPc = "idle" /\ chan # <<>>
  /\ chan' = Tail(chan)
  /\ enqueueAckMessage(Head(chan))
  /\ UNCHANGED <<events, api, poolVars, budget>> /\ DispUnchanged

(* enqueueNamespacedResource, Create: refused if the ObjectSync exists.      *)
DispCreate ==
  /\ dispPc = "create"
  /\ \/ /\ api[disp.uid] = NoCR
        /\ api' = [api EXCEPT ![disp.uid] = Empty]
        /\ dispPc' = "status"
        /\ UNCHANGED <<disp, dispStale, budget>>
     \/ /\ \/ api[disp.uid] # NoCR /\ UNCHANGED budget
           \/ Spend("api")
        /\ DispIdle /\ UNCHANGED api
  /\ UNCHANGED <<events, chan, poolVars>> /\ DispUnchanged

(* ... UpdateStatus to "0": a conflict if the ObjectSync changed meanwhile.  *)
DispStatus ==
  /\ dispPc = "status"
  /\ \/ /\ api[disp.uid] = Empty
        /\ api' = [api EXCEPT ![disp.uid] = 0]
        /\ dispPc' = "add"
        /\ UNCHANGED <<disp, dispStale, budget>>
     \/ /\ \/ api[disp.uid] # Empty /\ UNCHANGED budget
           \/ Spend("api")
        /\ DispIdle /\ UNCHANGED api
  /\ UNCHANGED <<events, chan, poolVars>> /\ DispUnchanged

(* nodeStore.Add: under a new message ID.  A pool that was replaced          *)
(* meanwhile has no reader any more.                                         *)
DispAdd ==
  /\ dispPc = "add"
  /\ IF dispStale
       THEN DispIdle /\ UNCHANGED store
       ELSE /\ FreeIds # {}
            /\ store' = [store EXCEPT ![disp.uid] =
                 [uid |-> disp.uid, op |-> disp.op, rv |-> disp.rv,
                  parent |-> disp.parent, id |-> NewId]]
            /\ dispPc' = "queue" /\ UNCHANGED <<disp, dispStale>>
  /\ UNCHANGED <<events, chan, api, queue, redo, delayed, budget>>
  /\ DispUnchanged

(* nodeQueue.Add.                                                            *)
DispQueue ==
  /\ dispPc = "queue"
  /\ IF dispStale THEN UNCHANGED <<queue, redo>> ELSE QueueAdd(disp.uid)
  /\ DispIdle
  /\ UNCHANGED <<events, chan, api, store, delayed, budget>> /\ DispUnchanged

(* The ObjectSync informer catches up.                                       *)
ListerSync(u) ==
  /\ lister[u] # api[u]
  /\ lister' = [lister EXCEPT ![u] = api[u]]
  /\ UNCHANGED <<k8sVars, chan, dispVars, api, poolVars, connected, sendVars,
                 oldVars, netVars, edgeVars, budget>>

(* A mutant of Reconcile: objects that are newer are not sent.             *)
ReconcileOnlyOrphans(u) ==
  /\ lister[u] # NoCR /\ Len(chan) < ChanCap /\ ~Live(u)
  /\ chan' = Append(chan, NewContent(u, "delete", 0, 0))
  /\ UNCHANGED <<k8sVars, dispVars, api, lister, poolVars, connected, sendVars,
                 oldVars, netVars, edgeVars, budget>>

(* A mutant of Reconcile: objects that are gone are not deleted.           *)
ReconcileNoOrphans(u) ==
  /\ lister[u] \notin {NoCR, Empty} /\ Len(chan) < ChanCap
  /\ Live(u) /\ obj[u].rv > lister[u]
  /\ chan' = Append(chan, NewContent(u, UpdateOp(obj[u].st), obj[u].rv, 0))
  /\ UNCHANGED <<k8sVars, dispVars, api, lister, poolVars, connected, sendVars,
                 oldVars, netVars, edgeVars, budget>>

(* syncController.reconcileObjectSync for one ObjectSync of the cache.       *)
Reconcile(u) ==
  /\ lister[u] # NoCR /\ Len(chan) < ChanCap
  /\ \/ /\ ~Live(u)
        /\ chan' = Append(chan, NewContent(u, "delete", 0, 0))
     \/ /\ Live(u) /\ lister[u] # Empty /\ obj[u].rv > lister[u]
        /\ chan' = Append(chan, NewContent(u, UpdateOp(obj[u].st), obj[u].rv, 0))
  /\ UNCHANGED <<k8sVars, dispVars, api, lister, poolVars, connected, sendVars,
                 oldVars, netVars, edgeVars, budget>>

-----------------------------------------------------------------------------
(* NodeSession.SendAckMessage: syncAckMessage takes a key, reads the message *)
(* and sendMessageWithRetry writes it.                                       *)
SendUnchanged == UNCHANGED <<k8sVars, chan, dispVars, lister, connected, oldVars,
                             edgeVars>>

SendNext ==
  /\ connected /\ sPc = "idle" /\ queue # <<>>
  /\ queue' = Tail(queue)
  /\ LET m == store[Head(queue)] IN
     IF m = NoMsg
       THEN UNCHANGED <<sendVars, down>>
       ELSE /\ down' = Append(down, m)
            /\ sMsg' = m /\ sPc' = "wait"
            /\ UNCHANGED <<sRetry, sAcked, sSeen>>
  /\ UNCHANGED <<api, store, redo, delayed, up, budget>> /\ SendUnchanged

(* The retry timer: rewrite, or give up and requeue with a delay.  That it   *)
(* fires while an answer is still coming, or that select prefers it to an    *)
(* ack that has arrived, happens a bounded number of times.                  *)
AnswerComing == sAcked \/ sMsg \in Range(down) \cup Range(up)

(* A mutant of RetryTick: one retry too many, for ever.                    *)
RetryTickTooLong ==
  /\ sPc = "wait" /\ sRetry <= RetryTimes
  /\ IF AnswerComing THEN Spend("late") ELSE UNCHANGED budget
  /\ down' = Append(down, sMsg) /\ sRetry' = sRetry + 1
  /\ UNCHANGED <<sMsg, sPc, sAcked, sSeen, poolVars, api, up>> /\ SendUnchanged

(* A mutant of RetryTick: the last timeout does not wake the key.          *)
RetryTickForgets ==
  /\ sPc = "wait"
  /\ IF AnswerComing THEN Spend("late") ELSE UNCHANGED budget
  /\ \/ /\ sRetry < RetryTimes
        /\ down' = Append(down, sMsg) /\ sRetry' = sRetry + 1
        /\ UNCHANGED <<sMsg, sPc, sAcked, sSeen, queue, redo>>
     \/ sRetry = RetryTimes /\ QueueDone /\ UNCHANGED <<sSeen, down>>
  /\ UNCHANGED <<delayed, api, store, up>> /\ SendUnchanged

RetryTick ==
  /\ sPc = "wait"
  /\ IF AnswerComing THEN Spend("late") ELSE UNCHANGED budget
  /\ \/ /\ sRetry < RetryTimes
        /\ down' = Append(down, sMsg)
        /\ sRetry' = sRetry + 1
        /\ UNCHANGED <<sMsg, sPc, sAcked, sSeen, queue, redo, delayed>>
     \/ /\ sRetry = RetryTimes
        /\ delayed' = delayed \cup {sMsg.uid}
        /\ QueueDone
        /\ UNCHANGED <<sSeen, down>>
  /\ UNCHANGED <<api, store, up>> /\ SendUnchanged

DelayedAdd(u) ==
  /\ u \in delayed
  /\ delayed' = delayed \ {u}
  /\ QueueAdd(u)
  /\ UNCHANGED <<api, store, sendVars, netVars, budget>> /\ SendUnchanged

(* A mutant of ReceiveMessageAck: any ack ends the wait.                   *)
ReceiveAnyAck(i) ==
  /\ connected /\ i \in Takes(up)
  /\ up' = Without(up, i)
  /\ sAcked' = (sAcked \/ sPc = "wait")
  /\ UNCHANGED <<api, poolVars, sMsg, sPc, sRetry, sSeen, down, budget>>
  /\ SendUnchanged

(* SessionManager.ReceiveMessageAck: to the node's current session, matched  *)
(* by message ID; an ack nobody waits for is ignored.                        *)
ReceiveMessageAck(i) ==
  /\ connected /\ i \in Takes(up)
  /\ up' = Without(up, i)
  /\ sAcked' = (sAcked \/ (sPc = "wait" /\ sMsg.id = up[i].id))
  /\ UNCHANGED <<api, poolVars, sMsg, sPc, sRetry, sSeen, down, budget>>
  /\ SendUnchanged

(* One API call of saveNamespaceResourceSuccess or deleteSuccessPoint for    *)
(* the acknowledged message m, by a goroutine at pc that has read the status *)
(* seen: delete; get, then create if there is none, then update the status.  *)
(* The API server refuses an update of an ObjectSync that is no longer as it *)
(* was read, and any call may fail, which ends the attempt.                  *)
SaveStep(m, pc, seen, pc2, seen2) ==
  LET u == m.uid IN
  \/ /\ pc = "wait" /\ m.op = "delete"
     /\ api' = [api EXCEPT ![u] = NoCR]
     /\ pc2 = "idle" /\ seen2 = NoCR /\ UNCHANGED budget
  \/ /\ pc = "wait" /\ m.op # "delete"
     /\ pc2 = (IF api[u] = NoCR THEN "create" ELSE "put")
     /\ seen2 = api[u] /\ UNCHANGED <<api, budget>>
  \/ /\ pc = "create" /\ api[u] = NoCR
     /\ api' = [api EXCEPT ![u] = Empty]
     /\ pc2 = "put" /\ seen2 = Empty /\ UNCHANGED budget
  \/ /\ pc = "put" /\ api[u] = seen
     /\ api' = [api EXCEPT ![u] = m.rv]
     /\ pc2 = "idle" /\ seen2 = NoCR /\ UNCHANGED budget
  \/ /\ \/ pc = "create" /\ api[u] # NoCR /\ UNCHANGED budget
        \/ pc = "put" /\ api[u] # seen /\ UNCHANGED budget
        \/ Spend("api")
     /\ pc2 = "idle" /\ seen2 = NoCR /\ UNCHANGED api

(* deleteSuccessPoint drops whatever the store holds under the message's key *)
DropFromStore(m) ==
  store' = IF m.op = "delete" THEN [store EXCEPT ![m.uid] = NoMsg] ELSE store

(* A mutant of SaveSuccess: what the store holds now is recorded.          *)
SaveNewest ==
  /\ sPc \in SavePcs /\ sAcked
  /\ \E pc2 \in Pcs, seen2 \in Statuses :
       /\ SaveStep(store[sMsg.uid], sPc, sSeen, pc2, seen2)
       /\ sSeen' = seen2
       /\ IF pc2 = "idle" THEN QueueDone
          ELSE sPc' = pc2 /\ UNCHANGED <<queue, redo, sMsg, sRetry, sAcked>>
  /\ DropFromStore(sMsg)
  /\ UNCHANGED <<delayed, netVars>> /\ SendUnchanged

SaveSuccess ==
  /\ sPc \in SavePcs /\ sAcked
  /\ \E pc2 \in Pcs, seen2 \in Statuses :
       /\ SaveStep(sMsg, sPc, sSeen, pc2, seen2)
       /\ sSeen' = seen2
       /\ IF pc2 = "idle" THEN QueueDone
          ELSE sPc' = pc2 /\ UNCHANGED <<queue, redo, sMsg, sRetry, sAcked>>
  /\ DropFromStore(sMsg)
  /\ UNCHANGED <<delayed, netVars>> /\ SendUnchanged

(* The same in a goroutine whose session has been terminated; its pool is    *)
(* no longer the node's.                                                     *)
OldSaveSuccess ==
  /\ oPc \in SavePcs
  /\ \E pc2 \in Pcs, seen2 \in Statuses :
       /\ SaveStep(oMsg, oPc, oSeen, pc2, seen2)
       /\ oSeen' = seen2 /\ oPc' = pc2
       /\ oMsg' = IF pc2 = "idle" THEN NoMsg ELSE oMsg
  /\ UNCHANGED <<k8sVars, chan, dispVars, lister, poolVars, connected,
                 sendVars, netVars, edgeVars>>

-----------------------------------------------------------------------------
(* The edge node.  edgehub hands each message to metamanager in a goroutine  *)
(* of its own (SendToGroup), so copies are handled in any order.  The store  *)
(* is written, then the ack is sent.                                         *)
EdgeUnchanged == UNCHANGED <<k8sVars, chan, dispVars, api, lister, poolVars,
                             connected, sendVars, oldVars>>

(* handleMessage, without a look at the version that is stored.              *)
InsertOrUpdate(m) ==
  /\ edge' = [edge EXCEPT ![NameOf[m.uid]] = [uid |-> m.uid, rv |-> m.rv]]
  /\ persisted' = persisted \cup {<<m.uid, m.rv>>}
  /\ UNCHANGED removed

(* A mutant of DeleteMeta: a pod is deleted by its name.                   *)
DeleteMetaByKey(m) ==
  /\ edge' = [edge EXCEPT ![NameOf[m.uid]] = NoEntry]
  /\ removed' = removed \cup {m.uid}
  /\ UNCHANGED persisted

(* DeleteMetaByKey, for pods DeleteMetaByKeyAndPodUID.                       *)
DeleteMeta(m) ==
  LET n == NameOf[m.uid] IN
  /\ edge' = IF n \in Pods /\ edge[n] # NoEntry /\ edge[n].uid # m.uid
               THEN edge ELSE [edge EXCEPT ![n] = NoEntry]
  /\ removed' = removed \cup {m.uid}
  /\ UNCHANGED persisted

Ack(m) == up' = Append(up, m)

(* processInsert, processUpdate and processDelete.                           *)
EdgeProcess(i) == LET m == down[i] IN
  /\ i \in Takes(down) /\ m.op # "response"
  /\ down' = Without(down, i)
  /\ \/ m.op # "delete" /\ InsertOrUpdate(m)
     \/ m.op = "delete" /\ DeleteMeta(m)
  /\ Ack(m)
  /\ UNCHANGED <<asking, budget>> /\ EdgeUnchanged

(* A response goes to the goroutine of processRemote that waits for it, and  *)
(* is discarded by SendResp if none does.                                    *)
EdgeResponse(i) == LET m == down[i] IN
  /\ i \in Takes(down) /\ m.op = "response"
  /\ down' = Without(down, i)
  /\ \/ /\ asking[NameOf[m.uid]] = m.parent
        /\ InsertOrUpdate(m) /\ Ack(m)
        /\ asking' = [asking EXCEPT ![NameOf[m.uid]] = 0]
     \/ /\ asking[NameOf[m.uid]] # m.parent
        /\ UNCHANGED <<up, edge, persisted, removed, asking>>
  /\ UNCHANGED budget /\ EdgeUnchanged

(* A mutant of EdgeReject: a refused write is acknowledged.                *)
EdgeRejectAcked(i) == LET m == down[i] IN
  /\ i \in Takes(down) /\ m.op # "response" /\ Spend("edge")
  /\ down' = Without(down, i)
  /\ Ack(m)
  /\ UNCHANGED <<asking, edge, persisted, removed>> /\ EdgeUnchanged

(* The database refuses the write: feedbackError, which is not an ack.       *)
EdgeReject(i) == LET m == down[i] IN
  /\ i \in Takes(down) /\ Spend("edge")
  /\ down' = Without(down, i)
  /\ \/ m.op # "response" /\ UNCHANGED asking
     \/ /\ m.op = "response" /\ asking[NameOf[m.uid]] = m.parent
        /\ asking' = [asking EXCEPT ![NameOf[m.uid]] = 0]
  /\ UNCHANGED <<up, edge, persisted, removed>> /\ EdgeUnchanged

(* processQuery with a connection: processRemote asks the cloud and          *)
(* edgecontroller answers with the object, which is forced into the pool.    *)
EdgeQuery(u) ==
  /\ connected /\ Live(u) /\ NameOf[u] \notin Pods
  /\ asking[NameOf[u]] = 0 /\ Len(chan) < ChanCap
  /\ Spend("query")
  /\ asking' = [asking EXCEPT ![NameOf[u]] = budget["query"]]
  /\ chan' = Append(chan, NewContent(u, "response", obj[u].rv, budget["query"]))
  /\ UNCHANGED <<k8sVars, dispVars, api, lister, poolVars, connected, sendVars,
                 oldVars, netVars, edge, persisted, removed>>

(* RemoteQueryTimeout passes.                                                *)
QueryTimeout(n) ==
  /\ asking[n] # 0
  /\ asking' = [asking EXCEPT ![n] = 0]
  /\ UNCHANGED <<netVars, edge, persisted, removed, budget>> /\ EdgeUnchanged

-----------------------------------------------------------------------------
(* Connections and restarts.  AddNodeMessagePool gives a new session a fresh *)
(* pool, DeleteNodeMessagePool drops the pool of an ended one.               *)
FreshPool ==
  /\ store' = [u \in Uids |-> NoMsg]
  /\ queue' = <<>> /\ redo' = FALSE /\ delayed' = {}

NoSender == sMsg' = NoMsg /\ sPc' = "idle" /\ sRetry' = 0 /\ sAcked' = FALSE
            /\ sSeen' = NoCR

LoseInFlight == down' \in Survivors(down) /\ up' \in Survivors(up)

Connect ==
  /\ ~connected /\ connected' = TRUE
  /\ FreshPool /\ dispStale' = (dispPc # "idle")
  /\ UNCHANGED <<k8sVars, chan, disp, dispPc, api, lister, sendVars, oldVars,
                 netVars, edgeVars, budget>>

(* The connection breaks, or keepalive gives it up.  What edgehub has already *)
(* taken off the wire, and acks it has yet to send, survive.  A goroutine     *)
(* that was acknowledged goes on recording it, unless its timer fires first   *)
(* and the write fails.                                                       *)
Disconnect ==
  /\ connected /\ Spend("disconnect")
  /\ connected' = FALSE
  /\ LoseInFlight
  /\ \/ /\ sAcked /\ oPc = "idle"
        /\ oMsg' = sMsg /\ oPc' = sPc /\ oSeen' = sSeen
     \/ /\ sPc \in {"idle", "wait"} /\ UNCHANGED oldVars
  /\ NoSender
  /\ FreshPool /\ dispStale' = (dispPc # "idle")
  /\ UNCHANGED <<k8sVars, chan, disp, dispPc, api, lister, edgeVars>>

(* cloudcore restarts: its memory is gone, informers list the live objects   *)
(* and the ObjectSyncs again; a deletion it missed is not an event.          *)
LiveUids == {u \in Uids : Live(u)}
Orderings(S) == {s \in [1..Cardinality(S) -> S] : Range(s) = S}
Listed(u) == NewContent(u, UpdateOp(obj[u].st), obj[u].rv, 0)

CloudRestart ==
  /\ Spend("crash")
  /\ \E s \in Orderings(LiveUids) :
       events' = [i \in 1..Cardinality(LiveUids) |-> Listed(s[i])]
  /\ chan' = <<>>
  /\ DispIdle /\ FreshPool /\ NoSender
  /\ oMsg' = NoMsg /\ oPc' = "idle" /\ oSeen' = NoCR
  /\ lister' = api
  /\ connected' = FALSE
  /\ LoseInFlight
  /\ UNCHANGED <<obj, api, edgeVars>>

Next ==
  \/ \E u \in Uids :
       \/ K8sCreate(u) \/ K8sUpdate(u) \/ K8sTerminate(u) \/ K8sDelete(u)
       \/ ListerSync(u) \/ Reconcile(u) \/ DelayedAdd(u) \/ EdgeQuery(u)
  \/ DispatchEvent \/ DispatchChan
  \/ DispCreate \/ DispStatus \/ DispAdd \/ DispQueue
  \/ SendNext \/ RetryTick \/ SaveSuccess \/ OldSaveSuccess
  \/ \E i \in DOMAIN up : ReceiveMessageAck(i)
  \/ \E i \in DOMAIN down : EdgeProcess(i) \/ EdgeResponse(i) \/ EdgeReject(i)
  \/ \E n \in Names : QueryTimeout(n)
  \/ Connect \/ Disconnect \/ CloudRestart

Spec == Init /\ [][Next]_vars

(* Every goroutine keeps running and the edge keeps reconnecting; nothing    *)
(* obliges Kubernetes, an edge query or a fault to happen.  The controllers  *)
(* share one channel to the dispatcher, and each gets its turn.              *)
Fairness ==
  /\ WF_vars(DispatchEvent \/ DispatchChan) /\ SF_vars(DispatchEvent)
  /\ WF_vars(DispCreate \/ DispStatus \/ DispAdd \/ DispQueue)
  /\ \A u \in Uids : WF_vars(ListerSync(u)) /\ SF_vars(Reconcile(u))
                       /\ WF_vars(DelayedAdd(u))
  /\ WF_vars(SendNext) /\ WF_vars(RetryTick)
  /\ WF_vars(\E i \in DOMAIN up : ReceiveMessageAck(i))
  /\ WF_vars(SaveSuccess) /\ WF_vars(OldSaveSuccess)
  /\ WF_vars(\E i \in DOMAIN down : EdgeProcess(i) \/ EdgeResponse(i))
  /\ WF_vars(Connect)

FairSpec == Spec /\ Fairness

-----------------------------------------------------------------------------
(* Types: every part of the state stays in its domain, and whoever is at     *)
(* work holds a message.                                                     *)
K8sType ==
  /\ obj \in [Uids -> [st : {"none", "live", "term", "gone"}, rv : 0..MaxRV]]
  /\ events \in Seq(Content) /\ chan \in Seq(Content)
DispType ==
  /\ disp \in Content \cup {NoMsg}
  /\ dispPc \in {"idle", "create", "status", "add", "queue"}
  /\ dispPc # "idle" => disp # NoMsg
SyncType ==
  api \in [Uids -> Statuses] /\ lister \in [Uids -> Statuses]
PoolType ==
  /\ store \in [Uids -> Message \cup {NoMsg}]
  /\ queue \in Seq(Uids) /\ delayed \subseteq Uids
SendType ==
  /\ sMsg \in Message \cup {NoMsg} /\ sPc \in Pcs
  /\ sPc # "idle" => sMsg # NoMsg
  /\ sRetry \in 0..RetryTimes /\ sSeen \in Statuses
OldType ==
  /\ oMsg \in Message \cup {NoMsg} /\ oPc \in Pcs /\ oSeen \in Statuses
  /\ oPc # "idle" => oMsg # NoMsg
NetType ==
  down \in Seq(Message) /\ up \in Seq(Message)
EdgeType ==
  /\ edge \in [Names -> Row \cup {NoEntry}] /\ asking \in [Names -> Nat]
  /\ persisted \subseteq Uids \X Nat /\ removed \subseteq Uids
BudgetType ==
  budget \in [Kinds -> Nat]
FlagType ==
  /\ dispStale \in BOOLEAN /\ redo \in BOOLEAN
  /\ sAcked \in BOOLEAN /\ connected \in BOOLEAN

TypeOK == /\ K8sType /\ DispType /\ SyncType /\ PoolType /\ SendType /\ OldType
          /\ NetType /\ EdgeType /\ BudgetType /\ FlagType

(* An ObjectSync never claims a version that the edge has not written to its *)
(* meta table: an ack reaches saveSuccessPoint only for the message it       *)
(* answers, whatever was lost, repeated, retried or reconnected in between.  *)
RecordedWasPersisted ==
  \A u \in Uids : api[u] > 0 => <<u, api[u]>> \in persisted

(* An ObjectSync disappears only when its object is gone from Kubernetes and *)
(* the edge has carried out the delete: deleteSuccessPoint runs for no other *)
(* message, and for none that the edge has not acknowledged.                 *)
ForgottenOnlyWhenRemoved ==
  [][\A u \in Uids : api[u] # NoCR /\ api'[u] = NoCR
                       => obj[u].st = "gone" /\ u \in removed]_vars

(* No lost wake-up in the pool: while a session runs, a stored message that  *)
(* the edge has not carried out is being sent, or its key waits in the queue,*)
(* in AddRateLimited, in the processing set, or in the dispatcher between    *)
(* store.Add and queue.Add.                                                  *)
CarriedOut(m) == IF m.op = "delete" THEN m.uid \in removed
                 ELSE <<m.uid, m.rv>> \in persisted
NothingStranded ==
  \A u \in Uids :
    connected /\ store[u] # NoMsg /\ ~CarriedOut(store[u])
      => \/ u \in Range(queue) \cup delayed
         \/ processing(u) /\ (sMsg = store[u] \/ redo)
         \/ dispPc = "queue" /\ ~dispStale /\ disp.uid = u

(* Once Kubernetes is quiet the edge holds the latest version of every       *)
(* existing object and no row of a deleted one, and the ObjectSyncs say so.  *)
Synced ==
  \A u \in Uids :
    /\ Live(u) => /\ edge[NameOf[u]] = [uid |-> u, rv |-> obj[u].rv]
                  /\ api[u] = obj[u].rv
    /\ obj[u].st = "gone" => /\ edge[NameOf[u]] # NoEntry => edge[NameOf[u]].uid # u
                             /\ api[u] = NoCR
EventuallySynced == <>[]Synced

(* So it is when the connection stays and messages do not overtake.          *)
SyncedWhileConnected ==
  budget["disconnect"] = 0 /\ budget["reorder"] = 0 => EventuallySynced

(* At least once: once Kubernetes is quiet, the latest version of every      *)
(* existing object has been written to the meta table, and every deleted     *)
(* object's ObjectSync is gone; lost copies, retries and lost pools only     *)
(* delay it.                                                                 *)
Delivered ==
  \A u \in Uids :
    /\ Live(u) => <<u, obj[u].rv>> \in persisted
    /\ obj[u].st = "gone" => api[u] = NoCR
AtLeastOnce == <>[]Delivered

(* The edge drops the row of an object only after Kubernetes has deleted it: *)
(* a late or repeated delete of an earlier object with the same name does    *)
(* not take the present one's row.                                           *)
RowOutlivesObject ==
  [][\A n \in Names : edge[n] # NoEntry /\ edge'[n] = NoEntry
                        => obj[edge[n].uid].st = "gone"]_vars
=============================================================================
