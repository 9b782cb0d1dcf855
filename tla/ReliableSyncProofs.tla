------------------------- MODULE ReliableSyncProofs -------------------------
(***************************************************************************)
(* What an ObjectSync says is true, no stored message loses its wake-up and *)
(* the edge keeps the rows of existing objects, for any number of objects,  *)
(* versions, retries, faults and restarts: the inductive invariant of       *)
(* ReliableSync and the theorems that follow from it.                       *)
(***************************************************************************)
EXTENDS ReliableSyncTypes

-----------------------------------------------------------------------------
(* The inductive invariant.  An ack exists only for what the edge has        *)
(* carried out; the goroutine that saves a message has such an ack; two      *)
(* messages in use with one ID are the same message, so that matching by ID  *)
(* is matching by message; an ObjectSync or a message exists only for an     *)
(* object that was created, a delete only for one that was deleted.          *)
AcksTruthful == \A m \in Range(up) : CarriedOut(m)

SendersTruthful ==
  /\ sAcked => sPc # "idle" /\ CarriedOut(sMsg)
  /\ sPc \in {"create", "put"} => sAcked /\ sMsg.op # "delete"
  /\ oPc # "idle" => CarriedOut(oMsg)
  /\ oPc \in {"create", "put"} => oMsg.op # "delete"

IdsUnique ==
  \A m1, m2 \in Carried : m1.id = m2.id => m1 = m2

Justified(c) == /\ obj[c.uid].st # "none"
                /\ c.op = "delete" => obj[c.uid].st = "gone"
AllJustified ==
  /\ \A c \in Range(events) \cup Range(chan) : Justified(c)
  /\ disp # NoMsg => Justified(disp)
  /\ \A m \in Carried : m # NoMsg => Justified(m)
  /\ \A u \in Uids : api[u] # NoCR \/ lister[u] # NoCR => obj[u].st # "none"

IInv == /\ TypeOK /\ AcksTruthful /\ SendersTruthful /\ IdsUnique
        /\ AllJustified /\ RecordedWasPersisted

-----------------------------------------------------------------------------
(* What was persisted or removed stays so; a deleted object stays deleted,   *)
(* and a created one is never again as if it had not been.                   *)
LEMMA Monotone ==
  ASSUME TypeOK, [Next]_vars
  PROVE  /\ persisted \subseteq persisted' /\ removed \subseteq removed'
         /\ \A u \in Uids : /\ obj[u].st = "gone" => obj'[u].st = "gone"
                            /\ obj[u].st # "none" => obj'[u].st # "none"
<1>1. persisted \subseteq persisted' /\ removed \subseteq removed'
  <2>1. ASSUME NEW i \in DOMAIN down, EdgeProcess(i)
        PROVE  persisted \subseteq persisted' /\ removed \subseteq removed'
    BY <2>1, ZenonT(30) DEF EdgeProcess, InsertOrUpdate, DeleteMeta
  <2>2. ASSUME NEW i \in DOMAIN down, EdgeResponse(i)
        PROVE  persisted \subseteq persisted' /\ removed \subseteq removed'
    BY <2>2, ZenonT(30) DEF EdgeResponse, InsertOrUpdate
  <2>3. CASE UNCHANGED <<persisted, removed>>
    BY SMTT(30), <2>3
  <2> QED
    BY ZenonT(30), <2>1, <2>2, <2>3
       DEF Next, vars, edgeVars, K8sCreate, K8sUpdate, K8sTerminate, K8sDelete,
           K8sUnchanged, ListerSync, Reconcile, DelayedAdd, EdgeQuery,
           DispatchEvent, DispatchChan, DispCreate, DispStatus, DispAdd,
           DispQueue, DispUnchanged, SendNext, RetryTick, SaveSuccess,
           SendUnchanged, OldSaveSuccess, ReceiveMessageAck, EdgeReject,
           QueryTimeout, Connect, Disconnect, CloudRestart
<1>2. ASSUME NEW v \in Uids
      PROVE  /\ obj[v].st = "gone" => obj'[v].st = "gone"
             /\ obj[v].st # "none" => obj'[v].st # "none"
  <2>0. obj \in [Uids -> [st : {"none", "live", "term", "gone"}, rv : 0..MaxRV]]
    BY ZenonT(30) DEF TypeOK, K8sType
  <2>1. ASSUME NEW u \in Uids, K8sCreate(u)
        PROVE  /\ obj[v].st = "gone" => obj'[v].st = "gone"
               /\ obj[v].st # "none" => obj'[v].st # "none"
    BY <2>0, <2>1, ZenonT(30) DEF K8sCreate
  <2>2. ASSUME NEW u \in Uids, K8sUpdate(u)
        PROVE  obj'[v].st = obj[v].st
    BY <2>0, <2>2, ZenonT(30) DEF K8sUpdate
  <2>3. ASSUME NEW u \in Uids, K8sTerminate(u)
        PROVE  /\ obj[v].st = "gone" => obj'[v].st = "gone"
               /\ obj[v].st # "none" => obj'[v].st # "none"
    BY <2>0, <2>3, ZenonT(30) DEF K8sTerminate
  <2>4. ASSUME NEW u \in Uids, K8sDelete(u)
        PROVE  /\ obj[v].st = "gone" => obj'[v].st = "gone"
               /\ obj[v].st # "none" => obj'[v].st # "none"
    BY <2>0, <2>4, ZenonT(30) DEF K8sDelete
  <2>5. CASE UNCHANGED obj
    BY <2>5, ZenonT(30)
  <2> QED
    BY ZenonT(30), <2>1, <2>2, <2>3, <2>4, <2>5
       DEF Next, vars, k8sVars, ListerSync, Reconcile, DelayedAdd, EdgeQuery,
           DispatchEvent, DispatchChan, DispCreate, DispStatus, DispAdd,
           DispQueue, DispUnchanged, SendNext, RetryTick, SaveSuccess,
           SendUnchanged, OldSaveSuccess, ReceiveMessageAck, EdgeProcess,
           EdgeResponse, EdgeReject, EdgeUnchanged, QueryTimeout, Connect,
           Disconnect, CloudRestart
<1> QED
  BY SMTT(30), <1>1, <1>2

-----------------------------------------------------------------------------
(* Where the messages of the next state come from.                           *)
StoreKept == \A u \in Uids : store'[u] \in Carried \cup {NoMsg}
SendKept  == {sMsg', oMsg'} \subseteq Carried \cup {NoMsg}
NetKept   == Range(down)' \cup Range(up)' \subseteq Carried

(* If each place keeps its messages, the system gains none.                  *)
LEMMA Kept ==
  ASSUME StoreKept, SendKept, NetKept
  PROVE  Carried' \subseteq Carried \cup {NoMsg}
BY ZenonT(30) DEF StoreKept, SendKept, NetKept, Carried

(* A place that a step leaves alone keeps its messages.                      *)
LEMMA KeptUnchanged ==
  /\ UNCHANGED store => StoreKept
  /\ UNCHANGED <<sMsg, oMsg>> => SendKept
  /\ UNCHANGED <<down, up>> => NetKept
<1>1. UNCHANGED store => StoreKept
  BY ZenonT(30) DEF StoreKept, Carried
<1>2. UNCHANGED <<sMsg, oMsg>> => SendKept
  BY ZenonT(30) DEF SendKept, Carried
<1>3. ASSUME UNCHANGED <<down, up>> PROVE NetKept
  <2>1. Range(down)' = Range(down) /\ Range(up)' = Range(up)
    BY <1>3, ZenonT(30) DEF Range
  <2> QED
    BY <2>1, ZenonT(30) DEF NetKept, Carried
<1> QED
  BY <1>1, <1>2, <1>3, ZenonT(30)

(* The parts of Carried are messages.                                        *)
LEMMA CarriedType ==
  ASSUME TypeOK
  PROVE  /\ Carried \subseteq Message \cup {NoMsg}
         /\ Range(down) \subseteq Carried /\ Range(up) \subseteq Carried
         /\ Range(down) \subseteq Message /\ Range(up) \subseteq Message
         /\ sMsg \in Carried /\ oMsg \in Carried
         /\ \A u \in Uids : store[u] \in Carried
<1>1. Range(down) \subseteq Message /\ Range(up) \subseteq Message
  BY DEF TypeOK, NetType, Range
<1>2. /\ \A u \in Uids : store[u] \in Message \cup {NoMsg}
      /\ {sMsg, oMsg} \subseteq Message \cup {NoMsg}
  BY ZenonT(30) DEF TypeOK, PoolType, SendType, OldType
<1> QED
  BY <1>1, <1>2, ZenonT(30) DEF Carried

(* The pool of a new session holds no message.                               *)
LEMMA FreshIsKept ==
  ASSUME FreshPool
  PROVE  StoreKept
BY ZenonT(30) DEF FreshPool, StoreKept

(* A broken connection only loses messages.                                  *)
LEMMA LostIsKept ==
  ASSUME TypeOK, LoseInFlight
  PROVE  NetKept
<1>1. down \in Seq(Message) /\ up \in Seq(Message)
  BY ZenonT(30) DEF TypeOK, NetType
<1>2. Range(down') \subseteq Range(down) /\ Range(up') \subseteq Range(up)
  BY <1>1, SurvivorsFacts, ZenonT(30) DEF LoseInFlight
<1> QED
  BY <1>2, CarriedType, ZenonT(30) DEF NetKept, Range

(* Only nodeStore.Add brings a message into the system, under an ID that no  *)
(* other message has; every other step passes on, copies or drops messages.  *)
Fresh(m) == /\ m \in Message
            /\ \A k \in Carried : k.id # m.id
            /\ disp # NoMsg /\ m.uid = disp.uid /\ m.op = disp.op

(* nodeStore.Add brings in one message, whose ID nothing else carries.       *)
LEMMA AddIsFresh ==
  ASSUME TypeOK, DispAdd
  PROVE  \/ Carried' \subseteq Carried \cup {NoMsg}
         \/ \E m : Fresh(m) /\ Carried' \subseteq Carried \cup {m}
<1>1. SendKept /\ NetKept
  BY KeptUnchanged, ZenonT(30) DEF DispAdd, DispUnchanged, sendVars, oldVars, netVars
<1>2. CASE dispStale
  BY <1>1, <1>2, Kept, KeptUnchanged, ZenonT(30) DEF DispAdd
<1>3. CASE ~dispStale
  <2> DEFINE m == [uid |-> disp.uid, op |-> disp.op, rv |-> disp.rv,
                   parent |-> disp.parent, id |-> NewId]
  <2>1. disp \in Content /\ disp # NoMsg
    BY NoMsgFacts, ZenonT(30) DEF TypeOK, DispType, DispAdd
  <2>2. NewId \in 1..MaxId /\ \A k \in Carried : k.id # NewId
    BY <1>3, ZenonT(30) DEF DispAdd, NewId, FreeIds
  <2>3. m \in Message /\ m.id = NewId /\ m.uid = disp.uid /\ m.op = disp.op
    BY <2>1, <2>2, NoMsgFacts DEF Message
  <2>4. Fresh(m)
    BY <2>1, <2>2, <2>3, ZenonT(30) DEF Fresh
  <2>5. store' = [store EXCEPT ![disp.uid] = m]
    BY <1>3, ZenonT(30) DEF DispAdd
  <2>6. \A u \in Uids : store'[u] \in Carried \cup {m}
    BY <2>5, CarriedType, ZenonT(30) DEF TypeOK, PoolType
  <2>7. UNCHANGED <<sMsg, oMsg, down, up>>
    BY ZenonT(30) DEF DispAdd, DispUnchanged, sendVars, oldVars, netVars
  <2>8. Carried' \subseteq Carried \cup {m}
    BY <2>6, <2>7 DEF Carried, Range
  <2> QED
    BY <2>4, <2>8, ZenonT(30)
<1> QED
  BY <1>2, <1>3, ZenonT(30)

(* No step but nodeStore.Add brings in a message.                            *)
LEMMA CarriedStep ==
  ASSUME TypeOK, [Next]_vars
  PROVE  \/ Carried' \subseteq Carried \cup {NoMsg}
         \/ \E m : Fresh(m) /\ Carried' \subseteq Carried \cup {m}
<1>1. CASE UNCHANGED <<store, sMsg, oMsg, down, up>>
  BY <1>1, Kept, KeptUnchanged, ZenonT(30)
<1>2. CASE DispAdd
  BY <1>2, AddIsFresh, ZenonT(30)
<1>3. CASE SendNext
  <2>1. StoreKept
    BY <1>3, KeptUnchanged, ZenonT(30) DEF SendNext
  <2>2. store[Head(queue)] \in Carried
    BY <1>3, CarriedType DEF TypeOK, PoolType, SendNext
  <2>3. SendKept
    BY <1>3, <2>2, CarriedType, ZenonT(30) DEF SendNext, SendKept, SendUnchanged, sendVars, oldVars
  <2>4. \/ down' = down
        \/ /\ store[Head(queue)] \in Message
           /\ down' = Append(down, store[Head(queue)])
    BY <1>3, <2>2, CarriedType, ZenonT(30) DEF SendNext
  <2>5. Range(down') \subseteq Carried
    <3>1. CASE down' = down
      BY <3>1, CarriedType, ZenonT(30)
    <3>2. CASE store[Head(queue)] \in Message /\ down' = Append(down, store[Head(queue)])
      <4>1. Range(down') = Range(down) \cup {store[Head(queue)]}
        BY <3>2, AppendFacts DEF TypeOK, NetType
      <4> QED
        BY <2>2, <4>1, CarriedType, ZenonT(30)
    <3> QED
      BY <2>4, <3>1, <3>2, ZenonT(30)
  <2>6. NetKept
    BY <1>3, <2>5, CarriedType, ZenonT(30) DEF NetKept, SendNext, Range
  <2> QED
    BY <2>1, <2>3, <2>6, Kept, ZenonT(30)
<1>4. CASE RetryTick
  <2>1. StoreKept
    BY <1>4, KeptUnchanged, ZenonT(30) DEF RetryTick
  <2>2. SendKept
    BY <1>4, CarriedType, ZenonT(30) DEF RetryTick, QueueDone, SendKept, SendUnchanged, oldVars
  <2>3. sMsg \in Message
    BY <1>4, NoMsgFacts, ZenonT(30) DEF TypeOK, SendType, RetryTick
  <2>4. down' = down \/ down' = Append(down, sMsg)
    BY <1>4, ZenonT(30) DEF RetryTick
  <2>5. Range(down') \subseteq Range(down) \cup {sMsg}
    <3>1. down \in Seq(Message)
      BY ZenonT(30) DEF TypeOK, NetType
    <3> QED
      BY <2>3, <2>4, <3>1, MaybeAppended, ZenonT(30)
  <2>6. NetKept
    BY <1>4, <2>5, CarriedType, ZenonT(30) DEF NetKept, RetryTick, Range
  <2> QED
    BY <2>1, <2>2, <2>6, Kept, ZenonT(30)
<1>5. CASE SaveSuccess
  <2>1. SendKept
    BY ZenonT(30), <1>5, CarriedType
       DEF SaveSuccess, QueueDone, SendKept, SendUnchanged, oldVars
  <2>2. NetKept
    BY <1>5, KeptUnchanged, ZenonT(30) DEF SaveSuccess, netVars
  <2>3. StoreKept
    BY <1>5, CarriedType, ZenonT(30) DEF SaveSuccess, DropFromStore, StoreKept, TypeOK, PoolType
  <2> QED
    BY <2>1, <2>2, <2>3, Kept, ZenonT(30)
<1>6. CASE OldSaveSuccess
  <2>1. SendKept
    BY <1>6, CarriedType, ZenonT(30) DEF OldSaveSuccess, SendKept, sendVars
  <2> QED
    BY <1>6, <2>1, Kept, KeptUnchanged, ZenonT(30) DEF OldSaveSuccess, poolVars, netVars
<1>7. ASSUME NEW i \in DOMAIN up, ReceiveMessageAck(i)
      PROVE  Carried' \subseteq Carried \cup {NoMsg}
  <2>1. Range(up') \subseteq Range(up)
    BY <1>7, WithoutFacts, ZenonT(30) DEF ReceiveMessageAck, TypeOK, NetType
  <2>2. NetKept
    BY <1>7, <2>1, CarriedType, ZenonT(30) DEF NetKept, ReceiveMessageAck, Range
  <2> QED
    BY <1>7, <2>2, Kept, KeptUnchanged, ZenonT(30)
       DEF ReceiveMessageAck, SendUnchanged, poolVars, oldVars
<1>8. ASSUME NEW i \in DOMAIN down, EdgeProcess(i) \/ EdgeResponse(i) \/ EdgeReject(i)
      PROVE  Carried' \subseteq Carried \cup {NoMsg}
  <2>1. Range(down') \subseteq Range(down)
    BY <1>8, WithoutFacts, ZenonT(30) DEF EdgeProcess, EdgeResponse, EdgeReject, TypeOK, NetType
  <2>2. down[i] \in Range(down) /\ down[i] \in Message
    BY SMTT(30) DEF Range, TypeOK, NetType
  <2>3. up' = up \/ up' = Append(up, down[i])
    BY <1>8, ZenonT(30) DEF EdgeProcess, EdgeResponse, EdgeReject, Ack
  <2>4. Range(up') \subseteq Range(up) \cup {down[i]}
    <3>1. up \in Seq(Message)
      BY ZenonT(30) DEF TypeOK, NetType
    <3> QED
      BY <2>2, <2>3, <3>1, MaybeAppended, ZenonT(30)
  <2>5. NetKept
    BY SMTT(30), <2>1, <2>2, <2>4, CarriedType DEF NetKept, Range
  <2>6. UNCHANGED <<store, sMsg, oMsg>>
    BY ZenonT(30), <1>8
       DEF EdgeProcess, EdgeResponse, EdgeReject, EdgeUnchanged, poolVars,
                sendVars, oldVars
  <2> QED
    BY SMTT(30), <2>5, <2>6, Kept, KeptUnchanged
<1>9. CASE Connect
  BY <1>9, Kept, KeptUnchanged, FreshIsKept, ZenonT(30) DEF Connect, sendVars, oldVars, netVars
<1>10. CASE Disconnect
  <2>1. SendKept
    BY ZenonT(30), <1>10, CarriedType DEF Disconnect, NoSender, SendKept, oldVars
  <2> QED
    BY SMTT(30), <1>10, <2>1, Kept, FreshIsKept, LostIsKept DEF Disconnect
<1>11. CASE CloudRestart
  <2>1. SendKept
    BY <1>11, ZenonT(30) DEF CloudRestart, NoSender, SendKept
  <2> QED
    BY <1>11, <2>1, Kept, FreshIsKept, LostIsKept, ZenonT(30) DEF CloudRestart
<1>12. CASE \/ UNCHANGED vars
            \/ \E u \in Uids : \/ K8sCreate(u) \/ K8sUpdate(u) \/ K8sTerminate(u)
                               \/ K8sDelete(u) \/ ListerSync(u) \/ Reconcile(u)
                               \/ DelayedAdd(u) \/ EdgeQuery(u)
            \/ DispatchEvent \/ DispatchChan \/ DispCreate \/ DispStatus \/ DispQueue
            \/ \E n \in Names : QueryTimeout(n)
  <2>1. UNCHANGED <<store, sMsg, oMsg, down, up>>
    BY <1>12, ZenonT(30)
       DEF vars, poolVars, sendVars, oldVars, netVars, K8sCreate, K8sUpdate,
           K8sTerminate, K8sDelete, K8sUnchanged, ListerSync, Reconcile,
           DelayedAdd, SendUnchanged, EdgeQuery, DispatchEvent, DispatchChan,
           DispCreate, DispStatus, DispQueue, DispUnchanged, QueryTimeout,
           EdgeUnchanged
  <2> QED
    BY SMTT(30), <1>1, <2>1
<1> QED
  BY <1>2, <1>3, <1>4, <1>5, <1>6, <1>7, <1>8, <1>9, <1>10, <1>11, <1>12, ZenonT(30) DEF Next

-----------------------------------------------------------------------------
(* The conjuncts of the inductive invariant, one by one.                     *)
LEMMA IdsStep ==
  ASSUME TypeOK, IdsUnique, [Next]_vars
  PROVE  IdsUnique'
<1>1. Carried \subseteq Message \cup {NoMsg}
  BY CarriedType, ZenonT(30)
<1>2. CASE Carried' \subseteq Carried \cup {NoMsg}
  BY <1>1, <1>2, NoMsgFacts, ZenonT(30) DEF IdsUnique
<1>3. ASSUME NEW m, Fresh(m), Carried' \subseteq Carried \cup {m}
      PROVE  IdsUnique'
  BY <1>3, ZenonT(30) DEF IdsUnique, Fresh
<1> QED
  BY <1>2, <1>3, CarriedStep, ZenonT(30)

(* What the edge has carried out stays carried out.                          *)
LEMMA CarriedOutStays ==
  ASSUME TypeOK, [Next]_vars, NEW m, CarriedOut(m)
  PROVE  CarriedOut(m)'
BY SMTT(30), Monotone DEF CarriedOut

(* An ack enters the network with the write or the delete it stands for.     *)
LEMMA AcksStep ==
  ASSUME TypeOK, AcksTruthful, [Next]_vars
  PROVE  AcksTruthful'
<1>1. ASSUME Range(up') \subseteq Range(up) PROVE AcksTruthful'
  BY <1>1, CarriedOutStays, ZenonT(30) DEF AcksTruthful, Range
<1>2. ASSUME NEW i \in DOMAIN down, EdgeProcess(i) PROVE AcksTruthful'
  <2>1. PICK m \in Message : m = down[i]
    BY DEF TypeOK, NetType
  <2>2. CarriedOut(m)'
    BY <1>2, <2>1, ZenonT(30) DEF EdgeProcess, CarriedOut, InsertOrUpdate, DeleteMeta
  <2>3. Range(up') = Range(up) \cup {m}
    BY <1>2, <2>1, AppendFacts DEF TypeOK, NetType, EdgeProcess, Ack
  <2> QED
    BY <2>2, <2>3, CarriedOutStays, ZenonT(30) DEF AcksTruthful, Range
<1>3. ASSUME NEW i \in DOMAIN down, EdgeResponse(i) PROVE AcksTruthful'
  <2>1. PICK m \in Message : m = down[i]
    BY DEF TypeOK, NetType
  <2>2. CASE up' = up
    BY SMTT(30), <1>1, <2>2
  <2>3. CASE InsertOrUpdate(down[i]) /\ Ack(down[i])
    <3>1. CarriedOut(m)'
      BY <1>3, <2>1, <2>3, ZenonT(30) DEF EdgeResponse, CarriedOut, InsertOrUpdate
    <3>2. Range(up') = Range(up) \cup {m}
      BY <2>1, <2>3, AppendFacts DEF TypeOK, NetType, Ack
    <3> QED
      BY <3>1, <3>2, CarriedOutStays, ZenonT(30) DEF AcksTruthful, Range
  <2> QED
    BY <1>3, <2>2, <2>3, ZenonT(30) DEF EdgeResponse
<1>4. ASSUME NEW i \in DOMAIN up, ReceiveMessageAck(i) PROVE AcksTruthful'
  <2>1. Range(up') \subseteq Range(up)
    BY <1>4, WithoutFacts, ZenonT(30) DEF ReceiveMessageAck, TypeOK, NetType
  <2> QED
    BY SMTT(30), <1>1, <2>1
<1>5. CASE LoseInFlight
  <2>1. Range(up') \subseteq Range(up)
    BY <1>5, SurvivorsFacts, ZenonT(30) DEF LoseInFlight, TypeOK, NetType
  <2> QED
    BY <1>1, <2>1, ZenonT(30)
<1>6. CASE UNCHANGED up
  BY SMTT(30), <1>1, <1>6
<1> QED
  BY ZenonT(30), <1>2, <1>3, <1>4, <1>5, <1>6
     DEF Next, vars, netVars, K8sCreate, K8sUpdate, K8sTerminate, K8sDelete,
         K8sUnchanged, ListerSync, Reconcile, DelayedAdd, EdgeQuery,
         DispatchEvent, DispatchChan, DispCreate, DispStatus, DispAdd,
         DispQueue, DispUnchanged, SendNext, RetryTick, SaveSuccess,
         OldSaveSuccess, EdgeReject, QueryTimeout, Connect, Disconnect,
         CloudRestart

(* An ack that matches the sender's message by ID is an ack of that message; *)
(* the steps of saveSuccessPoint, and the hand-over to a terminated session, *)
(* keep the message the ack was for.                                         *)
LEMMA SendersStep ==
  ASSUME TypeOK, AcksTruthful, SendersTruthful, IdsUnique, [Next]_vars
  PROVE  SendersTruthful'
<1>0. /\ \A m : CarriedOut(m) => CarriedOut(m)'
      /\ sAcked \in BOOLEAN /\ sAcked' \in BOOLEAN
  BY CarriedOutStays, TypeStep, ZenonT(30) DEF TypeOK, FlagType
<1>a. ASSUME UNCHANGED sendVars PROVE
             /\ sAcked' => sPc' # "idle" /\ CarriedOut(sMsg)'
             /\ sPc' \in {"create", "put"} => sAcked' /\ sMsg'.op # "delete"
  <2>1. PICK m : m = sMsg
    OBVIOUS
  <2> QED
    BY <1>0, <1>a, <2>1, ZenonT(30) DEF SendersTruthful, sendVars, CarriedOut
<1>b. ASSUME UNCHANGED oldVars PROVE
             /\ oPc' # "idle" => CarriedOut(oMsg)'
             /\ oPc' \in {"create", "put"} => oMsg'.op # "delete"
  <2>1. PICK m : m = oMsg
    OBVIOUS
  <2> QED
    BY <1>0, <1>b, <2>1, ZenonT(30) DEF SendersTruthful, oldVars, CarriedOut
<1>c. ASSUME ~sAcked', sPc' \notin {"create", "put"} PROVE
             /\ sAcked' => sPc' # "idle" /\ CarriedOut(sMsg)'
             /\ sPc' \in {"create", "put"} => sAcked' /\ sMsg'.op # "delete"
  BY <1>c, ZenonT(30)
<1>1. CASE UNCHANGED sendVars /\ UNCHANGED oldVars
  BY <1>1, <1>a, <1>b, ZenonT(30) DEF SendersTruthful
<1>2. CASE SendNext
  <2>1. ~sAcked
    BY <1>2, ZenonT(30) DEF SendersTruthful, SendNext
  <2>2. ~sAcked' /\ sPc' \notin {"create", "put"}
    BY <1>2, <2>1, ZenonT(30) DEF SendNext, sendVars
  <2>3. UNCHANGED oldVars
    BY <1>2, ZenonT(30) DEF SendNext, SendUnchanged
  <2> QED
    BY <1>b, <1>c, <2>2, <2>3, ZenonT(30) DEF SendersTruthful
<1>3. CASE RetryTick
  <2>1. CASE UNCHANGED <<sMsg, sPc, sAcked, sSeen, queue, redo, delayed>>
    <3>1. PICK m : m = sMsg
      OBVIOUS
    <3>2. /\ sAcked' => sPc' # "idle" /\ CarriedOut(sMsg)'
          /\ sPc' \in {"create", "put"} => sAcked' /\ sMsg'.op # "delete"
      BY <1>0, <2>1, <3>1, ZenonT(30) DEF SendersTruthful, CarriedOut
    <3> QED
      BY <1>3, <1>b, <3>2, ZenonT(30) DEF SendersTruthful, RetryTick, SendUnchanged
  <2>2. CASE QueueDone
    <3>1. ~sAcked' /\ sPc' \notin {"create", "put"}
      BY <2>2, ZenonT(30) DEF QueueDone
    <3> QED
      BY <1>3, <1>b, <1>c, <3>1, ZenonT(30) DEF SendersTruthful, RetryTick, SendUnchanged
  <2> QED
    BY <1>3, <2>1, <2>2, ZenonT(30) DEF RetryTick
<1>4. ASSUME NEW i \in DOMAIN up, ReceiveMessageAck(i) PROVE SendersTruthful'
  <2>1. PICK m : m = sMsg
    OBVIOUS
  <2>2. up[i] \in Range(up) /\ up[i] \in Carried /\ sMsg \in Carried
    BY CarriedType, ZenonT(30) DEF Range
  <2>3. sPc = "wait" /\ sMsg.id = up[i].id => CarriedOut(sMsg)
    BY <2>2, ZenonT(30) DEF IdsUnique, AcksTruthful
  <2>4. sAcked' => sPc # "idle" /\ CarriedOut(m)
    BY ZenonT(30), <1>4, <2>1, <2>3 DEF ReceiveMessageAck, SendersTruthful
  <2>5. sAcked' => sPc' # "idle" /\ CarriedOut(sMsg)'
    BY <1>0, <1>4, <2>1, <2>4, ZenonT(30) DEF ReceiveMessageAck, CarriedOut
  <2>6. sPc' \in {"create", "put"} => sAcked' /\ sMsg'.op # "delete"
    BY ZenonT(30), <1>4 DEF ReceiveMessageAck, SendersTruthful
  <2> QED
    BY <1>4, <1>b, <2>5, <2>6, ZenonT(30) DEF SendersTruthful, ReceiveMessageAck, SendUnchanged
<1>5. CASE SaveSuccess
  <2>1. UNCHANGED oldVars
    BY <1>5, ZenonT(30) DEF SaveSuccess, SendUnchanged
  <2>2. CASE QueueDone
    <3>1. ~sAcked' /\ sPc' \notin {"create", "put"}
      BY <2>2, ZenonT(30) DEF QueueDone
    <3> QED
      BY <1>b, <1>c, <2>1, <3>1, ZenonT(30) DEF SendersTruthful
  <2>3. ASSUME NEW pc2 \in Pcs, NEW seen2 \in Statuses, pc2 # "idle",
               SaveStep(sMsg, sPc, sSeen, pc2, seen2),
               sPc' = pc2, UNCHANGED <<queue, redo, sMsg, sRetry, sAcked>>
        PROVE  SendersTruthful'
    <3>1. PICK m : m = sMsg
      OBVIOUS
    <3>2. sAcked /\ CarriedOut(m)
      BY <1>5, <3>1, ZenonT(30) DEF SaveSuccess, SendersTruthful
    <3>3. CarriedOut(sMsg)'
      BY SMTT(30), <1>0, <2>3, <3>1, <3>2 DEF CarriedOut
    <3>4. sMsg.op # "delete"
      BY <2>3, ZenonT(30) DEF SaveStep, SendersTruthful
    <3> QED
      BY <1>b, <2>1, <2>3, <3>2, <3>3, <3>4, ZenonT(30) DEF SendersTruthful
  <2> QED
    BY ZenonT(30), <1>5, <2>2, <2>3 DEF SaveSuccess
<1>6. CASE OldSaveSuccess
  <2>1. UNCHANGED sendVars
    BY <1>6, ZenonT(30) DEF OldSaveSuccess
  <2>2. PICK m : m = oMsg
    OBVIOUS
  <2>3. oPc # "idle"
    BY <1>6, ZenonT(30) DEF OldSaveSuccess, SavePcs
  <2>4. CarriedOut(m)'
    BY <1>0, <2>2, <2>3, ZenonT(30) DEF SendersTruthful
  <2>5. PICK pc2 \in Pcs, seen2 \in Statuses :
             /\ SaveStep(oMsg, oPc, oSeen, pc2, seen2)
             /\ oPc' = pc2
             /\ oMsg' = IF pc2 = "idle" THEN NoMsg ELSE oMsg
    BY <1>6, ZenonT(30) DEF OldSaveSuccess
  <2>6. oPc' # "idle" => CarriedOut(oMsg)'
    BY <2>2, <2>4, <2>5, ZenonT(30) DEF CarriedOut
  <2>7. oPc' \in {"create", "put"} => oMsg'.op # "delete"
    BY <2>5, ZenonT(30) DEF SaveStep, SendersTruthful
  <2> QED
    BY <1>a, <2>1, <2>6, <2>7, ZenonT(30) DEF SendersTruthful
<1>7. CASE Disconnect
  <2>1. ~sAcked' /\ sPc' \notin {"create", "put"}
    BY <1>7, ZenonT(30) DEF Disconnect, NoSender
  <2>2. CASE UNCHANGED oldVars
    BY <1>b, <1>c, <2>1, <2>2, ZenonT(30) DEF SendersTruthful
  <2>3. CASE sAcked /\ oMsg' = sMsg /\ oPc' = sPc
    <3>1. PICK m : m = sMsg
      OBVIOUS
    <3>2. CarriedOut(oMsg)'
      BY <1>0, <2>3, <3>1, ZenonT(30) DEF SendersTruthful, CarriedOut
    <3> QED
      BY <1>c, <2>1, <2>3, <3>2, ZenonT(30) DEF SendersTruthful
  <2> QED
    BY <1>7, <2>2, <2>3, ZenonT(30) DEF Disconnect
<1>8. CASE CloudRestart
  BY SMTT(30), <1>8, <1>c DEF CloudRestart, NoSender, SendersTruthful
<1> QED
  BY ZenonT(30), <1>1, <1>2, <1>3, <1>4, <1>5, <1>6, <1>7, <1>8
     DEF Next, vars, K8sCreate, K8sUpdate, K8sTerminate, K8sDelete,
         K8sUnchanged, ListerSync, Reconcile, DelayedAdd, SendUnchanged,
         EdgeQuery, DispatchEvent, DispatchChan, DispCreate, DispStatus,
         DispAdd, DispQueue, DispUnchanged, EdgeProcess, EdgeResponse,
         EdgeReject, EdgeUnchanged, QueryTimeout, Connect

(* What saveSuccessPoint does to the ObjectSyncs.                            *)
LEMMA SaveEffect ==
  ASSUME TypeOK, NEW m \in Message, NEW pc, NEW seen, NEW pc2, NEW seen2,
         SaveStep(m, pc, seen, pc2, seen2), NEW u \in Uids
  PROVE  \/ api'[u] = api[u]
         \/ u = m.uid /\ api'[u] = Empty
         \/ u = m.uid /\ pc = "put" /\ api'[u] = m.rv
         \/ u = m.uid /\ m.op = "delete" /\ api'[u] = NoCR
BY SMTT(30) DEF SaveStep, TypeOK, SyncType

(* Every way an ObjectSync changes: the dispatcher's Create and UpdateStatus *)
(* to "0", and the two senders.                                              *)
LEMMA ApiStep ==
  ASSUME TypeOK, SendersTruthful, [Next]_vars, NEW u \in Uids
  PROVE  \/ api'[u] = api[u]
         \/ disp # NoMsg /\ u = disp.uid /\ api'[u] \in {Empty, 0}
         \/ \E m \in {sMsg, oMsg} :
              /\ m \in Message /\ u = m.uid /\ CarriedOut(m)
              /\ \/ api'[u] = Empty
                 \/ m.op # "delete" /\ api'[u] = m.rv
                 \/ m.op = "delete" /\ api'[u] = NoCR
<1>1. CASE DispCreate \/ DispStatus
  BY SMTT(30), <1>1 DEF DispCreate, DispStatus, TypeOK, DispType, SyncType
<1>2. CASE SaveSuccess
  <2>1. sMsg \in Message /\ CarriedOut(sMsg)
    BY <1>2, ZenonT(30) DEF SaveSuccess, SendersTruthful, TypeOK, SendType, SavePcs
  <2>2. PICK pc2, seen2 : SaveStep(sMsg, sPc, sSeen, pc2, seen2)
    BY <1>2, ZenonT(30) DEF SaveSuccess
  <2>3. sPc = "put" => sMsg.op # "delete"
    BY ZenonT(30) DEF SendersTruthful
  <2> QED
    BY <2>1, <2>2, <2>3, SaveEffect, ZenonT(30)
<1>3. CASE OldSaveSuccess
  <2>1. oMsg \in Message /\ CarriedOut(oMsg)
    BY <1>3, ZenonT(30) DEF OldSaveSuccess, SendersTruthful, TypeOK, OldType, SavePcs
  <2>2. PICK pc2, seen2 : SaveStep(oMsg, oPc, oSeen, pc2, seen2)
    BY <1>3, ZenonT(30) DEF OldSaveSuccess
  <2>3. oPc = "put" => oMsg.op # "delete"
    BY ZenonT(30) DEF SendersTruthful
  <2> QED
    BY <2>1, <2>2, <2>3, SaveEffect
<1>4. CASE UNCHANGED api
  BY SMTT(30), <1>4
<1> QED
  BY ZenonT(30), <1>1, <1>2, <1>3, <1>4
     DEF Next, vars, K8sCreate, K8sUpdate, K8sTerminate, K8sDelete,
         K8sUnchanged, ListerSync, Reconcile, DelayedAdd, SendUnchanged,
         EdgeQuery, DispatchEvent, DispatchChan, DispAdd, DispQueue,
         SendNext, RetryTick, ReceiveMessageAck, EdgeProcess, EdgeResponse,
         EdgeReject, EdgeUnchanged, QueryTimeout, Connect, Disconnect, CloudRestart

(* A version that is recorded was written: it is an acknowledged one.        *)
LEMMA RecordedStep ==
  ASSUME TypeOK, SendersTruthful, RecordedWasPersisted, [Next]_vars
  PROVE  RecordedWasPersisted'
<1> SUFFICES ASSUME NEW u \in Uids, api'[u] > 0
             PROVE  <<u, api'[u]>> \in persisted'
  BY ZenonT(30) DEF RecordedWasPersisted
<1>1. persisted \subseteq persisted'
  BY Monotone, ZenonT(30)
<1>2. CASE api'[u] = api[u]
  BY <1>1, <1>2, ZenonT(30) DEF RecordedWasPersisted
<1>3. api'[u] # Empty /\ api'[u] # 0 /\ api'[u] # NoCR
  BY DEF Empty, NoCR
<1>4. ASSUME NEW m, u = m.uid, CarriedOut(m), m.op # "delete", api'[u] = m.rv
      PROVE  <<u, api'[u]>> \in persisted'
  BY SMTT(30), <1>1, <1>4 DEF CarriedOut
<1> QED
  BY <1>2, <1>3, <1>4, ApiStep, ZenonT(30)

-----------------------------------------------------------------------------
(* Messages are built only for objects that exist or existed, and deletes    *)
(* only for deleted ones.                                                    *)
LEMMA JustifiedStays ==
  ASSUME TypeOK, [Next]_vars, NEW c, c.uid \in Uids, Justified(c)
  PROVE  Justified(c)'
BY SMTT(30), Monotone DEF Justified

(* The head and the rest of a sequence are elements of it.                   *)
LEMMA TailFacts ==
  ASSUME NEW S, NEW s \in Seq(S), s # <<>>
  PROVE  Range(Tail(s)) \subseteq Range(s) /\ Head(s) \in Range(s)
<1>1. Len(s) \in Nat \ {0} /\ DOMAIN s = 1..Len(s) /\ DOMAIN Tail(s) = 1..(Len(s) - 1)
      /\ \A j \in 1..(Len(s) - 1) : Tail(s)[j] = s[j + 1]
  OBVIOUS
<1>2. \A j \in 1..(Len(s) - 1) : j + 1 \in DOMAIN s
  BY <1>1
<1>3. Range(Tail(s)) \subseteq Range(s)
  BY <1>1, <1>2, ZenonT(30) DEF Range
<1>4. 1 \in DOMAIN s /\ Head(s) = s[1]
  BY SMTT(30), <1>1
<1> QED
  BY <1>3, <1>4, ZenonT(30) DEF Range

(* An event of deletion enters with the deletion of its object.              *)
LEMMA EventsStep ==
  ASSUME TypeOK, [Next]_vars, NEW c \in Range(events')
  PROVE  c \in Range(events) \/ Justified(c)'
<1>0. /\ obj \in [Uids -> [st : {"none", "live", "term", "gone"}, rv : 0..MaxRV]]
      /\ events \in Seq(Content)
  BY ZenonT(30) DEF TypeOK, K8sType
<1>1. ASSUME NEW u \in Uids, NEW op, NEW rv, NewContent(u, op, rv, 0) \in Content,
             Emit(u, op, rv), obj'[u].st # "none",
             op = "delete" => obj'[u].st = "gone"
      PROVE  c \in Range(events) \/ Justified(c)'
  <2>1. PICK d \in Content : d = NewContent(u, op, rv, 0)
    BY <1>1, ZenonT(30)
  <2>2. Range(events') = Range(events) \cup {d}
    BY <1>0, <1>1, <2>1, AppendFacts DEF Emit
  <2>3. d.uid = u /\ d.op = op
    BY <2>1, ZenonT(30) DEF NewContent
  <2>4. Justified(d)'
    BY <1>1, <2>3, ZenonT(30) DEF Justified
  <2> QED
    BY <2>2, <2>4, ZenonT(30)
<1>2. ASSUME NEW u \in Uids, K8sCreate(u) PROVE c \in Range(events) \/ Justified(c)'
  <2>1. NewContent(u, "update", 1, 0) \in Content
    BY SMTT(30), <1>2, ContentType, BoundsAssumption DEF K8sCreate, Ops
  <2>2. obj'[u].st = "live"
    BY <1>0, <1>2, ZenonT(30) DEF K8sCreate
  <2> QED
    BY SMTT(30), <1>1, <1>2, <2>1, <2>2 DEF K8sCreate
<1>3. ASSUME NEW u \in Uids, K8sUpdate(u) PROVE c \in Range(events) \/ Justified(c)'
  <2>1. obj[u].rv + 1 \in 0..MaxRV /\ UpdateOp(obj[u].st) \in Ops
    BY SMTT(30), <1>3, ContentType, BoundsAssumption DEF K8sUpdate
  <2>2. NewContent(u, UpdateOp(obj[u].st), obj[u].rv + 1, 0) \in Content
    BY <2>1, ContentType, ZenonT(30)
  <2>3. obj'[u].st \in {"live", "term"}
    BY <1>0, <1>3, ZenonT(30) DEF K8sUpdate, Live
  <2>4. UpdateOp(obj[u].st) # "delete"
    BY SMTT(30) DEF UpdateOp
  <2> QED
    BY <1>1, <1>3, <2>2, <2>3, <2>4, ZenonT(30) DEF K8sUpdate
<1>4. ASSUME NEW u \in Uids, K8sTerminate(u) PROVE c \in Range(events) \/ Justified(c)'
  <2>1. obj[u].rv + 1 \in 0..MaxRV /\ "terminate" \in Ops
    BY SMTT(30), <1>4, ContentType, BoundsAssumption DEF K8sTerminate, Ops
  <2>2. NewContent(u, "terminate", obj[u].rv + 1, 0) \in Content
    BY <2>1, ContentType, ZenonT(30)
  <2>3. obj'[u].st = "term"
    BY <1>0, <1>4, ZenonT(30) DEF K8sTerminate
  <2> QED
    BY SMTT(30), <1>1, <1>4, <2>2, <2>3 DEF K8sTerminate
<1>5. ASSUME NEW u \in Uids, K8sDelete(u) PROVE c \in Range(events) \/ Justified(c)'
  <2>1. NewContent(u, "delete", obj[u].rv, 0) \in Content
    BY ContentType, ZenonT(30)
  <2>2. obj'[u].st = "gone"
    BY <1>0, <1>5, ZenonT(30) DEF K8sDelete
  <2> QED
    BY SMTT(30), <1>1, <1>5, <2>1, <2>2 DEF K8sDelete
<1>6. CASE DispatchEvent
  BY SMTT(30), <1>0, <1>6, TailFacts DEF DispatchEvent
<1>7. CASE CloudRestart
  <2>1. PICK s \in Orderings(LiveUids) :
             events' = [i \in 1..Cardinality(LiveUids) |-> Listed(s[i])]
    BY <1>7, ZenonT(30) DEF CloudRestart
  <2>2. s \in [1..Cardinality(LiveUids) -> LiveUids]
    BY ZenonT(30) DEF Orderings
  <2>3. PICK u \in LiveUids : c = Listed(u)
    BY SMTT(30), <2>1, <2>2 DEF Range
  <2>4. c.uid = u /\ c.op # "delete" /\ obj[u].st # "none"
    BY <2>3, ZenonT(30) DEF Listed, NewContent, UpdateOp, LiveUids, Live
  <2> QED
    BY <1>7, <2>4, ZenonT(30) DEF CloudRestart, Justified
<1>8. CASE UNCHANGED events
  BY SMTT(30), <1>8
<1> QED
  BY ZenonT(30), <1>2, <1>3, <1>4, <1>5, <1>6, <1>7, <1>8
     DEF Next, vars, k8sVars, ListerSync, Reconcile, DelayedAdd, SendUnchanged,
         EdgeQuery, DispatchChan, DispCreate, DispStatus, DispAdd, DispQueue,
         SendNext, RetryTick, SaveSuccess, OldSaveSuccess, ReceiveMessageAck,
         EdgeProcess, EdgeResponse, EdgeReject, EdgeUnchanged, QueryTimeout,
         Connect, Disconnect

(* syncController sends a delete only for an object that is gone.            *)
LEMMA ChanStep ==
  ASSUME TypeOK, AllJustified, [Next]_vars, NEW c \in Range(chan')
  PROVE  c \in Range(chan) \/ Justified(c)'
<1>0. /\ obj \in [Uids -> [st : {"none", "live", "term", "gone"}, rv : 0..MaxRV]]
      /\ chan \in Seq(Content)
  BY ZenonT(30) DEF TypeOK, K8sType
<1>1. ASSUME NEW u \in Uids, NEW op, NEW rv, NEW q,
             NewContent(u, op, rv, q) \in Content,
             chan' = Append(chan, NewContent(u, op, rv, q)),
             obj'[u].st # "none", op = "delete" => obj'[u].st = "gone"
      PROVE  c \in Range(chan) \/ Justified(c)'
  <2>1. PICK d \in Content : d = NewContent(u, op, rv, q)
    BY SMTT(30), <1>1
  <2>2. Range(chan') = Range(chan) \cup {d}
    BY <1>0, <1>1, <2>1, AppendFacts
  <2>3. d.uid = u /\ d.op = op
    BY SMTT(30), <2>1 DEF NewContent
  <2>4. Justified(d)'
    BY SMTT(30), <1>1, <2>3 DEF Justified
  <2> QED
    BY <2>2, <2>4, ZenonT(30)
<1>2. ASSUME NEW u \in Uids, Reconcile(u) PROVE c \in Range(chan) \/ Justified(c)'
  <2>1. obj' = obj /\ obj[u].st # "none"
    BY SMTT(30), <1>2 DEF Reconcile, k8sVars, AllJustified
  <2>2. CASE ~Live(u) /\ chan' = Append(chan, NewContent(u, "delete", 0, 0))
    <3>1. obj[u].st = "gone"
      BY SMTT(30), <1>0, <2>1, <2>2 DEF Live
    <3> QED
      BY <1>1, <2>1, <2>2, <3>1, ContentType, ZenonT(30)
  <2>3. CASE chan' = Append(chan, NewContent(u, UpdateOp(obj[u].st), obj[u].rv, 0))
    <3>1. UpdateOp(obj[u].st) # "delete"
      BY ZenonT(30) DEF UpdateOp
    <3>2. NewContent(u, UpdateOp(obj[u].st), obj[u].rv, 0) \in Content
      BY SMTT(30), ContentType
    <3> QED
      BY SMTT(30), <1>1, <2>1, <2>3, <3>1, <3>2
  <2> QED
    BY SMTT(30), <1>2, <2>2, <2>3 DEF Reconcile
<1>3. ASSUME NEW u \in Uids, EdgeQuery(u) PROVE c \in Range(chan) \/ Justified(c)'
  <2>1. obj' = obj /\ obj[u].st # "none"
    BY ZenonT(30), <1>3 DEF EdgeQuery, k8sVars, Live
  <2>2. budget["query"] \in Nat /\ "response" \in Ops
    BY ZenonT(30) DEF TypeOK, BudgetType, Kinds, Ops
  <2>3. NewContent(u, "response", obj[u].rv, budget["query"]) \in Content
    BY <2>2, ContentType, ZenonT(30)
  <2> QED
    BY SMTT(30), <1>1, <1>3, <2>1, <2>3 DEF EdgeQuery
<1>4. CASE DispatchChan
  BY <1>0, <1>4, TailFacts, ZenonT(30) DEF DispatchChan
<1>5. CASE CloudRestart
  BY <1>5 DEF CloudRestart, Range
<1>6. CASE UNCHANGED chan
  BY SMTT(30), <1>6
<1> QED
  BY ZenonT(30), <1>2, <1>3, <1>4, <1>5, <1>6
     DEF Next, vars, K8sCreate, K8sUpdate, K8sTerminate, K8sDelete, K8sUnchanged,
         ListerSync, DelayedAdd, SendUnchanged, DispatchEvent, DispCreate,
         DispStatus, DispAdd, DispQueue, SendNext, RetryTick, SaveSuccess,
         OldSaveSuccess, ReceiveMessageAck, EdgeProcess, EdgeResponse,
         EdgeReject, EdgeUnchanged, QueryTimeout, Connect, Disconnect

(* The dispatcher works on what it took from its channels.                   *)
LEMMA DispStep ==
  ASSUME TypeOK, [Next]_vars
  PROVE  disp' \in {disp, NoMsg} \cup Range(events) \cup Range(chan)
<1>1. CASE DispatchEvent
  <2>1. Head(events) \in Range(events)
    BY <1>1, TailFacts, ZenonT(30) DEF DispatchEvent, TypeOK, K8sType
  <2> QED
    BY <1>1, <2>1, ZenonT(30) DEF DispatchEvent, enqueueAckMessage, DispIdle
<1>2. CASE DispatchChan
  <2>1. Head(chan) \in Range(chan)
    BY <1>2, TailFacts, ZenonT(30) DEF DispatchChan, TypeOK, K8sType
  <2> QED
    BY <1>2, <2>1, ZenonT(30) DEF DispatchChan, enqueueAckMessage, DispIdle
<1>3. CASE disp' \in {disp, NoMsg}
  BY SMTT(30), <1>3
<1> QED
  BY ZenonT(30), <1>1, <1>2, <1>3
     DEF Next, vars, dispVars, K8sCreate, K8sUpdate, K8sTerminate, K8sDelete,
         K8sUnchanged, ListerSync, Reconcile, DelayedAdd, SendUnchanged,
         EdgeQuery, DispCreate, DispStatus, DispAdd, DispQueue, DispIdle,
         SendNext, RetryTick, SaveSuccess, OldSaveSuccess, ReceiveMessageAck,
         EdgeProcess, EdgeResponse, EdgeReject, EdgeUnchanged, QueryTimeout,
         Connect, Disconnect, CloudRestart

(* The cache holds what it held or what the API server has.                  *)
LEMMA ListerStep ==
  ASSUME TypeOK, [Next]_vars, NEW u \in Uids
  PROVE  lister'[u] \in {lister[u], api[u]}
<1>1. ASSUME NEW v \in Uids, ListerSync(v) PROVE lister'[u] \in {lister[u], api[u]}
  BY <1>1, ZenonT(30) DEF ListerSync, TypeOK, SyncType
<1>2. CASE lister' \in {lister, api}
  BY SMTT(30), <1>2
<1> QED
  BY ZenonT(30), <1>1, <1>2
     DEF Next, vars, K8sCreate, K8sUpdate, K8sTerminate, K8sDelete, K8sUnchanged,
         Reconcile, DelayedAdd, SendUnchanged, EdgeQuery, DispatchEvent,
         DispatchChan, DispCreate, DispStatus, DispAdd, DispQueue,
         DispUnchanged, SendNext, RetryTick, SaveSuccess, OldSaveSuccess,
         ReceiveMessageAck, EdgeProcess, EdgeResponse, EdgeReject,
         EdgeUnchanged, QueryTimeout, Connect, Disconnect, CloudRestart

(* Deletes on their way stay those of objects that are gone.                 *)
LEMMA JustifiedStep ==
  ASSUME TypeOK, SendersTruthful, AllJustified, [Next]_vars
  PROVE  AllJustified'
<1>1. /\ Range(events) \subseteq Content /\ Range(chan) \subseteq Content
      /\ \A c \in Content \cup Message : c.uid \in Uids
  BY SMTT(30), NoMsgFacts DEF TypeOK, K8sType, Range
<1>2. \A c \in Range(events') \cup Range(chan') : Justified(c)'
  BY <1>1, EventsStep, ChanStep, JustifiedStays, ZenonT(30) DEF AllJustified
<1>3. ASSUME disp' # NoMsg PROVE Justified(disp)'
  <2>1. PICK c : c = disp'
    BY SMTT(30)
  <2>2. c.uid \in Uids /\ Justified(c)
    BY <1>1, <1>3, <2>1, DispStep, ZenonT(30) DEF AllJustified, TypeOK, DispType
  <2>3. Justified(c)'
    BY <2>2, JustifiedStays, ZenonT(30)
  <2> QED
    BY <2>1, <2>3, ZenonT(30) DEF Justified
<1>4. ASSUME NEW m \in Carried', m # NoMsg PROVE Justified(m)'
  <2>1. CASE m \in Carried
    BY <1>1, <1>4, <2>1, CarriedType, JustifiedStays, ZenonT(30) DEF AllJustified
  <2>2. CASE Fresh(m)
    <3>1. m.uid \in Uids /\ Justified(m)
      BY <1>1, <2>2, ZenonT(30) DEF Fresh, AllJustified, Justified
    <3> QED
      BY SMTT(30), <3>1, JustifiedStays
  <2> QED
    BY SMTT(30), <1>4, <2>1, <2>2, CarriedStep
<1>5. ASSUME NEW u \in Uids, api'[u] # NoCR \/ lister'[u] # NoCR
      PROVE  obj'[u].st # "none"
  <2>1. api[u] # NoCR \/ lister[u] # NoCR \/ api'[u] # api[u]
    BY SMTT(30), <1>5, ListerStep
  <2>2. CASE api[u] # NoCR \/ lister[u] # NoCR
    BY <2>2, Monotone, ZenonT(30) DEF AllJustified
  <2>3. CASE api'[u] # api[u]
    <3>1. obj[u].st # "none"
      BY SMTT(30), <2>3, ApiStep, CarriedType, NoMsgFacts DEF AllJustified, Justified
    <3> QED
      BY SMTT(30), <3>1, Monotone
  <2> QED
    BY <2>1, <2>2, <2>3, ZenonT(30)
<1>6. Range(events)' = Range(events') /\ Range(chan)' = Range(chan')
  BY ZenonT(30) DEF Range
<1> QED
  BY ZenonT(30), <1>2, <1>3, <1>4, <1>5, <1>6 DEF AllJustified

-----------------------------------------------------------------------------
(* The inductive invariant holds at the start.                               *)
LEMMA IInvInit == Init => IInv
<1> SUFFICES ASSUME Init PROVE IInv
  OBVIOUS
<1>1. TypeOK
  BY TypeInit, ZenonT(30)
<1>2. Carried \subseteq {NoMsg} /\ Range(up) = {}
      /\ Range(events) = {} /\ Range(chan) = {}
  BY DEF Init, Carried, Range
<1>3. AcksTruthful /\ IdsUnique
  BY <1>2, ZenonT(30) DEF AcksTruthful, IdsUnique
<1>4. SendersTruthful
  BY ZenonT(30) DEF Init, SendersTruthful
<1>5. AllJustified
  BY <1>2, ZenonT(30) DEF Init, AllJustified
<1>6. RecordedWasPersisted
  BY DEF Init, RecordedWasPersisted, NoCR
<1> QED
  BY <1>1, <1>3, <1>4, <1>5, <1>6, ZenonT(30) DEF IInv

(* Every step keeps it.                                                      *)
LEMMA IInvStep == IInv /\ [Next]_vars => IInv'
BY TypeStep, AcksStep, SendersStep, IdsStep, JustifiedStep, RecordedStep, ZenonT(30) DEF IInv

(* It holds in every reachable state.                                        *)
LEMMA IInvCorrect == Spec => []IInv
BY IInvInit, IInvStep, PTL DEF Spec

(* An ObjectSync's version was written to the edge's meta table, whatever is *)
(* lost, repeated, reordered, retried, reconnected or restarted: the         *)
(* bookkeeping of saveSuccessPoint never runs ahead of the edge.             *)
THEOREM RecordedIsPersisted == Spec => []RecordedWasPersisted
<1>1. IInv => RecordedWasPersisted
  BY ZenonT(30) DEF IInv
<1> QED
  BY <1>1, IInvCorrect, PTL

(* deleteSuccessPoint removes an ObjectSync only for an object that is gone  *)
(* from Kubernetes and whose delete the edge has carried out.                *)
THEOREM ForgettingIsJustified == Spec => ForgottenOnlyWhenRemoved
<1>1. ASSUME IInv, [Next]_vars, NEW u \in Uids, api[u] # NoCR, api'[u] = NoCR
      PROVE  obj[u].st = "gone" /\ u \in removed
  <2>1. TypeOK /\ SendersTruthful /\ AllJustified
    BY SMTT(30), <1>1 DEF IInv
  <2>2. PICK m \in {sMsg, oMsg} :
             m \in Message /\ u = m.uid /\ CarriedOut(m) /\ m.op = "delete"
    BY <1>1, <2>1, ApiStep, NoMsgFacts DEF NoCR, Empty
  <2> QED
    BY <2>1, <2>2, CarriedType, NoMsgFacts, ZenonT(30) DEF AllJustified, Justified, CarriedOut
<1>2. IInv /\ [Next]_vars
        => [\A u \in Uids : api[u] # NoCR /\ api'[u] = NoCR
                              => obj[u].st = "gone" /\ u \in removed]_vars
  BY <1>1, ZenonT(30)
<1> QED
  BY <1>2, IInvCorrect, PTL DEF Spec, ForgottenOnlyWhenRemoved

-----------------------------------------------------------------------------
(* Why the message of u will be sent: NothingStranded asks no more.          *)
Awake(u) ==
  \/ u \in Range(queue) \cup delayed
  \/ processing(u) /\ (sMsg = store[u] \/ redo)
  \/ dispPc = "queue" /\ ~dispStale /\ disp.uid = u

(* workqueue.Add wakes its key and keeps the others awake.                   *)
LEMMA AddWakes ==
  ASSUME TypeOK, NEW u \in Uids, QueueAdd(u), sMsg' = sMsg, sPc' = sPc
  PROVE  /\ Range(queue) \subseteq Range(queue') /\ (redo => redo')
         /\ u \in Range(queue') \/ (processing(u)' /\ redo')
<1>1. queue \in Seq(Uids)
  BY ZenonT(30) DEF TypeOK, PoolType
<1>2. CASE processing(u)
  BY <1>2, ZenonT(30) DEF QueueAdd, processing
<1>3. CASE ~processing(u)
  <2>1. redo' = redo /\ ((queue' = queue /\ u \in Range(queue)) \/ queue' = Append(queue, u))
    BY <1>3, ZenonT(30) DEF QueueAdd
  <2>2. Range(Append(queue, u)) = Range(queue) \cup {u}
    BY <1>1, AppendFacts
  <2> QED
    BY <2>1, <2>2, ZenonT(30)
<1> QED
  BY <1>2, <1>3, ZenonT(30)

(* workqueue.Done wakes the key that was added while it was processed.       *)
LEMMA DoneWakes ==
  ASSUME TypeOK, sPc # "idle", QueueDone
  PROVE  /\ Range(queue) \subseteq Range(queue') /\ sMsg.uid \in Uids
         /\ redo => sMsg.uid \in Range(queue')
<1>1. queue \in Seq(Uids) /\ sMsg.uid \in Uids
  BY NoMsgFacts, ZenonT(30) DEF TypeOK, PoolType, SendType
<1>2. Range(Append(queue, sMsg.uid)) = Range(queue) \cup {sMsg.uid}
  BY <1>1, AppendFacts
<1>3. queue' = IF redo THEN Append(queue, sMsg.uid) ELSE queue
  BY ZenonT(30) DEF QueueDone
<1> QED
  BY <1>1, <1>2, <1>3, ZenonT(30)

(* The head of the queue is all that Get takes.                              *)
LEMMA HeadTail ==
  ASSUME NEW S, NEW s \in Seq(S), s # <<>>
  PROVE  Range(s) \subseteq {Head(s)} \cup Range(Tail(s))
<1>1. Len(s) \in Nat \ {0} /\ DOMAIN s = 1..Len(s) /\ DOMAIN Tail(s) = 1..(Len(s) - 1)
      /\ (\A j \in 1..(Len(s) - 1) : Tail(s)[j] = s[j + 1]) /\ Head(s) = s[1]
  OBVIOUS
<1> SUFFICES ASSUME NEW i \in DOMAIN s, i # 1 PROVE s[i] \in Range(Tail(s))
  BY <1>1, ZenonT(30) DEF Range
<1>2. i - 1 \in 1..(Len(s) - 1) /\ (i - 1) + 1 = i
  BY <1>1
<1>3. Tail(s)[i - 1] = s[i] /\ i - 1 \in DOMAIN Tail(s)
  BY <1>1, <1>2, ZenonT(30)
<1> QED
  BY <1>3, ZenonT(30) DEF Range

(* A message is stored under the key of its object.                          *)
StoreKeyed == \A u \in Uids : store[u] # NoMsg => store[u].uid = u

(* A step adds a message under its own key, or drops messages.               *)
LEMMA KeyedStep ==
  ASSUME TypeOK, StoreKeyed, [Next]_vars
  PROVE  StoreKeyed'
<1>0. store \in [Uids -> Message \cup {NoMsg}] /\ NoMsg.id = 0
  BY NoMsgFacts, ZenonT(30) DEF TypeOK, PoolType
<1>1. CASE store' = store
  BY <1>1, ZenonT(30) DEF StoreKeyed
<1>2. CASE DispAdd
  <2>1. CASE dispStale
    BY <1>1, <1>2, <2>1, ZenonT(30) DEF DispAdd
  <2>2. CASE ~dispStale
    <3>1. PICK m : m.uid = disp.uid /\ store' = [store EXCEPT ![disp.uid] = m]
      BY <1>2, <2>2, ZenonT(30) DEF DispAdd
    <3> QED
      BY <1>0, <3>1, ZenonT(30) DEF StoreKeyed
  <2> QED
    BY <2>1, <2>2, ZenonT(30)
<1>3. CASE SaveSuccess
  <2>1. store' = store \/ store' = [store EXCEPT ![sMsg.uid] = NoMsg]
    BY <1>3, ZenonT(30) DEF SaveSuccess, DropFromStore
  <2> QED
    BY <1>0, <1>1, <2>1, ZenonT(30) DEF StoreKeyed
<1>4. CASE FreshPool
  BY <1>4, ZenonT(30) DEF FreshPool, StoreKeyed
<1> QED
  BY ZenonT(30), <1>1, <1>2, <1>3, <1>4
     DEF Next, vars, poolVars, K8sCreate, K8sUpdate, K8sTerminate, K8sDelete,
         K8sUnchanged, ListerSync, Reconcile, DelayedAdd, EdgeQuery,
         DispatchEvent, DispatchChan, DispCreate, DispStatus, DispQueue, SendNext,
         RetryTick, ReceiveMessageAck, OldSaveSuccess, EdgeProcess, EdgeResponse,
         EdgeReject, EdgeUnchanged, QueryTimeout, Connect, Disconnect, CloudRestart

(* No step takes the wake-up of a message that is still to be carried out.   *)
LEMMA WakeStep ==
  ASSUME IInv, StoreKeyed, NothingStranded, [Next]_vars
  PROVE  NothingStranded'
<1>0. TypeOK /\ SendersTruthful
  BY ZenonT(30) DEF IInv
<1> SUFFICES ASSUME NEW u \in Uids, connected', store'[u] # NoMsg, ~CarriedOut(store[u])'
             PROVE  Awake(u)'
  BY ZenonT(30) DEF NothingStranded, Awake
<1>1. ASSUME connected, store'[u] = store[u] PROVE Awake(u) /\ ~CarriedOut(store[u])
  <2>1. ~CarriedOut(store[u])
    <3>1. PICK m : m = store[u]
      OBVIOUS
    <3>2. CarriedOut(m)' <=> CarriedOut(store[u])'
      BY <1>1, <3>1, ZenonT(30) DEF CarriedOut
    <3> QED
      BY <1>0, <3>1, <3>2, CarriedOutStays, ZenonT(30)
  <2> QED
    BY <1>1, <2>1, ZenonT(30) DEF NothingStranded, Awake
<1>2. CASE UNCHANGED <<poolVars, sMsg, sPc, dispVars, connected>>
  <2>1. /\ store' = store /\ queue' = queue /\ redo' = redo /\ delayed' = delayed
        /\ sMsg' = sMsg /\ sPc' = sPc /\ disp' = disp /\ dispPc' = dispPc /\ dispStale' = dispStale
        /\ connected' = connected
    BY <1>2, ZenonT(30) DEF poolVars, dispVars
  <2>2. Awake(u)
    BY <1>1, <2>1, ZenonT(30)
  <2> QED
    BY <2>1, <2>2, ZenonT(30) DEF Awake, processing, Range
<1>3. CASE UNCHANGED <<poolVars, sMsg, sPc, connected>> /\ dispPc # "queue"
  <2>1. /\ store' = store /\ queue' = queue /\ redo' = redo /\ delayed' = delayed
        /\ sMsg' = sMsg /\ sPc' = sPc /\ connected' = connected
    BY <1>3, ZenonT(30) DEF poolVars
  <2>2. Awake(u)
    BY <1>1, <2>1, ZenonT(30)
  <2> QED
    BY <1>3, <2>1, <2>2, ZenonT(30) DEF Awake, processing, Range
<1>4. CASE DispAdd
  <2>1. dispPc = "add" /\ UNCHANGED <<queue, redo, delayed, sMsg, sPc, connected>>
    BY <1>4, ZenonT(30) DEF DispAdd, DispUnchanged, sendVars
  <2>2. CASE dispStale
    BY <1>3, <1>4, <2>1, <2>2, ZenonT(30) DEF DispAdd, poolVars
  <2>3. CASE ~dispStale
    <3>1. /\ dispPc' = "queue" /\ disp' = disp /\ dispStale' = dispStale
          /\ u # disp.uid => store'[u] = store[u]
      BY <1>0, <1>4, <2>3, ZenonT(30) DEF DispAdd, TypeOK, PoolType
    <3>2. CASE u = disp.uid
      BY <2>3, <3>1, <3>2, ZenonT(30) DEF Awake
    <3>3. CASE u # disp.uid
      <4>1. Awake(u) /\ store'[u] = store[u]
        BY <1>1, <2>1, <3>1, <3>3, ZenonT(30)
      <4> QED
        BY <2>1, <4>1, ZenonT(30) DEF Awake, processing, Range
    <3> QED
      BY <3>2, <3>3, ZenonT(30)
  <2> QED
    BY <2>2, <2>3, ZenonT(30)
<1>5. CASE DispQueue
  <2>1. UNCHANGED <<store, delayed, sMsg, sPc, connected>>
    BY <1>5, ZenonT(30) DEF DispQueue, DispUnchanged, sendVars
  <2>2. Awake(u)
    BY <1>1, <2>1, ZenonT(30)
  <2>3. CASE dispStale
    <3>1. queue' = queue /\ redo' = redo
      BY <1>5, <2>3, ZenonT(30) DEF DispQueue
    <3> QED
      BY <2>1, <2>2, <2>3, <3>1, ZenonT(30) DEF Awake, processing, Range
  <2>4. CASE ~dispStale
    <3>1. PICK v \in Uids : v = disp.uid /\ QueueAdd(v)
      BY <1>0, <1>5, <2>4, NoMsgFacts, ZenonT(30) DEF DispQueue, TypeOK, DispType
    <3>2. /\ Range(queue) \subseteq Range(queue') /\ (redo => redo')
          /\ v \in Range(queue') \/ (sPc' # "idle" /\ sMsg'.uid = v /\ redo')
      BY <1>0, <2>1, <3>1, AddWakes, ZenonT(30) DEF processing
    <3>3. CASE u = v
      BY <3>2, <3>3, ZenonT(30) DEF Awake, processing, Range
    <3>4. CASE u # v
      <4>1. u \in Range(queue) \cup delayed \/ (processing(u) /\ (sMsg = store[u] \/ redo))
        BY <2>2, <3>1, <3>4, ZenonT(30) DEF Awake
      <4> QED
        BY <2>1, <3>2, <4>1, ZenonT(30) DEF Awake, processing, Range
    <3> QED
      BY <3>3, <3>4, ZenonT(30)
  <2> QED
    BY <2>3, <2>4, ZenonT(30)
<1>6. CASE \E v \in Uids : DelayedAdd(v)
  <2>1. PICK v \in Uids : DelayedAdd(v)
    BY <1>6, ZenonT(30)
  <2>2. /\ QueueAdd(v) /\ delayed' = delayed \ {v}
        /\ UNCHANGED <<store, sMsg, sPc, disp, dispPc, dispStale, connected>>
    BY <2>1, ZenonT(30) DEF DelayedAdd, SendUnchanged, sendVars, dispVars
  <2>3. /\ Range(queue) \subseteq Range(queue') /\ (redo => redo')
        /\ v \in Range(queue') \/ (sPc' # "idle" /\ sMsg'.uid = v /\ redo')
    BY <1>0, <2>2, AddWakes, ZenonT(30) DEF processing
  <2>4. Awake(u)
    BY <1>1, <2>2, ZenonT(30)
  <2> QED
    BY <2>2, <2>3, <2>4, ZenonT(30) DEF Awake, processing, Range
<1>7. CASE SendNext
  <2>1. /\ queue # <<>> /\ queue' = Tail(queue) /\ sPc = "idle"
        /\ UNCHANGED <<store, redo, delayed, disp, dispPc, dispStale, connected>>
        /\ store[Head(queue)] # NoMsg => sMsg' = store[Head(queue)] /\ sPc' = "wait"
    BY <1>7, ZenonT(30) DEF SendNext, SendUnchanged, dispVars
  <2>2. queue \in Seq(Uids) /\ store[u] \in Message \cup {NoMsg}
    BY <1>0, ZenonT(30) DEF TypeOK, PoolType
  <2>3. Range(queue) \subseteq {Head(queue)} \cup Range(queue')
    BY <2>1, <2>2, HeadTail, ZenonT(30)
  <2>4. Awake(u)
    BY <1>1, <2>1, ZenonT(30)
  <2>5. CASE u = Head(queue)
    <3>1. sMsg' = store'[u] /\ sPc' = "wait"
      BY <2>1, <2>5, ZenonT(30)
    <3>2. sMsg'.uid = u
      BY <2>1, <3>1, ZenonT(30) DEF StoreKeyed
    <3> QED
      BY <3>1, <3>2, ZenonT(30) DEF Awake, processing
  <2>6. CASE u # Head(queue)
    <3>1. u \in Range(queue) \cup delayed \/ (dispPc = "queue" /\ ~dispStale /\ disp.uid = u)
      BY <2>1, <2>4, ZenonT(30) DEF Awake, processing
    <3> QED
      BY <2>1, <2>3, <2>6, <3>1, ZenonT(30) DEF Awake, Range
  <2> QED
    BY <2>5, <2>6, ZenonT(30)
<1>8. ASSUME sPc # "idle", QueueDone,
             UNCHANGED <<disp, dispPc, dispStale, connected>>, delayed \subseteq delayed',
             store'[u] = store[u],
             sMsg = store[u] => u \in delayed'
      PROVE  Awake(u)'
  <2>1. Awake(u) /\ connected' = connected
    BY <1>1, <1>8, ZenonT(30)
  <2>2. /\ Range(queue) \subseteq Range(queue')
        /\ redo => sMsg.uid \in Range(queue')
    BY <1>0, <1>8, DoneWakes, ZenonT(30)
  <2> QED
    BY <1>8, <2>1, <2>2, ZenonT(30) DEF Awake, processing, Range
<1>9. CASE RetryTick
  <2>1. /\ sPc = "wait" /\ UNCHANGED <<store, disp, dispPc, dispStale, connected>>
        /\ \/ UNCHANGED <<sMsg, sPc, queue, redo, delayed>>
           \/ delayed' = delayed \cup {sMsg.uid} /\ QueueDone
    BY <1>9, ZenonT(30) DEF RetryTick, SendUnchanged, dispVars
  <2>2. CASE UNCHANGED <<sMsg, sPc, queue, redo, delayed>>
    BY <1>2, <2>1, <2>2, ZenonT(30) DEF poolVars, dispVars
  <2>3. CASE delayed' = delayed \cup {sMsg.uid} /\ QueueDone
    <3>1. sMsg = store[u] => u \in delayed'
      BY <2>1, <2>3, ZenonT(30) DEF StoreKeyed
    <3> QED
      BY <1>8, <2>1, <2>3, <3>1, ZenonT(30)
  <2> QED
    BY <2>1, <2>2, <2>3, ZenonT(30)
<1>10. CASE SaveSuccess
  <2>1. /\ sPc \in SavePcs /\ sAcked /\ DropFromStore(sMsg)
        /\ UNCHANGED <<delayed, disp, dispPc, dispStale, connected>>
        /\ QueueDone \/ (sPc' # "idle" /\ UNCHANGED <<queue, redo, sMsg>>)
    BY <1>10, ZenonT(30) DEF SaveSuccess, SendUnchanged, dispVars
  <2>2. store'[u] = store[u] /\ sPc # "idle"
    BY <1>0, <2>1, ZenonT(30) DEF DropFromStore, TypeOK, PoolType, SavePcs
  <2>3. sMsg # store[u]
    <3>1. CarriedOut(sMsg) /\ connected
      BY <1>0, <2>1, ZenonT(30) DEF SendersTruthful
    <3>2. ~CarriedOut(store[u])
      BY <1>1, <2>2, <3>1, ZenonT(30)
    <3> QED
      BY <3>1, <3>2, ZenonT(30)
  <2>4. CASE QueueDone
    BY <1>8, <2>1, <2>2, <2>3, <2>4, ZenonT(30)
  <2>5. CASE sPc' # "idle" /\ UNCHANGED <<queue, redo, sMsg>>
    <3>1. Awake(u)
      BY <1>1, <2>1, <2>2, ZenonT(30)
    <3> QED
      BY <2>1, <2>2, <2>5, <3>1, ZenonT(30) DEF Awake, processing, Range
  <2> QED
    BY <2>1, <2>4, <2>5, ZenonT(30)
<1>11. CASE FreshPool
  BY <1>11, ZenonT(30) DEF FreshPool
<1>12. CASE DispatchEvent \/ DispatchChan \/ DispCreate \/ DispStatus
  <2>1. dispPc # "queue" /\ UNCHANGED <<poolVars, sMsg, sPc, connected>>
    BY <1>12, ZenonT(30) DEF DispatchEvent, DispatchChan, DispCreate, DispStatus, DispUnchanged, sendVars
  <2> QED
    BY <1>3, <2>1, ZenonT(30)
<1> QED
  BY ZenonT(60), <1>2, <1>4, <1>5, <1>6, <1>7, <1>9, <1>10, <1>11, <1>12
     DEF Next, vars, dispVars, sendVars, K8sCreate, K8sUpdate, K8sTerminate, K8sDelete,
         K8sUnchanged, ListerSync, Reconcile, EdgeQuery, ReceiveMessageAck, SendUnchanged,
         OldSaveSuccess, EdgeProcess, EdgeResponse, EdgeReject, EdgeUnchanged,
         QueryTimeout, Connect, Disconnect, CloudRestart

(* No message in the pool of a running session waits for nothing: whatever   *)
(* the dispatcher, the sender, its retries and AddRateLimited do in whatever *)
(* order, it is being sent or its key is on its way to the sender.           *)
THEOREM NothingIsStranded == Spec => []NothingStranded
<1>1. Init => StoreKeyed /\ NothingStranded
  BY ZenonT(30) DEF Init, StoreKeyed, NothingStranded
<1>2. IInv /\ StoreKeyed /\ NothingStranded /\ [Next]_vars => (StoreKeyed /\ NothingStranded)'
  <2>1. IInv => TypeOK
    BY ZenonT(30) DEF IInv
  <2> QED
    BY <2>1, KeyedStep, WakeStep, ZenonT(30)
<1> QED
  BY <1>1, <1>2, IInvCorrect, PTL DEF Spec

-----------------------------------------------------------------------------
(* The row under a key is one of an object with that key.                    *)
RowsNamed == \A n \in Names : edge[n] # NoEntry => edge[n].uid \in Uids /\ NameOf[edge[n].uid] = n

(* The edge writes a row under the key of its object.                        *)
LEMMA RowsStep ==
  ASSUME TypeOK, RowsNamed, [Next]_vars
  PROVE  RowsNamed'
<1>0. edge \in [Names -> Row \cup {NoEntry}]
  BY ZenonT(30) DEF TypeOK, EdgeType
<1>1. CASE edge' = edge
  BY <1>1, ZenonT(30) DEF RowsNamed
<1>2. ASSUME NEW m \in Message, InsertOrUpdate(m) PROVE RowsNamed'
  <2>1. m.uid \in Uids
    BY NoMsgFacts, ZenonT(30)
  <2>2. PICK r : r.uid = m.uid /\ edge' = [edge EXCEPT ![NameOf[m.uid]] = r]
    BY <1>2, ZenonT(30) DEF InsertOrUpdate
  <2> QED
    BY <1>0, <2>1, <2>2, ZenonT(30) DEF RowsNamed
<1>3. ASSUME NEW m \in Message, DeleteMeta(m) PROVE RowsNamed'
  <2>1. edge' = edge \/ edge' = [edge EXCEPT ![NameOf[m.uid]] = NoEntry]
    BY <1>3, ZenonT(30) DEF DeleteMeta
  <2> QED
    BY <1>0, <1>1, <2>1, ZenonT(30) DEF RowsNamed
<1>4. \A i \in DOMAIN down : down[i] \in Message
  BY DEF TypeOK, NetType
<1>5. ASSUME NEW i \in DOMAIN down, EdgeProcess(i) PROVE RowsNamed'
  BY <1>2, <1>3, <1>4, <1>5, ZenonT(30) DEF EdgeProcess
<1>6. ASSUME NEW i \in DOMAIN down, EdgeResponse(i) PROVE RowsNamed'
  BY <1>1, <1>2, <1>4, <1>6, ZenonT(30) DEF EdgeResponse
<1> QED
  BY ZenonT(30), <1>1, <1>5, <1>6
     DEF Next, vars, edgeVars, K8sCreate, K8sUpdate, K8sTerminate, K8sDelete,
         K8sUnchanged, ListerSync, Reconcile, DelayedAdd, EdgeQuery,
         DispatchEvent, DispatchChan, DispCreate, DispStatus, DispAdd,
         DispQueue, DispUnchanged, SendNext, RetryTick, SaveSuccess,
         SendUnchanged, OldSaveSuccess, ReceiveMessageAck, EdgeReject,
         QueryTimeout, Connect, Disconnect, CloudRestart

(* A row that a step removes is one of a deleted object: DeleteMeta removes  *)
(* the row of the object its message is about.                               *)
LEMMA RowGoes ==
  ASSUME \A u, v \in Uids : NameOf[u] = NameOf[v] /\ NameOf[u] \notin Pods => u = v,
         IInv, RowsNamed, [Next]_vars,
         NEW n \in Names, edge[n] # NoEntry, edge'[n] = NoEntry
  PROVE  obj[edge[n].uid].st = "gone"
<1>0. TypeOK /\ AllJustified
  BY ZenonT(30) DEF IInv
<1>1. /\ edge \in [Names -> Row \cup {NoEntry}] /\ \A i \in DOMAIN down : down[i] \in Message
      /\ edge[n].uid \in Uids /\ NameOf[edge[n].uid] = n
  BY <1>0 DEF TypeOK, EdgeType, NetType, RowsNamed
<1>2. ASSUME NEW m \in Message, InsertOrUpdate(m) PROVE FALSE
  <2>1. [uid |-> m.uid, rv |-> m.rv] # NoEntry
    BY ZenonT(30) DEF NoEntry
  <2> QED
    BY <1>1, <1>2, <2>1, ZenonT(30) DEF InsertOrUpdate
<1>3. ASSUME NEW i \in DOMAIN down, EdgeProcess(i) PROVE obj[edge[n].uid].st = "gone"
  <2>1. PICK m \in Message : m = down[i]
    BY <1>1, ZenonT(30)
  <2>2. m.op = "delete" /\ DeleteMeta(m)
    BY <1>2, <1>3, <2>1, ZenonT(30) DEF EdgeProcess
  <2>3. m \in Carried /\ m # NoMsg /\ m.uid \in Uids
    BY <2>1, NoMsgFacts, ZenonT(30) DEF Carried, Range
  <2>4. obj[m.uid].st = "gone"
    BY <1>0, <2>2, <2>3, ZenonT(30) DEF AllJustified, Justified
  <2>5. n = NameOf[m.uid] /\ ~(n \in Pods /\ edge[n].uid # m.uid)
    BY <1>1, <2>2, ZenonT(30) DEF DeleteMeta
  <2>6. edge[n].uid = m.uid
    BY <1>1, <2>3, <2>5, ZenonT(30)
  <2> QED
    BY <2>4, <2>6, ZenonT(30)
<1>4. ASSUME NEW i \in DOMAIN down, EdgeResponse(i) PROVE FALSE
  BY <1>1, <1>2, <1>4, ZenonT(30) DEF EdgeResponse
<1>5. edge' # edge
  OBVIOUS
<1> QED
  BY ZenonT(30), <1>3, <1>4, <1>5
     DEF Next, vars, edgeVars, K8sCreate, K8sUpdate, K8sTerminate, K8sDelete,
         K8sUnchanged, ListerSync, Reconcile, DelayedAdd, EdgeQuery,
         DispatchEvent, DispatchChan, DispCreate, DispStatus, DispAdd,
         DispQueue, DispUnchanged, SendNext, RetryTick, SaveSuccess,
         SendUnchanged, OldSaveSuccess, ReceiveMessageAck, EdgeReject,
         QueryTimeout, Connect, Disconnect, CloudRestart

(* The edge drops the row of an object only after Kubernetes has deleted it, *)
(* if the keys that are used again are those of pods, which the edge deletes *)
(* by UID.                                                                   *)
THEOREM RowsOutliveObjects ==
  ASSUME \A u, v \in Uids : NameOf[u] = NameOf[v] /\ NameOf[u] \notin Pods => u = v
  PROVE  Spec => RowOutlivesObject
<1>1. Init => RowsNamed
  BY ZenonT(30) DEF Init, RowsNamed
<1>2. IInv /\ RowsNamed /\ [Next]_vars => RowsNamed'
  <2>1. IInv => TypeOK
    BY ZenonT(30) DEF IInv
  <2> QED
    BY <2>1, RowsStep, ZenonT(30)
<1>3. IInv /\ RowsNamed /\ [Next]_vars
        => [\A n \in Names : edge[n] # NoEntry /\ edge'[n] = NoEntry
                               => obj[edge[n].uid].st = "gone"]_vars
  BY RowGoes, ZenonT(30)
<1> QED
  BY <1>1, <1>2, <1>3, IInvCorrect, PTL DEF Spec, RowOutlivesObject

=============================================================================
