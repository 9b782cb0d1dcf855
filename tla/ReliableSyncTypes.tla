------------------------- MODULE ReliableSyncTypes --------------------------
(***************************************************************************)
(* Type correctness of ReliableSync, and the facts about its helpers that   *)
(* all of its proofs use.                                                   *)
(***************************************************************************)
EXTENDS ReliableSync, FiniteSetTheorems, TLAPS

-----------------------------------------------------------------------------
(* Taking an element out of what is in flight leaves only old elements.      *)
LEMMA WithoutFacts ==
  ASSUME NEW S, NEW s \in Seq(S), NEW i \in DOMAIN s
  PROVE  /\ Without(s, i) \in Seq(S)
         /\ Range(Without(s, i)) \subseteq Range(s)
<1>1. Len(s) \in Nat /\ Len(s) - 1 \in Nat /\ DOMAIN s = 1..Len(s)
  OBVIOUS
<1>2. \A j \in 1..(Len(s) - 1) : /\ j \in DOMAIN s /\ j + 1 \in DOMAIN s
                                 /\ s[j] \in S /\ s[j + 1] \in S
  BY <1>1
<1>3. Without(s, i) \in [1..(Len(s) - 1) -> S]
  BY <1>1, <1>2 DEF Without
<1>4. Without(s, i) \in Seq(S)
  BY <1>1, <1>3
<1>5. Range(Without(s, i)) \subseteq Range(s)
  BY <1>1, <1>2 DEF Without, Range
<1> QED
  BY <1>4, <1>5

(* A broken connection leaves only old elements.                             *)
LEMMA SurvivorsFacts ==
  ASSUME NEW S, NEW s \in Seq(S), NEW t \in Survivors(s)
  PROVE  t \in Seq(S) /\ Range(t) \subseteq Range(s)
<1>1. Range(s) \subseteq S
  BY DEF Range
<1>2. PICK n \in 0..Len(s) : t \in [1..n -> Range(s)]
  BY SMTT(30) DEF Survivors
<1>3. n \in Nat
  BY <1>2
<1>4. t \in Seq(S)
  BY <1>1, <1>2, <1>3
<1>5. Range(t) \subseteq Range(s)
  BY <1>2 DEF Range
<1> QED
  BY <1>4, <1>5

(* Appending adds one element.                                               *)
LEMMA AppendFacts ==
  ASSUME NEW S, NEW s \in Seq(S), NEW x \in S
  PROVE  /\ Append(s, x) \in Seq(S)
         /\ Range(Append(s, x)) = Range(s) \cup {x}
<1>1. Append(s, x) \in Seq(S) /\ DOMAIN s = 1..Len(s) /\ Len(s) \in Nat
      /\ DOMAIN Append(s, x) = 1..(Len(s) + 1)
  OBVIOUS
<1>2. Range(Append(s, x)) \subseteq Range(s) \cup {x}
  BY <1>1 DEF Range
<1>3. Range(s) \subseteq Range(Append(s, x))
  BY <1>1 DEF Range
<1>4. x = Append(s, x)[Len(s) + 1] /\ Len(s) + 1 \in DOMAIN Append(s, x)
  BY <1>1
<1>5. x \in Range(Append(s, x))
  BY <1>4 DEF Range
<1> QED
  BY <1>1, <1>2, <1>3, <1>5

(* What a sequence holds that has been appended to, or left alone.           *)
LEMMA MaybeAppended ==
  ASSUME NEW S, NEW s \in Seq(S), NEW x \in S, NEW t, t = s \/ t = Append(s, x)
  PROVE  Range(t) \subseteq Range(s) \cup {x}
<1>1. CASE t = s
  BY <1>1
<1>2. CASE t = Append(s, x)
  <2>1. Range(Append(s, x)) = Range(s) \cup {x}
    BY AppendFacts
  <2> QED
    BY <1>2, <2>1
<1> QED
  BY <1>1, <1>2

(* The messages of a Message-typed record are told apart from NoMsg by ID.   *)
LEMMA NoMsgFacts ==
  /\ NoMsg \notin Message /\ NoMsg \notin Content /\ NoMsg.id = 0
  /\ \A m \in Message : /\ m.uid \in Uids /\ m.op \in Ops /\ m.rv \in 0..MaxRV
                        /\ m.parent \in Nat /\ m.id \in Nat \ {0}
  /\ \A c \in Content : /\ c.uid \in Uids /\ c.op \in Ops /\ c.rv \in 0..MaxRV
                        /\ c.parent \in Nat
BY DEF NoMsg, Message, Content

(* What the edge writes for a message is a row of its table.                 *)
LEMMA RowFacts ==
  \A m \in Message : /\ [uid |-> m.uid, rv |-> m.rv] \in Row
                      /\ <<m.uid, m.rv>> \in Uids \X Nat
                      /\ NameOf[m.uid] \in Names
BY NoMsgFacts, UidsAssumption DEF Row

-----------------------------------------------------------------------------
(* Type correctness.                                                         *)

(* Cloudcore and edgecore start in a well-typed state.                       *)
LEMMA TypeInit == Init => TypeOK
<1> SUFFICES ASSUME Init PROVE TypeOK
  OBVIOUS
<1> USE DEF Init
<1>1. K8sType /\ DispType
  BY BoundsAssumption DEF K8sType, DispType, NoMsg
<1>2. SyncType
  BY DEF SyncType, Statuses
<1>3. PoolType
  BY DEF PoolType
<1>4. SendType /\ OldType
  BY BoundsAssumption DEF SendType, OldType, Statuses, Pcs
<1>5. NetType /\ EdgeType
  BY DEF NetType, EdgeType
<1>6. BudgetType
  BY BoundsAssumption DEF BudgetType
<1>7. FlagType
  BY ZenonT(30) DEF FlagType
<1> QED
  BY <1>1, <1>2, <1>3, <1>4, <1>5, <1>6, <1>7 DEF TypeOK

(* A part of the state that a step leaves alone keeps its type.              *)
LEMMA Untouched ==
  ASSUME TypeOK
  PROVE  /\ UNCHANGED <<obj, events, chan>> => K8sType'
         /\ UNCHANGED dispVars => DispType'
         /\ UNCHANGED <<api, lister>> => SyncType'
         /\ UNCHANGED poolVars => PoolType'
         /\ UNCHANGED sendVars => SendType'
         /\ UNCHANGED oldVars => OldType'
         /\ UNCHANGED netVars => NetType'
         /\ UNCHANGED edgeVars => EdgeType'
         /\ UNCHANGED budget => BudgetType'
         /\ UNCHANGED <<dispStale, redo, sAcked, connected>> => FlagType'
<1>1. UNCHANGED <<obj, events, chan>> => K8sType'
  BY DEF TypeOK, K8sType
<1>2. UNCHANGED dispVars => DispType'
  BY DEF TypeOK, DispType, dispVars
<1>3. UNCHANGED <<api, lister>> => SyncType'
  BY DEF TypeOK, SyncType
<1>4. UNCHANGED poolVars => PoolType'
  BY DEF TypeOK, PoolType, poolVars
<1>5. UNCHANGED sendVars => SendType'
  BY DEF TypeOK, SendType, sendVars
<1>6. UNCHANGED oldVars => OldType'
  BY DEF TypeOK, OldType, oldVars
<1>7. UNCHANGED netVars => NetType'
  BY DEF TypeOK, NetType, netVars
<1>8. UNCHANGED edgeVars => EdgeType'
  BY DEF TypeOK, EdgeType, edgeVars
<1>9. UNCHANGED budget => BudgetType'
  BY DEF TypeOK, BudgetType
<1>10. UNCHANGED <<dispStale, redo, sAcked, connected>> => FlagType'
  BY DEF TypeOK, FlagType
<1> QED
  BY <1>1, <1>2, <1>3, <1>4, <1>5, <1>6, <1>7, <1>8, <1>9, <1>10

(* Spending keeps the budget a budget.                                       *)
LEMMA SpendType ==
  ASSUME TypeOK, NEW k \in Kinds, Spend(k) PROVE budget' \in [Kinds -> Nat]
BY DEF TypeOK, BudgetType, Spend

(* What the controllers build is a message content.                          *)
LEMMA ContentType ==
  ASSUME TypeOK
  PROVE  /\ \A u \in Uids, op \in Ops, rv \in 0..MaxRV, q \in Nat :
                NewContent(u, op, rv, q) \in Content
         /\ \A u \in Uids : obj[u].rv \in 0..MaxRV /\ UpdateOp(obj[u].st) \in Ops
         /\ \A u \in Uids : /\ NewContent(u, "delete", 0, 0) \in Content
                            /\ NewContent(u, "delete", obj[u].rv, 0) \in Content
                            /\ Listed(u) \in Content
<1>1. \A u \in Uids, op \in Ops, rv \in 0..MaxRV, q \in Nat :
         NewContent(u, op, rv, q) \in Content
  BY DEF NewContent, Content
<1>2. \A u \in Uids : obj[u].rv \in 0..MaxRV
  BY DEF TypeOK, K8sType
<1>3. \A u \in Uids : UpdateOp(obj[u].st) \in Ops
  BY DEF UpdateOp, Ops
<1>4. "delete" \in Ops /\ 0 \in 0..MaxRV /\ 0 \in Nat
  BY BoundsAssumption DEF Ops
<1>5. \A u \in Uids : Listed(u) \in Content
  BY <1>1, <1>2, <1>3, <1>4 DEF Listed
<1> QED
  BY <1>1, <1>2, <1>3, <1>4, <1>5

(* What saveSuccessPoint writes is a status, and it spends only what it has. *)
LEMMA SaveType ==
  ASSUME TypeOK, NEW m \in Message, NEW pc \in Pcs, NEW seen \in Statuses,
         NEW pc2 \in Pcs, NEW seen2 \in Statuses,
         SaveStep(m, pc, seen, pc2, seen2)
  PROVE  api' \in [Uids -> Statuses] /\ budget' \in [Kinds -> Nat]
<1>1. m.uid \in Uids /\ {NoCR, Empty, m.rv} \subseteq Statuses
  BY NoMsgFacts DEF Statuses
<1>2. api \in [Uids -> Statuses] /\ budget \in [Kinds -> Nat]
  BY DEF TypeOK, SyncType, BudgetType
<1>3. api' \in [Uids -> Statuses]
  BY <1>1, <1>2 DEF SaveStep
<1>4. "api" \in Kinds
  BY DEF Kinds
<1>5. budget' \in [Kinds -> Nat]
  BY <1>2, <1>4, SpendType DEF SaveStep
<1> QED
  BY <1>3, <1>5

(* Creating an object keeps the types.                                       *)
LEMMA K8sCreateType ==
  ASSUME TypeOK, NEW u \in Uids, K8sCreate(u)
  PROVE  TypeOK'
<1>1. K8sType'
  BY DEF TypeOK, K8sCreate, K8sType, Live, Emit, NewContent, UpdateOp,
         Content, Ops, K8sUnchanged
<1> QED
  BY <1>1, Untouched
     DEF TypeOK, K8sCreate, K8sUnchanged, dispVars, poolVars, sendVars

(* Updating an object keeps the types.                                       *)
LEMMA K8sUpdateType ==
  ASSUME TypeOK, NEW u \in Uids, K8sUpdate(u)
  PROVE  TypeOK'
<1>1. K8sType'
  BY BoundsAssumption
     DEF TypeOK, K8sUpdate, K8sType, Live, Emit, NewContent, UpdateOp,
         Content, Ops, K8sUnchanged
<1>2. BudgetType'
  BY SpendType
     DEF TypeOK, K8sUpdate, BudgetType, Kinds, K8sUnchanged
<1> QED
  BY <1>1, <1>2, Untouched
     DEF TypeOK, K8sUpdate, K8sUnchanged, dispVars, poolVars, sendVars

(* Marking an object for deletion keeps the types.                           *)
LEMMA K8sTerminateType ==
  ASSUME TypeOK, NEW u \in Uids, K8sTerminate(u)
  PROVE  TypeOK'
<1>1. K8sType'
  <2>1. NewContent(u, "terminate", obj[u].rv + 1, 0) \in Content
    BY ContentType, BoundsAssumption DEF K8sTerminate, Ops, TypeOK, K8sType
  <2> QED
    BY <2>1, BoundsAssumption DEF TypeOK, K8sTerminate, K8sType, Live, Emit, K8sUnchanged
<1>2. BudgetType'
  BY SpendType
     DEF TypeOK, K8sTerminate, BudgetType, Kinds, K8sUnchanged
<1> QED
  BY <1>1, <1>2, Untouched
     DEF TypeOK, K8sTerminate, K8sUnchanged, dispVars, poolVars, sendVars

(* Deleting an object keeps the types.                                       *)
LEMMA K8sDeleteType ==
  ASSUME TypeOK, NEW u \in Uids, K8sDelete(u)
  PROVE  TypeOK'
<1>1. K8sType'
  <2>1. NewContent(u, "delete", obj[u].rv, 0) \in Content
    BY ContentType
  <2> QED
    BY <2>1 DEF TypeOK, K8sDelete, K8sType, Live, Emit, K8sUnchanged
<1>2. BudgetType'
  BY SpendType
     DEF TypeOK, K8sDelete, BudgetType, Kinds, K8sUnchanged
<1> QED
  BY <1>1, <1>2, Untouched
     DEF TypeOK, K8sDelete, K8sUnchanged, dispVars, poolVars, sendVars

(* A cache that catches up holds a status.                                   *)
LEMMA ListerSyncType ==
  ASSUME TypeOK, NEW u \in Uids, ListerSync(u)
  PROVE  TypeOK'
<1>1. SyncType'
  BY DEF TypeOK, ListerSync, SyncType
<1> QED
  BY <1>1, Untouched
     DEF TypeOK, ListerSync, k8sVars, dispVars, poolVars, sendVars

(* What syncController sends is a message of its object.                     *)
LEMMA ReconcileType ==
  ASSUME TypeOK, NEW u \in Uids, Reconcile(u)
  PROVE  TypeOK'
<1>1. K8sType'
  <2>1. /\ NewContent(u, "delete", 0, 0) \in Content
        /\ NewContent(u, UpdateOp(obj[u].st), obj[u].rv, 0) \in Content
    BY ContentType DEF Listed
  <2>2. chan' \in Seq(Content)
    <3>1. chan \in Seq(Content)
      BY DEF TypeOK, K8sType
    <3>2. \/ chan' = Append(chan, NewContent(u, "delete", 0, 0))
          \/ chan' = Append(chan, NewContent(u, UpdateOp(obj[u].st), obj[u].rv, 0))
      BY DEF Reconcile
    <3>3. \A c \in Content : Append(chan, c) \in Seq(Content)
      BY <3>1, AppendFacts
    <3> QED
      BY <2>1, <3>2, <3>3
  <2> QED
    BY <2>2 DEF TypeOK, Reconcile, K8sType, k8sVars
<1> QED
  BY <1>1, Untouched
     DEF TypeOK, Reconcile, k8sVars, dispVars, poolVars, sendVars

(* A key that AddRateLimited returns to the queue is a key.                  *)
LEMMA DelayedAddType ==
  ASSUME TypeOK, NEW u \in Uids, DelayedAdd(u)
  PROVE  TypeOK'
<1>1. PoolType'
  <2>1. queue' = queue \/ queue' = Append(queue, u)
    BY DEF DelayedAdd, QueueAdd
  <2>2. queue' \in Seq(Uids)
    BY <2>1, AppendFacts DEF TypeOK, PoolType
  <2> QED
    BY <2>2 DEF TypeOK, PoolType, DelayedAdd
<1>2. FlagType'
  BY ZenonT(30)
     DEF TypeOK, DelayedAdd, FlagType, QueueAdd, SendUnchanged, sendVars,
         dispVars
<1> QED
  BY <1>1, <1>2, Untouched
     DEF TypeOK, DelayedAdd, SendUnchanged, k8sVars

(* The answer to a remote query is well-typed.                               *)
LEMMA EdgeQueryType ==
  ASSUME TypeOK, NEW u \in Uids, EdgeQuery(u)
  PROVE  TypeOK'
<1>1. K8sType'
  <2>1. budget["query"] \in Nat
    BY DEF TypeOK, BudgetType, Kinds
  <2>2. NewContent(u, "response", obj[u].rv, budget["query"]) \in Content
    BY <2>1, ContentType DEF Ops
  <2> QED
    BY <2>2 DEF TypeOK, EdgeQuery, K8sType, k8sVars
<1>2. EdgeType'
  BY ZenonT(30) DEF TypeOK, EdgeQuery, EdgeType, BudgetType, Kinds
<1>3. BudgetType'
  BY SpendType
     DEF TypeOK, EdgeQuery, BudgetType, Kinds
<1> QED
  BY <1>1, <1>2, <1>3, Untouched
     DEF TypeOK, EdgeQuery, k8sVars, dispVars, poolVars, sendVars

(* Dispatching an event keeps the types.                                     *)
LEMMA DispatchEventType == ASSUME TypeOK, DispatchEvent PROVE TypeOK'
<1>1. K8sType'
  BY DEF TypeOK, DispatchEvent, K8sType, DispUnchanged
<1>2. DispType'
  BY NoMsgFacts
     DEF TypeOK, DispatchEvent, DispType, K8sType, enqueueAckMessage,
         DispIdle
<1>3. FlagType'
  BY ZenonT(30)
     DEF TypeOK, DispatchEvent, FlagType, enqueueAckMessage, DispIdle,
         DispUnchanged, poolVars, sendVars
<1> QED
  BY <1>1, <1>2, <1>3, Untouched
     DEF TypeOK, DispatchEvent, DispUnchanged

(* Dispatching a message of a controller keeps the types.                    *)
LEMMA DispatchChanType == ASSUME TypeOK, DispatchChan PROVE TypeOK'
<1>1. K8sType'
  BY DEF TypeOK, DispatchChan, K8sType, DispUnchanged
<1>2. DispType'
  BY NoMsgFacts
     DEF TypeOK, DispatchChan, DispType, K8sType, enqueueAckMessage,
         DispIdle
<1>3. FlagType'
  BY ZenonT(30)
     DEF TypeOK, DispatchChan, FlagType, enqueueAckMessage, DispIdle,
         DispUnchanged, poolVars, sendVars
<1> QED
  BY <1>1, <1>2, <1>3, Untouched
     DEF TypeOK, DispatchChan, DispUnchanged

(* Creating an ObjectSync keeps the types.                                   *)
LEMMA DispCreateType == ASSUME TypeOK, DispCreate PROVE TypeOK'
<1>1. DispType'
  BY DEF TypeOK, DispCreate, DispType, DispIdle
<1>2. SyncType'
  BY DEF TypeOK, DispCreate, SyncType, DispType, Statuses, NoCR, Empty,
         DispUnchanged
<1>3. BudgetType'
  BY SpendType
     DEF TypeOK, DispCreate, BudgetType, Kinds, DispUnchanged
<1>4. FlagType'
  BY ZenonT(30)
     DEF TypeOK, DispCreate, FlagType, DispIdle, DispUnchanged, poolVars,
         sendVars
<1> QED
  BY <1>1, <1>2, <1>3, <1>4, Untouched
     DEF TypeOK, DispCreate, DispUnchanged

(* Setting its first status keeps the types.                                 *)
LEMMA DispStatusType == ASSUME TypeOK, DispStatus PROVE TypeOK'
<1>1. DispType'
  BY DEF TypeOK, DispStatus, DispType, DispIdle
<1>2. SyncType'
  BY BoundsAssumption
     DEF TypeOK, DispStatus, SyncType, DispType, Statuses, NoCR, Empty,
         DispUnchanged
<1>3. BudgetType'
  BY SpendType
     DEF TypeOK, DispStatus, BudgetType, Kinds, DispUnchanged
<1>4. FlagType'
  BY ZenonT(30)
     DEF TypeOK, DispStatus, FlagType, DispIdle, DispUnchanged, poolVars,
         sendVars
<1> QED
  BY <1>1, <1>2, <1>3, <1>4, Untouched
     DEF TypeOK, DispStatus, DispUnchanged

(* What the dispatcher stores is a message with an ID.                       *)
LEMMA DispAddType == ASSUME TypeOK, DispAdd PROVE TypeOK'
<1>1. DispType'
  BY DEF TypeOK, DispAdd, DispType, DispIdle
<1>2. PoolType'
  <2>1. disp \in Content /\ disp # NoMsg
    BY DEF TypeOK, DispType, DispAdd
  <2>2. CASE dispStale
    BY <2>2 DEF TypeOK, PoolType, DispAdd
  <2>3. CASE ~dispStale
    <3>1. NewId \in FreeIds /\ NewId \in Nat \ {0}
      BY <2>3 DEF DispAdd, NewId, FreeIds
    <3>2. [uid |-> disp.uid, op |-> disp.op, rv |-> disp.rv,
           parent |-> disp.parent, id |-> NewId] \in Message
      BY <2>1, <3>1, NoMsgFacts DEF Message
    <3> QED
      BY <2>1, <2>3, <3>2 DEF TypeOK, PoolType, DispAdd
  <2> QED
    BY <2>2, <2>3
<1>3. FlagType'
  BY ZenonT(30)
     DEF TypeOK, DispAdd, FlagType, DispIdle, DispUnchanged, sendVars
<1> QED
  BY <1>1, <1>2, <1>3, Untouched
     DEF TypeOK, DispAdd, DispUnchanged

(* What the dispatcher queues is a key.                                      *)
LEMMA DispQueueType == ASSUME TypeOK, DispQueue PROVE TypeOK'
<1>1. DispType'
  BY DEF TypeOK, DispQueue, DispType, DispIdle
<1>2. PoolType'
  <2>1. disp.uid \in Uids
    BY NoMsgFacts DEF TypeOK, DispType, DispQueue
  <2>2. queue' = queue \/ queue' = Append(queue, disp.uid)
    BY DEF DispQueue, QueueAdd
  <2>3. queue' \in Seq(Uids)
    BY <2>1, <2>2, AppendFacts DEF TypeOK, PoolType
  <2> QED
    BY <2>3 DEF TypeOK, PoolType, DispQueue
<1>3. FlagType'
  BY ZenonT(30)
     DEF TypeOK, DispQueue, FlagType, DispIdle, DispUnchanged, QueueAdd,
         sendVars
<1> QED
  BY <1>1, <1>2, <1>3, Untouched
     DEF TypeOK, DispQueue, DispUnchanged

(* A session sends what its store holds.                                     *)
LEMMA SendNextType == ASSUME TypeOK, SendNext PROVE TypeOK'
<1>1. PoolType'
  BY DEF TypeOK, SendNext, PoolType
<1>2. SendType'
  BY DEF TypeOK, SendNext, SendType, PoolType, Pcs, SavePcs, sendVars
<1>3. NetType'
  <2>1. store[Head(queue)] \in Message \cup {NoMsg}
    BY DEF TypeOK, PoolType, SendNext
  <2>2. \/ down' = down
        \/ down' = Append(down, store[Head(queue)]) /\ store[Head(queue)] # NoMsg
    BY DEF SendNext
  <2>3. down' \in Seq(Message)
    <3>1. down \in Seq(Message) /\ \A m \in Message : Append(down, m) \in Seq(Message)
      BY AppendFacts DEF TypeOK, NetType
    <3> QED
      BY <2>1, <2>2, <3>1
  <2> QED
    BY <2>3 DEF TypeOK, NetType, SendNext
<1>4. FlagType'
  BY ZenonT(30)
     DEF TypeOK, SendNext, FlagType, SendUnchanged, dispVars, sendVars
<1> QED
  BY <1>1, <1>2, <1>3, <1>4, Untouched
     DEF TypeOK, SendNext, SendUnchanged, k8sVars

(* Rewrites stay within RetryTimes.                                          *)
LEMMA RetryTickType == ASSUME TypeOK, RetryTick PROVE TypeOK'
<1>1. sMsg \in Message /\ sMsg.uid \in Uids
  BY NoMsgFacts DEF TypeOK, SendType, RetryTick
<1>2. queue' \in Seq(Uids)
  <2>1. queue \in Seq(Uids) /\ Append(queue, sMsg.uid) \in Seq(Uids)
    BY <1>1, AppendFacts DEF TypeOK, PoolType
  <2>2. queue' = queue \/ queue' = Append(queue, sMsg.uid)
    BY DEF RetryTick, QueueDone
  <2> QED
    BY <2>1, <2>2
<1>3. delayed' \subseteq Uids
  BY <1>1 DEF TypeOK, PoolType, RetryTick
<1>4. PoolType'
  BY <1>2, <1>3 DEF TypeOK, PoolType, RetryTick
<1>5. NetType'
  <2>1. down \in Seq(Message) /\ Append(down, sMsg) \in Seq(Message)
    BY <1>1, AppendFacts DEF TypeOK, NetType
  <2>2. down' = down \/ down' = Append(down, sMsg)
    BY DEF RetryTick
  <2> QED
    BY <2>1, <2>2 DEF TypeOK, NetType, RetryTick
<1>6. SendType'
  BY BoundsAssumption, NoMsgFacts
     DEF TypeOK, RetryTick, SendType, QueueDone, Pcs, SavePcs
<1>7. BudgetType'
  BY SpendType
     DEF TypeOK, RetryTick, BudgetType, Kinds, SendUnchanged
<1>8. FlagType'
  BY ZenonT(30)
     DEF TypeOK, RetryTick, FlagType, QueueDone, SendUnchanged, dispVars
<1> QED
  BY <1>1, <1>2, <1>3, <1>4, <1>5, <1>6, <1>7, <1>8, Untouched
     DEF TypeOK, RetryTick, SendUnchanged, k8sVars

(* Taking an ack keeps the types.                                            *)
LEMMA ReceiveMessageAckType ==
  ASSUME TypeOK, NEW i \in DOMAIN up, ReceiveMessageAck(i)
  PROVE  TypeOK'
<1>1. SendType'
  BY ZenonT(30) DEF TypeOK, ReceiveMessageAck, SendType
<1>2. NetType'
  BY WithoutFacts
     DEF TypeOK, ReceiveMessageAck, NetType
<1>3. FlagType'
  BY ZenonT(30)
     DEF TypeOK, ReceiveMessageAck, FlagType, SendUnchanged, dispVars,
         poolVars
<1> QED
  BY ZenonT(30), <1>1, <1>2, <1>3, Untouched
     DEF TypeOK, ReceiveMessageAck, SendUnchanged, k8sVars

(* Recording an ack writes a status.                                         *)
LEMMA SaveSuccessType == ASSUME TypeOK, SaveSuccess PROVE TypeOK'
<1>1. sMsg \in Message /\ sMsg.uid \in Uids
  BY NoMsgFacts DEF TypeOK, SendType, SaveSuccess, SavePcs
<1>2. PICK pc2 \in Pcs, seen2 \in Statuses :
        /\ SaveStep(sMsg, sPc, sSeen, pc2, seen2)
        /\ sSeen' = seen2
        /\ IF pc2 = "idle" THEN QueueDone
           ELSE sPc' = pc2 /\ UNCHANGED <<queue, redo, sMsg, sRetry, sAcked>>
  BY ZenonT(30) DEF SaveSuccess
<1>3. SyncType' /\ BudgetType'
  <2>1. sPc \in Pcs /\ sSeen \in Statuses
    BY DEF TypeOK, SendType
  <2>2. api' \in [Uids -> Statuses] /\ budget' \in [Kinds -> Nat]
    BY <1>1, <1>2, <2>1, SaveType
  <2> QED
    BY <2>2 DEF TypeOK, SyncType, BudgetType, SaveSuccess, SendUnchanged
<1>4. PoolType'
  <2>0. queue' = queue \/ queue' = Append(queue, sMsg.uid)
    BY <1>2 DEF QueueDone
  <2>1. queue' \in Seq(Uids)
    BY <1>1, <2>0, AppendFacts DEF TypeOK, PoolType
  <2> QED
    BY <1>1, <2>1 DEF TypeOK, PoolType, SaveSuccess, DropFromStore
<1>5. SendType'
  BY <1>1, <1>2, NoMsgFacts, BoundsAssumption
     DEF TypeOK, SendType, QueueDone, Pcs, SavePcs
<1>6. FlagType'
  BY ZenonT(30)
     DEF TypeOK, SaveSuccess, FlagType, QueueDone, SendUnchanged, dispVars
<1> QED
  BY <1>1, <1>2, <1>3, <1>4, <1>5, <1>6, Untouched
     DEF TypeOK, SaveSuccess, SendUnchanged, k8sVars

(* So does a terminated session.                                             *)
LEMMA OldSaveSuccessType == ASSUME TypeOK, OldSaveSuccess PROVE TypeOK'
<1>1. oMsg \in Message
  BY DEF TypeOK, OldType, OldSaveSuccess, SavePcs
<1>2. PICK pc2 \in Pcs, seen2 \in Statuses :
        /\ SaveStep(oMsg, oPc, oSeen, pc2, seen2)
        /\ oSeen' = seen2 /\ oPc' = pc2
        /\ oMsg' = IF pc2 = "idle" THEN NoMsg ELSE oMsg
  BY DEF OldSaveSuccess
<1>3. SyncType' /\ BudgetType'
  <2>1. oPc \in Pcs /\ oSeen \in Statuses
    BY DEF TypeOK, OldType
  <2>2. api' \in [Uids -> Statuses] /\ budget' \in [Kinds -> Nat]
    BY <1>1, <1>2, <2>1, SaveType
  <2> QED
    BY <2>2 DEF TypeOK, SyncType, BudgetType, OldSaveSuccess
<1>4. OldType'
  BY SMTT(30), <1>1, <1>2, NoMsgFacts DEF TypeOK, OldType
<1> QED
  BY <1>1, <1>2, <1>3, <1>4, Untouched
     DEF TypeOK, OldSaveSuccess, k8sVars, dispVars, poolVars, sendVars

(* A step of the edge leaves the types of the cloud's state alone.           *)
LEMMA CloudUntouched ==
  ASSUME TypeOK, EdgeUnchanged
  PROVE  K8sType' /\ DispType' /\ SyncType' /\ PoolType'
         /\ SendType' /\ OldType' /\ FlagType'
<1>1. UNCHANGED <<obj, events, chan>>
  BY DEF EdgeUnchanged, k8sVars
<1>2. UNCHANGED <<api, lister>> /\ UNCHANGED dispVars /\ UNCHANGED poolVars
  BY DEF EdgeUnchanged
<1>3. UNCHANGED sendVars /\ UNCHANGED oldVars
  BY DEF EdgeUnchanged
<1>4. UNCHANGED <<dispStale, redo, sAcked, connected>>
  BY DEF EdgeUnchanged, dispVars, poolVars, sendVars
<1> QED
  BY <1>1, <1>2, <1>3, <1>4, Untouched, ZenonT(30)

(* The edge writes rows and acks with messages.                              *)
LEMMA EdgeProcessType ==
  ASSUME TypeOK, NEW i \in DOMAIN down, EdgeProcess(i)
  PROVE  TypeOK'
<1>1. down[i] \in Message /\ down[i].uid \in Uids /\ NameOf[down[i].uid] \in Names
  <2>1. down[i] \in Message
    BY DEF TypeOK, NetType
  <2> QED
    BY <2>1, NoMsgFacts, RowFacts, ZenonT(30)
<1>2. NetType'
  <2>1. down' \in Seq(Message)
    BY SMTT(30), WithoutFacts DEF TypeOK, NetType, EdgeProcess
  <2>2. up' \in Seq(Message)
    BY <1>1, AppendFacts DEF TypeOK, NetType, EdgeProcess, Ack
  <2> QED
    BY SMTT(30), <2>1, <2>2 DEF NetType
<1>3. EdgeType'
  <2>1. [uid |-> down[i].uid, rv |-> down[i].rv] \in Row
    BY <1>1, RowFacts, ZenonT(30)
  <2>2. edge' \in [Names -> Row \cup {NoEntry}]
    BY ZenonT(30), <1>1, <2>1
       DEF TypeOK, EdgeType, EdgeProcess, InsertOrUpdate, DeleteMeta
  <2>3. asking' \in [Names -> Nat]
    <3>1. asking \in [Names -> Nat] /\ 0 \in Nat
      BY DEF TypeOK, EdgeType
    <3>2. asking' = asking \/ asking' = [asking EXCEPT ![NameOf[down[i].uid]] = 0]
      BY DEF EdgeProcess
    <3> QED
      BY <1>1, <3>1, <3>2
  <2>4. persisted' \subseteq Uids \X Nat /\ removed' \subseteq Uids
    <3>1. persisted \subseteq Uids \X Nat /\ removed \subseteq Uids
      BY SMTT(30) DEF TypeOK, EdgeType
    <3>2. persisted' \subseteq persisted \cup {<<down[i].uid, down[i].rv>>}
      BY SMTT(30) DEF EdgeProcess, InsertOrUpdate, DeleteMeta
    <3>3. removed' \subseteq removed \cup {down[i].uid}
      BY DEF EdgeProcess, InsertOrUpdate, DeleteMeta
    <3>4. <<down[i].uid, down[i].rv>> \in Uids \X Nat
      BY <1>1, RowFacts, ZenonT(30)
    <3> QED
      BY <1>1, <3>1, <3>2, <3>3, <3>4
  <2> QED
    BY <2>2, <2>3, <2>4 DEF EdgeType
<1>4. EdgeUnchanged /\ UNCHANGED budget
  BY DEF EdgeProcess
<1> QED
  BY ZenonT(30), <1>2, <1>3, <1>4, CloudUntouched, Untouched DEF TypeOK

(* So does the answer to a remote query.                                     *)
LEMMA EdgeResponseType ==
  ASSUME TypeOK, NEW i \in DOMAIN down, EdgeResponse(i)
  PROVE  TypeOK'
<1>1. down[i] \in Message /\ down[i].uid \in Uids /\ NameOf[down[i].uid] \in Names
  <2>1. down[i] \in Message
    BY DEF TypeOK, NetType
  <2> QED
    BY <2>1, NoMsgFacts, RowFacts, ZenonT(30)
<1>2. NetType'
  <2>1. down' \in Seq(Message)
    BY SMTT(30), WithoutFacts DEF TypeOK, NetType, EdgeResponse
  <2>2. up' \in Seq(Message)
    <3>1. up \in Seq(Message) /\ Append(up, down[i]) \in Seq(Message)
      BY SMTT(30), <1>1, AppendFacts DEF TypeOK, NetType
    <3> QED
      BY <3>1 DEF EdgeResponse, Ack
  <2> QED
    BY <2>1, <2>2 DEF NetType
<1>3. EdgeType'
  <2>1. [uid |-> down[i].uid, rv |-> down[i].rv] \in Row
    BY <1>1, RowFacts, ZenonT(30)
  <2>2. edge' \in [Names -> Row \cup {NoEntry}]
    <3>1. edge \in [Names -> Row \cup {NoEntry}]
      BY SMTT(30) DEF TypeOK, EdgeType
    <3>2. edge' = edge \/ edge' = [edge EXCEPT ![NameOf[down[i].uid]] =
                                       [uid |-> down[i].uid, rv |-> down[i].rv]]
      BY SMTT(30) DEF EdgeResponse, InsertOrUpdate
    <3> QED
      BY <1>1, <2>1, <3>1, <3>2
  <2>3. asking' \in [Names -> Nat]
    <3>1. asking \in [Names -> Nat] /\ 0 \in Nat
      BY DEF TypeOK, EdgeType
    <3>2. asking' = asking \/ asking' = [asking EXCEPT ![NameOf[down[i].uid]] = 0]
      BY SMTT(30) DEF EdgeResponse
    <3> QED
      BY <1>1, <3>1, <3>2
  <2>4. persisted' \subseteq Uids \X Nat /\ removed' \subseteq Uids
    <3>1. persisted \subseteq Uids \X Nat /\ removed \subseteq Uids
      BY DEF TypeOK, EdgeType
    <3>2. persisted' \subseteq persisted \cup {<<down[i].uid, down[i].rv>>}
      BY SMTT(30) DEF EdgeResponse, InsertOrUpdate
    <3>3. removed' \subseteq removed \cup {down[i].uid}
      BY SMTT(30) DEF EdgeResponse, InsertOrUpdate
    <3>4. <<down[i].uid, down[i].rv>> \in Uids \X Nat
      BY <1>1, RowFacts, ZenonT(30)
    <3> QED
      BY <1>1, <3>1, <3>2, <3>3, <3>4
  <2> QED
    BY <2>2, <2>3, <2>4 DEF EdgeType
<1>4. EdgeUnchanged /\ UNCHANGED budget
  BY DEF EdgeResponse
<1> QED
  BY ZenonT(30), <1>2, <1>3, <1>4, CloudUntouched, Untouched DEF TypeOK

(* A refused write keeps the types.                                          *)
LEMMA EdgeRejectType ==
  ASSUME TypeOK, NEW i \in DOMAIN down, EdgeReject(i)
  PROVE  TypeOK'
<1>1. down[i] \in Message /\ down[i].uid \in Uids /\ NameOf[down[i].uid] \in Names
  <2>1. down[i] \in Message
    BY DEF TypeOK, NetType
  <2> QED
    BY <2>1, NoMsgFacts, RowFacts, ZenonT(30)
<1>2. NetType'
  BY WithoutFacts DEF TypeOK, NetType, EdgeReject
<1>3. EdgeType'
  BY SMTT(30), <1>1 DEF TypeOK, EdgeType, EdgeReject
<1>4. BudgetType'
  BY SpendType
     DEF TypeOK, EdgeReject, BudgetType, Kinds, EdgeUnchanged
<1>5. EdgeUnchanged
  BY DEF EdgeReject
<1> QED
  BY ZenonT(30), <1>2, <1>3, <1>4, <1>5, CloudUntouched DEF TypeOK

(* A query that times out keeps the types.                                   *)
LEMMA QueryTimeoutType ==
  ASSUME TypeOK, NEW n \in Names, QueryTimeout(n)
  PROVE  TypeOK'
<1>1. EdgeType'
  BY DEF TypeOK, QueryTimeout, EdgeType
<1>2. EdgeUnchanged /\ UNCHANGED budget /\ UNCHANGED netVars
  BY DEF QueryTimeout, netVars
<1> QED
  BY ZenonT(30), <1>1, <1>2, CloudUntouched, Untouched DEF TypeOK

(* A new session starts with a well-typed pool.                              *)
LEMMA ConnectType == ASSUME TypeOK, Connect PROVE TypeOK'
<1>1. DispType'
  BY DEF TypeOK, Connect, DispType
<1>2. PoolType'
  BY DEF TypeOK, Connect, PoolType, FreshPool
<1>3. FlagType'
  BY ZenonT(30)
     DEF TypeOK, Connect, FlagType, FreshPool, sendVars
<1> QED
  BY <1>1, <1>2, <1>3, Untouched
     DEF TypeOK, Connect, k8sVars

(* What survives a lost connection is well-typed.                            *)
LEMMA DisconnectType == ASSUME TypeOK, Disconnect PROVE TypeOK'
<1>1. DispType'
  BY DEF TypeOK, Disconnect, DispType
<1>2. PoolType'
  BY DEF TypeOK, Disconnect, PoolType, FreshPool
<1>3. SendType'
  BY BoundsAssumption
     DEF TypeOK, Disconnect, SendType, NoSender, Pcs, Statuses
<1>4. OldType'
  BY DEF TypeOK, Disconnect, OldType, SendType, oldVars
<1>5. NetType'
  BY SurvivorsFacts
     DEF TypeOK, Disconnect, NetType, LoseInFlight
<1>6. BudgetType'
  BY SpendType
     DEF TypeOK, Disconnect, BudgetType, Kinds
<1>7. FlagType'
  BY ZenonT(30)
     DEF TypeOK, Disconnect, FlagType, FreshPool, NoSender
<1> QED
  BY <1>1, <1>2, <1>3, <1>4, <1>5, <1>6, <1>7, Untouched
     DEF TypeOK, Disconnect, k8sVars

(* So is what cloudcore lists after a restart.                               *)
LEMMA CloudRestartType == ASSUME TypeOK, CloudRestart PROVE TypeOK'
<1>1. K8sType'
  <2>1. PICK s \in Orderings(LiveUids) :
               events' = [i \in 1..Cardinality(LiveUids) |-> Listed(s[i])]
    BY DEF CloudRestart
  <2>2. s \in [1..Cardinality(LiveUids) -> Uids]
    BY SMTT(30) DEF Orderings, LiveUids
  <2>3. \A i \in 1..Cardinality(LiveUids) : Listed(s[i]) \in Content
    BY <2>2, ContentType
  <2>4. Cardinality(LiveUids) \in Nat
    <3>1. LiveUids \subseteq Uids
      BY DEF LiveUids
    <3> QED
      BY <3>1, UidsAssumption, FS_Subset, FS_CardinalityType
  <2>5. events' \in Seq(Content)
    BY <2>1, <2>3, <2>4
  <2> QED
    BY <2>5 DEF TypeOK, K8sType, CloudRestart
<1>2. DispType'
  BY DEF TypeOK, CloudRestart, DispType, DispIdle
<1>3. SyncType'
  BY DEF TypeOK, CloudRestart, SyncType
<1>4. PoolType'
  BY DEF TypeOK, CloudRestart, PoolType, FreshPool
<1>5. SendType'
  BY BoundsAssumption
     DEF TypeOK, CloudRestart, SendType, NoSender, Pcs, Statuses
<1>6. OldType'
  BY DEF TypeOK, CloudRestart, OldType, Pcs, Statuses
<1>7. NetType'
  BY SurvivorsFacts
     DEF TypeOK, CloudRestart, NetType, LoseInFlight
<1>8. BudgetType'
  BY SpendType
     DEF TypeOK, CloudRestart, BudgetType, Kinds
<1>9. FlagType'
  BY ZenonT(30)
     DEF TypeOK, CloudRestart, FlagType, DispIdle, FreshPool, NoSender
<1> QED
  BY SMTT(30), <1>1, <1>2, <1>3, <1>4, <1>5, <1>6, <1>7, <1>8, <1>9, Untouched
     DEF TypeOK, CloudRestart, vars

(* Every step keeps the types.                                               *)
LEMMA TypeStep == TypeOK /\ [Next]_vars => TypeOK'
<1> SUFFICES ASSUME TypeOK, [Next]_vars PROVE TypeOK'
  BY SMTT(30)
<1>1. CASE UNCHANGED vars
  BY SMTT(30), <1>1, Untouched
     DEF TypeOK, vars, k8sVars, dispVars, poolVars, sendVars
<1>2. CASE Next
  BY SMTT(30), <1>2, K8sCreateType, K8sUpdateType, K8sTerminateType, K8sDeleteType,
     ListerSyncType, ReconcileType, DelayedAddType, EdgeQueryType,
     DispatchEventType, DispatchChanType, DispCreateType, DispStatusType,
     DispAddType, DispQueueType, SendNextType, RetryTickType,
     ReceiveMessageAckType, SaveSuccessType, OldSaveSuccessType, EdgeProcessType,
     EdgeResponseType, EdgeRejectType, QueryTimeoutType, ConnectType,
     DisconnectType, CloudRestartType
     DEF Next
<1> QED
  BY <1>1, <1>2

-----------------------------------------------------------------------------
(* Types: no handler of the pipeline takes its state out of its domain, and   *)
(* whoever is at work (dispatcher, sender, lingering sender) holds a message. *)
THEOREM TypeCorrect == Spec => []TypeOK
<1>1. Init => TypeOK
  BY TypeInit
<1>2. TypeOK /\ [Next]_vars => TypeOK'
  BY TypeStep
<1> QED
  BY <1>1, <1>2, PTL DEF Spec

=============================================================================
