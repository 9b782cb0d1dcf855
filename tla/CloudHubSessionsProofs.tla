----------------------- MODULE CloudHubSessionsProofs -----------------------
(* For any number of nodes and connections: the session map holds no dead    *)
(* session, messages go to the pool that is read, NodeNumber and NodeLimit   *)
(* count what they should, and healthy sessions are left alone.              *)
EXTENDS CloudHubSessions, FiniteSetTheorems, TLAPS

(* Every step of a connection's goroutine keeps the types.                   *)
LEMMA HandleType ==
  ASSUME TypeOK, NEW c \in Conns, HandleConnection(c) PROVE TypeOK'
<1> USE NodesAssumption, LimitAssumption DEF TypeOK, connVars, Goto
<1>1. CASE ReachLimit(c)
  BY <1>1 DEF ReachLimit, Pcs, Adding, Note
<1>2. CASE AddNodeMessagePool(c)
  BY <1>2 DEF AddNodeMessagePool, Pcs, Adding, Note
<1>3. CASE Evict(c)
  BY <1>3 DEF Evict, Pcs, Adding
<1>4. CASE TerminateOld(c)
  BY <1>4 DEF TerminateOld, Terminating, Pcs, Adding
<1>5. CASE UncountOld(c)
  BY <1>5 DEF UncountOld, Pcs, Adding
<1>6. CASE StoreSession(c)
  BY <1>6 DEF StoreSession, Pcs, Adding
<1>7. CASE CountSession(c)
  BY <1>7 DEF CountSession, Pcs
<1>8. CASE Stopped(c)
  BY <1>8 DEF Stopped, Pcs, Removing
<1>9. CASE CheckPool(c)
  BY <1>9 DEF CheckPool, Pcs, Removing
<1>10. CASE DeletePool(c)
  BY <1>10 DEF DeletePool, Pcs, Removing
<1>11. CASE CheckSession(c)
  BY <1>11 DEF CheckSession, Pcs, Removing
<1>12. CASE DeleteSession(c)
  BY <1>12 DEF DeleteSession, Pcs, Removing
<1>13. CASE Discount(c)
  BY <1>13 DEF Discount, Pcs
<1> QED
  BY <1>1, <1>2, <1>3, <1>4, <1>5, <1>6, <1>7, <1>8, <1>9, <1>10, <1>11,
     <1>12, <1>13, ZenonT(30) DEF HandleConnection

(* So does every other step: the edge, the timers, the read loops and the    *)
(* dispatcher.                                                               *)
LEMMA TypeStep == ASSUME TypeOK, [Next]_vars PROVE TypeOK'
<1> USE NodesAssumption, LimitAssumption DEF TypeOK, connVars, Goto
<1>1. CASE UNCHANGED vars
  BY <1>1, ZenonT(30) DEF vars
<1>2. ASSUME NEW c \in Conns, Open(c) PROVE TypeOK'
  BY <1>2 DEF Open, Pcs, Note
<1>3. ASSUME NEW c \in Conns, Break(c) PROVE TypeOK'
  BY <1>3, ZenonT(30) DEF Break
<1>4. ASSUME NEW c \in Conns, KeepAliveCheck(c) PROVE TypeOK'
  BY <1>4 DEF KeepAliveCheck, Terminating
<1>5. ASSUME NEW c \in Conns, WriteFails(c) PROVE TypeOK'
  BY <1>5, ZenonT(30) DEF WriteFails, Terminating
<1>6. ASSUME NEW c \in Conns, NodeStopped(c) PROVE TypeOK'
  BY <1>6 DEF NodeStopped, Terminating
<1>7. ASSUME NEW c \in Conns, OnReadTransportErr(c) PROVE TypeOK'
  BY <1>7, ZenonT(30) DEF OnReadTransportErr, Terminating
<1>8. ASSUME NEW n \in Nodes, LoadPool(n) PROVE TypeOK'
  BY <1>8 DEF LoadPool
<1>9. CASE MakePool
  BY <1>9, ZenonT(30) DEF MakePool
<1> QED
  BY <1>1, <1>2, <1>3, <1>4, <1>5, <1>6, <1>7, <1>8, <1>9, HandleType, ZenonT(30) DEF Next

(* Type correctness: the state of sessions, pools and connections stays      *)
(* well-formed, and AddSession terminates only a session it has found.       *)
THEOREM SessionsTyped == Spec => []TypeOK
<1>1. Init => TypeOK
  BY NodesAssumption, LimitAssumption DEF Init, TypeOK, Pcs
<1>2. TypeOK /\ [Next]_vars => TypeOK'
  BY TypeStep, ZenonT(30)
<1> QED
  BY <1>1, <1>2, PTL DEF Spec

-----------------------------------------------------------------------------
(* Only StoreSession puts a session into the map, and a goroutine passes     *)
(* CheckSession towards its end only when the map does not hold its session. *)
LEMMA MapStep ==
  ASSUME TypeOK, NoDeadSession, [Next]_vars PROVE NoDeadSession'
<1> USE NodesAssumption DEF TypeOK, NoDeadSession, InMap, connVars, Goto
<1>1. CASE UNCHANGED vars
  BY <1>1, ZenonT(30) DEF vars
<1>2. ASSUME NEW c \in Conns, Open(c) PROVE NoDeadSession'
  BY <1>2 DEF Open
<1>3. ASSUME NEW c \in Conns, HandleConnection(c) PROVE NoDeadSession'
  <2>1. CASE ReachLimit(c)
    BY <2>1 DEF ReachLimit
  <2>2. CASE AddNodeMessagePool(c)
    BY <2>2 DEF AddNodeMessagePool
  <2>3. CASE Evict(c)
    BY <2>3 DEF Evict
  <2>4. CASE TerminateOld(c) \/ UncountOld(c)
    BY <2>4 DEF TerminateOld, UncountOld
  <2>5. CASE StoreSession(c)
    BY <2>5 DEF StoreSession
  <2>6. CASE CountSession(c)
    BY <2>6 DEF CountSession
  <2>7. CASE Stopped(c) \/ CheckPool(c) \/ DeletePool(c)
    BY <2>7 DEF Stopped, CheckPool, DeletePool
  <2>8. CASE CheckSession(c)
    BY <2>8 DEF CheckSession
  <2>9. CASE DeleteSession(c)
    BY <2>9 DEF DeleteSession
  <2>10. CASE Discount(c)
    BY <2>10 DEF Discount
  <2> QED
    BY <1>3, <2>1, <2>2, <2>3, <2>4, <2>5, <2>6, <2>7, <2>8, <2>9, <2>10, ZenonT(30)
    DEF HandleConnection
<1>4. ASSUME NEW c \in Conns,
             \/ Break(c) \/ KeepAliveCheck(c) \/ WriteFails(c) \/ NodeStopped(c)
             \/ OnReadTransportErr(c)
      PROVE  NoDeadSession'
  BY <1>4 DEF Break, KeepAliveCheck, WriteFails, NodeStopped, OnReadTransportErr
<1>5. ASSUME NEW n \in Nodes, LoadPool(n) PROVE NoDeadSession'
  BY <1>5, ZenonT(30) DEF LoadPool
<1>6. CASE MakePool
  BY <1>6, ZenonT(30) DEF MakePool
<1> QED
  BY <1>1, <1>2, <1>3, <1>4, <1>5, <1>6, ZenonT(30) DEF Next

(* However connections of a node overlap, SessionManager never hands a       *)
(* keepalive, an ack or a read error to a session that has ended.            *)
THEOREM MapHoldsNoDeadSession == Spec => []NoDeadSession
<1>1. Init => NoDeadSession
  BY NodesAssumption, ZenonT(30) DEF Init, NoDeadSession
<1>2. TypeOK /\ NoDeadSession /\ [Next]_vars => NoDeadSession'
  BY MapStep, ZenonT(30)
<1> QED
  BY <1>1, <1>2, SessionsTyped, PTL DEF Spec

-----------------------------------------------------------------------------
(* History only grows.                                                       *)
LEMMA OverlapsGrow == ASSUME [Next]_vars PROVE overlaps \subseteq overlaps'
  BY ZenonT(30) DEF Next, vars, Note, Open, Break, HandleConnection, ReachLimit, AddNodeMessagePool,
         Evict, TerminateOld, UncountOld, StoreSession, CountSession, Stopped, CheckPool,
         DeletePool, CheckSession, DeleteSession, Discount, KeepAliveCheck, WriteFails,
         NodeStopped, OnReadTransportErr, LoadPool, MakePool

(* Served: the connection has registered its pool and is not cleaning up.    *)
Serving(c) == pc[c] \in Adding \cup {"run"} /\ pc[c] # "pool"

(* Without overlaps a node has one connection at a time, and the dispatcher  *)
(* has not looked for the pool of a node whose connection has registered it. *)
PoolInv ==
  overlaps \cap {"node", "pool"} = {} =>
     /\ \A c, d \in Conns :
          NodeOf[c] = NodeOf[d] /\ ~Settled(c) /\ ~Settled(d) => c = d
     /\ \A c \in Conns : Serving(c) => pools[NodeOf[c]] = c /\ missed # NodeOf[c]

(* Each step keeps it: a second connection of a node, or one that registers  *)
(* a pool the dispatcher is about to make, is an overlap.                    *)
LEMMA PoolStep == ASSUME TypeOK, PoolInv, [Next]_vars PROVE PoolInv'
<1> SUFFICES ASSUME overlaps' \cap {"node", "pool"} = {}
             PROVE  /\ \A c, d \in Conns :
                         NodeOf[c] = NodeOf[d] /\ ~Settled(c)' /\ ~Settled(d)' => c = d
                    /\ \A c \in Conns :
                         Serving(c)' => pools'[NodeOf[c]] = c /\ missed' # NodeOf[c]
  BY ZenonT(30) DEF PoolInv
<1>0. overlaps \subseteq overlaps'
  BY OverlapsGrow, ZenonT(30)
<1>1. /\ \A c, d \in Conns :
           NodeOf[c] = NodeOf[d] /\ ~Settled(c) /\ ~Settled(d) => c = d
      /\ \A c \in Conns : Serving(c) => pools[NodeOf[c]] = c /\ missed # NodeOf[c]
  BY <1>0, ZenonT(30) DEF PoolInv
<1> USE NodesAssumption DEF TypeOK, Settled, Serving, Adding, Removing, Goto
<1>2. CASE UNCHANGED <<pc, pools, missed>>
  BY <1>1, <1>2, ZenonT(30)
<1>3. ASSUME NEW c \in Conns, Open(c)
      PROVE  /\ \A d, e \in Conns :
                  NodeOf[d] = NodeOf[e] /\ ~Settled(d)' /\ ~Settled(e)' => d = e
             /\ \A d \in Conns :
                  Serving(d)' => pools'[NodeOf[d]] = d /\ missed' # NodeOf[d]
  <2>1. ~ \E d \in Conns : NodeOf[d] = NodeOf[c] /\ ~Settled(d)
    BY <1>3, ZenonT(30) DEF Open, Note
  <2> QED
    BY <1>1, <1>3, <2>1 DEF Open
<1>4. ASSUME NEW c \in Conns, AddNodeMessagePool(c)
      PROVE  /\ \A d, e \in Conns :
                  NodeOf[d] = NodeOf[e] /\ ~Settled(d)' /\ ~Settled(e)' => d = e
             /\ \A d \in Conns :
                  Serving(d)' => pools'[NodeOf[d]] = d /\ missed' # NodeOf[d]
  <2>1. missed # NodeOf[c]
    BY <1>4, ZenonT(30) DEF AddNodeMessagePool, Note
  <2> QED
    BY <1>1, <1>4, <2>1 DEF AddNodeMessagePool
<1>5. ASSUME NEW c \in Conns, HandleConnection(c), ~AddNodeMessagePool(c), ~DeletePool(c)
      PROVE  /\ \A d, e \in Conns :
                  NodeOf[d] = NodeOf[e] /\ ~Settled(d)' /\ ~Settled(e)' => d = e
             /\ \A d \in Conns :
                  Serving(d)' => pools'[NodeOf[d]] = d /\ missed' # NodeOf[d]
  <2>1. UNCHANGED <<pools, missed>>
    BY <1>5, ZenonT(30) DEF HandleConnection, ReachLimit, Evict, TerminateOld, UncountOld,
         StoreSession, CountSession, Stopped, CheckPool, CheckSession, DeleteSession, Discount
  <2>2. ~Settled(c) /\ (Serving(c)' => Serving(c)) /\ \A d \in Conns : d # c => pc'[d] = pc[d]
    BY <1>5, ZenonT(30) DEF HandleConnection, ReachLimit, Evict, TerminateOld, UncountOld,
         StoreSession, CountSession, Stopped, CheckPool, CheckSession, DeleteSession, Discount
  <2> QED
    BY <1>1, <2>1, <2>2
<1>6. ASSUME NEW c \in Conns, DeletePool(c)
      PROVE  /\ \A d, e \in Conns :
                  NodeOf[d] = NodeOf[e] /\ ~Settled(d)' /\ ~Settled(e)' => d = e
             /\ \A d \in Conns :
                  Serving(d)' => pools'[NodeOf[d]] = d /\ missed' # NodeOf[d]
  BY <1>1, <1>6 DEF DeletePool
<1>7. ASSUME NEW n \in Nodes, LoadPool(n)
      PROVE  /\ \A d, e \in Conns :
                  NodeOf[d] = NodeOf[e] /\ ~Settled(d)' /\ ~Settled(e)' => d = e
             /\ \A d \in Conns :
                  Serving(d)' => pools'[NodeOf[d]] = d /\ missed' # NodeOf[d]
  BY <1>1, <1>7, ZenonT(30) DEF LoadPool
<1>8. CASE MakePool
  <2>1. \A d \in Conns : Serving(d)' => Serving(d)
    BY <1>8, ZenonT(30) DEF MakePool
  <2>2. \A d \in Conns : Serving(d) => NodeOf[d] # missed /\ pools[NodeOf[d]] = d
    BY <1>1, ZenonT(30)
  <2>3. \A d \in Conns : missed' # NodeOf[d]
    BY <1>8 DEF MakePool
  <2> QED
    BY <1>1, <1>8, <2>1, <2>2, <2>3 DEF MakePool
<1>9. [\E c \in Conns : \/ Break(c) \/ KeepAliveCheck(c) \/ WriteFails(c)
                         \/ NodeStopped(c) \/ OnReadTransportErr(c)]_vars
        => UNCHANGED <<pc, pools, missed>>
  BY ZenonT(30) DEF Break, KeepAliveCheck, WriteFails, NodeStopped, OnReadTransportErr, vars
<1> QED
  BY <1>2, <1>3, <1>4, <1>5, <1>6, <1>7, <1>8, <1>9, ZenonT(30) DEF Next

(* As long as no overlap has occurred, the messages for a node go into the   *)
(* pool that its session reads, for any number of nodes and connections.     *)
THEOREM PoolsAreRead == Spec => []PoolIsRead
<1>1. Init => PoolInv
  BY ZenonT(30) DEF Init, PoolInv, Settled, Serving, Adding
<1>2. TypeOK /\ PoolInv /\ [Next]_vars => PoolInv'
  BY PoolStep, ZenonT(30)
<1>3. PoolInv => PoolIsRead
  BY ZenonT(30) DEF PoolInv, PoolIsRead, Serving
<1> QED
  BY <1>1, <1>2, <1>3, SessionsTyped, PTL DEF Spec
-----------------------------------------------------------------------------
(* The connections that NodeNumber counts.                                   *)
IsCounted(c) == pc[c] \in {"run"} \cup Removing
Counted == {c \in Conns : IsCounted(c)}

(* As long as no node reconnects early: a node has one connection at a time, *)
(* its session is in the map from Store to Delete, so that AddSession never  *)
(* finds one to evict, and NodeNumber counts the sessions that have passed   *)
(* Add and not yet passed the last step of DeleteSession.                    *)
NumberInv ==
  "node" \notin overlaps =>
     /\ \A c, d \in Conns :
          NodeOf[c] = NodeOf[d] /\ ~Settled(c) /\ ~Settled(d) => c = d
     /\ \A c \in Conns : pc[c] \in InMap => sessions[NodeOf[c]] = c
     /\ \A c \in Conns : pc[c] \notin {"terminate", "uncount"}
     /\ IsFiniteSet(Counted) /\ NodeNumber = Cardinality(Counted)

(* The steps that move no goroutine leave map and counter alone too.         *)
LEMMA OthersStay ==
  ASSUME \/ UNCHANGED vars
         \/ \E c \in Conns : \/ Break(c) \/ KeepAliveCheck(c) \/ WriteFails(c)
                             \/ NodeStopped(c) \/ OnReadTransportErr(c)
         \/ \E n \in Nodes : LoadPool(n)
         \/ MakePool
  PROVE  UNCHANGED <<pc, sessions, NodeNumber, NodeLimit, old, overlaps>>
  BY ZenonT(30) DEF vars, Break, KeepAliveCheck, WriteFails, NodeStopped, OnReadTransportErr,
         LoadPool, MakePool

(* At the start there is nothing to count.                                   *)
LEMMA NumberInit == ASSUME Init PROVE NumberInv
<1>1. Counted = {}
  BY ZenonT(30) DEF Init, Counted, IsCounted, Removing
<1>2. IsFiniteSet(Counted) /\ NodeNumber = Cardinality(Counted)
  BY <1>1, FS_EmptySet, ZenonT(30) DEF Init
<1> QED
  BY <1>2, ZenonT(30) DEF Init, NumberInv, Settled, InMap

(* Each step keeps it: a connection that is opened early is an overlap.      *)
LEMMA NumberStep ==
  ASSUME TypeOK, NoDeadSession, NumberInv, [Next]_vars PROVE NumberInv'
<1> SUFFICES ASSUME "node" \notin overlaps'
             PROVE  /\ \A c, d \in Conns :
                         NodeOf[c] = NodeOf[d] /\ ~Settled(c)' /\ ~Settled(d)' => c = d
                    /\ \A c \in Conns : pc'[c] \in InMap => sessions'[NodeOf[c]] = c
                    /\ \A c \in Conns : pc'[c] \notin {"terminate", "uncount"}
                    /\ IsFiniteSet(Counted') /\ NodeNumber' = Cardinality(Counted')
  BY ZenonT(30) DEF NumberInv
<1>0. /\ \A c, d \in Conns :
           NodeOf[c] = NodeOf[d] /\ ~Settled(c) /\ ~Settled(d) => c = d
      /\ \A c \in Conns : pc[c] \in InMap => sessions[NodeOf[c]] = c
      /\ \A c \in Conns : pc[c] \notin {"terminate", "uncount"}
      /\ IsFiniteSet(Counted) /\ NodeNumber = Cardinality(Counted)
  BY OverlapsGrow, ZenonT(30) DEF NumberInv
<1>t. pc \in [Conns -> Pcs] /\ sessions \in [Nodes -> Conns \cup {None}] /\ None \notin Conns
      /\ NodeOf \in [Conns -> Nodes]
  BY NodesAssumption, ZenonT(30) DEF TypeOK
<1>1. CASE UNCHANGED <<pc, sessions, NodeNumber>>
  BY <1>0, <1>1, ZenonT(30) DEF Settled, Counted, IsCounted
<1>2. ASSUME NEW c \in Conns, Open(c)
      PROVE  /\ \A d, e \in Conns :
                  NodeOf[d] = NodeOf[e] /\ ~Settled(d)' /\ ~Settled(e)' => d = e
             /\ \A d \in Conns : pc'[d] \in InMap => sessions'[NodeOf[d]] = d
             /\ \A d \in Conns : pc'[d] \notin {"terminate", "uncount"}
             /\ IsFiniteSet(Counted') /\ NodeNumber' = Cardinality(Counted')
  <2>1. ~ \E d \in Conns : NodeOf[d] = NodeOf[c] /\ ~Settled(d)
    BY <1>2, ZenonT(30) DEF Open, Note
  <2>2. /\ pc' = [pc EXCEPT ![c] = "limit"] /\ pc[c] = "new"
        /\ UNCHANGED <<sessions, NodeNumber>>
    BY <1>2, ZenonT(30) DEF Open, Goto
  <2>3. Counted' = Counted
    BY <1>t, <2>2, ZenonT(30) DEF Counted, IsCounted, Removing
  <2> QED
    BY <1>0, <1>t, <2>1, <2>2, <2>3, ZenonT(30) DEF Settled, InMap
<1>3. ASSUME NEW c \in Conns, HandleConnection(c)
      PROVE  /\ ~Settled(c) /\ \A d \in Conns : d # c => pc'[d] = pc[d]
             /\ \A d, e \in Conns :
                  NodeOf[d] = NodeOf[e] /\ ~Settled(d)' /\ ~Settled(e)' => d = e
  <2>1. ~Settled(c) /\ \A d \in Conns : d # c => pc'[d] = pc[d]
    BY <1>3, <1>t, ZenonT(30) DEF HandleConnection, Settled, Goto, ReachLimit, AddNodeMessagePool,
       Evict, TerminateOld, UncountOld, StoreSession, CountSession, Stopped, CheckPool,
       DeletePool, CheckSession, DeleteSession, Discount
  <2> QED
    BY <1>0, <2>1, ZenonT(30) DEF Settled
<1>4. ASSUME NEW c \in Conns, HandleConnection(c)
      PROVE  /\ \A d \in Conns : pc'[d] \in InMap => sessions'[NodeOf[d]] = d
             /\ \A d \in Conns : pc'[d] \notin {"terminate", "uncount"}
             /\ IsFiniteSet(Counted') /\ NodeNumber' = Cardinality(Counted')
  <2>0. \A d \in Conns : d # c => pc'[d] = pc[d]
    BY <1>3, <1>4, ZenonT(30)
  <2>1. CASE ReachLimit(c) \/ AddNodeMessagePool(c)
    <3>1. /\ UNCHANGED <<sessions, NodeNumber>> /\ pc[c] \in {"limit", "pool"}
          /\ pc'[c] \in {"refused", "pool", "evict"}
      BY <2>1, <1>t, ZenonT(30) DEF ReachLimit, AddNodeMessagePool, Goto
    <3>2. Counted' = Counted
      BY <2>0, <3>1, ZenonT(30) DEF Counted, IsCounted, Removing
    <3> QED
      BY <1>0, <2>0, <3>1, <3>2, ZenonT(30) DEF InMap
  <2>2. CASE Evict(c)
    <3>1. sessions[NodeOf[c]] = None
      <4>1. pc[c] = "evict"
        BY <2>2, ZenonT(30) DEF Evict
      <4>2. \A d \in Conns : sessions[NodeOf[c]] = d => NodeOf[d] = NodeOf[c] /\ ~Settled(d)
        BY <1>t, ZenonT(30) DEF NoDeadSession, InMap, Settled
      <4>3. \A d \in Conns : sessions[NodeOf[c]] = d => pc[d] \in InMap
        BY <1>t, ZenonT(30) DEF NoDeadSession
      <4>4. sessions[NodeOf[c]] \notin Conns
        BY <1>0, <4>1, <4>2, <4>3, ZenonT(30) DEF Settled, InMap
      <4> QED
        BY <1>t, <4>4, ZenonT(30)
    <3>2. /\ sessions' = [sessions EXCEPT ![NodeOf[c]] = None] /\ pc[c] = "evict"
          /\ pc'[c] = "store" /\ UNCHANGED NodeNumber
      BY <2>2, <3>1, <1>t, ZenonT(30) DEF Evict, Goto
    <3>3. sessions' = sessions
      BY <3>1, <3>2, <1>t, ZenonT(30)
    <3>4. Counted' = Counted
      BY <2>0, <3>2, ZenonT(30) DEF Counted, IsCounted, Removing
    <3> QED
      BY <1>0, <2>0, <3>2, <3>3, <3>4, ZenonT(30) DEF InMap
  <2>3. CASE TerminateOld(c) \/ UncountOld(c)
    BY <1>0, <2>3, ZenonT(30) DEF TerminateOld, UncountOld
  <2>4. CASE StoreSession(c)
    <3>1. /\ sessions' = [sessions EXCEPT ![NodeOf[c]] = c] /\ pc[c] = "store"
          /\ pc'[c] = "count" /\ UNCHANGED NodeNumber
      BY <2>4, <1>t, ZenonT(30) DEF StoreSession, Goto
    <3>2. \A d \in Conns : d # c /\ pc[d] \in InMap => NodeOf[d] # NodeOf[c]
      BY <1>0, <3>1, ZenonT(30) DEF InMap, Settled
    <3>3. Counted' = Counted
      BY <2>0, <3>1, ZenonT(30) DEF Counted, IsCounted, Removing
    <3> QED
      BY <1>0, <1>t, <2>0, <3>1, <3>2, <3>3, ZenonT(30) DEF InMap
  <2>5. CASE CountSession(c)
    <3>1. /\ UNCHANGED sessions /\ pc[c] = "count" /\ pc'[c] = "run"
          /\ NodeNumber' = NodeNumber + 1
      BY <2>5, <1>t, ZenonT(30) DEF CountSession, Goto
    <3>2. Counted' = Counted \cup {c} /\ c \notin Counted
      BY <2>0, <3>1, ZenonT(30) DEF Counted, IsCounted, Removing
    <3>3. IsFiniteSet(Counted') /\ Cardinality(Counted') = Cardinality(Counted) + 1
      BY <1>0, <3>2, FS_AddElement, ZenonT(30)
    <3> QED
      BY <1>0, <2>0, <3>1, <3>3, ZenonT(30) DEF InMap
  <2>6. CASE Stopped(c) \/ CheckPool(c) \/ DeletePool(c)
    <3>1. /\ UNCHANGED <<sessions, NodeNumber>>
          /\ pc[c] \in {"run", "checkpool", "deletepool"}
          /\ pc'[c] \in {"checkpool", "deletepool", "check"}
      BY <2>6, <1>t, ZenonT(30) DEF Stopped, CheckPool, DeletePool, Goto
    <3>2. Counted' = Counted
      BY <2>0, <3>1, ZenonT(30) DEF Counted, IsCounted, Removing
    <3> QED
      BY <1>0, <2>0, <3>1, <3>2, ZenonT(30) DEF InMap
  <2>7. CASE CheckSession(c)
    <3>1. pc[c] = "check" /\ sessions[NodeOf[c]] = c
      BY <1>0, <2>7, ZenonT(30) DEF CheckSession, InMap
    <3>2. UNCHANGED <<sessions, NodeNumber>> /\ pc'[c] = "delete"
      BY <2>7, <3>1, <1>t, ZenonT(30) DEF CheckSession, Goto
    <3>3. Counted' = Counted
      BY <2>0, <3>1, <3>2, ZenonT(30) DEF Counted, IsCounted, Removing
    <3> QED
      BY <1>0, <2>0, <3>1, <3>2, <3>3, ZenonT(30) DEF InMap
  <2>8. CASE DeleteSession(c)
    <3>1. /\ sessions' = [sessions EXCEPT ![NodeOf[c]] = None] /\ pc[c] = "delete"
          /\ pc'[c] = "discount" /\ UNCHANGED NodeNumber
      BY <2>8, <1>t, ZenonT(30) DEF DeleteSession, Goto
    <3>2. \A d \in Conns : d # c /\ pc[d] \in InMap => NodeOf[d] # NodeOf[c]
      BY <1>0, <3>1, ZenonT(30) DEF InMap, Settled
    <3>3. Counted' = Counted
      BY <2>0, <3>1, ZenonT(30) DEF Counted, IsCounted, Removing
    <3> QED
      BY <1>0, <1>t, <2>0, <3>1, <3>2, <3>3, ZenonT(30) DEF InMap
  <2>9. CASE Discount(c)
    <3>1. /\ UNCHANGED sessions /\ pc[c] = "discount" /\ pc'[c] = "done"
          /\ NodeNumber' = NodeNumber - 1
      BY <2>9, <1>t, ZenonT(30) DEF Discount, Goto
    <3>2. Counted' = Counted \ {c} /\ c \in Counted
      BY <2>0, <3>1, ZenonT(30) DEF Counted, IsCounted, Removing
    <3>3. IsFiniteSet(Counted') /\ Cardinality(Counted') = Cardinality(Counted) - 1
      BY <1>0, <3>2, FS_RemoveElement, ZenonT(30)
    <3> QED
      BY <1>0, <2>0, <3>1, <3>3, ZenonT(30) DEF InMap
  <2> QED
    BY <1>4, <2>1, <2>2, <2>3, <2>4, <2>5, <2>6, <2>7, <2>8, <2>9, ZenonT(30) DEF HandleConnection
<1> QED
  BY <1>1, <1>2, <1>3, <1>4, OthersStay, ZenonT(30) DEF Next

(* Between the steps of AddSession and of the cleanup the counted sessions   *)
(* are the running ones, which are those of the map, one for each node.      *)
THEOREM NumberIsExact == Spec => []NumberExact
<1>1. TypeOK /\ NoDeadSession /\ NumberInv /\ [Next]_vars => NumberInv'
  BY NumberStep, ZenonT(30)
<1>2. TypeOK /\ NoDeadSession /\ NumberInv => NumberExact
  <2> SUFFICES ASSUME TypeOK, NoDeadSession, NumberInv, "node" \notin overlaps,
                      \A c \in Conns : pc[c] \notin Adding \cup Removing
               PROVE  NodeNumber = Cardinality({n \in Nodes : sessions[n] # None})
    BY ZenonT(30) DEF NumberExact
  <2> DEFINE S == {n \in Nodes : sessions[n] # None}
             f == [c \in Counted |-> NodeOf[c]]
  <2>1. IsFiniteSet(Counted) /\ NodeNumber = Cardinality(Counted)
    BY ZenonT(30) DEF NumberInv
  <2>2. \A c \in Counted : c \in Conns /\ NodeOf[c] \in S /\ sessions[NodeOf[c]] = c
    BY NodesAssumption DEF NumberInv, Counted, IsCounted, InMap, TypeOK
  <2>3. \A n \in S : sessions[n] \in Counted /\ NodeOf[sessions[n]] = n
    BY DEF NoDeadSession, TypeOK, Counted, IsCounted, InMap, Adding, Removing
  <2>4. f \in Surjection(Counted, S) /\ f \in Injection(Counted, S)
    BY <2>2, <2>3 DEF Surjection, Injection, IsInjective
  <2> QED
    BY <2>1, <2>4, FS_Surjection, ZenonT(30)
<1> QED
  BY <1>1, <1>2, NumberInit, SessionsTyped, MapHoldsNoDeadSession, PTL DEF Spec

-----------------------------------------------------------------------------
(* The connections that have been admitted and are not yet gone.             *)
IsServed(c) == pc[c] \in Adding \cup {"run"} \cup Removing
Served == {c \in Conns : IsServed(c)}

(* As long as no connection is compared with the limit while another one is  *)
(* being added, they are no more than the limit.                             *)
LimitInv ==
  overlaps \cap {"node", "limit"} = {} => IsFiniteSet(Served) /\ Cardinality(Served) <= NodeLimit

(* Only ReachLimit admits a connection.                                      *)
LEMMA ServedShrinks ==
  ASSUME TypeOK, [Next]_vars
  PROVE  /\ NodeLimit' = NodeLimit /\ NodeLimit \in Nat
         /\ Served' \subseteq Served \/ \E c \in Conns : ReachLimit(c)
<1>1. pc \in [Conns -> Pcs] /\ NodeLimit \in Nat
  BY ZenonT(30) DEF TypeOK
<1>2. NodeLimit' = NodeLimit
  BY ZenonT(30) DEF Next, vars, Open, Break, HandleConnection, ReachLimit, AddNodeMessagePool,
         Evict, TerminateOld, UncountOld, StoreSession, CountSession, Stopped, CheckPool,
         DeletePool, CheckSession, DeleteSession, Discount, KeepAliveCheck, WriteFails,
         NodeStopped, OnReadTransportErr, LoadPool, MakePool
<1>3. ASSUME UNCHANGED pc PROVE Served' \subseteq Served
  BY <1>3, ZenonT(30) DEF Served, IsServed
<1>4. ASSUME NEW c \in Conns, Open(c) PROVE Served' \subseteq Served
  BY <1>1, <1>4, ZenonT(30) DEF Open, Goto, Served, IsServed, Adding, Removing
<1>5. ASSUME NEW c \in Conns, HandleConnection(c), ~ReachLimit(c)
      PROVE  Served' \subseteq Served
  <2>1. pc[c] \in Adding \cup {"run"} \cup Removing /\ \A d \in Conns : d # c => pc'[d] = pc[d]
    BY <1>1, <1>5, ZenonT(30) DEF HandleConnection, Goto, AddNodeMessagePool, Evict, TerminateOld,
       UncountOld, StoreSession, CountSession, Stopped, CheckPool, DeletePool, CheckSession,
       DeleteSession, Discount, Adding, Removing
  <2> QED
    BY <2>1, ZenonT(30) DEF Served, IsServed
<1> QED
  BY <1>1, <1>2, <1>3, <1>4, <1>5, OthersStay, ZenonT(30) DEF Next

(* Each step keeps it: at ReachLimit the served connections are the counted  *)
(* ones, which are fewer than the limit if another one is let in.            *)
LEMMA LimitStep ==
  ASSUME TypeOK, NumberInv, LimitInv, [Next]_vars PROVE LimitInv'
<1> SUFFICES ASSUME overlaps' \cap {"node", "limit"} = {}
             PROVE  IsFiniteSet(Served') /\ Cardinality(Served') <= NodeLimit'
  BY ZenonT(30) DEF LimitInv
<1>1. overlaps \cap {"node", "limit"} = {}
  BY OverlapsGrow, ZenonT(30)
<1>2. IsFiniteSet(Served) /\ Cardinality(Served) <= NodeLimit
  BY <1>1, ZenonT(30) DEF LimitInv
<1>3. CASE Served' \subseteq Served
  <2>1. /\ IsFiniteSet(Served') /\ Cardinality(Served') <= Cardinality(Served)
    BY <1>2, <1>3, FS_Subset, ZenonT(30)
  <2>2. Cardinality(Served') \in Nat /\ Cardinality(Served) \in Nat
    BY <1>2, <2>1, FS_CardinalityType, ZenonT(30)
  <2> QED
    BY <1>2, <2>1, <2>2, ServedShrinks
<1>4. ASSUME NEW c \in Conns, ReachLimit(c), NodeNumber < NodeLimit
      PROVE  IsFiniteSet(Served') /\ Cardinality(Served') <= NodeLimit'
  <2>1. IsFiniteSet(Counted) /\ NodeNumber = Cardinality(Counted)
    BY <1>1, ZenonT(30) DEF NumberInv
  <2>2. \A d \in Conns : pc[d] \notin Adding
    BY <1>4, ZenonT(30) DEF ReachLimit, Note
  <2>3. /\ pc \in [Conns -> Pcs] /\ pc' = [pc EXCEPT ![c] = pc'[c]]
    BY <1>4, ZenonT(30) DEF ReachLimit, Goto, TypeOK
  <2>4. Served' \subseteq Counted \cup {c}
    BY <2>2, <2>3, ZenonT(30) DEF Served, IsServed, Counted, IsCounted
  <2>5. /\ IsFiniteSet(Counted \cup {c})
        /\ Cardinality(Counted \cup {c}) <= Cardinality(Counted) + 1
        /\ Cardinality(Counted) \in Nat
    <3>1. Cardinality(Counted) \in Nat
      BY <2>1, FS_CardinalityType, ZenonT(30)
    <3>2. /\ IsFiniteSet(Counted \cup {c})
          /\ Cardinality(Counted \cup {c})
               = IF c \in Counted THEN Cardinality(Counted) ELSE Cardinality(Counted) + 1
      BY <2>1, FS_AddElement, ZenonT(30)
    <3> QED
      BY <3>1, <3>2
  <2>6. IsFiniteSet(Served') /\ Cardinality(Served') <= Cardinality(Counted \cup {c})
    BY <2>4, <2>5, FS_Subset, ZenonT(30)
  <2>7. Cardinality(Served') \in Nat /\ Cardinality(Counted \cup {c}) \in Nat
    BY <2>5, <2>6, FS_CardinalityType, ZenonT(30)
  <2> QED
    BY <1>4, <2>1, <2>5, <2>6, <2>7, ServedShrinks
<1>5. ASSUME NEW c \in Conns, ReachLimit(c), ~(NodeNumber < NodeLimit)
      PROVE  Served' \subseteq Served
  <2>1. NodeNumber >= NodeLimit
    BY <1>5 DEF TypeOK
  <2>2. pc \in [Conns -> Pcs] /\ pc' = [pc EXCEPT ![c] = "refused"]
    BY <1>5, <2>1, ZenonT(30) DEF ReachLimit, Goto, TypeOK
  <2> QED
    BY <2>2, ZenonT(30) DEF Served, IsServed, Adding, Removing
<1> QED
  BY <1>3, <1>4, <1>5, ServedShrinks, ZenonT(30)

(* The sessions of the map are of distinct, admitted connections.            *)
THEOREM LimitIsRespected == Spec => []LimitRespected
<1>1. Init => LimitInv /\ NumberInv
  <2> SUFFICES ASSUME Init PROVE LimitInv /\ NumberInv
    OBVIOUS
  <2>1. Served = {}
    BY ZenonT(30) DEF Init, Served, IsServed, Adding, Removing
  <2>2. IsFiniteSet(Served) /\ Cardinality(Served) = 0 /\ NodeLimit \in Nat
    BY <2>1, FS_EmptySet, LimitAssumption, ZenonT(30) DEF Init
  <2> QED
    BY <2>2, NumberInit DEF LimitInv
<1>2. TypeOK /\ NoDeadSession /\ NumberInv /\ LimitInv /\ [Next]_vars => NumberInv' /\ LimitInv'
  BY NumberStep, LimitStep, ZenonT(30)
<1>3. TypeOK /\ NoDeadSession /\ LimitInv => LimitRespected
  <2> SUFFICES ASSUME TypeOK, NoDeadSession, LimitInv, overlaps \cap {"node", "limit"} = {}
               PROVE  Cardinality({n \in Nodes : sessions[n] # None}) <= NodeLimit
    BY ZenonT(30) DEF LimitRespected
  <2> DEFINE S == {n \in Nodes : sessions[n] # None}
             f == [n \in S |-> sessions[n]]
  <2>1. IsFiniteSet(Served) /\ Cardinality(Served) <= NodeLimit
    BY ZenonT(30) DEF LimitInv
  <2>2. \A n \in S : sessions[n] \in Served /\ NodeOf[sessions[n]] = n
    BY DEF NoDeadSession, TypeOK, Served, IsServed, InMap, Adding, Removing
  <2>3. f \in Injection(S, Served)
    BY <2>2 DEF Injection, IsInjective
  <2>4. IsFiniteSet(S) /\ Cardinality(S) <= Cardinality(Served)
    BY <2>1, <2>3, FS_Injection, ZenonT(30)
  <2>5. Cardinality(S) \in Nat /\ Cardinality(Served) \in Nat /\ NodeLimit \in Nat
    BY <2>1, <2>4, FS_CardinalityType, ZenonT(30) DEF TypeOK
  <2> QED
    BY <2>1, <2>4, <2>5
<1> QED
  BY <1>1, <1>2, <1>3, SessionsTyped, MapHoldsNoDeadSession, PTL DEF Spec

-----------------------------------------------------------------------------
(* A session that AddSession is about to terminate has been stored once and  *)
(* is not in the map any more; a connection that works is being read.        *)
HealthInv ==
  /\ \A d \in Conns : pc[d] = "terminate" =>
       /\ pc[old[d]] \in InMap \cup {"discount", "done"}
       /\ sessions[NodeOf[old[d]]] # old[d]
  /\ \A c \in Conns : up[c] /\ pc[c] \notin {"new", "limit"} => reading[c]

(* Each step keeps it: only AddSession of the connection itself could put a  *)
(* session back into the map, and only Open brings a connection up.          *)
LEMMA HealthStep ==
  ASSUME TypeOK, NoDeadSession, HealthInv, [Next]_vars PROVE HealthInv'
<1> USE NodesAssumption DEF TypeOK, HealthInv, InMap, connVars, Goto
<1>1. CASE UNCHANGED vars
  BY <1>1, ZenonT(30) DEF vars
<1>2. ASSUME NEW c \in Conns, Open(c) PROVE HealthInv'
  BY <1>2 DEF Open
<1>3. ASSUME NEW c \in Conns, HandleConnection(c) PROVE HealthInv'
  <2>1. CASE ReachLimit(c)
    BY <2>1 DEF ReachLimit
  <2>2. CASE AddNodeMessagePool(c)
    BY <2>2 DEF AddNodeMessagePool
  <2>3. CASE Evict(c)
    BY <2>3 DEF Evict, NoDeadSession
  <2>4. CASE TerminateOld(c)
    BY <2>4, ZenonT(30) DEF TerminateOld, Terminating
  <2>5. CASE UncountOld(c) \/ CountSession(c)
    BY <2>5 DEF UncountOld, CountSession
  <2>6. CASE StoreSession(c)
    BY <2>6, ZenonT(30) DEF StoreSession
  <2>7. CASE Stopped(c) \/ CheckPool(c) \/ DeletePool(c) \/ CheckSession(c)
    BY <2>7 DEF Stopped, CheckPool, DeletePool, CheckSession
  <2>8. CASE DeleteSession(c) \/ Discount(c)
    BY <2>8 DEF DeleteSession, Discount
  <2> QED
    BY <1>3, <2>1, <2>2, <2>3, <2>4, <2>5, <2>6, <2>7, <2>8, ZenonT(30) DEF HandleConnection
<1>4. ASSUME NEW c \in Conns, Break(c) PROVE HealthInv'
  BY <1>4 DEF Break
<1>5. ASSUME NEW c \in Conns, KeepAliveCheck(c) \/ WriteFails(c) \/ NodeStopped(c)
      PROVE  HealthInv'
  BY <1>5 DEF KeepAliveCheck, WriteFails, NodeStopped, Terminating
<1>6. ASSUME NEW c \in Conns, OnReadTransportErr(c) PROVE HealthInv'
  BY <1>6 DEF OnReadTransportErr, Terminating
<1>7. ASSUME NEW n \in Nodes, LoadPool(n) PROVE HealthInv'
  BY <1>7, ZenonT(30) DEF LoadPool
<1>8. CASE MakePool
  BY <1>8, ZenonT(30) DEF MakePool
<1> QED
  BY <1>1, <1>2, <1>3, <1>4, <1>5, <1>6, <1>7, <1>8, ZenonT(30) DEF Next

(* Of the five steps that terminate a session, the timer and a deleted node  *)
(* use up slow, a write fails and a read error comes only with a connection  *)
(* that is down, and AddSession terminates what is not in the map.           *)
THEOREM HealthyIsKept == Spec => HealthyKeepsRunning
<1>1. Init => HealthInv
  BY ZenonT(30) DEF Init, HealthInv
<1>2. TypeOK /\ NoDeadSession /\ HealthInv /\ [Next]_vars => HealthInv'
  BY HealthStep, ZenonT(30)
<1>3. ASSUME TypeOK, NoDeadSession, HealthInv, [Next]_vars,
             NEW c \in Conns, pc[c] = "run", up[c], sessions[NodeOf[c]] = c, slow' = slow,
             \A d \in Conns : NodeOf[d] = NodeOf[c] /\ reading[d] => up[d]
      PROVE  terminated'[c] = terminated[c]
  <2>0. /\ terminated \in [Conns -> BOOLEAN] /\ slow \in Nat /\ reading[c]
        /\ \A d \in Conns : pc[d] = "terminate" => old[d] \in Conns /\ old[d] # c
    BY <1>3, ZenonT(30) DEF TypeOK, HealthInv
  <2>1. ASSUME NEW d \in Conns, TerminateOld(d) PROVE terminated'[c] = terminated[c]
    BY <2>0, <2>1, ZenonT(30) DEF TerminateOld, Terminating
  <2>2. ASSUME NEW d \in Conns, KeepAliveCheck(d) PROVE terminated'[c] = terminated[c]
    <3>1. d # c
      BY <1>3, <2>0, <2>2 DEF KeepAliveCheck, Fed
    <3> QED
      BY <2>0, <2>2, <3>1, ZenonT(30) DEF KeepAliveCheck, Terminating
  <2>3. ASSUME NEW d \in Conns, WriteFails(d) PROVE terminated'[c] = terminated[c]
    BY <1>3, <2>0, <2>3, ZenonT(30) DEF WriteFails, Terminating
  <2>4. ASSUME NEW d \in Conns, NodeStopped(d) PROVE terminated'[c] = terminated[c]
    BY <1>3, <2>0, <2>4 DEF NodeStopped
  <2>5. ASSUME NEW d \in Conns, OnReadTransportErr(d) PROVE terminated'[c] = terminated[c]
    <3>1. sessions[NodeOf[d]] # c
      BY <1>3, <2>5, NodesAssumption, ZenonT(30) DEF OnReadTransportErr, NoDeadSession
    <3> QED
      BY <2>0, <2>5, <3>1, ZenonT(30) DEF OnReadTransportErr, Terminating
  <2> QED
    BY <1>3, <2>1, <2>2, <2>3, <2>4, <2>5, ZenonT(30) DEF Next, vars, connVars, Open, Break,
       HandleConnection, ReachLimit, AddNodeMessagePool, Evict, UncountOld, StoreSession,
       CountSession, Stopped, CheckPool, DeletePool, CheckSession, DeleteSession, Discount,
       LoadPool, MakePool
<1>4. TypeOK /\ NoDeadSession /\ HealthInv /\ [Next]_vars
        => [\A c \in Conns :
              /\ pc[c] = "run" /\ up[c] /\ sessions[NodeOf[c]] = c /\ slow' = slow
              /\ \A d \in Conns : NodeOf[d] = NodeOf[c] /\ reading[d] => up[d]
              => terminated'[c] = terminated[c]]_vars
  BY <1>3, ZenonT(30)
<1> QED
  BY <1>1, <1>2, <1>4, SessionsTyped, MapHoldsNoDeadSession, PTL DEF Spec, HealthyKeepsRunning
=============================================================================
