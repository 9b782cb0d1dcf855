------------------------- MODULE StreamTunnelProofs -------------------------
(***************************************************************************)
(* The two-place channels of the stream tunnel are large enough, for any    *)
(* number of requests and tunnels, any buffer sizes and any losses: nobody  *)
(* waits to tell an exec or attach that its peer is done, and no goroutine  *)
(* of a logs or metrics connection waits to stop it.                        *)
(***************************************************************************)
EXTENDS StreamTunnel, TLAPS

(* Sequences of messages: x is in it, and is in it once at most.             *)
Has(q, x)  == \E i \in 1..Len(q) : q[i] = x
Once(q, x) == \A i, j \in 1..Len(q) : q[i] = x /\ q[j] = x => i = j

Connect(c) == NewMessage("connect", c)
Remove(c)  == NewMessage("remove", c)
DownMessage == Message \cup {CloseConnect}

(* Everything about a connection is on the session it was given, and nothing *)
(* exists before that.                                                       *)
Routes ==
  /\ \A s \in Sessions : \A x \in Message :
       Has(down[s], x) \/ Has(up[s], x) \/ reader[s] = x => sess[x.id] = s
  /\ \A s \in Sessions : \A c \in conns[s] \cup todo[s] : sess[c] = s
  /\ \A c \in Conns : /\ pc[c] = "idle" => sess[c] = 0
                      /\ pc[c] \notin {"idle", "done"} => sess[c] # 0
                      /\ local[c] # "none" \/ wr[c] # "off" => sess[c] # 0

(* A connection is started once at the edge.                                 *)
Starts ==
  \A c \in Conns :
    /\ pc[c] \in {"idle", "add", "send"} => local[c] = "none"
    /\ \A s \in Sessions :
         /\ Once(down[s], Connect(c))
         /\ Has(down[s], Connect(c)) => /\ local[c] = "none"
                                        /\ pc[c] \notin {"idle", "add", "send"}

(* The edge tells the cloud of its end once.                                 *)
Told(c) == local[c] \in {"delete", "done", "lost"}
UpOnce ==
  \A c \in Conns : \A s \in Sessions :
    /\ Once(up[s], Remove(c))
    /\ Has(up[s], Remove(c)) => reader[s] # Remove(c)
    /\ Has(up[s], Remove(c)) \/ reader[s] = Remove(c) => Told(c)

(* Whether the edge's RemoveConnect may still come, and whether the session's*)
(* Close has been past the connection.                                       *)
MayCome(c) ==
  ~Told(c) \/ \E s \in Sessions : Has(up[s], Remove(c)) \/ reader[s] = Remove(c)
Passed(c) ==
  \E s \in Sessions : sess[c] = s /\ cloud[s] \in {"closing", "closed"} /\ c \notin todo[s]

Tokens ==
  \A c \in Upgrades : /\ MayCome(c) /\ ~Passed(c) => peerStop[c] = 0
                      /\ MayCome(c) \/ ~Passed(c) => peerStop[c] <= 1

(* The cloud tells the edge of the end of a stream once.                     *)
DownOnceOf(c) ==
  /\ pc[c] \notin {"client", "data", "eof"}
  /\ \A s \in Sessions :
       /\ Once(down[s], Remove(c))
       /\ Has(down[s], Remove(c)) => /\ pc[c] = "done" /\ eMsg.msg # Remove(c)
                                     /\ ~Has(readChan[c], Remove(c))
  /\ eMsg.msg = Remove(c) => pc[c] = "done" /\ ~Has(readChan[c], Remove(c))
  /\ Has(readChan[c], Remove(c)) => pc[c] = "done"
  /\ Once(readChan[c], Remove(c))
  /\ \A x \in Message : Has(readChan[c], x) => x.id = c
DownOnce == \A c \in Conns \ Upgrades : DownOnceOf(c)

(* Whether that RemoveConnect has still to reach the receiver.               *)
Coming(c) ==
  \/ pc[c] # "done"
  \/ \E s \in Sessions : Has(down[s], Remove(c))
  \/ eMsg.msg = Remove(c) \/ Has(readChan[c], Remove(c))

StopsOf(c) ==
  /\ local[c] \in {"none", "start", "dial"} => rcv[c] = "off" /\ wr[c] = "off" /\ stop[c] = 0
  /\ Coming(c) => rcv[c] # "stopping" /\ stop[c] <= 1 /\ (wr[c] # "done" => stop[c] = 0)
  /\ rcv[c] = "stopping" \/ wr[c] # "done" => stop[c] <= 1
  /\ rcv[c] = "stopping" /\ wr[c] # "done" => stop[c] = 0
Stops == \A c \in Conns \ Upgrades : StopsOf(c)

IInv == TypeOK /\ Routes /\ Starts /\ UpOnce /\ Tokens /\ DownOnce /\ Stops

-----------------------------------------------------------------------------
(* Appending, taking the head and losing all, seen through Has and Once.     *)
LEMMA AppendFacts ==
  ASSUME NEW M, NEW q \in Seq(M), NEW m \in M
  PROVE  /\ Append(q, m) \in Seq(M)
         /\ \A x : Has(Append(q, m), x) => Has(q, x) \/ x = m
         /\ \A x : Once(q, x) /\ (x = m => ~Has(q, x)) => Once(Append(q, m), x)
<1>1. /\ Append(q, m) \in Seq(M) /\ Len(Append(q, m)) = Len(q) + 1
      /\ \A i \in 1..Len(q) : Append(q, m)[i] = q[i]
      /\ Append(q, m)[Len(q) + 1] = m
  OBVIOUS
<1>2. \A i \in 1..(Len(q) + 1) : i \in 1..Len(q) \/ i = Len(q) + 1
  OBVIOUS
<1>3. \A x : Has(Append(q, m), x) => Has(q, x) \/ x = m
  BY <1>1, <1>2, ZenonT(30) DEF Has
<1>4. \A x : Once(q, x) /\ (x = m => ~Has(q, x)) => Once(Append(q, m), x)
  BY <1>1, <1>2, ZenonT(30) DEF Has, Once
<1> QED
  BY <1>1, <1>3, <1>4, ZenonT(30)

(* Taking the head.                                                          *)
LEMMA TailFacts ==
  ASSUME NEW M, NEW q \in Seq(M), q # <<>>
  PROVE  /\ Head(q) \in M /\ Tail(q) \in Seq(M)
         /\ Has(q, Head(q))
         /\ \A x : Has(Tail(q), x) => Has(q, x)
         /\ \A x : Once(q, x) => Once(Tail(q), x) /\ (x = Head(q) => ~Has(Tail(q), x))
<1>1. /\ Head(q) \in M /\ Tail(q) \in Seq(M) /\ Head(q) = q[1] /\ 1 \in 1..Len(q)
      /\ \A i \in 1..Len(Tail(q)) : i + 1 \in 1..Len(q) /\ Tail(q)[i] = q[i + 1]
      /\ Len(Tail(q)) \in Nat
  OBVIOUS
<1>2. \A x : Has(Tail(q), x) => Has(q, x)
  BY <1>1, ZenonT(30) DEF Has
<1>3. \A x : Once(q, x) => Once(Tail(q), x)
  BY <1>1 DEF Once
<1>4. ASSUME NEW x, Once(q, x), x = Head(q) PROVE ~Has(Tail(q), x)
  <2>1. SUFFICES ASSUME NEW i \in 1..Len(Tail(q)), Tail(q)[i] = x PROVE FALSE
    BY ZenonT(30) DEF Has
  <2>2. i + 1 = 1
    BY <1>1, <1>4, <2>1, ZenonT(30) DEF Once
  <2> QED
    BY <1>1, <2>2
<1> QED
  BY <1>1, <1>2, <1>3, <1>4, ZenonT(30) DEF Has

(* Losing all.                                                               *)
LEMMA EmptyFacts == \A x : ~Has(<<>>, x) /\ Once(<<>>, x)
  BY DEF Has, Once

(* What a write and a read do to the tunnel, and to ReadChan.                *)
LEMMA ToEdgeFacts ==
  ASSUME TypeOK, NEW s \in Sessions, NEW m \in DownMessage, NEW ok, ToEdge(s, m, ok)
  PROVE  /\ down' \in [Sessions -> Seq(DownMessage)]
         /\ \A t \in Sessions : \A x :
              /\ Has(down'[t], x) => Has(down[t], x) \/ (t = s /\ x = m)
              /\ Once(down[t], x) /\ (x = m => ~Has(down[t], x)) => Once(down'[t], x)
<1>1. down \in [Sessions -> Seq(DownMessage)] /\ down[s] \in Seq(DownMessage)
  BY ZenonT(30) DEF TypeOK, DownMessage
<1>2. CASE broken[s]
  BY <1>1, <1>2, ZenonT(30) DEF ToEdge
<1>3. CASE ~broken[s]
  <2>1. down' = [down EXCEPT ![s] = Append(down[s], m)]
    BY <1>3, ZenonT(30) DEF ToEdge
  <2>2. /\ Append(down[s], m) \in Seq(DownMessage)
        /\ \A x : Has(Append(down[s], m), x) => Has(down[s], x) \/ x = m
        /\ \A x : Once(down[s], x) /\ (x = m => ~Has(down[s], x)) => Once(Append(down[s], m), x)
    BY <1>1, AppendFacts, ZenonT(30)
  <2> QED
    BY <1>1, <2>1, <2>2, ZenonT(30)
<1> QED
  BY <1>2, <1>3, ZenonT(30)

(* The same for a write to the cloud.                                        *)
LEMMA ToCloudFacts ==
  ASSUME TypeOK, NEW s \in Sessions, NEW m \in Message, NEW ok, ToCloud(s, m, ok)
  PROVE  /\ up' \in [Sessions -> Seq(Message)]
         /\ \A t \in Sessions : \A x :
              /\ Has(up'[t], x) => Has(up[t], x) \/ (t = s /\ x = m)
              /\ Once(up[t], x) /\ (x = m => ~Has(up[t], x)) => Once(up'[t], x)
<1>1. up \in [Sessions -> Seq(Message)] /\ up[s] \in Seq(Message)
  BY ZenonT(30) DEF TypeOK
<1>2. CASE broken[s]
  BY <1>1, <1>2, ZenonT(30) DEF ToCloud
<1>3. CASE ~broken[s]
  <2>1. up' = [up EXCEPT ![s] = Append(up[s], m)]
    BY <1>3, ZenonT(30) DEF ToCloud
  <2>2. /\ Append(up[s], m) \in Seq(Message)
        /\ \A x : Has(Append(up[s], m), x) => Has(up[s], x) \/ x = m
        /\ \A x : Once(up[s], x) /\ (x = m => ~Has(up[s], x)) => Once(Append(up[s], m), x)
    BY <1>1, AppendFacts, ZenonT(30)
  <2> QED
    BY <1>1, <2>1, <2>2, ZenonT(30)
<1> QED
  BY <1>2, <1>3, ZenonT(30)

(* Messages are told apart by type and connection.                           *)
LEMMA MessageFacts ==
  /\ \A c \in Conns : Connect(c) \in Message /\ Remove(c) \in Message
                       /\ NewMessage("data", c) \in Message
                       /\ Connect(c).id = c /\ Remove(c).id = c
                       /\ Connect(c).type = "connect" /\ Remove(c).type = "remove"
                       /\ NewMessage("data", c).type = "data" /\ NewMessage("data", c).id = c
  /\ \A m \in Message : m.id \in Conns /\ m # NoMsg /\ m # CloseConnect
                        /\ (m.type = "connect" => m = Connect(m.id))
                        /\ (m.type = "remove" => m = Remove(m.id))
  /\ Message \subseteq DownMessage /\ CloseConnect \in DownMessage /\ NoMsg \notin Message
  BY DEF Message, Types, Connect, Remove, NewMessage, NoMsg, CloseConnect, DownMessage

(* A budget is spent down to zero at most.                                   *)
LEMMA SpendType == ASSUME TypeOK, NEW k \in Kinds, Spend(k) PROVE budget' \in [Kinds -> Nat]
  BY DEF TypeOK, Spend

(* A connection that is at work has a session.                               *)
LEMMA HasSession ==
  ASSUME TypeOK, Routes, NEW c \in Conns
  PROVE  /\ pc[c] \notin {"idle", "done"} => sess[c] \in Sessions
         /\ local[c] # "none" \/ wr[c] # "off" => sess[c] \in Sessions
  BY BoundsAssumption DEF TypeOK, Routes, Sessions

(* The signal to a connection changes its place, or the tokens it has.       *)
LEMMA SignalType ==
  ASSUME TypeOK, NEW c \in Conns, SetEdgePeerDone(c)
  PROVE  /\ pc' \in [Conns -> {"idle", "add", "send", "select", "bye", "client", "data", "eof",
                               "delete", "done"}]
         /\ peerStop' \in [Conns -> 0..PeerCap]
<1>0. /\ pc \in [Conns -> {"idle", "add", "send", "select", "bye", "client", "data", "eof",
                        "delete", "done"}]
      /\ peerStop \in [Conns -> 0..PeerCap]
  BY ZenonT(30) DEF TypeOK
<1>1. CASE c \in Upgrades /\ peerStop[c] < PeerCap /\ peerStop' = [peerStop EXCEPT ![c] = @ + 1]
           /\ UNCHANGED pc
  BY <1>0, <1>1 DEF PeerCap
<1>2. CASE UNCHANGED peerStop
  BY <1>0, <1>2, ZenonT(30) DEF SetEdgePeerDone
<1> QED
  BY <1>1, <1>2, ZenonT(30) DEF SetEdgePeerDone

(* The edge looks a message up, or hands it on, only if it has one.          *)
LEMMA EMsgFacts ==
  ASSUME TypeOK
  PROVE  /\ eMsg.at \in {"lookup", "cache"} => eMsg.msg \in Message /\ eMsg.msg.id \in Conns
         /\ eMsg.msg \in Message \cup {NoMsg}
  BY MessageFacts DEF TypeOK, Idle

(* Every step keeps the types.                                               *)
LEMMA TypeStep == ASSUME TypeOK, Routes, [Next]_vars PROVE TypeOK'
<1> USE BoundsAssumption, ConnsAssumption DEF serverVars, tunnelVars, reqVars, serveVars, localVars,
        reqOthers, edgeOthers, localOthers
<1>0. CASE UNCHANGED vars
  BY <1>0, ZenonT(30) DEF vars, TypeOK
<1>1. ASSUME NEW s \in Sessions, updateNodeKubeletEndpoint(s) PROVE TypeOK'
  BY <1>1 DEF updateNodeKubeletEndpoint, TypeOK, Sessions, Keys
<1>2. ASSUME NEW s \in Sessions, addSession(s) PROVE TypeOK'
  BY <1>2 DEF addSession, TypeOK, Sessions, Keys
<1>3. ASSUME NEW s \in Sessions, NextReader(s) PROVE TypeOK'
  <2>1. up[s] \in Seq(Message) /\ Head(up[s]) \in Message /\ Tail(up[s]) \in Seq(Message)
    BY <1>3, TailFacts, ZenonT(30) DEF NextReader, TypeOK
  <2> QED
    BY <1>3, <2>1, ZenonT(30) DEF NextReader, TypeOK
<1>4. ASSUME NEW s \in Sessions, ProxyTunnelMessageToApiserver(s) PROVE TypeOK'
  <2>1. CASE reader[s].type = "remove"
    <3>1. reader[s] \in Message
      BY <1>4, ZenonT(30) DEF ProxyTunnelMessageToApiserver, TypeOK
    <3>2. reader[s].id \in Conns /\ SetEdgePeerDone(reader[s].id)
      BY <1>4, <2>1, <3>1, MessageFacts, ZenonT(30) DEF ProxyTunnelMessageToApiserver
    <3> QED
      BY <1>4, <3>2, SignalType, ZenonT(30) DEF ProxyTunnelMessageToApiserver, TypeOK
  <2>2. CASE reader[s].type # "remove"
    BY <1>4, <2>2, ZenonT(30) DEF ProxyTunnelMessageToApiserver, TypeOK
  <2> QED
    BY <2>1, <2>2, ZenonT(30)
<1>5. ASSUME NEW s \in Sessions, ReaderFails(s) PROVE TypeOK'
  BY <1>5 DEF ReaderFails, TypeOK
<1>6. ASSUME NEW s \in Sessions, SignalAll(s) PROVE TypeOK'
  <2>1. PICK c \in todo[s] : SetEdgePeerDone(c) /\ todo' = [todo EXCEPT ![s] = @ \ {c}]
    BY <1>6, ZenonT(30) DEF SignalAll
  <2>2. c \in Conns
    BY <2>1, ZenonT(30) DEF TypeOK
  <2> QED
    BY <1>6, <2>1, <2>2, SignalType, ZenonT(30) DEF SignalAll, TypeOK
<1>7. ASSUME NEW s \in Sessions, Close(s) PROVE TypeOK'
  BY <1>7, ZenonT(30) DEF Close, TypeOK
<1>8. ASSUME NEW s \in Sessions, EndpointFails(s) PROVE TypeOK'
  <2>1. budget' \in [Kinds -> Nat]
    BY <1>8, SpendType, ZenonT(30) DEF EndpointFails, Kinds
  <2>2. down' \in [Sessions -> Seq(DownMessage)]
    BY <1>8, ToEdgeFacts, MessageFacts, ZenonT(30) DEF EndpointFails
  <2> QED
    BY <1>8, <2>1, <2>2, ZenonT(30) DEF EndpointFails, TypeOK, DownMessage
<1>9. ASSUME NEW s \in Sessions, TLSClientConnect(s) PROVE TypeOK'
  <2>1. budget' \in [Kinds -> Nat]
    BY <1>9, SpendType, ZenonT(30) DEF TLSClientConnect, Kinds
  <2>2. edgeS' \in 0..MaxSession
    BY <1>9 DEF TLSClientConnect, Sessions
  <2> QED
    BY <1>9, <2>1, <2>2, ZenonT(30) DEF TLSClientConnect, TypeOK
<1>10. ASSUME NEW s \in Sessions, TunnelBreaks(s) PROVE TypeOK'
  <2>1. budget' \in [Kinds -> Nat]
    BY <1>10, SpendType, ZenonT(30) DEF TunnelBreaks, Kinds
  <2> QED
    BY <1>10, <2>1, ZenonT(30) DEF TunnelBreaks, TypeOK
<1>11. ASSUME NEW c \in Conns, getSession(c) PROVE TypeOK'
  <2>1. PICK k \in Keys : sess' = [sess EXCEPT ![c] = sessions[k]]
    BY <1>11, ZenonT(30) DEF getSession, Keys
  <2>2. sess' \in [Conns -> 0..MaxSession]
    BY <2>1, ZenonT(30) DEF TypeOK
  <2>3. pc' \in [Conns -> {"idle", "add", "send", "select", "bye", "client", "data", "eof",
                          "delete", "done"}]
    BY <1>11 DEF getSession, TypeOK
  <2> QED
    BY <1>11, <2>2, <2>3, ZenonT(30) DEF getSession, TypeOK
<1>12. ASSUME NEW c \in Conns, AddAPIServerConnection(c) PROVE TypeOK'
  <2>0. conns \in [Sessions -> SUBSET Conns] /\ sess[c] \in Sessions
    BY <1>12, HasSession, ZenonT(30) DEF AddAPIServerConnection, TypeOK
  <2>1. conns' \in [Sessions -> SUBSET Conns]
    BY <1>12, <2>0 DEF AddAPIServerConnection
  <2> QED
    BY <1>12, <2>1, ZenonT(30) DEF AddAPIServerConnection, TypeOK
<1>13. ASSUME NEW c \in Conns, SendConnection(c) PROVE TypeOK'
  <2>1. down' \in [Sessions -> Seq(DownMessage)]
    BY <1>13, HasSession, ToEdgeFacts, MessageFacts, ZenonT(30) DEF SendConnection, Connect, Remove
  <2> QED
    BY <1>13, <2>1, ZenonT(30) DEF SendConnection, TypeOK, DownMessage
<1>14. ASSUME NEW c \in Conns, CtxDone(c) PROVE TypeOK'
  BY <1>14, ZenonT(30) DEF CtxDone, TypeOK
<1>15. ASSUME NEW c \in Conns, SendRemove(c) PROVE TypeOK'
  <2>1. down' \in [Sessions -> Seq(DownMessage)]
    BY <1>15, HasSession, ToEdgeFacts, MessageFacts, ZenonT(30) DEF SendRemove, Connect, Remove
  <2> QED
    BY <1>15, <2>1, ZenonT(30) DEF SendRemove, TypeOK, DownMessage
<1>16. ASSUME NEW c \in Conns, EdgePeerDone(c) PROVE TypeOK'
  <2>0. peerStop \in [Conns -> 0..PeerCap]
    BY ZenonT(30) DEF TypeOK
  <2>1. peerStop' \in [Conns -> 0..PeerCap]
    BY <1>16, <2>0 DEF EdgePeerDone, PeerCap
  <2> QED
    BY <1>16, <2>1, ZenonT(30) DEF EdgePeerDone, TypeOK
<1>17. ASSUME NEW c \in Conns, ReadEnds(c) PROVE TypeOK'
  BY <1>17, ZenonT(30) DEF ReadEnds, TypeOK
<1>18. ASSUME NEW c \in Conns, WriteToTunnel(c) PROVE TypeOK'
  <2>1. down' \in [Sessions -> Seq(DownMessage)]
    BY <1>18, HasSession, ToEdgeFacts, MessageFacts, ZenonT(30) DEF WriteToTunnel, Connect, Remove
  <2> QED
    BY <1>18, <2>1, ZenonT(30) DEF WriteToTunnel, TypeOK, DownMessage
<1>19. ASSUME NEW c \in Conns, sendCloseMessage(c) PROVE TypeOK'
  <2>1. down' \in [Sessions -> Seq(DownMessage)]
    BY <1>19, HasSession, ToEdgeFacts, MessageFacts, ZenonT(30) DEF sendCloseMessage, Connect, Remove
  <2> QED
    BY <1>19, <2>1, ZenonT(30) DEF sendCloseMessage, TypeOK, DownMessage
<1>20. ASSUME NEW c \in Conns, DeleteAPIServerConnection(c) PROVE TypeOK'
  BY <1>20, ZenonT(30) DEF DeleteAPIServerConnection, TypeOK
<1>21. ASSUME NEW c \in Conns, ReadInput(c) PROVE TypeOK'
  <2>1. budget' \in [Kinds -> Nat]
    BY <1>21, SpendType, ZenonT(30) DEF ReadInput, Kinds
  <2> QED
    BY <1>21, <2>1, ZenonT(30) DEF ReadInput, TypeOK
<1>22. ASSUME NEW c \in Conns, AddLocalConnection(c) PROVE TypeOK'
  BY <1>22, ZenonT(30) DEF AddLocalConnection, TypeOK
<1>23. ASSUME NEW c \in Conns, DialEdged(c) PROVE TypeOK'
  <2>1. budget' \in [Kinds -> Nat]
    BY <1>23, SpendType, ZenonT(30) DEF DialEdged, Kinds, TypeOK
  <2>2. local' \in [Conns -> {"none", "start", "dial", "serve", "bye", "delete", "done", "lost"}]
    BY <1>23, ZenonT(30) DEF DialEdged, TypeOK
  <2>0. /\ rcv \in [Conns -> {"off", "recv", "stopping", "done"}]
        /\ wr \in [Conns -> {"off", "read", "write", "stopping", "done"}]
    BY ZenonT(30) DEF TypeOK
  <2>3. /\ rcv' \in [Conns -> {"off", "recv", "stopping", "done"}]
        /\ wr' \in [Conns -> {"off", "read", "write", "stopping", "done"}]
    BY <1>23, <2>0, ZenonT(30) DEF DialEdged
  <2> QED
    BY <1>23, <2>1, <2>2, <2>3, ZenonT(30) DEF DialEdged, TypeOK
<1>24. ASSUME NEW c \in Conns, TakeStop(c) PROVE TypeOK'
  <2>0. stop \in [Conns -> 0..StopCap]
    BY ZenonT(30) DEF TypeOK
  <2>1. stop' \in [Conns -> 0..StopCap]
    BY <1>24, <2>0 DEF TakeStop, StopCap
  <2> QED
    BY <1>24, <2>1, ZenonT(30) DEF TakeStop, TypeOK
<1>25. ASSUME NEW c \in Conns, TellCloud(c) PROVE TypeOK'
  <2>0. sess[c] \in Sessions
    BY <1>25, HasSession, ZenonT(30) DEF TellCloud
  <2>1. up' \in [Sessions -> Seq(Message)]
    BY <1>25, <2>0, ToCloudFacts, MessageFacts, ZenonT(30) DEF TellCloud, Remove
  <2> QED
    BY <1>25, <2>1, ZenonT(30) DEF TellCloud, TypeOK
<1>26. ASSUME NEW c \in Conns, CleanChannel(c) PROVE TypeOK'
  <2>0. stop \in [Conns -> 0..StopCap]
    BY ZenonT(30) DEF TypeOK
  <2>1. stop' \in [Conns -> 0..StopCap]
    BY <1>26, <2>0 DEF CleanChannel, StopCap
  <2> QED
    BY <1>26, <2>1, ZenonT(30) DEF CleanChannel, TypeOK
<1>27. ASSUME NEW c \in Conns, DeleteLocalConnection(c) PROVE TypeOK'
  BY <1>27, ZenonT(30) DEF DeleteLocalConnection, TypeOK
<1>28. ASSUME NEW c \in Conns, receiveFromCloudStream(c) PROVE TypeOK'
  <2>0. readChan \in [Conns -> Seq(Message)]
    BY ZenonT(30) DEF TypeOK
  <2>1. readChan[c] # <<>> => Tail(readChan[c]) \in Seq(Message)
    BY <2>0, TailFacts, ZenonT(30)
  <2>3. readChan' \in [Conns -> Seq(Message)]
    BY <1>28, <2>0, <2>1, ZenonT(30) DEF receiveFromCloudStream
  <2>2. rcv' \in [Conns -> {"off", "recv", "stopping", "done"}]
    BY <1>28, ZenonT(30) DEF receiveFromCloudStream, TypeOK
  <2> QED
    BY <1>28, <2>2, <2>3, ZenonT(30) DEF receiveFromCloudStream, TypeOK
<1>29. ASSUME NEW c \in Conns, ReceiverStops(c) PROVE TypeOK'
  <2>0. stop \in [Conns -> 0..StopCap]
    BY ZenonT(30) DEF TypeOK
  <2>1. stop' \in [Conns -> 0..StopCap]
    BY <1>29, <2>0 DEF ReceiverStops, StopCap
  <2> QED
    BY <1>29, <2>1, ZenonT(30) DEF ReceiverStops, TypeOK
<1>30. ASSUME NEW c \in Conns, write2CloudStream(c) PROVE TypeOK'
  <2>0. sess[c] \in Sessions
    BY <1>30, HasSession, ZenonT(30) DEF write2CloudStream
  <2>1. up' \in [Sessions -> Seq(Message)]
    BY <1>30, <2>0, ToCloudFacts, MessageFacts, ZenonT(30) DEF write2CloudStream, Remove
  <2> QED
    BY <1>30, <2>1, ZenonT(30) DEF write2CloudStream, TypeOK
<1>31. ASSUME NEW c \in Conns, StreamClosed(c) PROVE TypeOK'
  BY <1>31, ZenonT(30) DEF StreamClosed, TypeOK
<1>32. ASSUME NEW c \in Conns, WriterStops(c) PROVE TypeOK'
  <2>0. stop \in [Conns -> 0..StopCap]
    BY ZenonT(30) DEF TypeOK
  <2>1. stop' \in [Conns -> 0..StopCap]
    BY <1>32, <2>0 DEF WriterStops, StopCap
  <2> QED
    BY <1>32, <2>1, ZenonT(30) DEF WriterStops, TypeOK
<1>33. ASSUME NEW c \in Conns, ReadEdged(c) PROVE TypeOK'
  <2>1. budget' \in [Kinds -> Nat]
    BY <1>33, SpendType, ZenonT(30) DEF ReadEdged, Kinds
  <2> QED
    BY <1>33, <2>1, ZenonT(30) DEF ReadEdged, TypeOK
<1>34. ASSUME NEW c \in Conns, StreamEnds(c) PROVE TypeOK'
  <2>1. budget' \in [Kinds -> Nat]
    BY <1>34, SpendType, ZenonT(30) DEF StreamEnds, Kinds
  <2> QED
    BY <1>34, <2>1, ZenonT(30) DEF StreamEnds, TypeOK
<1>35. ASSUME NEW c \in Conns, ClientLeaves(c) PROVE TypeOK'
  <2>1. PICK how \in {"eof", "reset"} : Spend(how) /\ client' = [client EXCEPT ![c] = how]
    BY <1>35, ZenonT(30) DEF ClientLeaves
  <2>2. budget' \in [Kinds -> Nat]
    BY <2>1, SpendType, ZenonT(30) DEF Kinds
  <2> QED
    BY <1>35, <2>1, <2>2, ZenonT(30) DEF ClientLeaves, TypeOK
<1>36. CASE ReadTunnel
  <2>1. edgeS \in Sessions
    BY <1>36 DEF ReadTunnel, TypeOK, Sessions
  <2>2. down[edgeS] \in Seq(DownMessage) /\ Head(down[edgeS]) \in DownMessage
        /\ Tail(down[edgeS]) \in Seq(DownMessage)
    BY <1>36, <2>1, TailFacts, ZenonT(30) DEF ReadTunnel, TypeOK, DownMessage
  <2>3. down' \in [Sessions -> Seq(DownMessage)]
    BY <1>36, <2>1, <2>2, ZenonT(30) DEF ReadTunnel, TypeOK, DownMessage
  <2> DEFINE m == Head(down[edgeS])
  <2>4. CASE m = CloseConnect /\ edgeS' = 0 /\ broken' = [broken EXCEPT ![edgeS] = TRUE]
             /\ UNCHANGED <<eMsg, dropped, local>>
    BY <1>36, <2>3, <2>4 DEF ReadTunnel, TypeOK, DownMessage
  <2>5. CASE m.type = "connect" /\ local' = [local EXCEPT ![m.id] = "start"]
             /\ eMsg' = [msg |-> m, at |-> "lookup"] /\ UNCHANGED <<edgeS, broken, dropped>>
    <3>1. m \in Message
      BY <2>2, <2>5 DEF DownMessage, CloseConnect
    <3> HIDE DEF m
    <3> QED
      BY <1>36, <2>3, <2>5, <3>1, ZenonT(30) DEF ReadTunnel, TypeOK, DownMessage
  <2>6. CASE m.type \in {"data", "remove"} /\ GetLocalConnection(m) /\ UNCHANGED <<edgeS, broken, local>>
    <3>1. m \in Message
      BY <2>2, <2>6 DEF DownMessage, CloseConnect
    <3>2. m.id \in Conns
      BY <3>1, MessageFacts, ZenonT(30)
    <3> HIDE DEF m
    <3>3. eMsg' \in [msg : Message, at : {"lookup", "cache"}] \cup {Idle}
      BY <2>6, <3>1 DEF GetLocalConnection
    <3>4. dropped' \subseteq Conns
      BY <2>6, <3>2 DEF GetLocalConnection, TypeOK
    <3> QED
      BY <1>36, <2>3, <2>6, <3>3, <3>4, ZenonT(30) DEF ReadTunnel, TypeOK, DownMessage
  <2> QED
    BY <1>36, <2>4, <2>5, <2>6, ZenonT(30) DEF ReadTunnel
<1>37. CASE WriteToLocalConnection
  <2>1. eMsg.msg \in Message /\ eMsg.msg.id \in Conns
    BY <1>37, EMsgFacts, ZenonT(30) DEF WriteToLocalConnection
  <2>2. dropped' \subseteq Conns
    BY <1>37, <2>1 DEF WriteToLocalConnection, GetLocalConnection, TypeOK
  <2> QED
    BY <1>37, <2>1, <2>2 DEF WriteToLocalConnection, GetLocalConnection, Idle, TypeOK
<1>38. CASE CacheTunnelMessage
  <2> DEFINE m == eMsg.msg
  <2>1. m \in Message
    BY <1>38, EMsgFacts, ZenonT(30) DEF CacheTunnelMessage
  <2>2. m.id \in Conns /\ readChan[m.id] \in Seq(Message)
    BY <2>1, MessageFacts, ZenonT(30) DEF TypeOK
  <2>3. Append(readChan[m.id], m) \in Seq(Message)
    BY <2>1, <2>2, AppendFacts, ZenonT(30)
  <2>4. readChan' = [readChan EXCEPT ![m.id] = Append(readChan[m.id], m)]
    BY <1>38, ZenonT(30) DEF CacheTunnelMessage
  <2> HIDE DEF m
  <2>5. readChan' \in [Conns -> Seq(Message)]
    BY <2>2, <2>3, <2>4, ZenonT(30) DEF TypeOK
  <2> QED
    BY <1>38, <2>5, ZenonT(30) DEF CacheTunnelMessage, Idle, TypeOK
<1>39. CASE SendOnClosed
  <2>1. edgeS' \in 0..MaxSession
    BY <1>39 DEF SendOnClosed
  <2>0. down \in [Sessions -> Seq(DownMessage)] /\ <<>> \in Seq(DownMessage)
    BY DEF TypeOK, DownMessage
  <2>2. down' \in [Sessions -> Seq(DownMessage)]
    BY <1>39, <2>0, ZenonT(30) DEF SendOnClosed
  <2>3. /\ readChan' \in [Conns -> Seq(Message)]
        /\ stop' \in [Conns -> 0..StopCap]
    BY <1>39 DEF SendOnClosed, StopCap
  <2> QED
    BY <1>39, <2>1, <2>2, <2>3, ZenonT(30) DEF SendOnClosed, Idle, TypeOK, DownMessage
<1>40. CASE TunnelSessionClose
  <2>1. edgeS' \in 0..MaxSession
    BY <1>40 DEF TunnelSessionClose
  <2>2. down \in [Sessions -> Seq(DownMessage)] /\ <<>> \in Seq(DownMessage)
    BY DEF TypeOK, DownMessage
  <2>3. down' \in [Sessions -> Seq(DownMessage)]
    BY <1>40, <2>2, ZenonT(30) DEF TunnelSessionClose
  <2> QED
    BY <1>40, <2>1, <2>3, ZenonT(30) DEF TunnelSessionClose, TypeOK, DownMessage
<1> QED
  BY <1>0, <1>1, <1>2, <1>3, <1>4, <1>5, <1>6, <1>7, <1>8, <1>9, <1>10, <1>11, <1>12,
     <1>13, <1>14, <1>15, <1>16, <1>17, <1>18, <1>19, <1>20, <1>21, <1>22, <1>23, <1>24,
     <1>25, <1>26, <1>27, <1>28, <1>29, <1>30, <1>31, <1>32, <1>33, <1>34, <1>35, <1>36,
     <1>37, <1>38, <1>39, <1>40, ZenonT(30)
     DEF Next, SessionStep, RequestStep, ServeStep, LocalStep, ReceiverStep, WriterStep

-----------------------------------------------------------------------------
(* The variables are functions.                                              *)
LEMMA Shapes ==
  ASSUME TypeOK
  PROVE  /\ pc = [c \in Conns |-> pc[c]] /\ sess = [c \in Conns |-> sess[c]]
         /\ local = [c \in Conns |-> local[c]] /\ peerStop = [c \in Conns |-> peerStop[c]]
         /\ rcv = [c \in Conns |-> rcv[c]] /\ wr = [c \in Conns |-> wr[c]]
         /\ stop = [c \in Conns |-> stop[c]] /\ readChan = [c \in Conns |-> readChan[c]]
         /\ cloud = [s \in Sessions |-> cloud[s]] /\ conns = [s \in Sessions |-> conns[s]]
         /\ todo = [s \in Sessions |-> todo[s]] /\ reader = [s \in Sessions |-> reader[s]]
         /\ up = [s \in Sessions |-> up[s]] /\ down = [s \in Sessions |-> down[s]]
  BY DEF TypeOK

(* What the edge reads, and what it loses, was in the tunnel.                *)
LEMMA DownShrinks ==
  ASSUME TypeOK, ReadTunnel \/ SendOnClosed \/ TunnelSessionClose
  PROVE  \A t \in Sessions : \A x :
           /\ Has(down'[t], x) => Has(down[t], x)
           /\ Once(down[t], x) => Once(down'[t], x)
<1> USE DEF edgeOthers
<1>1. down \in [Sessions -> Seq(DownMessage)]
  BY ZenonT(30) DEF TypeOK, DownMessage
<1>2. CASE ReadTunnel
  <2>1. edgeS \in Sessions
    BY <1>2, BoundsAssumption DEF ReadTunnel, TypeOK, Sessions
  <2>2. down[edgeS] \in Seq(DownMessage) /\ down[edgeS] # <<>>
        /\ down' = [down EXCEPT ![edgeS] = Tail(down[edgeS])]
    BY <1>1, <1>2, <2>1, ZenonT(30) DEF ReadTunnel
  <2>3. \A x : /\ Has(Tail(down[edgeS]), x) => Has(down[edgeS], x)
               /\ Once(down[edgeS], x) => Once(Tail(down[edgeS]), x)
    BY <2>2, TailFacts, ZenonT(30)
  <2> QED
    BY <1>1, <2>1, <2>2, <2>3, ZenonT(30)
<1>3. CASE SendOnClosed \/ TunnelSessionClose
  <2>1. down' = [down EXCEPT ![edgeS] = <<>>]
    BY <1>3, ZenonT(30) DEF SendOnClosed, TunnelSessionClose
  <2> QED
    BY <1>1, <2>1, EmptyFacts, ZenonT(30)
<1> QED
  BY <1>2, <1>3, ZenonT(30)

(* The message the edge reads is gone from the tunnel if it was there once.  *)
LEMMA ReadTakes ==
  ASSUME TypeOK, ReadTunnel
  PROVE  /\ edgeS \in Sessions /\ Head(down[edgeS]) \in DownMessage
         /\ Has(down[edgeS], Head(down[edgeS]))
         /\ Once(down[edgeS], Head(down[edgeS])) => ~Has(down'[edgeS], Head(down[edgeS]))
<1>1. down \in [Sessions -> Seq(DownMessage)]
  BY ZenonT(30) DEF TypeOK, DownMessage
<1>2. edgeS \in Sessions
  BY BoundsAssumption DEF ReadTunnel, TypeOK, Sessions
<1>3. down[edgeS] \in Seq(DownMessage) /\ down[edgeS] # <<>>
      /\ down' = [down EXCEPT ![edgeS] = Tail(down[edgeS])]
  BY <1>1, <1>2, ZenonT(30) DEF ReadTunnel
<1>4. down'[edgeS] = Tail(down[edgeS])
  BY <1>1, <1>2, <1>3, ZenonT(30)
<1> QED
  BY <1>2, <1>3, <1>4, TailFacts

(* The same for the cloud.                                                   *)
LEMMA UpShrinks ==
  ASSUME TypeOK, NEW s \in Sessions, NextReader(s) \/ ReaderFails(s)
  PROVE  \A t \in Sessions : \A x :
           /\ Has(up'[t], x) => Has(up[t], x)
           /\ Once(up[t], x) => Once(up'[t], x)
<1>1. up \in [Sessions -> Seq(Message)]
  BY ZenonT(30) DEF TypeOK
<1>2. CASE NextReader(s)
  <2>1. up[s] \in Seq(Message) /\ up[s] # <<>> /\ up' = [up EXCEPT ![s] = Tail(up[s])]
    BY <1>1, <1>2, ZenonT(30) DEF NextReader
  <2>2. \A x : /\ Has(Tail(up[s]), x) => Has(up[s], x)
               /\ Once(up[s], x) => Once(Tail(up[s]), x)
    BY <2>1, TailFacts, ZenonT(30)
  <2> QED
    BY <1>1, <2>1, <2>2, ZenonT(30)
<1>3. CASE ReaderFails(s)
  BY <1>1, <1>3, EmptyFacts, ZenonT(30) DEF ReaderFails
<1> QED
  BY <1>2, <1>3, ZenonT(30)

(* The message the cloud reads is gone from the tunnel if it was there once. *)
LEMMA NextTakes ==
  ASSUME TypeOK, NEW s \in Sessions, NextReader(s)
  PROVE  /\ Head(up[s]) \in Message /\ Has(up[s], Head(up[s]))
         /\ Once(up[s], Head(up[s])) => ~Has(up'[s], Head(up[s]))
<1>1. up \in [Sessions -> Seq(Message)]
  BY ZenonT(30) DEF TypeOK
<1>2. up[s] \in Seq(Message) /\ up[s] # <<>> /\ up' = [up EXCEPT ![s] = Tail(up[s])]
  BY <1>1, ZenonT(30) DEF NextReader
<1>3. up'[s] = Tail(up[s])
  BY <1>1, <1>2, ZenonT(30)
<1> QED
  BY <1>2, <1>3, TailFacts

(* A handler that writes to the tunnel writes to that of its session.        *)
LEMMA SendFacts ==
  ASSUME TypeOK, Routes, NEW c \in Conns, pc[c] \notin {"idle", "done"}, NEW k \in Types,
         \E ok \in BOOLEAN : ToEdge(sess[c], NewMessage(k, c), ok)
  PROVE  /\ sess[c] \in Sessions
         /\ \A t \in Sessions : \A x :
              /\ Has(down'[t], x) => Has(down[t], x) \/ (t = sess[c] /\ x = NewMessage(k, c))
              /\ Once(down[t], x) /\ (x = NewMessage(k, c) => ~Has(down[t], x)) => Once(down'[t], x)
<1>1. sess[c] \in Sessions
  BY HasSession, ZenonT(30)
<1>2. NewMessage(k, c) \in DownMessage
  BY ZenonT(30) DEF NewMessage, DownMessage, Message
<1> QED
  BY <1>1, <1>2, ToEdgeFacts, ZenonT(30)

(* A goroutine of a local connection writes to the same session.             *)
LEMMA EdgeSendFacts ==
  ASSUME TypeOK, Routes, NEW c \in Conns, local[c] # "none" \/ wr[c] # "off", NEW k \in Types,
         \E ok \in BOOLEAN : ToCloud(sess[c], NewMessage(k, c), ok)
  PROVE  /\ sess[c] \in Sessions
         /\ \A t \in Sessions : \A x :
              /\ Has(up'[t], x) => Has(up[t], x) \/ (t = sess[c] /\ x = NewMessage(k, c))
              /\ Once(up[t], x) /\ (x = NewMessage(k, c) => ~Has(up[t], x)) => Once(up'[t], x)
<1>1. sess[c] \in Sessions
  BY HasSession, ZenonT(30)
<1>2. NewMessage(k, c) \in Message
  BY ZenonT(30) DEF NewMessage, Message
<1> QED
  BY <1>1, <1>2, ToCloudFacts, ZenonT(30)

(* A connection is started once.                                              *)
LEMMA StartsStep ==
  ASSUME TypeOK, Routes, Starts, [Next]_vars
  PROVE  Starts'
<1> USE DEF serverVars, tunnelVars, reqVars, serveVars, localVars, reqOthers, edgeOthers, localOthers
<1>1. ASSUME UNCHANGED <<pc, local, down>> PROVE Starts'
  BY <1>1, ZenonT(30) DEF Starts
<1>2. CASE UNCHANGED vars
  BY <1>1, <1>2, ZenonT(30) DEF vars
<1>3. ASSUME NEW s \in Sessions,
             updateNodeKubeletEndpoint(s) \/ addSession(s) \/ NextReader(s) \/
             ReaderFails(s) \/ Close(s) \/ TLSClientConnect(s) \/ TunnelBreaks(s)
      PROVE  Starts'
  BY <1>1, <1>3, ZenonT(30) DEF updateNodeKubeletEndpoint, addSession, NextReader, ReaderFails, Close,
     TLSClientConnect, TunnelBreaks
<1>4. ASSUME NEW s \in Sessions, ProxyTunnelMessageToApiserver(s) PROVE Starts'
  <2>1. \A d \in Conns : pc'[d] # pc[d] => pc'[d] = "delete"
    BY <1>4, Shapes, ZenonT(30) DEF ProxyTunnelMessageToApiserver, SetEdgePeerDone
  <2> QED
    BY <1>4, <2>1, ZenonT(30) DEF ProxyTunnelMessageToApiserver, Starts
<1>5. ASSUME NEW s \in Sessions, SignalAll(s) PROVE Starts'
  <2>1. \A d \in Conns : pc'[d] # pc[d] => pc'[d] = "delete"
    BY <1>5, Shapes, ZenonT(30) DEF SignalAll, SetEdgePeerDone
  <2> QED
    BY <1>5, <2>1, ZenonT(30) DEF SignalAll, Starts
<1>6. ASSUME NEW s \in Sessions, EndpointFails(s) PROVE Starts'
  <2>1. PICK ok \in BOOLEAN : ToEdge(s, CloseConnect, ok)
    BY <1>6, ZenonT(30) DEF EndpointFails
  <2>2. \A t \in Sessions : \A x :
          /\ Has(down'[t], x) => Has(down[t], x) \/ (t = s /\ x = CloseConnect)
          /\ Once(down[t], x) /\ (x = CloseConnect => ~Has(down[t], x)) => Once(down'[t], x)
    BY <2>1, ToEdgeFacts, MessageFacts, ZenonT(30)
  <2> QED
    BY <1>6, <2>2, MessageFacts, ZenonT(30) DEF EndpointFails, Starts
<1>7. ASSUME NEW c \in Conns,
             CleanChannel(c) \/ receiveFromCloudStream(c) \/ ReceiverStops(c) \/
             write2CloudStream(c) \/ StreamClosed(c) \/ WriterStops(c) \/ ReadEdged(c) \/
             StreamEnds(c) \/ ClientLeaves(c)
      PROVE  Starts'
  BY <1>1, <1>7, ZenonT(30) DEF CleanChannel, receiveFromCloudStream, ReceiverStops, write2CloudStream,
     StreamClosed, WriterStops, ReadEdged, StreamEnds, ClientLeaves
<1>8. ASSUME NEW c \in Conns, getSession(c) PROVE Starts'
  BY <1>8, Shapes, ZenonT(30) DEF getSession, Starts
<1>9. ASSUME NEW c \in Conns, AddAPIServerConnection(c) PROVE Starts'
  BY <1>9, Shapes, ZenonT(30) DEF AddAPIServerConnection, Starts
<1>10. ASSUME NEW c \in Conns, SendConnection(c) PROVE Starts'
  <2>1. /\ sess[c] \in Sessions
        /\ \A t \in Sessions : \A x :
             /\ Has(down'[t], x) => Has(down[t], x) \/ (t = sess[c] /\ x = NewMessage("connect", c))
             /\ Once(down[t], x) /\ (x = NewMessage("connect", c) => ~Has(down[t], x)) => Once(down'[t], x)
    BY <1>10, SendFacts, ZenonT(30) DEF SendConnection, Types
  <2> QED
    BY <1>10, <2>1, Shapes, MessageFacts DEF SendConnection, Starts, Connect, Remove
<1>11. ASSUME NEW c \in Conns, CtxDone(c) PROVE Starts'
  BY <1>11, Shapes, ZenonT(30) DEF CtxDone, Starts
<1>12. ASSUME NEW c \in Conns, SendRemove(c) PROVE Starts'
  <2>1. /\ sess[c] \in Sessions
        /\ \A t \in Sessions : \A x :
             /\ Has(down'[t], x) => Has(down[t], x) \/ (t = sess[c] /\ x = NewMessage("remove", c))
             /\ Once(down[t], x) /\ (x = NewMessage("remove", c) => ~Has(down[t], x)) => Once(down'[t], x)
    BY <1>12, SendFacts, ZenonT(30) DEF SendRemove, Types
  <2> QED
    BY <1>12, <2>1, Shapes, MessageFacts DEF SendRemove, Starts, Connect, Remove
<1>13. ASSUME NEW c \in Conns, EdgePeerDone(c) PROVE Starts'
  BY <1>13, Shapes, ZenonT(30) DEF EdgePeerDone, Starts
<1>14. ASSUME NEW c \in Conns, ReadEnds(c) PROVE Starts'
  BY <1>14, Shapes, ZenonT(30) DEF ReadEnds, Starts
<1>15. ASSUME NEW c \in Conns, WriteToTunnel(c) PROVE Starts'
  <2>1. /\ sess[c] \in Sessions
        /\ \A t \in Sessions : \A x :
             /\ Has(down'[t], x) => Has(down[t], x) \/ (t = sess[c] /\ x = NewMessage("data", c))
             /\ Once(down[t], x) /\ (x = NewMessage("data", c) => ~Has(down[t], x)) => Once(down'[t], x)
    BY <1>15, SendFacts, ZenonT(30) DEF WriteToTunnel, Types
  <2> QED
    BY <1>15, <2>1, Shapes, MessageFacts DEF WriteToTunnel, Starts, Connect, Remove
<1>16. ASSUME NEW c \in Conns, sendCloseMessage(c) PROVE Starts'
  <2>1. /\ sess[c] \in Sessions
        /\ \A t \in Sessions : \A x :
             /\ Has(down'[t], x) => Has(down[t], x) \/ (t = sess[c] /\ x = NewMessage("remove", c))
             /\ Once(down[t], x) /\ (x = NewMessage("remove", c) => ~Has(down[t], x)) => Once(down'[t], x)
    BY <1>16, SendFacts, ZenonT(30) DEF sendCloseMessage, Types
  <2> QED
    BY <1>16, <2>1, Shapes, MessageFacts DEF sendCloseMessage, Starts, Connect, Remove
<1>17. ASSUME NEW c \in Conns, DeleteAPIServerConnection(c) PROVE Starts'
  BY <1>17, Shapes, ZenonT(30) DEF DeleteAPIServerConnection, Starts
<1>18. ASSUME NEW c \in Conns, ReadInput(c) PROVE Starts'
  BY <1>18, Shapes, ZenonT(30) DEF ReadInput, Starts
<1>19. ASSUME NEW c \in Conns, AddLocalConnection(c) PROVE Starts'
  BY <1>19, Shapes, ZenonT(30) DEF AddLocalConnection, Starts
<1>20. ASSUME NEW c \in Conns, DialEdged(c) PROVE Starts'
  BY <1>20, Shapes, ZenonT(30) DEF DialEdged, Starts
<1>21. ASSUME NEW c \in Conns, TakeStop(c) PROVE Starts'
  BY <1>21, Shapes, ZenonT(30) DEF TakeStop, Starts
<1>22. ASSUME NEW c \in Conns, TellCloud(c) PROVE Starts'
  BY <1>22, Shapes, ZenonT(30) DEF TellCloud, Starts
<1>23. ASSUME NEW c \in Conns, DeleteLocalConnection(c) PROVE Starts'
  BY <1>23, Shapes, ZenonT(30) DEF DeleteLocalConnection, Starts
<1>24. ASSUME
             WriteToLocalConnection \/ CacheTunnelMessage
      PROVE  Starts'
  BY <1>1, <1>24, ZenonT(30) DEF WriteToLocalConnection, CacheTunnelMessage
<1>25. CASE ReadTunnel
  <2> DEFINE m == Head(down[edgeS])
  <2>1. CASE m.type = "connect" /\ local' = [local EXCEPT ![m.id] = "start"]
    <3>1. m \in Message /\ m = Connect(m.id) /\ m.id \in Conns
      BY <2>1, ReadTakes, <1>25, MessageFacts DEF DownMessage, CloseConnect
    <3>2. ~Has(down'[edgeS], Connect(m.id)) /\ pc[m.id] \notin {"idle", "add", "send"}
      BY <3>1, ReadTakes, <1>25, ZenonT(30) DEF Starts
    <3>3. \A t \in Sessions : ~Has(down'[t], Connect(m.id))
      BY <3>1, <3>2, ReadTakes, DownShrinks, <1>25, MessageFacts DEF Routes
    <3> HIDE DEF m
    <3> QED
      BY <1>25, <2>1, <3>1, <3>2, <3>3, DownShrinks, Shapes, ZenonT(30) DEF ReadTunnel, Starts
  <2>2. CASE UNCHANGED local
    BY <1>25, <2>2, DownShrinks, ZenonT(30) DEF ReadTunnel, Starts
  <2> QED
    BY <1>25, <2>1, <2>2, ZenonT(30) DEF ReadTunnel
<1>26. CASE SendOnClosed
  <2>1. \A d \in Conns : local[d] = "none" => local'[d] = "none"
    BY <1>26, ZenonT(30) DEF SendOnClosed
  <2> QED
    BY <1>26, <2>1, DownShrinks, ZenonT(30) DEF SendOnClosed, Starts
<1>27. CASE TunnelSessionClose
  BY <1>27, DownShrinks, ZenonT(30) DEF TunnelSessionClose, Starts
<1> QED
  BY <1>1, <1>2, <1>3, <1>4, <1>5, <1>6, <1>7, <1>8, <1>9, <1>10, <1>11, <1>12, <1>13, <1>14,
     <1>15, <1>16, <1>17, <1>18, <1>19, <1>20, <1>21, <1>22, <1>23, <1>24, <1>25, <1>26,
     <1>27, ZenonT(30) DEF Next, SessionStep, RequestStep, ServeStep, LocalStep, ReceiverStep, WriterStep

(* Messages and entries stay with the session of their connection.            *)
LEMMA RoutesStep ==
  ASSUME TypeOK, Routes, [Next]_vars
  PROVE  Routes'
<1> USE DEF serverVars, tunnelVars, reqVars, serveVars, localVars, reqOthers, edgeOthers, localOthers
<1>1. ASSUME UNCHANGED <<down, up, reader, conns, todo, sess, pc, local, wr>> PROVE Routes'
  BY <1>1, ZenonT(30) DEF Routes
<1>2. CASE UNCHANGED vars
  BY <1>1, <1>2, ZenonT(30) DEF vars
<1>3. ASSUME NEW s \in Sessions,
             updateNodeKubeletEndpoint(s) \/ addSession(s) \/ Close(s) \/
             TLSClientConnect(s) \/ TunnelBreaks(s)
      PROVE  Routes'
  BY <1>1, <1>3, ZenonT(30) DEF updateNodeKubeletEndpoint, addSession, Close, TLSClientConnect,
     TunnelBreaks
<1>4. ASSUME NEW s \in Sessions, NextReader(s) PROVE Routes'
  <2>1. \A t \in Sessions : reader'[t] = reader[t] \/ (t = s /\ reader'[t] \in {NoMsg, Head(up[s])})
    BY <1>4, Shapes, ZenonT(30) DEF NextReader
  <2>2. NoMsg \notin Message /\ Has(up[s], Head(up[s]))
    BY <1>4, NextTakes, MessageFacts, ZenonT(30)
  <2>3. UNCHANGED <<down, conns, todo, sess, pc, local, wr>>
    BY <1>4, ZenonT(30) DEF NextReader
  <2>4. \A t \in Sessions : \A x \in Message :
          Has(up'[t], x) \/ reader'[t] = x => Has(up[t], x) \/ reader[t] = x
    BY <1>4, <2>1, <2>2, UpShrinks, ZenonT(30)
  <2> QED
    BY <2>3, <2>4, ZenonT(30) DEF Routes
<1>5. ASSUME NEW s \in Sessions, ProxyTunnelMessageToApiserver(s) PROVE Routes'
  <2>1. \A d \in Conns : pc'[d] # pc[d] => pc'[d] = "delete" /\ pc[d] = "select"
    BY <1>5, Shapes, ZenonT(30) DEF ProxyTunnelMessageToApiserver, SetEdgePeerDone
  <2>2. \A t \in Sessions : reader'[t] = reader[t] \/ reader'[t] \notin Message
    BY <1>5, Shapes, MessageFacts, ZenonT(30) DEF ProxyTunnelMessageToApiserver
  <2>3. UNCHANGED <<down, up, conns, todo, sess, local, wr>>
    BY <1>5, ZenonT(30) DEF ProxyTunnelMessageToApiserver
  <2>4. \A d \in Conns : /\ pc'[d] = "idle" => sess[d] = 0
                         /\ pc'[d] \notin {"idle", "done"} => sess[d] # 0
    BY <2>1, ZenonT(30) DEF Routes
  <2> QED
    BY <2>2, <2>3, <2>4, ZenonT(30) DEF Routes
<1>6. ASSUME NEW s \in Sessions, ReaderFails(s) PROVE Routes'
  <2>1. \A t \in Sessions : todo'[t] \subseteq conns[t] \cup todo[t]
    BY <1>6, Shapes, ZenonT(30) DEF ReaderFails
  <2>2. UNCHANGED <<down, reader, conns, sess, pc, local, wr>>
    BY <1>6, ZenonT(30) DEF ReaderFails
  <2>3. \A t \in Sessions : \A d \in conns'[t] \cup todo'[t] : sess'[d] = t
    BY <2>1, <2>2, ZenonT(30) DEF Routes
  <2> QED
    BY <1>6, <2>2, <2>3, UpShrinks, ZenonT(30) DEF Routes
<1>7. ASSUME NEW s \in Sessions, SignalAll(s) PROVE Routes'
  <2>1. \A d \in Conns : pc'[d] # pc[d] => pc'[d] = "delete" /\ pc[d] = "select"
    BY <1>7, Shapes, ZenonT(30) DEF SignalAll, SetEdgePeerDone
  <2>2. \A t \in Sessions : todo'[t] \subseteq todo[t]
    BY <1>7, Shapes, ZenonT(30) DEF SignalAll
  <2>3. UNCHANGED <<down, up, reader, conns, sess, local, wr>>
    BY <1>7, ZenonT(30) DEF SignalAll
  <2>4. \A d \in Conns : /\ pc'[d] = "idle" => sess[d] = 0
                         /\ pc'[d] \notin {"idle", "done"} => sess[d] # 0
    BY <2>1, ZenonT(30) DEF Routes
  <2> QED
    BY <2>2, <2>3, <2>4 DEF Routes
<1>8. ASSUME NEW s \in Sessions, EndpointFails(s) PROVE Routes'
  <2>1. \A t \in Sessions : \A x : Has(down'[t], x) => Has(down[t], x) \/ x = CloseConnect
    BY <1>8, ToEdgeFacts, MessageFacts, ZenonT(30) DEF EndpointFails
  <2>2. UNCHANGED <<up, reader, conns, todo, sess, pc, local, wr>>
    BY <1>8, ZenonT(30) DEF EndpointFails
  <2>3. CloseConnect \notin Message
    BY DEF CloseConnect, Message
  <2> QED
    BY <2>1, <2>2, <2>3, ZenonT(30) DEF Routes
<1>9. ASSUME NEW c \in Conns,
             CleanChannel(c) \/ receiveFromCloudStream(c) \/ ReceiverStops(c) \/
             ClientLeaves(c)
      PROVE  Routes'
  BY <1>1, <1>9, ZenonT(30) DEF CleanChannel, receiveFromCloudStream, ReceiverStops, ClientLeaves
<1>10. ASSUME NEW c \in Conns, getSession(c) PROVE Routes'
  <2>0. pc[c] = "idle"
    BY <1>10, ZenonT(30) DEF getSession
  <2>1. sess[c] = 0 /\ 0 \notin Sessions
    BY <2>0, BoundsAssumption DEF Routes, Sessions
  <2>2. /\ \A s \in Sessions : \A x \in Message :
             Has(down[s], x) \/ Has(up[s], x) \/ reader[s] = x => x.id # c
        /\ \A s \in Sessions : c \notin conns[s] \cup todo[s]
        /\ local[c] = "none" /\ wr[c] = "off"
    BY <2>1, MessageFacts DEF Routes
  <2>3. \A d \in Conns : d # c => sess'[d] = sess[d] /\ pc'[d] = pc[d]
    BY <1>10, Shapes, ZenonT(30) DEF getSession
  <2>4. pc'[c] # "idle" /\ (pc'[c] # "done" => sess'[c] # 0)
    BY <1>10, Shapes, ZenonT(30) DEF getSession
  <2>5. UNCHANGED <<down, up, reader, conns, todo, local, wr>>
    BY <1>10, ZenonT(30) DEF getSession
  <2>6. \A s \in Sessions : conns[s] \subseteq Conns /\ todo[s] \subseteq Conns
    BY ZenonT(30) DEF TypeOK
  <2>7. \A s \in Sessions : \A x \in Message :
          Has(down'[s], x) \/ Has(up'[s], x) \/ reader'[s] = x => sess'[x.id] = s
    <3>1. \A s \in Sessions : \A x \in Message :
            Has(down[s], x) \/ Has(up[s], x) \/ reader[s] = x => sess[x.id] = s
      BY ZenonT(30) DEF Routes
    <3>2. \A x \in Message : x.id \in Conns
      BY MessageFacts, ZenonT(30)
    <3>3. down' = down /\ up' = up /\ reader' = reader
      BY <2>5, ZenonT(30)
    <3>4. SUFFICES ASSUME NEW s \in Sessions, NEW x \in Message,
                          Has(down[s], x) \/ Has(up[s], x) \/ reader[s] = x
                   PROVE  sess'[x.id] = s
      BY <3>3, ZenonT(30)
    <3>5. x.id # c /\ x.id \in Conns /\ sess[x.id] = s
      BY <2>2, <3>1, <3>2, <3>4, ZenonT(30)
    <3> QED
      BY <2>3, <3>5, ZenonT(30)
  <2>8. \A s \in Sessions : \A d \in conns'[s] \cup todo'[s] : sess'[d] = s
    BY <2>2, <2>3, <2>5, <2>6 DEF Routes
  <2>9. \A d \in Conns : /\ pc'[d] = "idle" => sess'[d] = 0
                         /\ pc'[d] \notin {"idle", "done"} => sess'[d] # 0
                         /\ local'[d] # "none" \/ wr'[d] # "off" => sess'[d] # 0
    BY <2>2, <2>3, <2>4, <2>5, ZenonT(30) DEF Routes
  <2> QED
    BY <2>7, <2>8, <2>9, ZenonT(30) DEF Routes
<1>11. ASSUME NEW c \in Conns, AddAPIServerConnection(c) PROVE Routes'
  <2>1. sess[c] \in Sessions
    BY <1>11, HasSession, ZenonT(30) DEF AddAPIServerConnection
  <2> QED
    BY <1>11, <2>1, Shapes DEF AddAPIServerConnection, Routes
<1>12. ASSUME NEW c \in Conns, SendConnection(c) PROVE Routes'
  <2>1. /\ sess[c] \in Sessions
        /\ \A t \in Sessions : \A x :
             /\ Has(down'[t], x) => Has(down[t], x) \/ (t = sess[c] /\ x = NewMessage("connect", c))
             /\ Once(down[t], x) /\ (x = NewMessage("connect", c) => ~Has(down[t], x)) => Once(down'[t], x)
    BY <1>12, SendFacts, ZenonT(30) DEF SendConnection, Types
  <2>2. NewMessage("connect", c).id = c
    BY ZenonT(30) DEF NewMessage
  <2> QED
    BY <1>12, <2>1, <2>2, Shapes DEF SendConnection, Routes
<1>13. ASSUME NEW c \in Conns, CtxDone(c) PROVE Routes'
  BY <1>13, Shapes DEF CtxDone, Routes
<1>14. ASSUME NEW c \in Conns, SendRemove(c) PROVE Routes'
  <2>1. /\ sess[c] \in Sessions
        /\ \A t \in Sessions : \A x :
             /\ Has(down'[t], x) => Has(down[t], x) \/ (t = sess[c] /\ x = NewMessage("remove", c))
             /\ Once(down[t], x) /\ (x = NewMessage("remove", c) => ~Has(down[t], x)) => Once(down'[t], x)
    BY <1>14, SendFacts, ZenonT(30) DEF SendRemove, Types
  <2>2. NewMessage("remove", c).id = c
    BY ZenonT(30) DEF NewMessage
  <2> QED
    BY <1>14, <2>1, <2>2, Shapes DEF SendRemove, Routes
<1>15. ASSUME NEW c \in Conns, EdgePeerDone(c) PROVE Routes'
  BY <1>15, Shapes DEF EdgePeerDone, Routes
<1>16. ASSUME NEW c \in Conns, ReadEnds(c) PROVE Routes'
  BY <1>16, Shapes DEF ReadEnds, Routes
<1>17. ASSUME NEW c \in Conns, WriteToTunnel(c) PROVE Routes'
  <2>1. /\ sess[c] \in Sessions
        /\ \A t \in Sessions : \A x :
             /\ Has(down'[t], x) => Has(down[t], x) \/ (t = sess[c] /\ x = NewMessage("data", c))
             /\ Once(down[t], x) /\ (x = NewMessage("data", c) => ~Has(down[t], x)) => Once(down'[t], x)
    BY <1>17, SendFacts, ZenonT(30) DEF WriteToTunnel, Types
  <2>2. NewMessage("data", c).id = c
    BY ZenonT(30) DEF NewMessage
  <2> QED
    BY <1>17, <2>1, <2>2, Shapes DEF WriteToTunnel, Routes
<1>18. ASSUME NEW c \in Conns, sendCloseMessage(c) PROVE Routes'
  <2>1. /\ sess[c] \in Sessions
        /\ \A t \in Sessions : \A x :
             /\ Has(down'[t], x) => Has(down[t], x) \/ (t = sess[c] /\ x = NewMessage("remove", c))
             /\ Once(down[t], x) /\ (x = NewMessage("remove", c) => ~Has(down[t], x)) => Once(down'[t], x)
    BY <1>18, SendFacts, ZenonT(30) DEF sendCloseMessage, Types
  <2>2. NewMessage("remove", c).id = c
    BY ZenonT(30) DEF NewMessage
  <2> QED
    BY <1>18, <2>1, <2>2, Shapes DEF sendCloseMessage, Routes
<1>19. ASSUME NEW c \in Conns, DeleteAPIServerConnection(c) PROVE Routes'
  <2>1. sess[c] \in Sessions
    BY <1>19, HasSession, ZenonT(30) DEF DeleteAPIServerConnection
  <2> QED
    BY <1>19, <2>1, Shapes DEF DeleteAPIServerConnection, Routes
<1>20. ASSUME NEW c \in Conns, ReadInput(c) PROVE Routes'
  BY <1>20, Shapes DEF ReadInput, Routes
<1>21. ASSUME NEW c \in Conns, AddLocalConnection(c) PROVE Routes'
  BY <1>21, Shapes DEF AddLocalConnection, Routes
<1>22. ASSUME NEW c \in Conns, DialEdged(c) PROVE Routes'
  BY <1>22, Shapes DEF DialEdged, Routes
<1>23. ASSUME NEW c \in Conns, TakeStop(c) PROVE Routes'
  BY <1>23, Shapes DEF TakeStop, Routes
<1>24. ASSUME NEW c \in Conns, TellCloud(c) PROVE Routes'
  <2>1. /\ sess[c] \in Sessions
        /\ \A t \in Sessions : \A x :
             /\ Has(up'[t], x) => Has(up[t], x) \/ (t = sess[c] /\ x = NewMessage("remove", c))
             /\ Once(up[t], x) /\ (x = NewMessage("remove", c) => ~Has(up[t], x)) => Once(up'[t], x)
    BY <1>24, EdgeSendFacts, ZenonT(30) DEF TellCloud, Types
  <2>2. NewMessage("remove", c).id = c
    BY ZenonT(30) DEF NewMessage
  <2> QED
    BY <1>24, <2>1, <2>2, Shapes DEF TellCloud, Routes
<1>25. ASSUME NEW c \in Conns, DeleteLocalConnection(c) PROVE Routes'
  BY <1>25, Shapes DEF DeleteLocalConnection, Routes
<1>26. ASSUME NEW c \in Conns, write2CloudStream(c) PROVE Routes'
  <2>1. /\ sess[c] \in Sessions
        /\ \A t \in Sessions : \A x :
             /\ Has(up'[t], x) => Has(up[t], x) \/ (t = sess[c] /\ x = NewMessage("data", c))
             /\ Once(up[t], x) /\ (x = NewMessage("data", c) => ~Has(up[t], x)) => Once(up'[t], x)
    BY <1>26, EdgeSendFacts, ZenonT(30) DEF write2CloudStream, Types
  <2>2. NewMessage("data", c).id = c
    BY ZenonT(30) DEF NewMessage
  <2> QED
    BY <1>26, <2>1, <2>2, Shapes DEF write2CloudStream, Routes
<1>27. ASSUME NEW c \in Conns, StreamClosed(c) PROVE Routes'
  BY <1>27, Shapes DEF StreamClosed, Routes
<1>28. ASSUME NEW c \in Conns, WriterStops(c) PROVE Routes'
  BY <1>28, Shapes DEF WriterStops, Routes
<1>29. ASSUME NEW c \in Conns, ReadEdged(c) PROVE Routes'
  BY <1>29, Shapes DEF ReadEdged, Routes
<1>30. ASSUME NEW c \in Conns, StreamEnds(c) PROVE Routes'
  BY <1>30, Shapes DEF StreamEnds, Routes
<1>31. ASSUME
             WriteToLocalConnection \/ CacheTunnelMessage
      PROVE  Routes'
  BY <1>1, <1>31, ZenonT(30) DEF WriteToLocalConnection, CacheTunnelMessage
<1>32. CASE ReadTunnel
  <2> DEFINE m == Head(down[edgeS])
  <2>1. \A d \in Conns : local[d] = "none" => local'[d] = "none" \/ sess[d] # 0
    <3>1. CASE m.type = "connect" /\ local' = [local EXCEPT ![m.id] = "start"]
      <4>1. m \in Message /\ m.id \in Conns
        BY <3>1, ReadTakes, <1>32, MessageFacts DEF DownMessage, CloseConnect
      <4>2. sess[m.id] = edgeS /\ edgeS # 0
        BY <4>1, ReadTakes, <1>32, BoundsAssumption DEF Routes, Sessions
      <4> HIDE DEF m
      <4> QED
        BY <3>1, <4>2, Shapes, ZenonT(30)
    <3>2. CASE UNCHANGED local
      BY <3>2, ZenonT(30)
    <3> QED
      BY <1>32, <3>1, <3>2, ZenonT(30) DEF ReadTunnel
  <2>2. UNCHANGED <<up, reader, conns, todo, sess, pc, wr>>
    BY <1>32, ZenonT(30) DEF ReadTunnel
  <2> QED
    BY <1>32, <2>1, <2>2, DownShrinks, ZenonT(30) DEF Routes
<1>33. CASE SendOnClosed
  <2>1. \A d \in Conns : (local[d] = "none" => local'[d] = "none") /\ wr'[d] = "off"
    BY <1>33, ZenonT(30) DEF SendOnClosed
  <2> QED
    BY <1>33, <2>1, DownShrinks, ZenonT(30) DEF SendOnClosed, Routes
<1>34. CASE TunnelSessionClose
  BY <1>34, DownShrinks, ZenonT(30) DEF TunnelSessionClose, Routes
<1> QED
  BY <1>1, <1>2, <1>3, <1>4, <1>5, <1>6, <1>7, <1>8, <1>9, <1>10, <1>11, <1>12, <1>13, <1>14,
     <1>15, <1>16, <1>17, <1>18, <1>19, <1>20, <1>21, <1>22, <1>23, <1>24, <1>25, <1>26,
     <1>27, <1>28, <1>29, <1>30, <1>31, <1>32, <1>33, <1>34, ZenonT(30) DEF Next, SessionStep,
     RequestStep, ServeStep, LocalStep, ReceiverStep, WriterStep

(* A connection that has told the cloud of its end is not started again.     *)
LEMMA ToldStays ==
  ASSUME TypeOK, Starts, ReadTunnel \/ SendOnClosed
  PROVE  \A d \in Conns : Told(d) => Told(d)'
<1>1. CASE SendOnClosed
  BY <1>1, ZenonT(30) DEF SendOnClosed, Told
<1>2. CASE ReadTunnel
  <2> DEFINE m == Head(down[edgeS])
  <2>1. CASE m.type = "connect" /\ local' = [local EXCEPT ![m.id] = "start"]
    <3>0. m \in DownMessage /\ CloseConnect.type # "connect"
      BY <1>2, ReadTakes, ZenonT(30) DEF CloseConnect
    <3>1. m \in Message /\ m = Connect(m.id) /\ m.id \in Conns
      BY <2>1, <3>0, MessageFacts, ZenonT(30) DEF DownMessage
    <3>2. local[m.id] = "none"
      BY <1>2, <3>1, ReadTakes, ZenonT(30) DEF Starts
    <3> HIDE DEF m
    <3> QED
      BY <2>1, <3>2, Shapes, ZenonT(30) DEF Told
  <2>2. CASE UNCHANGED local
    BY <2>2, ZenonT(30) DEF Told
  <2> QED
    BY <1>2, <2>1, <2>2, ZenonT(30) DEF ReadTunnel
<1> QED
  BY <1>1, <1>2, ZenonT(30)

(* The edge tells the cloud once.                                             *)
LEMMA UpOnceStep ==
  ASSUME TypeOK, Routes, Starts, UpOnce, [Next]_vars
  PROVE  UpOnce'
<1> USE DEF serverVars, tunnelVars, reqVars, serveVars, localVars, reqOthers, edgeOthers, localOthers
<1>1. ASSUME UNCHANGED <<up, reader, local>> PROVE UpOnce'
  BY <1>1, ZenonT(30) DEF UpOnce, Told
<1>2. CASE UNCHANGED vars
  BY <1>1, <1>2, ZenonT(30) DEF vars
<1>3. ASSUME NEW s \in Sessions,
             updateNodeKubeletEndpoint(s) \/ addSession(s) \/ SignalAll(s) \/ Close(s) \/
             EndpointFails(s) \/ TLSClientConnect(s) \/ TunnelBreaks(s)
      PROVE  UpOnce'
  BY <1>1, <1>3, ZenonT(30) DEF updateNodeKubeletEndpoint, addSession, SignalAll, Close, EndpointFails,
     TLSClientConnect, TunnelBreaks
<1>4. ASSUME NEW s \in Sessions, NextReader(s) PROVE UpOnce'
  <2>1. \A t \in Sessions : reader'[t] = reader[t] \/ (t = s /\ reader'[t] \in {NoMsg, Head(up[s])})
    BY <1>4, Shapes, ZenonT(30) DEF NextReader
  <2>2. \A d \in Conns : Remove(d) # NoMsg
    BY MessageFacts, ZenonT(30)
  <2>3. \A d \in Conns : Told(d)' = Told(d)
    BY <1>4, ZenonT(30) DEF NextReader, Told
  <2> QED
    BY <1>4, <2>1, <2>2, <2>3, UpShrinks, NextTakes, ZenonT(30) DEF UpOnce
<1>5. ASSUME NEW s \in Sessions, ProxyTunnelMessageToApiserver(s) PROVE UpOnce'
  <2>1. \A t \in Sessions : reader'[t] = reader[t] \/ reader'[t] = NoMsg
    BY <1>5, Shapes, ZenonT(30) DEF ProxyTunnelMessageToApiserver
  <2>2. UNCHANGED <<up, local>> /\ \A d \in Conns : Remove(d) # NoMsg
    BY <1>5, MessageFacts, ZenonT(30) DEF ProxyTunnelMessageToApiserver
  <2> QED
    BY <2>1, <2>2, ZenonT(30) DEF UpOnce, Told
<1>6. ASSUME NEW s \in Sessions, ReaderFails(s) PROVE UpOnce'
  BY <1>6, UpShrinks, ZenonT(30) DEF ReaderFails, UpOnce, Told
<1>7. ASSUME NEW c \in Conns,
             getSession(c) \/ AddAPIServerConnection(c) \/ SendConnection(c) \/ CtxDone(c)
             \/ SendRemove(c) \/ EdgePeerDone(c) \/ ReadEnds(c) \/ WriteToTunnel(c) \/
             sendCloseMessage(c) \/ DeleteAPIServerConnection(c) \/ ReadInput(c) \/
             CleanChannel(c) \/ receiveFromCloudStream(c) \/ ReceiverStops(c) \/
             StreamClosed(c) \/ WriterStops(c) \/ ReadEdged(c) \/ StreamEnds(c) \/
             ClientLeaves(c)
      PROVE  UpOnce'
  BY <1>1, <1>7, ZenonT(30) DEF getSession, AddAPIServerConnection, SendConnection, CtxDone, SendRemove,
     EdgePeerDone, ReadEnds, WriteToTunnel, sendCloseMessage, DeleteAPIServerConnection,
     ReadInput, CleanChannel, receiveFromCloudStream, ReceiverStops, StreamClosed,
     WriterStops, ReadEdged, StreamEnds, ClientLeaves
<1>8. ASSUME NEW c \in Conns, AddLocalConnection(c) PROVE UpOnce'
  BY <1>8, Shapes, ZenonT(30) DEF AddLocalConnection, UpOnce, Told
<1>9. ASSUME NEW c \in Conns, DialEdged(c) PROVE UpOnce'
  BY <1>9, Shapes, ZenonT(30) DEF DialEdged, UpOnce, Told
<1>10. ASSUME NEW c \in Conns, TakeStop(c) PROVE UpOnce'
  BY <1>10, Shapes, ZenonT(30) DEF TakeStop, UpOnce, Told
<1>11. ASSUME NEW c \in Conns, TellCloud(c) PROVE UpOnce'
  <2>1. /\ sess[c] \in Sessions
        /\ \A t \in Sessions : \A x :
             /\ Has(up'[t], x) => Has(up[t], x) \/ (t = sess[c] /\ x = NewMessage("remove", c))
             /\ Once(up[t], x) /\ (x = NewMessage("remove", c) => ~Has(up[t], x)) => Once(up'[t], x)
    BY <1>11, EdgeSendFacts, ZenonT(30) DEF TellCloud, Types
  <2>2. \A t \in Sessions : ~Has(up[t], Remove(c)) /\ reader[t] # Remove(c)
    BY <1>11, ZenonT(30) DEF TellCloud, UpOnce, Told
  <2>3. Told(c)' /\ \A d \in Conns : Told(d) => Told(d)'
    BY <1>11, Shapes, ZenonT(30) DEF TellCloud, Told
  <2>4. \A d \in Conns : Remove(d) = Remove(c) => d = c
    BY MessageFacts
  <2> QED
    BY <1>11, <2>1, <2>2, <2>3, <2>4, ZenonT(30) DEF TellCloud, UpOnce, Remove
<1>12. ASSUME NEW c \in Conns, DeleteLocalConnection(c) PROVE UpOnce'
  BY <1>12, Shapes, ZenonT(30) DEF DeleteLocalConnection, UpOnce, Told
<1>13. ASSUME NEW c \in Conns, write2CloudStream(c) PROVE UpOnce'
  <2>1. /\ sess[c] \in Sessions
        /\ \A t \in Sessions : \A x :
             /\ Has(up'[t], x) => Has(up[t], x) \/ (t = sess[c] /\ x = NewMessage("data", c))
             /\ Once(up[t], x) /\ (x = NewMessage("data", c) => ~Has(up[t], x)) => Once(up'[t], x)
    BY <1>13, EdgeSendFacts, ZenonT(30) DEF write2CloudStream, Types
  <2> QED
    BY <1>13, <2>1, MessageFacts, ZenonT(30) DEF write2CloudStream, UpOnce, Told
<1>14. ASSUME
             WriteToLocalConnection \/ CacheTunnelMessage \/ TunnelSessionClose
      PROVE  UpOnce'
  BY <1>1, <1>14, ZenonT(30) DEF WriteToLocalConnection, CacheTunnelMessage, TunnelSessionClose
<1>15. CASE ReadTunnel
  <2>1. \A d \in Conns : Told(d) => Told(d)'
    BY <1>15, ToldStays, ZenonT(30)
  <2> QED
    BY <1>15, <2>1, ZenonT(30) DEF ReadTunnel, UpOnce
<1>16. CASE SendOnClosed
  <2>1. \A d \in Conns : Told(d) => Told(d)'
    BY <1>16, ToldStays, ZenonT(30)
  <2> QED
    BY <1>16, <2>1, ZenonT(30) DEF SendOnClosed, UpOnce
<1> QED
  BY <1>1, <1>2, <1>3, <1>4, <1>5, <1>6, <1>7, <1>8, <1>9, <1>10, <1>11, <1>12, <1>13, <1>14,
     <1>15, <1>16, ZenonT(30) DEF Next, SessionStep, RequestStep, ServeStep, LocalStep, ReceiverStep,
     WriterStep

(* A RemoveConnect of the edge that cannot come any more does not come.       *)
LEMMA MayComeStep ==
  ASSUME TypeOK, Routes, Starts, UpOnce, [Next]_vars
  PROVE  \A c \in Conns : MayCome(c)' => MayCome(c)
<1> USE DEF serverVars, tunnelVars, reqVars, serveVars, localVars, reqOthers, edgeOthers, localOthers
<1>1. ASSUME UNCHANGED <<up, reader, local>> PROVE \A c \in Conns : MayCome(c)' => MayCome(c)
  BY <1>1, ZenonT(30) DEF MayCome, Told
<1>2. CASE UNCHANGED vars
  BY <1>1, <1>2, ZenonT(30) DEF vars
<1>3. ASSUME NEW s \in Sessions,
             updateNodeKubeletEndpoint(s) \/ addSession(s) \/ SignalAll(s) \/ Close(s) \/
             EndpointFails(s) \/ TLSClientConnect(s) \/ TunnelBreaks(s)
      PROVE  \A c \in Conns : MayCome(c)' => MayCome(c)
  BY <1>1, <1>3, ZenonT(30) DEF updateNodeKubeletEndpoint, addSession, SignalAll, Close, EndpointFails,
     TLSClientConnect, TunnelBreaks
<1>4. ASSUME NEW s \in Sessions, NextReader(s) PROVE \A c \in Conns : MayCome(c)' => MayCome(c)
  <2>1. \A t \in Sessions : reader'[t] = reader[t] \/ (t = s /\ reader'[t] \in {NoMsg, Head(up[s])})
    BY <1>4, Shapes, ZenonT(30) DEF NextReader
  <2>2. \A d \in Conns : Remove(d) # NoMsg
    BY MessageFacts, ZenonT(30)
  <2>3. \A d \in Conns : Told(d)' = Told(d)
    BY <1>4, ZenonT(30) DEF NextReader, Told
  <2> QED
    BY <1>4, <2>1, <2>2, <2>3, UpShrinks, NextTakes, ZenonT(30) DEF MayCome
<1>5. ASSUME NEW s \in Sessions, ProxyTunnelMessageToApiserver(s)
      PROVE  \A c \in Conns : MayCome(c)' => MayCome(c)
  <2>1. \A t \in Sessions : reader'[t] = reader[t] \/ reader'[t] = NoMsg
    BY <1>5, Shapes, ZenonT(30) DEF ProxyTunnelMessageToApiserver
  <2>2. \A d \in Conns : Remove(d) # NoMsg
    BY MessageFacts, ZenonT(30)
  <2> QED
    BY <1>5, <2>1, <2>2, ZenonT(30) DEF ProxyTunnelMessageToApiserver, MayCome, Told
<1>6. ASSUME NEW s \in Sessions, ReaderFails(s) PROVE \A c \in Conns : MayCome(c)' => MayCome(c)
  BY <1>6, UpShrinks, ZenonT(30) DEF ReaderFails, MayCome, Told
<1>7. ASSUME NEW c \in Conns,
             getSession(c) \/ AddAPIServerConnection(c) \/ SendConnection(c) \/ CtxDone(c)
             \/ SendRemove(c) \/ EdgePeerDone(c) \/ ReadEnds(c) \/ WriteToTunnel(c) \/
             sendCloseMessage(c) \/ DeleteAPIServerConnection(c) \/ ReadInput(c) \/
             CleanChannel(c) \/ receiveFromCloudStream(c) \/ ReceiverStops(c) \/
             StreamClosed(c) \/ WriterStops(c) \/ ReadEdged(c) \/ StreamEnds(c) \/
             ClientLeaves(c)
      PROVE  \A d \in Conns : MayCome(d)' => MayCome(d)
  BY <1>1, <1>7, ZenonT(30) DEF getSession, AddAPIServerConnection, SendConnection, CtxDone, SendRemove,
     EdgePeerDone, ReadEnds, WriteToTunnel, sendCloseMessage, DeleteAPIServerConnection,
     ReadInput, CleanChannel, receiveFromCloudStream, ReceiverStops, StreamClosed,
     WriterStops, ReadEdged, StreamEnds, ClientLeaves
<1>8. ASSUME NEW c \in Conns, AddLocalConnection(c) PROVE \A d \in Conns : MayCome(d)' => MayCome(d)
  <2>1. \A d \in Conns : Told(d) => Told(d)'
    BY <1>8, Shapes, ZenonT(30) DEF AddLocalConnection, Told
  <2> QED
    BY <1>8, <2>1, ZenonT(30) DEF AddLocalConnection, MayCome
<1>9. ASSUME NEW c \in Conns, DialEdged(c) PROVE \A d \in Conns : MayCome(d)' => MayCome(d)
  <2>1. \A d \in Conns : Told(d) => Told(d)'
    BY <1>9, Shapes, ZenonT(30) DEF DialEdged, Told
  <2> QED
    BY <1>9, <2>1, ZenonT(30) DEF DialEdged, MayCome
<1>10. ASSUME NEW c \in Conns, TakeStop(c) PROVE \A d \in Conns : MayCome(d)' => MayCome(d)
  <2>1. \A d \in Conns : Told(d) => Told(d)'
    BY <1>10, Shapes, ZenonT(30) DEF TakeStop, Told
  <2> QED
    BY <1>10, <2>1, ZenonT(30) DEF TakeStop, MayCome
<1>11. ASSUME NEW c \in Conns, TellCloud(c) PROVE \A d \in Conns : MayCome(d)' => MayCome(d)
  <2>1. /\ sess[c] \in Sessions
        /\ \A t \in Sessions : \A x :
             /\ Has(up'[t], x) => Has(up[t], x) \/ (t = sess[c] /\ x = NewMessage("remove", c))
             /\ Once(up[t], x) /\ (x = NewMessage("remove", c) => ~Has(up[t], x)) => Once(up'[t], x)
    BY <1>11, EdgeSendFacts, ZenonT(30) DEF TellCloud, Types
  <2>2. ~Told(c) /\ \A d \in Conns : Told(d) => Told(d)'
    BY <1>11, Shapes, ZenonT(30) DEF TellCloud, Told
  <2>3. \A d \in Conns : Remove(d) = Remove(c) => d = c
    BY MessageFacts
  <2> QED
    <3>1. UNCHANGED reader
      BY <1>11, ZenonT(30) DEF TellCloud
    <3>2. \A d \in Conns : \A t \in Sessions :
            Has(up'[t], Remove(d)) => Has(up[t], Remove(d)) \/ d = c
      BY <2>1, <2>3, ZenonT(30) DEF Remove
    <3> QED
      BY <2>2, <3>1, <3>2, ZenonT(30) DEF MayCome
<1>12. ASSUME NEW c \in Conns, DeleteLocalConnection(c) PROVE \A d \in Conns : MayCome(d)' => MayCome(d)
  <2>1. \A d \in Conns : Told(d) => Told(d)'
    BY <1>12, Shapes, ZenonT(30) DEF DeleteLocalConnection, Told
  <2> QED
    BY <1>12, <2>1, ZenonT(30) DEF DeleteLocalConnection, MayCome
<1>13. ASSUME NEW c \in Conns, write2CloudStream(c) PROVE \A d \in Conns : MayCome(d)' => MayCome(d)
  <2>1. /\ sess[c] \in Sessions
        /\ \A t \in Sessions : \A x :
             /\ Has(up'[t], x) => Has(up[t], x) \/ (t = sess[c] /\ x = NewMessage("data", c))
             /\ Once(up[t], x) /\ (x = NewMessage("data", c) => ~Has(up[t], x)) => Once(up'[t], x)
    BY <1>13, EdgeSendFacts, ZenonT(30) DEF write2CloudStream, Types
  <2> QED
    BY <1>13, <2>1, MessageFacts, ZenonT(30) DEF write2CloudStream, MayCome, Told
<1>14. ASSUME
             WriteToLocalConnection \/ CacheTunnelMessage \/ TunnelSessionClose
      PROVE  \A c \in Conns : MayCome(c)' => MayCome(c)
  BY <1>1, <1>14, ZenonT(30) DEF WriteToLocalConnection, CacheTunnelMessage, TunnelSessionClose
<1>15. CASE ReadTunnel
  <2>1. \A d \in Conns : Told(d) => Told(d)'
    BY <1>15, ToldStays, ZenonT(30)
  <2> QED
    BY <1>15, <2>1, ZenonT(30) DEF ReadTunnel, MayCome
<1>16. CASE SendOnClosed
  <2>1. \A d \in Conns : Told(d) => Told(d)'
    BY <1>16, ToldStays, ZenonT(30)
  <2> QED
    BY <1>16, <2>1, ZenonT(30) DEF SendOnClosed, MayCome
<1> QED
  BY <1>1, <1>2, <1>3, <1>4, <1>5, <1>6, <1>7, <1>8, <1>9, <1>10, <1>11, <1>12, <1>13, <1>14,
     <1>15, <1>16, ZenonT(30) DEF Next, SessionStep, RequestStep, ServeStep, LocalStep, ReceiverStep,
     WriterStep

(* Close passes a connection for good.                                        *)
LEMMA PassedStep ==
  ASSUME TypeOK, Routes, [Next]_vars
  PROVE  \A c \in Conns : Passed(c) => Passed(c)'
<1> USE DEF serverVars, tunnelVars, reqVars, serveVars, localVars, reqOthers, edgeOthers, localOthers
<1>1. ASSUME UNCHANGED <<sess, cloud, todo>> PROVE \A c \in Conns : Passed(c) => Passed(c)'
  BY <1>1, ZenonT(30) DEF Passed
<1>2. CASE UNCHANGED vars
  BY <1>1, <1>2, ZenonT(30) DEF vars
<1>3. ASSUME NEW s \in Sessions,
             NextReader(s) \/ ProxyTunnelMessageToApiserver(s) \/ TunnelBreaks(s)
      PROVE  \A c \in Conns : Passed(c) => Passed(c)'
  BY <1>1, <1>3, ZenonT(30) DEF NextReader, ProxyTunnelMessageToApiserver, TunnelBreaks
<1>4. ASSUME NEW s \in Sessions, updateNodeKubeletEndpoint(s)
      PROVE  \A c \in Conns : Passed(c) => Passed(c)'
  BY <1>4, Shapes, ZenonT(30) DEF updateNodeKubeletEndpoint, Passed
<1>5. ASSUME NEW s \in Sessions, addSession(s) PROVE \A c \in Conns : Passed(c) => Passed(c)'
  BY <1>5, Shapes, ZenonT(30) DEF addSession, Passed
<1>6. ASSUME NEW s \in Sessions, ReaderFails(s) PROVE \A c \in Conns : Passed(c) => Passed(c)'
  BY <1>6, Shapes, ZenonT(30) DEF ReaderFails, Passed
<1>7. ASSUME NEW s \in Sessions, SignalAll(s) PROVE \A c \in Conns : Passed(c) => Passed(c)'
  <2>1. \A t \in Sessions : todo'[t] \subseteq todo[t]
    BY <1>7, Shapes, ZenonT(30) DEF SignalAll
  <2> QED
    BY <1>7, <2>1, ZenonT(30) DEF SignalAll, Passed
<1>8. ASSUME NEW s \in Sessions, Close(s) PROVE \A c \in Conns : Passed(c) => Passed(c)'
  BY <1>8, Shapes, ZenonT(30) DEF Close, Passed
<1>9. ASSUME NEW s \in Sessions, EndpointFails(s) PROVE \A c \in Conns : Passed(c) => Passed(c)'
  BY <1>9, Shapes, ZenonT(30) DEF EndpointFails, Passed
<1>10. ASSUME NEW s \in Sessions, TLSClientConnect(s) PROVE \A c \in Conns : Passed(c) => Passed(c)'
  BY <1>10, Shapes, ZenonT(30) DEF TLSClientConnect, Passed
<1>11. ASSUME NEW c \in Conns,
             AddAPIServerConnection(c) \/ SendConnection(c) \/ CtxDone(c) \/ SendRemove(c)
             \/ EdgePeerDone(c) \/ ReadEnds(c) \/ WriteToTunnel(c) \/ sendCloseMessage(c)
             \/ DeleteAPIServerConnection(c) \/ ReadInput(c) \/ AddLocalConnection(c) \/
             DialEdged(c) \/ TakeStop(c) \/ TellCloud(c) \/ CleanChannel(c) \/
             DeleteLocalConnection(c) \/ receiveFromCloudStream(c) \/ ReceiverStops(c) \/
             write2CloudStream(c) \/ StreamClosed(c) \/ WriterStops(c) \/ ReadEdged(c) \/
             StreamEnds(c) \/ ClientLeaves(c)
      PROVE  \A d \in Conns : Passed(d) => Passed(d)'
  BY <1>1, <1>11, ZenonT(30) DEF AddAPIServerConnection, SendConnection, CtxDone, SendRemove,
     EdgePeerDone, ReadEnds, WriteToTunnel, sendCloseMessage, DeleteAPIServerConnection,
     ReadInput, AddLocalConnection, DialEdged, TakeStop, TellCloud, CleanChannel,
     DeleteLocalConnection, receiveFromCloudStream, ReceiverStops, write2CloudStream,
     StreamClosed, WriterStops, ReadEdged, StreamEnds, ClientLeaves
<1>12. ASSUME NEW c \in Conns, getSession(c) PROVE \A d \in Conns : Passed(d) => Passed(d)'
  <2>0. pc[c] = "idle"
    BY <1>12, ZenonT(30) DEF getSession
  <2>1. sess[c] = 0 /\ 0 \notin Sessions
    BY <2>0, BoundsAssumption DEF Routes, Sessions
  <2> QED
    BY <1>12, <2>1, Shapes, ZenonT(30) DEF getSession, Passed
<1>13. ASSUME
             ReadTunnel \/ WriteToLocalConnection \/ CacheTunnelMessage \/ SendOnClosed \/
             TunnelSessionClose
      PROVE  \A c \in Conns : Passed(c) => Passed(c)'
  BY <1>1, <1>13, ZenonT(30) DEF ReadTunnel, WriteToLocalConnection, CacheTunnelMessage, SendOnClosed,
     TunnelSessionClose
<1> QED
  BY <1>1, <1>2, <1>3, <1>4, <1>5, <1>6, <1>7, <1>8, <1>9, <1>10, <1>11, <1>12, <1>13, ZenonT(30) DEF
     Next, SessionStep, RequestStep, ServeStep, LocalStep, ReceiverStep, WriterStep

(* Each of the two signals adds one token at most.                            *)
LEMMA TokensStep ==
  ASSUME TypeOK, Routes, Starts, UpOnce, Tokens, [Next]_vars
  PROVE  Tokens'
<1> USE DEF serverVars, tunnelVars, reqVars, serveVars, localVars, reqOthers, edgeOthers, localOthers
<1> USE ConnsAssumption
<1>m. \A c \in Conns : MayCome(c)' => MayCome(c)
  BY MayComeStep, ZenonT(30)
<1>p. \A c \in Conns : Passed(c) => Passed(c)'
  BY PassedStep, ZenonT(30)
<1>t. peerStop \in [Conns -> Nat]
  <2>1. peerStop \in [Conns -> 0..PeerCap]
    BY ZenonT(30) DEF TypeOK
  <2> QED
    BY <2>1 DEF PeerCap
<1>1. ASSUME UNCHANGED <<peerStop>> PROVE Tokens'
  BY <1>1, <1>m, <1>p, ZenonT(30) DEF Tokens
<1>2. CASE UNCHANGED vars
  BY <1>1, <1>2, ZenonT(30) DEF vars
<1>3. ASSUME NEW s \in Sessions,
             updateNodeKubeletEndpoint(s) \/ addSession(s) \/ NextReader(s) \/
             ReaderFails(s) \/ Close(s) \/ EndpointFails(s) \/ TLSClientConnect(s) \/
             TunnelBreaks(s)
      PROVE  Tokens'
  BY <1>1, <1>3, ZenonT(30) DEF updateNodeKubeletEndpoint, addSession, NextReader, ReaderFails, Close,
     EndpointFails, TLSClientConnect, TunnelBreaks
<1>4. ASSUME NEW s \in Sessions, ProxyTunnelMessageToApiserver(s) PROVE Tokens'
  <2>1. CASE reader[s].type = "remove"
    <3>0. reader[s] \in Message
      BY <1>4, ZenonT(30) DEF ProxyTunnelMessageToApiserver, TypeOK
    <3>1. PICK d \in Conns : reader[s] = Remove(d) /\ SetEdgePeerDone(d)
      BY <1>4, <2>1, <3>0, MessageFacts, ZenonT(30) DEF ProxyTunnelMessageToApiserver
    <3>2. MayCome(d) /\ Told(d) /\ UNCHANGED <<up, local, sess, cloud, todo>>
          /\ reader' = [reader EXCEPT ![s] = NoMsg]
      BY <1>4, <3>1, ZenonT(30) DEF ProxyTunnelMessageToApiserver, MayCome, UpOnce
    <3>3. \A t \in Sessions : ~Has(up'[t], Remove(d)) /\ reader'[t] # Remove(d)
      <4>1. sess[d] = s /\ Remove(d) \in Message /\ Remove(d).id = d /\ Remove(d) # NoMsg
        <5>1. Remove(d) \in Message /\ Remove(d).id = d /\ Remove(d) # NoMsg
          BY MessageFacts, ZenonT(30)
        <5> QED
          BY <3>1, <5>1, ZenonT(30) DEF Routes
      <4>2. \A t \in Sessions : Has(up[t], Remove(d)) \/ reader[t] = Remove(d) => t = s
        BY <4>1 DEF Routes
      <4>3. ~Has(up[s], Remove(d))
        BY <3>1, ZenonT(30) DEF UpOnce
      <4> QED
        BY <3>2, <4>1, <4>2, <4>3, Shapes, ZenonT(30)
    <3>4. ~MayCome(d)'
      BY <3>2, <3>3, ZenonT(30) DEF MayCome, Told
    <3>5. Passed(d)' = Passed(d)
      BY <3>2, ZenonT(30) DEF Passed
    <3>6. /\ \A e \in Conns : e # d => peerStop'[e] = peerStop[e]
          /\ peerStop'[d] \in {peerStop[d], peerStop[d] + 1}
      BY <3>1, Shapes, ZenonT(30) DEF SetEdgePeerDone
    <3> QED
      BY <3>2, <3>4, <3>5, <3>6, <1>m, <1>p, <1>t DEF Tokens
  <2>2. CASE reader[s].type # "remove"
    BY <1>4, <1>1, <2>2, ZenonT(30) DEF ProxyTunnelMessageToApiserver
  <2> QED
    BY <2>1, <2>2, ZenonT(30)
<1>5. ASSUME NEW s \in Sessions, SignalAll(s) PROVE Tokens'
  <2>1. PICK d \in todo[s] : SetEdgePeerDone(d) /\ todo' = [todo EXCEPT ![s] = @ \ {d}]
    BY <1>5, ZenonT(30) DEF SignalAll
  <2>2. d \in Conns /\ sess[d] = s /\ cloud[s] = "closing" /\ UNCHANGED <<sess, cloud>>
    BY <1>5, <2>1, ZenonT(30) DEF SignalAll, TypeOK, Routes
  <2>3. ~Passed(d) /\ Passed(d)'
    BY <2>1, <2>2, Shapes, ZenonT(30) DEF Passed
  <2>4. /\ \A e \in Conns : e # d => peerStop'[e] = peerStop[e]
        /\ peerStop'[d] \in {peerStop[d], peerStop[d] + 1}
    BY <2>1, <2>2, Shapes, ZenonT(30) DEF SetEdgePeerDone
  <2> SUFFICES ASSUME NEW c \in Upgrades
               PROVE  /\ MayCome(c)' /\ ~Passed(c)' => peerStop'[c] = 0
                      /\ MayCome(c)' \/ ~Passed(c)' => peerStop'[c] <= 1
    BY ZenonT(30) DEF Tokens
  <2>5. /\ MayCome(c)' => MayCome(c)
        /\ Passed(c) => Passed(c)'
        /\ MayCome(c) /\ ~Passed(c) => peerStop[c] = 0
        /\ MayCome(c) \/ ~Passed(c) => peerStop[c] <= 1
        /\ c \in Conns /\ peerStop[c] \in Nat
    BY <1>m, <1>p, <1>t, ZenonT(30) DEF Tokens
  <2>6. CASE c # d
    BY <2>4, <2>5, <2>6, ZenonT(30)
  <2>7. CASE c = d
    <3>1. ~Passed(c) /\ Passed(c)' /\ peerStop'[c] \in {peerStop[c], peerStop[c] + 1}
      BY <2>3, <2>4, <2>7, ZenonT(30)
    <3> HIDE DEF MayCome, Passed
    <3> QED
      BY <2>5, <3>1
  <2> QED
    BY <2>6, <2>7, ZenonT(30)
<1>6. ASSUME NEW c \in Conns,
             getSession(c) \/ AddAPIServerConnection(c) \/ SendConnection(c) \/ CtxDone(c)
             \/ SendRemove(c) \/ ReadEnds(c) \/ WriteToTunnel(c) \/ sendCloseMessage(c) \/
             DeleteAPIServerConnection(c) \/ ReadInput(c) \/ AddLocalConnection(c) \/
             DialEdged(c) \/ TakeStop(c) \/ TellCloud(c) \/ CleanChannel(c) \/
             DeleteLocalConnection(c) \/ receiveFromCloudStream(c) \/ ReceiverStops(c) \/
             write2CloudStream(c) \/ StreamClosed(c) \/ WriterStops(c) \/ ReadEdged(c) \/
             StreamEnds(c) \/ ClientLeaves(c)
      PROVE  Tokens'
  BY <1>1, <1>6, ZenonT(30) DEF getSession, AddAPIServerConnection, SendConnection, CtxDone, SendRemove,
     ReadEnds, WriteToTunnel, sendCloseMessage, DeleteAPIServerConnection, ReadInput,
     AddLocalConnection, DialEdged, TakeStop, TellCloud, CleanChannel, DeleteLocalConnection,
     receiveFromCloudStream, ReceiverStops, write2CloudStream, StreamClosed, WriterStops,
     ReadEdged, StreamEnds, ClientLeaves
<1>7. ASSUME NEW c \in Conns, EdgePeerDone(c) PROVE Tokens'
  <2>1. CASE peerStop[c] > 0 /\ peerStop' = [peerStop EXCEPT ![c] = @ - 1]
    <3>1. \A d \in Conns : peerStop'[d] \in Nat /\ peerStop'[d] <= peerStop[d]
      BY <2>1, <1>t
    <3> QED
      BY <3>1, <1>m, <1>p, <1>t DEF Tokens
  <2>2. CASE UNCHANGED peerStop
    BY <1>1, <2>2, ZenonT(30)
  <2> QED
    BY <1>7, <2>1, <2>2, ZenonT(30) DEF EdgePeerDone
<1>8. ASSUME
             ReadTunnel \/ WriteToLocalConnection \/ CacheTunnelMessage \/ SendOnClosed \/
             TunnelSessionClose
      PROVE  Tokens'
  BY <1>1, <1>8, ZenonT(30) DEF ReadTunnel, WriteToLocalConnection, CacheTunnelMessage, SendOnClosed,
     TunnelSessionClose
<1> QED
  BY <1>1, <1>2, <1>3, <1>4, <1>5, <1>6, <1>7, <1>8, ZenonT(30) DEF Next, SessionStep, RequestStep,
     ServeStep, LocalStep, ReceiverStep, WriterStep

(* What the edge reader holds after a read is what it has just taken.        *)
LEMMA ReadHolds ==
  ASSUME TypeOK, ReadTunnel \/ WriteToLocalConnection \/ CacheTunnelMessage \/ SendOnClosed
  PROVE  /\ WriteToLocalConnection => eMsg'.msg \in {eMsg.msg, NoMsg}
         /\ CacheTunnelMessage \/ SendOnClosed => eMsg'.msg = NoMsg
         /\ ReadTunnel => eMsg.msg = NoMsg /\ eMsg'.msg \in {Head(down[edgeS]), NoMsg}
<1>0. Idle.msg = NoMsg
  BY ZenonT(30) DEF Idle
<1>1. WriteToLocalConnection => eMsg'.msg \in {eMsg.msg, NoMsg}
  <2> SUFFICES ASSUME WriteToLocalConnection PROVE eMsg'.msg \in {eMsg.msg, NoMsg}
    OBVIOUS
  <2>1. eMsg' = [msg |-> eMsg.msg, at |-> "cache"] \/ eMsg' = Idle
    BY ZenonT(30) DEF WriteToLocalConnection, GetLocalConnection
  <2> QED
    BY <1>0, <2>1, SMTT(60)
<1>2. CacheTunnelMessage \/ SendOnClosed => eMsg'.msg = NoMsg
  BY DEF CacheTunnelMessage, SendOnClosed, Idle
<1>3. ReadTunnel => eMsg.msg = NoMsg /\ eMsg'.msg \in {Head(down[edgeS]), NoMsg}
  <2> SUFFICES ASSUME ReadTunnel
               PROVE  eMsg.msg = NoMsg /\ eMsg'.msg \in {Head(down[edgeS]), NoMsg}
    OBVIOUS
  <2>1. eMsg = Idle
    BY ZenonT(30) DEF ReadTunnel
  <2>2. eMsg' \in {eMsg, Idle} \/ eMsg'.msg = Head(down[edgeS])
    BY DEF ReadTunnel, GetLocalConnection
  <2> QED
    BY <2>1, <2>2 DEF Idle
<1> QED
  BY <1>1, <1>2, <1>3, ZenonT(30)

(* ReadChan: what the reader puts in and the receiver takes out.             *)
LEMMA CacheFacts ==
  ASSUME TypeOK, CacheTunnelMessage
  PROVE  /\ eMsg.msg \in Message /\ eMsg.msg.id \in Conns
         /\ \A d \in Conns : \A x :
              /\ Has(readChan'[d], x) => Has(readChan[d], x) \/ (d = eMsg.msg.id /\ x = eMsg.msg)
              /\ Once(readChan[d], x) /\ (x = eMsg.msg => ~Has(readChan[d], x))
                   => Once(readChan'[d], x)
<1> DEFINE m == eMsg.msg
<1>1. m \in Message /\ m.id \in Conns
  BY EMsgFacts, ZenonT(30) DEF CacheTunnelMessage
<1>2. readChan \in [Conns -> Seq(Message)] /\ readChan[m.id] \in Seq(Message)
  BY <1>1, ZenonT(30) DEF TypeOK
<1>3. readChan' = [readChan EXCEPT ![m.id] = Append(readChan[m.id], m)]
  BY ZenonT(30) DEF CacheTunnelMessage
<1> HIDE DEF m
<1>4. /\ \A x : Has(Append(readChan[m.id], m), x) => Has(readChan[m.id], x) \/ x = m
      /\ \A x : Once(readChan[m.id], x) /\ (x = m => ~Has(readChan[m.id], x))
                 => Once(Append(readChan[m.id], m), x)
  BY <1>1, <1>2, AppendFacts
<1>5. \A d \in Conns : \A x :
        /\ Has(readChan'[d], x) => Has(readChan[d], x) \/ (d = m.id /\ x = m)
        /\ Once(readChan[d], x) /\ (x = m => ~Has(readChan[d], x)) => Once(readChan'[d], x)
  BY <1>1, <1>2, <1>3, <1>4, ZenonT(30)
<1> QED
  BY <1>1, <1>5, ZenonT(30) DEF m

(* The receiver stops on a RemoveConnect, which it has taken out.            *)
LEMMA ReceiveFacts ==
  ASSUME TypeOK, NEW c \in Conns, receiveFromCloudStream(c)
  PROVE  /\ \A d \in Conns : \A x :
              /\ Has(readChan'[d], x) => Has(readChan[d], x)
              /\ Once(readChan[d], x) => Once(readChan'[d], x)
         /\ rcv' = [rcv EXCEPT ![c] = "stopping"] =>
              \E m \in Message : /\ m.type = "remove" /\ Has(readChan[c], m)
                                 /\ Once(readChan[c], m) => ~Has(readChan'[c], m)
<1>1. readChan \in [Conns -> Seq(Message)] /\ readChan[c] \in Seq(Message)
  BY ZenonT(30) DEF TypeOK
<1>2. CASE readChan[c] # <<>>
  <2>1. /\ readChan' = [readChan EXCEPT ![c] = Tail(readChan[c])]
        /\ rcv' = [rcv EXCEPT ![c] = IF Head(readChan[c]).type = "remove" THEN "stopping" ELSE "recv"]
    BY <1>2, ZenonT(30) DEF receiveFromCloudStream
  <2>2. readChan'[c] = Tail(readChan[c])
    BY <1>1, <2>1, ZenonT(30)
  <2>3. \A d \in Conns : d # c => readChan'[d] = readChan[d]
    BY <1>1, <2>1, ZenonT(30)
  <2>4. rcv' = [rcv EXCEPT ![c] = "stopping"] => Head(readChan[c]).type = "remove"
    BY <2>1, Shapes, ZenonT(30)
  <2>5. /\ Head(readChan[c]) \in Message /\ Has(readChan[c], Head(readChan[c]))
        /\ \A x : Has(Tail(readChan[c]), x) => Has(readChan[c], x)
        /\ \A x : Once(readChan[c], x) =>
             Once(Tail(readChan[c]), x) /\ (x = Head(readChan[c]) => ~Has(Tail(readChan[c]), x))
    BY <1>1, <1>2, TailFacts, ZenonT(30)
  <2> QED
    BY <2>2, <2>3, <2>4, <2>5, ZenonT(30)
<1>3. CASE readChan[c] = <<>>
  <2>1. UNCHANGED readChan /\ rcv' = [rcv EXCEPT ![c] = "done"]
    BY <1>3, ZenonT(30) DEF receiveFromCloudStream
  <2>2. rcv' # [rcv EXCEPT ![c] = "stopping"]
    BY <2>1, Shapes, ZenonT(30)
  <2> QED
    BY <2>1, <2>2, ZenonT(30)
<1> QED
  BY <1>2, <1>3, ZenonT(30)

(* The cloud tells the edge once.                                             *)
LEMMA DownOnceStep ==
  ASSUME TypeOK, Routes, DownOnce, [Next]_vars
  PROVE  DownOnce'
<1> USE DEF serverVars, tunnelVars, reqVars, serveVars, localVars, reqOthers, edgeOthers, localOthers
<1>1. ASSUME UNCHANGED <<pc, down, eMsg, readChan>> PROVE DownOnce'
  BY <1>1, ZenonT(30) DEF DownOnce, DownOnceOf
<1>2. CASE UNCHANGED vars
  BY <1>1, <1>2, ZenonT(30) DEF vars
<1>3. ASSUME NEW s \in Sessions,
             updateNodeKubeletEndpoint(s) \/ addSession(s) \/ NextReader(s) \/
             ReaderFails(s) \/ Close(s) \/ TLSClientConnect(s) \/ TunnelBreaks(s)
      PROVE  DownOnce'
  BY <1>1, <1>3, ZenonT(30) DEF updateNodeKubeletEndpoint, addSession, NextReader, ReaderFails, Close,
     TLSClientConnect, TunnelBreaks
<1>4. ASSUME NEW s \in Sessions, ProxyTunnelMessageToApiserver(s) PROVE DownOnce'
  <2>1. \A d \in Conns : pc'[d] # pc[d] => pc'[d] = "delete" /\ pc[d] = "select"
    BY <1>4, Shapes, ZenonT(30) DEF ProxyTunnelMessageToApiserver, SetEdgePeerDone
  <2>2. UNCHANGED <<down, eMsg, readChan>>
    BY <1>4, ZenonT(30) DEF ProxyTunnelMessageToApiserver
  <2> QED
    BY <2>1, <2>2, ZenonT(30) DEF DownOnce, DownOnceOf
<1>5. ASSUME NEW s \in Sessions, SignalAll(s) PROVE DownOnce'
  <2>1. \A d \in Conns : pc'[d] # pc[d] => pc'[d] = "delete" /\ pc[d] = "select"
    BY <1>5, Shapes, ZenonT(30) DEF SignalAll, SetEdgePeerDone
  <2>2. UNCHANGED <<down, eMsg, readChan>>
    BY <1>5, ZenonT(30) DEF SignalAll
  <2> QED
    BY <2>1, <2>2, ZenonT(30) DEF DownOnce, DownOnceOf
<1>6. ASSUME NEW s \in Sessions, EndpointFails(s) PROVE DownOnce'
  <2>1. \A t \in Sessions : \A x :
          /\ Has(down'[t], x) => Has(down[t], x) \/ x = CloseConnect
          /\ Once(down[t], x) /\ (x = CloseConnect => ~Has(down[t], x)) => Once(down'[t], x)
    BY <1>6, ToEdgeFacts, MessageFacts, ZenonT(30) DEF EndpointFails
  <2>2. UNCHANGED <<pc, eMsg, readChan>>
    BY <1>6, ZenonT(30) DEF EndpointFails
  <2>3. \A d \in Conns : Remove(d) # CloseConnect
    BY MessageFacts, ZenonT(30)
  <2> QED
    BY <2>1, <2>2, <2>3, ZenonT(30) DEF DownOnce, DownOnceOf
<1>7. ASSUME NEW c \in Conns,
             AddLocalConnection(c) \/ DialEdged(c) \/ TakeStop(c) \/ TellCloud(c) \/
             CleanChannel(c) \/ DeleteLocalConnection(c) \/ ReceiverStops(c) \/
             write2CloudStream(c) \/ StreamClosed(c) \/ WriterStops(c) \/ ReadEdged(c) \/
             StreamEnds(c) \/ ClientLeaves(c)
      PROVE  DownOnce'
  BY <1>1, <1>7, ZenonT(30) DEF AddLocalConnection, DialEdged, TakeStop, TellCloud, CleanChannel,
     DeleteLocalConnection, ReceiverStops, write2CloudStream, StreamClosed, WriterStops,
     ReadEdged, StreamEnds, ClientLeaves
<1>8. ASSUME NEW c \in Conns, getSession(c) PROVE DownOnce'
  BY <1>8, Shapes DEF getSession, DownOnce, DownOnceOf
<1>9. ASSUME NEW c \in Conns, AddAPIServerConnection(c) PROVE DownOnce'
  BY <1>9, Shapes DEF AddAPIServerConnection, DownOnce, DownOnceOf
<1>10. ASSUME NEW c \in Conns, SendConnection(c) PROVE DownOnce'
  <2>1. /\ sess[c] \in Sessions
        /\ \A t \in Sessions : \A x :
             /\ Has(down'[t], x) => Has(down[t], x) \/ (t = sess[c] /\ x = NewMessage("connect", c))
             /\ Once(down[t], x) /\ (x = NewMessage("connect", c) => ~Has(down[t], x)) => Once(down'[t], x)
    BY <1>10, SendFacts, ZenonT(30) DEF SendConnection, Types
  <2>2. \A d \in Conns : Remove(d) # NewMessage("connect", c)
    BY ZenonT(30) DEF Remove, NewMessage
  <2>3. UNCHANGED <<eMsg, readChan>>
    BY <1>10, ZenonT(30) DEF SendConnection
  <2>4. \A d \in Conns : pc'[d] = pc[d] \/ (pc[d] # "done" /\ pc'[d] \in {"select", "delete"})
    BY <1>10, Shapes, ZenonT(30) DEF SendConnection
  <2> QED
    BY <2>1, <2>2, <2>3, <2>4, ZenonT(30) DEF DownOnce, DownOnceOf
<1>11. ASSUME NEW c \in Conns, CtxDone(c) PROVE DownOnce'
  BY <1>11, Shapes, ZenonT(30) DEF CtxDone, DownOnce, DownOnceOf
<1>12. ASSUME NEW c \in Conns, SendRemove(c) PROVE DownOnce'
  <2>1. /\ sess[c] \in Sessions
        /\ \A t \in Sessions : \A x :
             /\ Has(down'[t], x) => Has(down[t], x) \/ (t = sess[c] /\ x = NewMessage("remove", c))
             /\ Once(down[t], x) /\ (x = NewMessage("remove", c) => ~Has(down[t], x)) => Once(down'[t], x)
    BY <1>12, SendFacts, ZenonT(30) DEF SendRemove, Types
  <2>2. \A d \in Conns : Remove(d) = NewMessage("remove", c) <=> d = c
    BY ZenonT(30) DEF Remove, NewMessage
  <2>3. UNCHANGED <<eMsg, readChan>> /\ pc[c] = "bye"
    BY <1>12, ZenonT(30) DEF SendRemove
  <2>4. pc'[c] = "done" /\ \A d \in Conns : d # c => pc'[d] = pc[d]
    BY <1>12, Shapes, ZenonT(30) DEF SendRemove
  <2> QED
    BY <2>1, <2>2, <2>3, <2>4, ZenonT(30) DEF DownOnce, DownOnceOf
<1>13. ASSUME NEW c \in Conns, EdgePeerDone(c) PROVE DownOnce'
  BY <1>13, Shapes, ZenonT(30) DEF EdgePeerDone, DownOnce, DownOnceOf
<1>14. ASSUME NEW c \in Conns, ReadEnds(c) PROVE DownOnce'
  BY <1>14, Shapes, ZenonT(30) DEF ReadEnds, DownOnce, DownOnceOf
<1>15. ASSUME NEW c \in Conns, WriteToTunnel(c) PROVE DownOnce'
  <2>1. /\ sess[c] \in Sessions
        /\ \A t \in Sessions : \A x :
             /\ Has(down'[t], x) => Has(down[t], x) \/ (t = sess[c] /\ x = NewMessage("data", c))
             /\ Once(down[t], x) /\ (x = NewMessage("data", c) => ~Has(down[t], x)) => Once(down'[t], x)
    BY <1>15, SendFacts, ZenonT(30) DEF WriteToTunnel, Types
  <2>2. \A d \in Conns : Remove(d) # NewMessage("data", c)
    BY ZenonT(30) DEF Remove, NewMessage
  <2>3. UNCHANGED <<eMsg, readChan>>
    BY <1>15, ZenonT(30) DEF WriteToTunnel
  <2>4. \A d \in Conns : pc'[d] = pc[d] \/ (pc[d] # "done" /\ pc'[d] \in {"select", "delete"})
    BY <1>15, Shapes, ZenonT(30) DEF WriteToTunnel
  <2> QED
    BY <2>1, <2>2, <2>3, <2>4, ZenonT(30) DEF DownOnce, DownOnceOf
<1>16. ASSUME NEW c \in Conns, sendCloseMessage(c) PROVE DownOnce'
  <2>1. /\ sess[c] \in Sessions
        /\ \A t \in Sessions : \A x :
             /\ Has(down'[t], x) => Has(down[t], x) \/ (t = sess[c] /\ x = NewMessage("remove", c))
             /\ Once(down[t], x) /\ (x = NewMessage("remove", c) => ~Has(down[t], x)) => Once(down'[t], x)
    BY <1>16, SendFacts, ZenonT(30) DEF sendCloseMessage, Types
  <2>2. \A d \in Conns \ Upgrades : Remove(d) # NewMessage("remove", c)
    BY <1>16, ZenonT(30) DEF sendCloseMessage, DownOnce, DownOnceOf, Remove, NewMessage
  <2>3. UNCHANGED <<eMsg, readChan>>
    BY <1>16, ZenonT(30) DEF sendCloseMessage
  <2>4. \A d \in Conns \ Upgrades : pc'[d] = pc[d]
    BY <1>16, Shapes, ZenonT(30) DEF sendCloseMessage, DownOnce, DownOnceOf
  <2> QED
    BY <2>1, <2>2, <2>3, <2>4, ZenonT(30) DEF DownOnce, DownOnceOf
<1>17. ASSUME NEW c \in Conns, DeleteAPIServerConnection(c) PROVE DownOnce'
  BY <1>17, Shapes, ZenonT(30) DEF DeleteAPIServerConnection, DownOnce, DownOnceOf
<1>18. ASSUME NEW c \in Conns, ReadInput(c) PROVE DownOnce'
  BY <1>18, Shapes, ZenonT(30) DEF ReadInput, DownOnce, DownOnceOf
<1>19. ASSUME NEW c \in Conns, receiveFromCloudStream(c) PROVE DownOnce'
  <2>1. UNCHANGED <<pc, down, eMsg>>
    BY <1>19, ZenonT(30) DEF receiveFromCloudStream
  <2> QED
    BY <1>19, <2>1, ReceiveFacts, ZenonT(30) DEF DownOnce, DownOnceOf
<1>20. CASE ReadTunnel
  <2>1. UNCHANGED <<pc, readChan>>
    BY <1>20, ZenonT(30) DEF ReadTunnel
  <2>2. eMsg.msg = NoMsg /\ eMsg'.msg \in {Head(down[edgeS]), NoMsg} /\ \A d \in Conns : Remove(d) # NoMsg
    BY <1>20, ReadHolds, MessageFacts, ZenonT(30)
  <2>3. /\ edgeS \in Sessions /\ Has(down[edgeS], Head(down[edgeS]))
        /\ Once(down[edgeS], Head(down[edgeS])) => ~Has(down'[edgeS], Head(down[edgeS]))
    BY <1>20, ReadTakes, ZenonT(30)
  <2>4. \A d \in Conns : \A t \in Sessions : Has(down[t], Remove(d)) => t = sess[d]
    <3>1. \A d \in Conns : Remove(d) \in Message /\ Remove(d).id = d
      BY MessageFacts, ZenonT(30)
    <3> QED
      BY <3>1 DEF Routes
  <2>5. ASSUME NEW d \in Conns \ Upgrades, eMsg'.msg = Remove(d)
        PROVE  /\ pc[d] = "done" /\ ~Has(readChan[d], Remove(d))
               /\ \A t \in Sessions : ~Has(down'[t], Remove(d))
    <3>1. Head(down[edgeS]) = Remove(d)
      BY <2>2, <2>5, ZenonT(30)
    <3>2. Has(down[edgeS], Remove(d)) /\ ~Has(down'[edgeS], Remove(d))
      BY <2>3, <3>1, ZenonT(30) DEF DownOnce, DownOnceOf
    <3> QED
      BY <1>20, <2>3, <2>4, <3>2, DownShrinks, ZenonT(30) DEF DownOnce, DownOnceOf
  <2>6. ASSUME NEW d \in Conns \ Upgrades, NEW t \in Sessions
        PROVE  /\ Once(down'[t], Remove(d))
               /\ Has(down'[t], Remove(d)) => pc[d] = "done" /\ ~Has(readChan[d], Remove(d))
    BY <1>20, DownShrinks, ZenonT(30) DEF DownOnce, DownOnceOf
  <2> QED
    BY <2>1, <2>5, <2>6, ZenonT(30) DEF DownOnce, DownOnceOf
<1>21. CASE WriteToLocalConnection
  <2>1. UNCHANGED <<pc, down, readChan>>
    BY <1>21, ZenonT(30) DEF WriteToLocalConnection
  <2>2. eMsg'.msg \in {eMsg.msg, NoMsg} /\ \A d \in Conns : Remove(d) # NoMsg
    BY <1>21, ReadHolds, MessageFacts, ZenonT(30)
  <2> QED
    BY <2>1, <2>2, ZenonT(30) DEF DownOnce, DownOnceOf
<1>22. CASE CacheTunnelMessage
  <2>1. UNCHANGED <<pc, down>>
    BY <1>22, ZenonT(30) DEF CacheTunnelMessage
  <2>2. eMsg'.msg = NoMsg /\ \A d \in Conns : Remove(d) # NoMsg /\ Remove(d).id = d
    BY <1>22, ReadHolds, MessageFacts, ZenonT(30)
  <2>3. ASSUME NEW d \in Conns \ Upgrades
        PROVE  /\ Has(readChan'[d], Remove(d)) =>
                    pc[d] = "done" /\ \A t \in Sessions : ~Has(down[t], Remove(d))
               /\ Once(readChan'[d], Remove(d))
               /\ \A x \in Message : Has(readChan'[d], x) => x.id = d
    BY <1>22, CacheFacts, ZenonT(30) DEF DownOnce, DownOnceOf
  <2> QED
    BY <2>1, <2>2, <2>3, ZenonT(30) DEF DownOnce, DownOnceOf
<1>23. CASE SendOnClosed
  <2>1. UNCHANGED pc /\ \A d \in Conns : readChan'[d] = <<>>
    BY <1>23, ZenonT(30) DEF SendOnClosed
  <2>2. eMsg'.msg = NoMsg /\ \A d \in Conns : Remove(d) # NoMsg
    BY <1>23, ReadHolds, MessageFacts, ZenonT(30)
  <2>3. \A x : Once(<<>>, x) /\ ~Has(<<>>, x)
    BY EmptyFacts, ZenonT(30)
  <2>4. \A t \in Sessions : \A x :
          /\ Has(down'[t], x) => Has(down[t], x)
          /\ Once(down[t], x) => Once(down'[t], x)
    BY <1>23, DownShrinks, ZenonT(30)
  <2> SUFFICES ASSUME NEW c \in Conns \ Upgrades PROVE DownOnceOf(c)'
    BY ZenonT(30) DEF DownOnce
  <2>5. DownOnceOf(c)
    BY ZenonT(30) DEF DownOnce
  <2>6. pc'[c] = pc[c] /\ readChan'[c] = <<>> /\ eMsg'.msg # Remove(c)
    BY <2>1, <2>2, ZenonT(30)
  <2> QED
    BY <2>3, <2>4, <2>5, <2>6, ZenonT(30) DEF DownOnceOf
<1>24. CASE TunnelSessionClose
  <2>1. UNCHANGED <<pc, eMsg, readChan>>
    BY <1>24, ZenonT(30) DEF TunnelSessionClose
  <2> QED
    BY <1>24, <2>1, DownShrinks, ZenonT(30) DEF DownOnce, DownOnceOf
<1> QED
  BY <1>1, <1>2, <1>3, <1>4, <1>5, <1>6, <1>7, <1>8, <1>9, <1>10, <1>11, <1>12, <1>13, <1>14,
     <1>15, <1>16, <1>17, <1>18, <1>19, <1>20, <1>21, <1>22, <1>23, <1>24, ZenonT(30) DEF Next,
     SessionStep, RequestStep, ServeStep, LocalStep, ReceiverStep, WriterStep

(* A RemoveConnect that the receiver has had does not come again.             *)
LEMMA ComingStep ==
  ASSUME TypeOK, Routes, [Next]_vars
  PROVE  \A c \in Conns \ Upgrades : Coming(c)' => Coming(c)
<1> USE DEF serverVars, tunnelVars, reqVars, serveVars, localVars, reqOthers, edgeOthers, localOthers
<1>1. ASSUME UNCHANGED <<pc, down, eMsg, readChan>>
      PROVE  \A c \in Conns \ Upgrades : Coming(c)' => Coming(c)
  BY <1>1, ZenonT(30) DEF Coming
<1>2. CASE UNCHANGED vars
  BY <1>1, <1>2, ZenonT(30) DEF vars
<1>3. ASSUME NEW s \in Sessions,
             updateNodeKubeletEndpoint(s) \/ addSession(s) \/ NextReader(s) \/
             ReaderFails(s) \/ Close(s) \/ TLSClientConnect(s) \/ TunnelBreaks(s)
      PROVE  \A c \in Conns \ Upgrades : Coming(c)' => Coming(c)
  BY <1>1, <1>3, ZenonT(30) DEF updateNodeKubeletEndpoint, addSession, NextReader, ReaderFails, Close,
     TLSClientConnect, TunnelBreaks
<1>4. ASSUME NEW s \in Sessions, ProxyTunnelMessageToApiserver(s)
      PROVE  \A c \in Conns \ Upgrades : Coming(c)' => Coming(c)
  <2>1. \A d \in Conns : pc'[d] # pc[d] => pc[d] = "select"
    BY <1>4, Shapes, ZenonT(30) DEF ProxyTunnelMessageToApiserver, SetEdgePeerDone
  <2>2. UNCHANGED <<down, eMsg, readChan>>
    BY <1>4, ZenonT(30) DEF ProxyTunnelMessageToApiserver
  <2> QED
    BY <2>1, <2>2, ZenonT(30) DEF Coming
<1>5. ASSUME NEW s \in Sessions, SignalAll(s) PROVE \A c \in Conns \ Upgrades : Coming(c)' => Coming(c)
  <2>1. \A d \in Conns : pc'[d] # pc[d] => pc[d] = "select"
    BY <1>5, Shapes, ZenonT(30) DEF SignalAll, SetEdgePeerDone
  <2>2. UNCHANGED <<down, eMsg, readChan>>
    BY <1>5, ZenonT(30) DEF SignalAll
  <2> QED
    BY <2>1, <2>2, ZenonT(30) DEF Coming
<1>6. ASSUME NEW s \in Sessions, EndpointFails(s)
      PROVE  \A c \in Conns \ Upgrades : Coming(c)' => Coming(c)
  <2>1. \A t \in Sessions : \A x : Has(down'[t], x) => Has(down[t], x) \/ x = CloseConnect
    BY <1>6, ToEdgeFacts, MessageFacts, ZenonT(30) DEF EndpointFails
  <2>2. UNCHANGED <<pc, eMsg, readChan>>
    BY <1>6, ZenonT(30) DEF EndpointFails
  <2>3. \A d \in Conns : Remove(d) # CloseConnect
    BY MessageFacts, ZenonT(30)
  <2> QED
    BY <2>1, <2>2, <2>3, ZenonT(30) DEF Coming
<1>7. ASSUME NEW c \in Conns,
             AddLocalConnection(c) \/ DialEdged(c) \/ TakeStop(c) \/ TellCloud(c) \/
             CleanChannel(c) \/ DeleteLocalConnection(c) \/ ReceiverStops(c) \/
             write2CloudStream(c) \/ StreamClosed(c) \/ WriterStops(c) \/ ReadEdged(c) \/
             StreamEnds(c) \/ ClientLeaves(c)
      PROVE  \A d \in Conns \ Upgrades : Coming(d)' => Coming(d)
  BY <1>1, <1>7, ZenonT(30) DEF AddLocalConnection, DialEdged, TakeStop, TellCloud, CleanChannel,
     DeleteLocalConnection, ReceiverStops, write2CloudStream, StreamClosed, WriterStops,
     ReadEdged, StreamEnds, ClientLeaves
<1>8. ASSUME NEW c \in Conns, getSession(c) PROVE \A d \in Conns \ Upgrades : Coming(d)' => Coming(d)
  BY <1>8, Shapes, ZenonT(30) DEF getSession, Coming
<1>9. ASSUME NEW c \in Conns, AddAPIServerConnection(c)
      PROVE  \A d \in Conns \ Upgrades : Coming(d)' => Coming(d)
  BY <1>9, Shapes, ZenonT(30) DEF AddAPIServerConnection, Coming
<1>10. ASSUME NEW c \in Conns, SendConnection(c)
       PROVE  \A d \in Conns \ Upgrades : Coming(d)' => Coming(d)
  <2>1. /\ sess[c] \in Sessions
        /\ \A t \in Sessions : \A x :
             /\ Has(down'[t], x) => Has(down[t], x) \/ (t = sess[c] /\ x = NewMessage("connect", c))
             /\ Once(down[t], x) /\ (x = NewMessage("connect", c) => ~Has(down[t], x)) => Once(down'[t], x)
    BY <1>10, SendFacts, ZenonT(30) DEF SendConnection, Types
  <2>2. \A d \in Conns : Remove(d) = NewMessage("connect", c) => d = c
    BY ZenonT(30) DEF Remove, NewMessage
  <2>3. UNCHANGED <<eMsg, readChan>> /\ pc[c] # "done"
    BY <1>10, ZenonT(30) DEF SendConnection
  <2>4. \A d \in Conns : d # c => pc'[d] = pc[d]
    BY <1>10, Shapes, ZenonT(30) DEF SendConnection
  <2> QED
    BY <2>1, <2>2, <2>3, <2>4, ZenonT(30) DEF Coming
<1>11. ASSUME NEW c \in Conns, CtxDone(c) PROVE \A d \in Conns \ Upgrades : Coming(d)' => Coming(d)
  BY <1>11, Shapes, ZenonT(30) DEF CtxDone, Coming
<1>12. ASSUME NEW c \in Conns, SendRemove(c) PROVE \A d \in Conns \ Upgrades : Coming(d)' => Coming(d)
  <2>1. /\ sess[c] \in Sessions
        /\ \A t \in Sessions : \A x :
             /\ Has(down'[t], x) => Has(down[t], x) \/ (t = sess[c] /\ x = NewMessage("remove", c))
             /\ Once(down[t], x) /\ (x = NewMessage("remove", c) => ~Has(down[t], x)) => Once(down'[t], x)
    BY <1>12, SendFacts, ZenonT(30) DEF SendRemove, Types
  <2>2. \A d \in Conns : Remove(d) = NewMessage("remove", c) => d = c
    BY ZenonT(30) DEF Remove, NewMessage
  <2>3. UNCHANGED <<eMsg, readChan>> /\ pc[c] # "done"
    BY <1>12, ZenonT(30) DEF SendRemove
  <2>4. \A d \in Conns : d # c => pc'[d] = pc[d]
    BY <1>12, Shapes, ZenonT(30) DEF SendRemove
  <2> QED
    BY <2>1, <2>2, <2>3, <2>4, ZenonT(30) DEF Coming
<1>13. ASSUME NEW c \in Conns, EdgePeerDone(c) PROVE \A d \in Conns \ Upgrades : Coming(d)' => Coming(d)
  BY <1>13, Shapes, ZenonT(30) DEF EdgePeerDone, Coming
<1>14. ASSUME NEW c \in Conns, ReadEnds(c) PROVE \A d \in Conns \ Upgrades : Coming(d)' => Coming(d)
  BY <1>14, Shapes, ZenonT(30) DEF ReadEnds, Coming
<1>15. ASSUME NEW c \in Conns, WriteToTunnel(c) PROVE \A d \in Conns \ Upgrades : Coming(d)' => Coming(d)
  <2>1. /\ sess[c] \in Sessions
        /\ \A t \in Sessions : \A x :
             /\ Has(down'[t], x) => Has(down[t], x) \/ (t = sess[c] /\ x = NewMessage("data", c))
             /\ Once(down[t], x) /\ (x = NewMessage("data", c) => ~Has(down[t], x)) => Once(down'[t], x)
    BY <1>15, SendFacts, ZenonT(30) DEF WriteToTunnel, Types
  <2>2. \A d \in Conns : Remove(d) = NewMessage("data", c) => d = c
    BY ZenonT(30) DEF Remove, NewMessage
  <2>3. UNCHANGED <<eMsg, readChan>> /\ pc[c] # "done"
    BY <1>15, ZenonT(30) DEF WriteToTunnel
  <2>4. \A d \in Conns : d # c => pc'[d] = pc[d]
    BY <1>15, Shapes, ZenonT(30) DEF WriteToTunnel
  <2> QED
    BY <2>1, <2>2, <2>3, <2>4, ZenonT(30) DEF Coming
<1>16. ASSUME NEW c \in Conns, sendCloseMessage(c)
       PROVE  \A d \in Conns \ Upgrades : Coming(d)' => Coming(d)
  <2>1. /\ sess[c] \in Sessions
        /\ \A t \in Sessions : \A x :
             /\ Has(down'[t], x) => Has(down[t], x) \/ (t = sess[c] /\ x = NewMessage("remove", c))
             /\ Once(down[t], x) /\ (x = NewMessage("remove", c) => ~Has(down[t], x)) => Once(down'[t], x)
    BY <1>16, SendFacts, ZenonT(30) DEF sendCloseMessage, Types
  <2>2. \A d \in Conns : Remove(d) = NewMessage("remove", c) => d = c
    BY ZenonT(30) DEF Remove, NewMessage
  <2>3. UNCHANGED <<eMsg, readChan>> /\ pc[c] # "done"
    BY <1>16, ZenonT(30) DEF sendCloseMessage
  <2>4. \A d \in Conns : d # c => pc'[d] = pc[d]
    BY <1>16, Shapes, ZenonT(30) DEF sendCloseMessage
  <2> QED
    BY <2>1, <2>2, <2>3, <2>4, ZenonT(30) DEF Coming
<1>17. ASSUME NEW c \in Conns, DeleteAPIServerConnection(c)
       PROVE  \A d \in Conns \ Upgrades : Coming(d)' => Coming(d)
  BY <1>17, Shapes, ZenonT(30) DEF DeleteAPIServerConnection, Coming
<1>18. ASSUME NEW c \in Conns, ReadInput(c) PROVE \A d \in Conns \ Upgrades : Coming(d)' => Coming(d)
  BY <1>18, Shapes, ZenonT(30) DEF ReadInput, Coming
<1>19. ASSUME NEW c \in Conns, receiveFromCloudStream(c)
       PROVE  \A d \in Conns \ Upgrades : Coming(d)' => Coming(d)
  <2>1. UNCHANGED <<pc, down, eMsg>>
    BY <1>19, ZenonT(30) DEF receiveFromCloudStream
  <2> QED
    BY <1>19, <2>1, ReceiveFacts, ZenonT(30) DEF Coming
<1>20. CASE ReadTunnel
  <2>1. UNCHANGED <<pc, readChan>>
    BY <1>20, ZenonT(30) DEF ReadTunnel
  <2>2. eMsg'.msg \in {Head(down[edgeS]), NoMsg} /\ \A d \in Conns : Remove(d) # NoMsg
    BY <1>20, ReadHolds, MessageFacts, ZenonT(30)
  <2>3. edgeS \in Sessions /\ Has(down[edgeS], Head(down[edgeS]))
    BY <1>20, ReadTakes, ZenonT(30)
  <2> QED
    BY <1>20, <2>1, <2>2, <2>3, DownShrinks, ZenonT(30) DEF Coming
<1>21. CASE WriteToLocalConnection
  <2>1. UNCHANGED <<pc, down, readChan>>
    BY <1>21, ZenonT(30) DEF WriteToLocalConnection
  <2>2. eMsg'.msg \in {eMsg.msg, NoMsg} /\ \A d \in Conns : Remove(d) # NoMsg
    BY <1>21, ReadHolds, MessageFacts, ZenonT(30)
  <2> QED
    BY <2>1, <2>2, ZenonT(30) DEF Coming
<1>22. CASE CacheTunnelMessage
  <2>1. UNCHANGED <<pc, down>>
    BY <1>22, ZenonT(30) DEF CacheTunnelMessage
  <2>2. eMsg'.msg = NoMsg /\ \A d \in Conns : Remove(d) # NoMsg
    BY <1>22, ReadHolds, MessageFacts, ZenonT(30)
  <2> QED
    BY <1>22, <2>1, <2>2, CacheFacts, ZenonT(30) DEF Coming
<1>23. CASE SendOnClosed
  <2>1. UNCHANGED pc /\ \A d \in Conns : readChan'[d] = <<>>
    BY <1>23, ZenonT(30) DEF SendOnClosed
  <2>2. eMsg'.msg = NoMsg /\ \A d \in Conns : Remove(d) # NoMsg
    BY <1>23, ReadHolds, MessageFacts, ZenonT(30)
  <2> QED
    BY <1>23, <2>1, <2>2, DownShrinks, EmptyFacts, ZenonT(30) DEF Coming
<1>24. CASE TunnelSessionClose
  <2>1. UNCHANGED <<pc, eMsg, readChan>>
    BY <1>24, ZenonT(30) DEF TunnelSessionClose
  <2> QED
    BY <1>24, <2>1, DownShrinks, ZenonT(30) DEF Coming
<1> QED
  BY <1>1, <1>2, <1>3, <1>4, <1>5, <1>6, <1>7, <1>8, <1>9, <1>10, <1>11, <1>12, <1>13, <1>14, ZenonT(30),
     <1>15, <1>16, <1>17, <1>18, <1>19, <1>20, <1>21, <1>22, <1>23, <1>24 DEF Next,
     SessionStep, RequestStep, ServeStep, LocalStep, ReceiverStep, WriterStep

(* Each of the two goroutines adds one token at most.                         *)
LEMMA StopsStep ==
  ASSUME TypeOK, Routes, Starts, DownOnce, Stops, [Next]_vars
  PROVE  Stops'
<1> USE DEF serverVars, tunnelVars, reqVars, serveVars, localVars, reqOthers, edgeOthers, localOthers
<1>k. \A c \in Conns \ Upgrades : Coming(c)' => Coming(c)
  BY ComingStep, ZenonT(30)
<1>t. stop \in [Conns -> Nat]
  <2>1. stop \in [Conns -> 0..StopCap]
    BY ZenonT(30) DEF TypeOK
  <2> QED
    BY <2>1 DEF StopCap
<1>1. ASSUME UNCHANGED <<local, rcv, wr, stop>> PROVE Stops'
  BY <1>1, <1>k, ZenonT(30) DEF Stops, StopsOf
<1>2. CASE UNCHANGED vars
  BY <1>1, <1>2, ZenonT(30) DEF vars
<1>3. ASSUME NEW s \in Sessions,
             updateNodeKubeletEndpoint(s) \/ addSession(s) \/ NextReader(s) \/
             ProxyTunnelMessageToApiserver(s) \/ ReaderFails(s) \/ SignalAll(s) \/
             Close(s) \/ EndpointFails(s) \/ TLSClientConnect(s) \/ TunnelBreaks(s)
      PROVE  Stops'
  BY <1>1, <1>3, ZenonT(30) DEF updateNodeKubeletEndpoint, addSession, NextReader,
     ProxyTunnelMessageToApiserver, ReaderFails, SignalAll, Close, EndpointFails,
     TLSClientConnect, TunnelBreaks
<1>4. ASSUME NEW c \in Conns,
             getSession(c) \/ AddAPIServerConnection(c) \/ SendConnection(c) \/ CtxDone(c)
             \/ SendRemove(c) \/ EdgePeerDone(c) \/ ReadEnds(c) \/ WriteToTunnel(c) \/
             sendCloseMessage(c) \/ DeleteAPIServerConnection(c) \/ ReadInput(c) \/
             ClientLeaves(c)
      PROVE  Stops'
  BY <1>1, <1>4, ZenonT(30) DEF getSession, AddAPIServerConnection, SendConnection, CtxDone, SendRemove,
     EdgePeerDone, ReadEnds, WriteToTunnel, sendCloseMessage, DeleteAPIServerConnection,
     ReadInput, ClientLeaves
<1>5. ASSUME NEW c \in Conns, AddLocalConnection(c) PROVE Stops'
  <2>1. \A d \in Conns : local'[d] # local[d] => local[d] \in {"start"} \/ local'[d] \notin {"none", "start", "dial"}
    BY <1>5, Shapes, ZenonT(30) DEF AddLocalConnection
  <2>2. UNCHANGED <<rcv, wr, stop>>
    BY <1>5, ZenonT(30) DEF AddLocalConnection
  <2> QED
    BY <2>1, <2>2, <1>k, ZenonT(30) DEF Stops, StopsOf
<1>6. ASSUME NEW c \in Conns, DialEdged(c) PROVE Stops'
  <2>1. local[c] = "dial" /\ local'[c] \in {"serve", "delete"} /\ UNCHANGED stop
        /\ rcv'[c] \in {rcv[c], "recv"} /\ wr'[c] \in {wr[c], "read"}
    BY <1>6, Shapes, ZenonT(30) DEF DialEdged
  <2>2. \A d \in Conns : d # c => local'[d] = local[d] /\ rcv'[d] = rcv[d] /\ wr'[d] = wr[d]
    BY <1>6, Shapes, ZenonT(30) DEF DialEdged
  <2> SUFFICES ASSUME NEW d \in Conns \ Upgrades PROVE StopsOf(d)'
    BY ZenonT(30) DEF Stops
  <2>9. StopsOf(d) /\ (Coming(d)' => Coming(d)) /\ stop[d] \in Nat
    BY <1>k, <1>t, ZenonT(30) DEF Stops
  <2> QED
    BY <2>1, <2>2, <2>9, ZenonT(30) DEF StopsOf
<1>7. ASSUME NEW c \in Conns, TakeStop(c) PROVE Stops'
  <2>1. \A d \in Conns : stop'[d] \in Nat /\ stop'[d] <= stop[d]
    BY <1>7, <1>t DEF TakeStop
  <2>2. UNCHANGED <<rcv, wr>>
    BY <1>7, ZenonT(30) DEF TakeStop
  <2>3. \A d \in Conns : local'[d] # local[d] => local'[d] = "bye"
    BY <1>7, Shapes, ZenonT(30) DEF TakeStop
  <2> SUFFICES ASSUME NEW d \in Conns \ Upgrades PROVE StopsOf(d)'
    BY ZenonT(30) DEF Stops
  <2>9. StopsOf(d) /\ (Coming(d)' => Coming(d)) /\ stop[d] \in Nat
    BY <1>k, <1>t, ZenonT(30) DEF Stops
  <2> QED
    BY <2>1, <2>2, <2>3, <2>9 DEF StopsOf
<1>8. ASSUME NEW c \in Conns, TellCloud(c) PROVE Stops'
  <2>1. \A d \in Conns : local'[d] # local[d] => local[d] \in {"start"} \/ local'[d] \notin {"none", "start", "dial"}
    BY <1>8, Shapes, ZenonT(30) DEF TellCloud
  <2>2. UNCHANGED <<rcv, wr, stop>>
    BY <1>8, ZenonT(30) DEF TellCloud
  <2> QED
    BY <2>1, <2>2, <1>k, ZenonT(30) DEF Stops, StopsOf
<1>9. ASSUME NEW c \in Conns, CleanChannel(c) PROVE Stops'
  <2>1. \A d \in Conns : stop'[d] \in Nat /\ stop'[d] <= stop[d]
    BY <1>9, <1>t DEF CleanChannel
  <2>2. UNCHANGED <<rcv, wr>>
    BY <1>9, ZenonT(30) DEF CleanChannel
  <2>3. \A d \in Conns : local'[d] # local[d] => local'[d] = "bye"
    BY <1>9, Shapes, ZenonT(30) DEF CleanChannel
  <2> SUFFICES ASSUME NEW d \in Conns \ Upgrades PROVE StopsOf(d)'
    BY ZenonT(30) DEF Stops
  <2>9. StopsOf(d) /\ (Coming(d)' => Coming(d)) /\ stop[d] \in Nat
    BY <1>k, <1>t, ZenonT(30) DEF Stops
  <2> QED
    BY <2>1, <2>2, <2>3, <2>9 DEF StopsOf
<1>10. ASSUME NEW c \in Conns, DeleteLocalConnection(c) PROVE Stops'
  <2>1. \A d \in Conns : local'[d] # local[d] => local[d] \in {"start"} \/ local'[d] \notin {"none", "start", "dial"}
    BY <1>10, Shapes, ZenonT(30) DEF DeleteLocalConnection
  <2>2. UNCHANGED <<rcv, wr, stop>>
    BY <1>10, ZenonT(30) DEF DeleteLocalConnection
  <2> QED
    BY <2>1, <2>2, <1>k, ZenonT(30) DEF Stops, StopsOf
<1>11. ASSUME NEW c \in Conns, receiveFromCloudStream(c) PROVE Stops'
  <2>1. UNCHANGED <<pc, down, eMsg, local, wr, stop>> /\ rcv[c] = "recv"
    BY <1>11, ZenonT(30) DEF receiveFromCloudStream
  <2>2. CASE rcv' = [rcv EXCEPT ![c] = "stopping"] /\ c \notin Upgrades
    <3>1. PICK m \in Message : /\ m.type = "remove" /\ Has(readChan[c], m)
                               /\ Once(readChan[c], m) => ~Has(readChan'[c], m)
      BY <1>11, <2>2, ReceiveFacts, ZenonT(30)
    <3>2. m = Remove(c)
      BY <2>2, <3>1, MessageFacts, ZenonT(30) DEF DownOnce, DownOnceOf
    <3>3. Coming(c) /\ ~Coming(c)'
      BY <2>1, <2>2, <3>1, <3>2, ZenonT(30) DEF DownOnce, DownOnceOf, Coming
    <3>4. rcv'[c] = "stopping" /\ \A d \in Conns : d # c => rcv'[d] = rcv[d]
      BY <2>2, Shapes, ZenonT(30)
    <3> QED
      BY <2>1, <3>3, <3>4, <1>k, <1>t, ZenonT(30) DEF Stops, StopsOf
  <2>3. CASE \A d \in Conns \ Upgrades : rcv'[d] # rcv[d] => rcv[d] = "recv" /\ rcv'[d] = "done"
    BY <2>1, <2>3, <1>k, ZenonT(30) DEF Stops, StopsOf
  <2> QED
    BY <1>11, <2>2, <2>3, Shapes, ZenonT(30) DEF receiveFromCloudStream
<1>12. ASSUME NEW c \in Conns, ReceiverStops(c) PROVE Stops'
  <2>1. rcv[c] = "stopping" /\ rcv'[c] = "recv" /\ stop'[c] = stop[c] + 1 /\ UNCHANGED <<local, wr>>
    BY <1>12, Shapes, ZenonT(30) DEF ReceiverStops
  <2>2. \A d \in Conns : d # c => rcv'[d] = rcv[d] /\ stop'[d] = stop[d]
    BY <1>12, Shapes, ZenonT(30) DEF ReceiverStops
  <2> SUFFICES ASSUME NEW d \in Conns \ Upgrades PROVE StopsOf(d)'
    BY ZenonT(30) DEF Stops
  <2>9. StopsOf(d) /\ (Coming(d)' => Coming(d)) /\ stop[d] \in Nat
    BY <1>k, <1>t, ZenonT(30) DEF Stops
  <2> QED
    BY <2>1, <2>2, <2>9 DEF StopsOf
<1>13. ASSUME NEW c \in Conns, write2CloudStream(c) PROVE Stops'
  <2>1. \A d \in Conns : wr'[d] # wr[d] => wr[d] \in {"read", "write"} /\ wr'[d] # "done"
    BY <1>13, Shapes, ZenonT(30) DEF write2CloudStream
  <2>2. UNCHANGED <<local, rcv, stop>>
    BY <1>13, ZenonT(30) DEF write2CloudStream
  <2> QED
    BY <2>1, <2>2, <1>k, ZenonT(30) DEF Stops, StopsOf
<1>14. ASSUME NEW c \in Conns, StreamClosed(c) PROVE Stops'
  <2>1. \A d \in Conns : wr'[d] # wr[d] => wr[d] \in {"read", "write"} /\ wr'[d] # "done"
    BY <1>14, Shapes, ZenonT(30) DEF StreamClosed
  <2>2. UNCHANGED <<local, rcv, stop>>
    BY <1>14, ZenonT(30) DEF StreamClosed
  <2> QED
    BY <2>1, <2>2, <1>k, ZenonT(30) DEF Stops, StopsOf
<1>15. ASSUME NEW c \in Conns, WriterStops(c) PROVE Stops'
  <2>1. wr[c] = "stopping" /\ wr'[c] = "done" /\ stop'[c] = stop[c] + 1 /\ UNCHANGED <<local, rcv>>
    BY <1>15, Shapes, ZenonT(30) DEF WriterStops
  <2>2. \A d \in Conns : d # c => wr'[d] = wr[d] /\ stop'[d] = stop[d]
    BY <1>15, Shapes, ZenonT(30) DEF WriterStops
  <2> SUFFICES ASSUME NEW d \in Conns \ Upgrades PROVE StopsOf(d)'
    BY ZenonT(30) DEF Stops
  <2>9. StopsOf(d) /\ (Coming(d)' => Coming(d)) /\ stop[d] \in Nat
    BY <1>k, <1>t, ZenonT(30) DEF Stops
  <2>3. CASE d # c
    <3>1. wr'[d] = wr[d] /\ stop'[d] = stop[d]
      BY <2>2, <2>3, ZenonT(30)
    <3> QED
      BY <2>1, <2>9, <3>1, ZenonT(30) DEF StopsOf
  <2>4. CASE d = c
    <3>1. wr[d] = "stopping" /\ wr'[d] = "done" /\ stop'[d] = stop[d] + 1
      BY <2>1, <2>4, ZenonT(30)
    <3>2. wr[d] # "done" /\ wr[d] # "off"
      BY <3>1, ZenonT(30)
    <3> QED
      BY <2>1, <2>9, <3>1, <3>2, SMTT(60) DEF StopsOf
  <2> QED
    BY <2>3, <2>4, ZenonT(30)
<1>16. ASSUME NEW c \in Conns, ReadEdged(c) PROVE Stops'
  <2>1. \A d \in Conns : wr'[d] # wr[d] => wr[d] \in {"read", "write"} /\ wr'[d] # "done"
    BY <1>16, Shapes, ZenonT(30) DEF ReadEdged
  <2>2. UNCHANGED <<local, rcv, stop>>
    BY <1>16, ZenonT(30) DEF ReadEdged
  <2> QED
    BY <2>1, <2>2, <1>k, ZenonT(30) DEF Stops, StopsOf
<1>17. ASSUME NEW c \in Conns, StreamEnds(c) PROVE Stops'
  <2>1. \A d \in Conns : wr'[d] # wr[d] => wr[d] \in {"read", "write"} /\ wr'[d] # "done"
    BY <1>17, Shapes, ZenonT(30) DEF StreamEnds
  <2>2. UNCHANGED <<local, rcv, stop>>
    BY <1>17, ZenonT(30) DEF StreamEnds
  <2> QED
    BY <2>1, <2>2, <1>k, ZenonT(30) DEF Stops, StopsOf
<1>18. ASSUME
             WriteToLocalConnection \/ CacheTunnelMessage \/ TunnelSessionClose
      PROVE  Stops'
  BY <1>1, <1>18, ZenonT(30) DEF WriteToLocalConnection, CacheTunnelMessage, TunnelSessionClose
<1>19. CASE ReadTunnel
  <2> DEFINE m == Head(down[edgeS])
  <2>1. \A d \in Conns : local'[d] # local[d] => local[d] = "none"
    <3>1. CASE m.type = "connect" /\ local' = [local EXCEPT ![m.id] = "start"]
      <4>0. m \in DownMessage /\ CloseConnect.type # "connect"
        BY <1>19, ReadTakes, ZenonT(30) DEF CloseConnect
      <4>1. m \in Message /\ m = Connect(m.id) /\ m.id \in Conns
        BY <3>1, <4>0, MessageFacts, ZenonT(30) DEF DownMessage
      <4>2. local[m.id] = "none"
        BY <4>1, ReadTakes, <1>19, ZenonT(30) DEF Starts
      <4> HIDE DEF m
      <4> QED
        BY <3>1, <4>2, Shapes, ZenonT(30)
    <3>2. CASE UNCHANGED local
      BY <3>2, ZenonT(30)
    <3> QED
      BY <1>19, <3>1, <3>2, ZenonT(30) DEF ReadTunnel
  <2>2. UNCHANGED <<rcv, wr, stop>>
    BY <1>19, ZenonT(30) DEF ReadTunnel
  <2> QED
    BY <2>1, <2>2, <1>k, ZenonT(30) DEF Stops, StopsOf
<1>20. CASE SendOnClosed
  <2>1. \A d \in Conns : /\ rcv'[d] = "off" /\ wr'[d] = "off" /\ stop'[d] = 0
    BY <1>20, ZenonT(30) DEF SendOnClosed
  <2> QED
    BY <2>1 DEF Stops, StopsOf
<1> QED
  BY <1>1, <1>2, <1>3, <1>4, <1>5, <1>6, <1>7, <1>8, <1>9, <1>10, <1>11, <1>12, <1>13, <1>14,
     <1>15, <1>16, <1>17, <1>18, <1>19, <1>20, ZenonT(30) DEF Next, SessionStep, RequestStep, ServeStep,
     LocalStep, ReceiverStep, WriterStep

-----------------------------------------------------------------------------
(* Nothing exists at the start.                                              *)
LEMMA InitHolds == Init => IInv
<1>1. SUFFICES ASSUME Init PROVE IInv
  OBVIOUS
<1>0. 0 \in 0..MaxSession /\ 0 \in 0..PeerCap /\ 0 \in 0..StopCap
  BY BoundsAssumption DEF PeerCap, StopCap
<1>s. <<>> \in Seq(Message) /\ <<>> \in Seq(Message \cup {CloseConnect})
  OBVIOUS
<1>2. TypeOK
  <2>1. budget \in [Kinds -> Nat]
    BY <1>1, BoundsAssumption, ZenonT(30) DEF Init
  <2> QED
    BY <1>0, <1>1, <1>s, <2>1, ZenonT(30) DEF Init, TypeOK, Idle
<1>3. /\ \A s \in Sessions : down[s] = <<>> /\ up[s] = <<>> /\ reader[s] = NoMsg /\ conns[s] = {}
                              /\ todo[s] = {}
      /\ \A c \in Conns : /\ sess[c] = 0 /\ peerStop[c] = 0 /\ local[c] = "none"
                          /\ readChan[c] = <<>> /\ stop[c] = 0 /\ rcv[c] = "off" /\ wr[c] = "off"
                          /\ pc[c] \in {"idle", "done"}
      /\ eMsg.msg = NoMsg
  BY <1>1, ZenonT(30) DEF Init, Idle
<1>4. \A x \in Message : x # NoMsg
  BY MessageFacts, ZenonT(30)
<1>5. Routes
  BY <1>3, <1>4, EmptyFacts, ZenonT(30) DEF Routes
<1>6. Starts
  BY <1>3, EmptyFacts, ZenonT(30) DEF Starts
<1>7. \A c \in Conns : Remove(c) # NoMsg
  BY MessageFacts, ZenonT(30)
<1>8. UpOnce
  BY <1>3, <1>7, EmptyFacts, ZenonT(30) DEF UpOnce
<1>9. Tokens
  BY <1>3, ConnsAssumption DEF Tokens
<1>10. DownOnce
  BY <1>3, <1>7, EmptyFacts, ZenonT(30) DEF DownOnce, DownOnceOf
<1>11. Stops
  BY <1>3 DEF Stops, StopsOf
<1> QED
  BY <1>2, <1>5, <1>6, <1>8, <1>9, <1>10, <1>11, ZenonT(30) DEF IInv

(* Every step keeps every part of the invariant.                             *)
LEMMA StepHolds == IInv /\ [Next]_vars => IInv'
<1>1. SUFFICES ASSUME IInv, [Next]_vars PROVE IInv'
  OBVIOUS
<1>2. TypeOK /\ Routes /\ Starts /\ UpOnce /\ Tokens /\ DownOnce /\ Stops
  BY <1>1, ZenonT(30) DEF IInv
<1> QED
  BY <1>1, <1>2, TypeStep, RoutesStep, StartsStep, UpOnceStep, TokensStep, DownOnceStep, StopsStep, ZenonT(30)
     DEF IInv

(* The inductive invariant holds in every reachable state, for any number of *)
(* requests and tunnels and any buffer sizes.                                *)
THEOREM Inductive == Spec => []IInv
  BY InitHolds, StepHolds, PTL DEF Spec

(* Every variable keeps its type: no channel gets more tokens than its       *)
(* capacity, and Stop is not drained below zero by CleanChannel.             *)
THEOREM TypeCorrect == Spec => []TypeOK
<1>1. IInv => TypeOK
  BY ZenonT(30) DEF IInv
<1> QED
  BY Inductive, <1>1, PTL

(* SetEdgePeerDone finds a free place in the edgePeerStop of an exec or      *)
(* attach that still runs: the edge's RemoveConnect and the session's Close  *)
(* each come once at most.                                                   *)
THEOREM PeerDoneAlwaysFits == Spec => []PeerDoneFits
<1>1. ASSUME IInv PROVE PeerDoneFits
  <2>1. SUFFICES ASSUME NEW s \in Sessions, NEW c \in Upgrades,
                        \/ reader[s] = Remove(c)
                        \/ cloud[s] = "closing" /\ c \in todo[s]
                 PROVE  peerStop[c] < PeerCap
    BY ZenonT(30) DEF PeerDoneFits, Remove
  <2>2. c \in Conns /\ TypeOK /\ Routes /\ Tokens
    BY <1>1, ConnsAssumption, ZenonT(30) DEF IInv
  <2>3. MayCome(c) \/ ~Passed(c)
    BY <2>1, <2>2, ZenonT(30) DEF MayCome, Passed, Routes
  <2>4. peerStop[c] <= 1 /\ peerStop[c] \in 0..2
    BY <2>2, <2>3, ZenonT(30) DEF Tokens, TypeOK, PeerCap
  <2> QED
    BY <2>4 DEF PeerCap
<1> QED
  BY Inductive, <1>1, PTL

(* The receiver and the writer of a logs or metrics connection find a free   *)
(* place in Stop: the cloud's RemoveConnect and the end of the stream each   *)
(* put in one token at most.                                                 *)
THEOREM StopAlwaysFits == Spec => []StopFits
<1>1. ASSUME IInv PROVE StopFits
  <2>1. SUFFICES ASSUME NEW c \in Conns \ Upgrades, rcv[c] = "stopping" \/ wr[c] = "stopping"
                 PROVE  stop[c] < StopCap
    BY ZenonT(30) DEF StopFits
  <2>2. TypeOK /\ Stops
    BY <1>1, ZenonT(30) DEF IInv
  <2>3. stop[c] <= 1 /\ stop[c] \in 0..2
    BY <2>1, <2>2, ZenonT(30) DEF Stops, StopsOf, TypeOK, StopCap
  <2> QED
    BY <2>3 DEF StopCap
<1> QED
  BY Inductive, <1>1, PTL
=============================================================================
