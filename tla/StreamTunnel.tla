---------------------------- MODULE StreamTunnel ----------------------------
(***************************************************************************)
(* The stream tunnel: kubectl logs, exec, attach and the metrics scrapers    *)
(* reach the kubelet of an edge node through one websocket.                  *)
(*                                                                           *)
(*   client -> StreamServer.getXxx -> Session.apiServerConn -> tunnel        *)
(*     -> TunnelSession.Serve -> localCons -> EdgedXxxConnection -> edged    *)
(*                                                                           *)
(* A connection has the same identifier (message ID) at both ends.  Logs and *)
(* metrics are streams; exec and attach (Upgrades) also carry input.  One    *)
(* edge node; each of its tunnels is a session.                              *)
(***************************************************************************)
EXTENDS Integers, Sequences, FiniteSets

CONSTANTS
  Conns,      \* requests, named by the message ID they are given
  Upgrades,   \* those that are exec or attach
  MaxSession, \* bound: tunnels the edge opens
  TunnelCap,  \* messages a tunnel buffers in each direction
  ReadCap,    \* capacity of ReadChan (128 in the code)
  Cases       \* bounds: the requests made, and how often what happens

Kinds == {"tunnel", "eof", "reset", "input", "output", "end",
          "break", "endpoint", "dial"}
Sessions == 1..MaxSession

ASSUME ConnsAssumption == Upgrades \subseteq Conns /\ IsFiniteSet(Conns)
ASSUME BoundsAssumption ==
  /\ MaxSession \in Nat /\ TunnelCap \in Nat \ {0} /\ ReadCap \in Nat \ {0}
  /\ Cases \subseteq [conns : SUBSET Conns, budget : [Kinds -> Nat]]

VARIABLES
  sessions,  \* TunnelServer.sessions: the node's session under each key
  cloud,     \* where TunnelServer.connect is, per session
  conns,     \* Session.apiServerConn
  reader,    \* the message ProxyTunnelMessageToApiserver works on
  todo,      \* connections Session.Close has still to signal
  broken,    \* the websocket is closed or lost
  down, up,  \* messages in the tunnel, to the edge and to the cloud
  sess,      \* the session a request was given
  pc,        \* where its getXxx handler is
  peerStop,  \* tokens in edgePeerStop
  client,    \* whether the client is still there
  edgeS,     \* the session TunnelSession.Serve runs on (0: not connected)
  eMsg,      \* the message it is handling, and how far it is
  local,     \* where ServeConnection is, per connection
  readChan,  \* ReadChan of the local connection
  stop,      \* tokens in its Stop channel
  rcv,       \* its receiveFromCloudStream goroutine
  wr,        \* its write2CloudStream goroutine
  dropped,   \* history: connections whose RemoveConnect the edge ignored
  budget     \* what is left of the case's budget

serverVars == <<sessions, cloud, conns, reader, todo>>
tunnelVars == <<broken, down, up>>
reqVars    == <<sess, pc, peerStop, client>>
serveVars  == <<edgeS, eMsg, dropped>>
localVars  == <<local, readChan, stop, rcv, wr>>
vars == <<serverVars, tunnelVars, reqVars, serveVars, localVars, budget>>

-----------------------------------------------------------------------------
Keys == {"host", "ip"}
Types == {"connect", "data", "remove"}
Message == [type : Types, id : Conns]
CloseConnect == [type |-> "close"]
NoMsg == [type |-> "none"]
NewMessage(type, c) == [type |-> type, id |-> c]
Idle == [msg |-> NoMsg, at |-> "read"]

Spend(k) == budget[k] > 0 /\ budget' = [budget EXCEPT ![k] = @ - 1]

(* edgePeerStop: unbuffered for a stream, two places for an upgrade.  Stop   *)
(* has two places for all.                                                   *)
PeerCap == 2
StopCap == 2

(* closeChan is closed: Serve has returned.                                  *)
Ended(c) == pc[c] \in {"delete", "done"}

(* apiConnlock is held over several steps only by the session's goroutine.   *)
Locked(s) == reader[s] # NoMsg \/ cloud[s] = "closing"

(* WriteMessage waits for room.  On a broken tunnel it fails, or succeeds    *)
(* and the message is lost.                                                  *)
ToEdge(s, m, ok) ==
  IF broken[s] THEN down' = down
  ELSE ok /\ Len(down[s]) < TunnelCap /\ down' = [down EXCEPT ![s] = Append(@, m)]
ToCloud(s, m, ok) ==
  IF broken[s] THEN up' = up
  ELSE ok /\ Len(up[s]) < TunnelCap /\ up' = [up EXCEPT ![s] = Append(@, m)]

Init ==
  /\ \E case \in Cases :
       /\ budget = case.budget
       /\ pc = [c \in Conns |-> IF c \in case.conns THEN "idle" ELSE "done"]
  /\ sessions = [k \in Keys |-> 0]
  /\ cloud = [s \in Sessions |-> "none"]
  /\ conns = [s \in Sessions |-> {}]
  /\ reader = [s \in Sessions |-> NoMsg]
  /\ todo = [s \in Sessions |-> {}]
  /\ broken = [s \in Sessions |-> FALSE]
  /\ down = [s \in Sessions |-> <<>>]
  /\ up = [s \in Sessions |-> <<>>]
  /\ sess = [c \in Conns |-> 0]
  /\ peerStop = [c \in Conns |-> 0]
  /\ client = [c \in Conns |-> "here"]
  /\ edgeS = 0
  /\ eMsg = Idle
  /\ local = [c \in Conns |-> "none"]
  /\ readChan = [c \in Conns |-> <<>>]
  /\ stop = [c \in Conns |-> 0]
  /\ rcv = [c \in Conns |-> "off"]
  /\ wr = [c \in Conns |-> "off"]
  /\ dropped = {}

-----------------------------------------------------------------------------
(* TunnelServer.connect and Session: the cloud end of a tunnel.              *)

(* The kubelet endpoint is written to the node's status, which may take two  *)
(* minutes of retries; then the session is put under both keys.              *)
updateNodeKubeletEndpoint(s) ==
  /\ cloud[s] = "updating"
  /\ sessions' = [sessions EXCEPT !["host"] = s]
  /\ cloud' = [cloud EXCEPT ![s] = "addip"]
  /\ UNCHANGED <<conns, reader, todo, tunnelVars, reqVars, serveVars, localVars, budget>>

EndpointFails(s) ==
  /\ cloud[s] = "updating" /\ Spend("endpoint")
  /\ \E ok \in BOOLEAN : ToEdge(s, CloseConnect, ok)
  /\ cloud' = [cloud EXCEPT ![s] = "gone"]
  /\ UNCHANGED <<sessions, conns, reader, todo, broken, up, reqVars, serveVars, localVars>>

addSession(s) ==
  /\ cloud[s] = "addip"
  /\ sessions' = [sessions EXCEPT !["ip"] = s]
  /\ cloud' = [cloud EXCEPT ![s] = "serve"]
  /\ UNCHANGED <<conns, reader, todo, tunnelVars, reqVars, serveVars, localVars, budget>>

(* Session.Serve reads a message and looks its connection up.                *)
NextReader(s) ==
  /\ cloud[s] = "serve" /\ reader[s] = NoMsg /\ up[s] # <<>>
  /\ up' = [up EXCEPT ![s] = Tail(@)]
  /\ reader' = [reader EXCEPT ![s] =
                  IF Head(up[s]).id \in conns[s] THEN Head(up[s]) ELSE NoMsg]
  /\ UNCHANGED <<sessions, cloud, conns, todo, broken, down, reqVars, serveVars, localVars, budget>>

\* A mutant of SetEdgePeerDone: closeChan is not looked at.
SetEdgePeerDoneBlind(c) ==
  \/ /\ c \in Upgrades /\ peerStop[c] < PeerCap
     /\ peerStop' = [peerStop EXCEPT ![c] = @ + 1] /\ UNCHANGED pc
  \/ /\ c \notin Upgrades /\ pc[c] = "select"
     /\ pc' = [pc EXCEPT ![c] = "delete"] /\ UNCHANGED peerStop

(* A connection that has ended needs no signal; an upgrade's is left in the  *)
(* buffer; a stream takes it in its select, and returns an error.            *)
SetEdgePeerDone(c) ==
  \/ Ended(c) /\ UNCHANGED <<pc, peerStop>>
  \/ /\ c \in Upgrades /\ peerStop[c] < PeerCap
     /\ peerStop' = [peerStop EXCEPT ![c] = @ + 1] /\ UNCHANGED pc
  \/ /\ c \notin Upgrades /\ pc[c] = "select"
     /\ pc' = [pc EXCEPT ![c] = "delete"] /\ UNCHANGED peerStop

ProxyTunnelMessageToApiserver(s) ==
  /\ reader[s] # NoMsg
  /\ IF reader[s].type = "remove" THEN SetEdgePeerDone(reader[s].id)
                                  ELSE UNCHANGED <<pc, peerStop>>
  /\ reader' = [reader EXCEPT ![s] = NoMsg]
  /\ UNCHANGED <<sessions, cloud, conns, todo, tunnelVars, sess, client, serveVars, localVars, budget>>

(* Serve returns on a read error and what it has not read is lost; Close     *)
(* takes the lock, ...                                                       *)
ReaderFails(s) ==
  /\ cloud[s] = "serve" /\ reader[s] = NoMsg /\ broken[s]
  /\ cloud' = [cloud EXCEPT ![s] = "closing"]
  /\ todo' = [todo EXCEPT ![s] = conns[s]]
  /\ up' = [up EXCEPT ![s] = <<>>]
  /\ UNCHANGED <<sessions, conns, reader, broken, down, reqVars, serveVars, localVars, budget>>

(* ... signals every connection of the map, ...                              *)
SignalAll(s) ==
  /\ cloud[s] = "closing"
  /\ \E c \in todo[s] : SetEdgePeerDone(c) /\ todo' = [todo EXCEPT ![s] = @ \ {c}]
  /\ UNCHANGED <<sessions, cloud, conns, reader, tunnelVars, sess, client, serveVars, localVars, budget>>

(* ... and closes the tunnel.                                                *)
Close(s) ==
  /\ cloud[s] = "closing" /\ todo[s] = {}
  /\ cloud' = [cloud EXCEPT ![s] = "closed"]
  /\ broken' = [broken EXCEPT ![s] = TRUE]
  /\ UNCHANGED <<sessions, conns, reader, todo, down, up, reqVars, serveVars, localVars, budget>>

-----------------------------------------------------------------------------
(* The request handlers of StreamServer.                                     *)

reqOthers == <<serverVars, broken, up, serveVars, localVars>>

(* Pod requests look the session up by node name, metrics also by address.   *)
(* The handler gives up without a session, or if it cannot flush or hijack.  *)
getSession(c) ==
  /\ pc[c] = "idle"
  /\ \E k \in (IF c \in Upgrades THEN {"host"} ELSE Keys), able \in BOOLEAN :
       /\ sess' = [sess EXCEPT ![c] = sessions[k]]
       /\ pc' = [pc EXCEPT ![c] = IF sessions[k] # 0 /\ able THEN "add" ELSE "done"]
  /\ UNCHANGED <<reqOthers, down, peerStop, client, budget>>

(* tunnelClosed is checked under the lock.                                   *)
AddAPIServerConnection(c) ==
  LET s == sess[c] IN
  /\ pc[c] = "add" /\ ~Locked(s)
  /\ IF cloud[s] = "closed"
     THEN pc' = [pc EXCEPT ![c] = "done"] /\ UNCHANGED conns
     ELSE /\ pc' = [pc EXCEPT ![c] = "send"]
          /\ conns' = [conns EXCEPT ![s] = @ \cup {c}]
  /\ UNCHANGED <<sessions, cloud, reader, todo, tunnelVars, sess, peerStop, client,
                 serveVars, localVars, budget>>

(* Serve returns the error of a failed write; closeChan closes then.         *)
SendConnection(c) ==
  /\ pc[c] = "send"
  /\ \E ok \in BOOLEAN :
       /\ ToEdge(sess[c], NewMessage("connect", c), ok)
       /\ pc' = [pc EXCEPT ![c] = IF ok THEN "select" ELSE "delete"]
  /\ UNCHANGED <<reqOthers, sess, peerStop, client, budget>>

(* Logs and metrics: the client is gone, so the edge is told.  The handler   *)
(* returns nil, and leaves its entry in the map.                             *)
CtxDone(c) ==
  /\ pc[c] = "select" /\ c \notin Upgrades /\ client[c] # "here"
  /\ pc' = [pc EXCEPT ![c] = "bye"]
  /\ UNCHANGED <<reqOthers, down, sess, peerStop, client, budget>>

\* A mutant of SendRemove: the loop is not left when the write succeeds.
SendRemoveThrice(c) ==
  /\ pc[c] = "bye"
  /\ \E ok \in BOOLEAN : ToEdge(sess[c], NewMessage("remove", c), ok)
  /\ pc' \in {pc, [pc EXCEPT ![c] = "done"]}
  /\ UNCHANGED <<reqOthers, sess, peerStop, client, budget>>

SendRemove(c) ==
  /\ pc[c] = "bye"
  /\ \E ok \in BOOLEAN : ToEdge(sess[c], NewMessage("remove", c), ok)
  /\ pc' = [pc EXCEPT ![c] = "done"]
  /\ UNCHANGED <<reqOthers, sess, peerStop, client, budget>>

(* Exec and attach poll edgePeerStop and, when it is empty, read the client. *)
EdgePeerDone(c) ==
  /\ pc[c] = "select" /\ c \in Upgrades
  /\ IF peerStop[c] > 0
     THEN /\ peerStop' = [peerStop EXCEPT ![c] = @ - 1]
          /\ pc' = [pc EXCEPT ![c] = "delete"]
     ELSE pc' = [pc EXCEPT ![c] = "client"] /\ UNCHANGED peerStop
  /\ UNCHANGED <<reqOthers, down, sess, client, budget>>

(* The hijacked connection: input, ...                                       *)
ReadInput(c) ==
  /\ pc[c] = "client" /\ client[c] = "here" /\ Spend("input")
  /\ pc' = [pc EXCEPT ![c] = "data"]
  /\ UNCHANGED <<reqOthers, down, sess, peerStop, client>>

(* ... end of file, or another error, after which the loop just goes on.     *)
ReadEnds(c) ==
  /\ pc[c] = "client" /\ client[c] # "here"
  /\ pc' = [pc EXCEPT ![c] = IF client[c] = "eof" THEN "eof" ELSE "select"]
  /\ UNCHANGED <<reqOthers, down, sess, peerStop, client, budget>>

WriteToTunnel(c) ==
  /\ pc[c] = "data"
  /\ \E ok \in BOOLEAN : ToEdge(sess[c], NewMessage("data", c), ok)
  /\ pc' = [pc EXCEPT ![c] = "select"]
  /\ UNCHANGED <<reqOthers, sess, peerStop, client, budget>>

(* At every end of file: the loop is not left, so this repeats.              *)
sendCloseMessage(c) ==
  /\ pc[c] = "eof"
  /\ \E ok \in BOOLEAN : ToEdge(sess[c], NewMessage("remove", c), ok)
  /\ pc' = [pc EXCEPT ![c] = "select"]
  /\ UNCHANGED <<reqOthers, sess, peerStop, client, budget>>

(* The deferred call of a handler whose Serve returned an error.             *)
DeleteAPIServerConnection(c) ==
  LET s == sess[c] IN
  /\ pc[c] = "delete" /\ ~Locked(s)
  /\ conns' = [conns EXCEPT ![s] = @ \ {c}]
  /\ pc' = [pc EXCEPT ![c] = "done"]
  /\ UNCHANGED <<sessions, cloud, reader, todo, tunnelVars, sess, peerStop, client,
                 serveVars, localVars, budget>>

-----------------------------------------------------------------------------
(* TunnelSession.Serve: the edge end of a tunnel.                            *)

edgeOthers == <<sessions, conns, reader, todo, reqVars>>

Registered(c) == local[c] \in {"dial", "serve", "bye", "delete"}

(* edgestream.Start dials again whenever the previous session has returned.  *)
TLSClientConnect(s) ==
  /\ edgeS = 0 /\ cloud[s] = "none" /\ Spend("tunnel")
  /\ \A t \in 1..(s - 1) : cloud[t] # "none"
  /\ edgeS' = s
  /\ cloud' = [cloud EXCEPT ![s] = "updating"]
  /\ UNCHANGED <<edgeOthers, tunnelVars, eMsg, dropped, localVars>>

(* WriteToLocalConnection looks the connection up under the lock and uses it *)
(* after; a message of an unknown connection is ignored.                     *)
GetLocalConnection(m) ==
  IF Registered(m.id)
  THEN eMsg' = [msg |-> m, at |-> "cache"] /\ UNCHANGED dropped
  ELSE /\ eMsg' = Idle
       /\ dropped' = IF m.type = "remove" THEN dropped \cup {m.id} ELSE dropped

\* A mutant of ReadTunnel: Serve does not return on CloseConnect, and goes on
\* with it like with a message of a connection.
ReadTunnelGoesOn ==
  /\ edgeS # 0 /\ eMsg = Idle /\ down[edgeS] # <<>>
  /\ LET m == Head(down[edgeS]) IN
     \/ /\ m.type \in {"connect", "close"}
        /\ local' = IF m = CloseConnect THEN local ELSE [local EXCEPT ![m.id] = "start"]
        /\ eMsg' = [msg |-> m, at |-> "lookup"]
        /\ UNCHANGED dropped
     \/ /\ m.type \in {"data", "remove"}
        /\ GetLocalConnection(m)
        /\ UNCHANGED local
  /\ down' = [down EXCEPT ![edgeS] = Tail(@)]
  /\ UNCHANGED <<edgeOthers, edgeS, broken, cloud, up, readChan, stop, rcv, wr, budget>>

(* A connect message starts ServeConnection in a goroutine of its own, which *)
(* may have registered the connection by the time of the lookup.             *)
ReadTunnel ==
  /\ edgeS # 0 /\ eMsg = Idle /\ down[edgeS] # <<>>
  /\ LET m == Head(down[edgeS]) IN
     \/ /\ m = CloseConnect
        /\ edgeS' = 0 /\ broken' = [broken EXCEPT ![edgeS] = TRUE]
        /\ UNCHANGED <<eMsg, dropped, local>>
     \/ /\ m.type = "connect"
        /\ local' = [local EXCEPT ![m.id] = "start"]
        /\ eMsg' = [msg |-> m, at |-> "lookup"]
        /\ UNCHANGED <<edgeS, broken, dropped>>
     \/ /\ m.type \in {"data", "remove"}
        /\ GetLocalConnection(m)
        /\ UNCHANGED <<edgeS, broken, local>>
  /\ down' = [down EXCEPT ![edgeS] = Tail(@)]
  /\ UNCHANGED <<edgeOthers, cloud, up, readChan, stop, rcv, wr, budget>>

WriteToLocalConnection ==
  /\ eMsg.at = "lookup" /\ GetLocalConnection(eMsg.msg)
  /\ UNCHANGED <<edgeOthers, cloud, tunnelVars, edgeS, localVars, budget>>

CacheTunnelMessage ==
  LET m == eMsg.msg IN
  /\ eMsg.at = "cache" /\ Registered(m.id) /\ Len(readChan[m.id]) < ReadCap
  /\ readChan' = [readChan EXCEPT ![m.id] = Append(@, m)]
  /\ eMsg' = Idle
  /\ UNCHANGED <<edgeOthers, cloud, tunnelVars, edgeS, dropped, local, stop, rcv, wr, budget>>

(* A send on a closed ReadChan panics: edgecore restarts without any of its  *)
(* connections.                                                              *)
SendOnClosed ==
  /\ eMsg.at = "cache" /\ local[eMsg.msg.id] = "done"
  /\ edgeS' = 0 /\ broken' = [broken EXCEPT ![edgeS] = TRUE]
  /\ eMsg' = Idle
  /\ local' = [c \in Conns |-> IF local[c] = "none" THEN "none" ELSE "lost"]
  /\ rcv' = [c \in Conns |-> "off"]
  /\ wr' = [c \in Conns |-> "off"]
  /\ readChan' = [c \in Conns |-> <<>>]
  /\ stop' = [c \in Conns |-> 0]
  /\ down' = [down EXCEPT ![edgeS] = <<>>]
  /\ UNCHANGED <<edgeOthers, cloud, up, dropped, budget>>

(* The local connections of a session that ends are not told.                *)
TunnelSessionClose ==
  /\ edgeS # 0 /\ eMsg = Idle /\ broken[edgeS]
  /\ edgeS' = 0
  /\ down' = [down EXCEPT ![edgeS] = <<>>]
  /\ UNCHANGED <<edgeOthers, cloud, broken, up, eMsg, dropped, localVars, budget>>

-----------------------------------------------------------------------------
(* ServeConnection and the two goroutines of a local connection.             *)

localOthers == <<serverVars, broken, down, reqVars, serveVars>>

AddLocalConnection(c) ==
  /\ local[c] = "start"
  /\ local' = [local EXCEPT ![c] = "dial"]
  /\ UNCHANGED <<localOthers, up, readChan, stop, rcv, wr, budget>>

(* The request to edged: on an error Serve returns before the cloud could be *)
(* told of it.                                                               *)
DialEdged(c) ==
  /\ local[c] = "dial"
  /\ \/ /\ local' = [local EXCEPT ![c] = "serve"]
        /\ rcv' = [rcv EXCEPT ![c] = "recv"] /\ wr' = [wr EXCEPT ![c] = "read"]
        /\ UNCHANGED budget
     \/ /\ Spend("dial") /\ local' = [local EXCEPT ![c] = "delete"]
        /\ UNCHANGED <<rcv, wr>>
  /\ UNCHANGED <<localOthers, up, readChan, stop>>

(* Serve takes a token from Stop, ...                                        *)
TakeStop(c) ==
  /\ local[c] = "serve" /\ stop[c] > 0
  /\ stop' = [stop EXCEPT ![c] = @ - 1]
  /\ local' = [local EXCEPT ![c] = "bye"]
  /\ UNCHANGED <<localOthers, up, readChan, rcv, wr, budget>>

\* A mutant of TellCloud: the loop is not left when the write succeeds.
TellCloudThrice(c) ==
  /\ local[c] = "bye"
  /\ \E ok \in BOOLEAN : ToCloud(sess[c], NewMessage("remove", c), ok)
  /\ local' \in {local, [local EXCEPT ![c] = "delete"]}
  /\ UNCHANGED <<localOthers, readChan, stop, rcv, wr, budget>>

\* A mutant of TellCloud: the cloud is not told.
TellNobody(c) ==
  /\ local[c] = "bye"
  /\ local' = [local EXCEPT ![c] = "delete"]
  /\ UNCHANGED <<localOthers, up, readChan, stop, rcv, wr, budget>>

(* ... tells the cloud, and closes the stream from edged.                    *)
TellCloud(c) ==
  /\ local[c] = "bye"
  /\ \E ok \in BOOLEAN : ToCloud(sess[c], NewMessage("remove", c), ok)
  /\ local' = [local EXCEPT ![c] = "delete"]
  /\ UNCHANGED <<localOthers, readChan, stop, rcv, wr, budget>>

CleanChannel(c) ==
  /\ local[c] = "delete" /\ stop[c] > 0
  /\ stop' = [stop EXCEPT ![c] = @ - 1]
  /\ UNCHANGED <<localOthers, up, local, readChan, rcv, wr, budget>>

(* CloseReadChannel and the removal from localCons.                          *)
DeleteLocalConnection(c) ==
  /\ local[c] = "delete" /\ stop[c] = 0
  /\ local' = [local EXCEPT ![c] = "done"]
  /\ UNCHANGED <<localOthers, up, readChan, stop, rcv, wr, budget>>

\* A mutant of receiveFromCloudStream: RemoveConnect is consumed like the rest.
ReceiveOnly(c) ==
  /\ rcv[c] = "recv"
  /\ \/ /\ readChan[c] # <<>>
        /\ readChan' = [readChan EXCEPT ![c] = Tail(@)] /\ UNCHANGED rcv
     \/ /\ readChan[c] = <<>> /\ local[c] = "done"
        /\ rcv' = [rcv EXCEPT ![c] = "done"] /\ UNCHANGED readChan
  /\ UNCHANGED <<localOthers, up, local, stop, wr, budget>>

(* Input for the container and the repeated connect message are consumed.    *)
receiveFromCloudStream(c) ==
  /\ rcv[c] = "recv"
  /\ \/ /\ readChan[c] # <<>>
        /\ readChan' = [readChan EXCEPT ![c] = Tail(@)]
        /\ rcv' = [rcv EXCEPT ![c] =
                     IF Head(readChan[c]).type = "remove" THEN "stopping" ELSE "recv"]
     \/ /\ readChan[c] = <<>> /\ local[c] = "done"
        /\ rcv' = [rcv EXCEPT ![c] = "done"] /\ UNCHANGED readChan
  /\ UNCHANGED <<localOthers, up, local, stop, wr, budget>>

ReceiverStops(c) ==
  /\ rcv[c] = "stopping" /\ stop[c] < StopCap
  /\ stop' = [stop EXCEPT ![c] = @ + 1]
  /\ rcv' = [rcv EXCEPT ![c] = "recv"]
  /\ UNCHANGED <<localOthers, up, local, readChan, wr, budget>>

ReadEdged(c) ==
  /\ wr[c] = "read" /\ Spend("output")
  /\ wr' = [wr EXCEPT ![c] = "write"]
  /\ UNCHANGED <<localOthers, up, local, readChan, stop, rcv>>

write2CloudStream(c) ==
  /\ wr[c] = "write"
  /\ \E ok \in BOOLEAN :
       /\ ToCloud(sess[c], NewMessage("data", c), ok)
       /\ wr' = [wr EXCEPT ![c] = IF ok THEN "read" ELSE "stopping"]
  /\ UNCHANGED <<localOthers, local, readChan, stop, rcv, budget>>

(* The stream from edged ends: by itself, ...                                *)
StreamEnds(c) ==
  /\ wr[c] = "read" /\ local[c] \notin {"delete", "done"} /\ Spend("end")
  /\ wr' = [wr EXCEPT ![c] = "stopping"]
  /\ UNCHANGED <<localOthers, up, local, readChan, stop, rcv>>

(* ... or because Serve has closed it.                                       *)
StreamClosed(c) ==
  /\ wr[c] = "read" /\ local[c] \in {"delete", "done"}
  /\ wr' = [wr EXCEPT ![c] = "stopping"]
  /\ UNCHANGED <<localOthers, up, local, readChan, stop, rcv, budget>>

WriterStops(c) ==
  /\ wr[c] = "stopping" /\ stop[c] < StopCap
  /\ stop' = [stop EXCEPT ![c] = @ + 1]
  /\ wr' = [wr EXCEPT ![c] = "done"]
  /\ UNCHANGED <<localOthers, up, local, readChan, rcv, budget>>

-----------------------------------------------------------------------------
(* The network and the clients.                                              *)

TunnelBreaks(s) ==
  /\ cloud[s] # "none" /\ ~broken[s] /\ Spend("break")
  /\ broken' = [broken EXCEPT ![s] = TRUE]
  /\ UNCHANGED <<serverVars, down, up, reqVars, serveVars, localVars>>

(* The context of a hijacked request is not cancelled: its reader sees the   *)
(* end of file or an error.                                                  *)
ClientLeaves(c) ==
  /\ client[c] = "here" /\ pc[c] # "idle" /\ ~Ended(c)
  /\ \E how \in (IF c \in Upgrades THEN {"eof", "reset"} ELSE {"eof"}) :
       Spend(how) /\ client' = [client EXCEPT ![c] = how]
  /\ UNCHANGED <<serverVars, tunnelVars, sess, pc, peerStop, serveVars, localVars>>

SessionStep(s) ==
  \/ updateNodeKubeletEndpoint(s) \/ addSession(s) \/ NextReader(s)
  \/ ProxyTunnelMessageToApiserver(s) \/ ReaderFails(s) \/ SignalAll(s) \/ Close(s)

RequestStep(c) ==
  \/ AddAPIServerConnection(c) \/ SendConnection(c) \/ CtxDone(c) \/ SendRemove(c)
  \/ EdgePeerDone(c) \/ ReadEnds(c) \/ WriteToTunnel(c) \/ sendCloseMessage(c)
  \/ DeleteAPIServerConnection(c)

ServeStep ==
  ReadTunnel \/ WriteToLocalConnection \/ CacheTunnelMessage \/ SendOnClosed \/ TunnelSessionClose

LocalStep(c) ==
  \/ AddLocalConnection(c) \/ DialEdged(c) \/ TakeStop(c) \/ TellCloud(c)
  \/ CleanChannel(c) \/ DeleteLocalConnection(c)

ReceiverStep(c) == receiveFromCloudStream(c) \/ ReceiverStops(c)
WriterStep(c) == write2CloudStream(c) \/ StreamClosed(c) \/ WriterStops(c)

Next ==
  \/ \E s \in Sessions : \/ SessionStep(s) \/ EndpointFails(s)
                         \/ TLSClientConnect(s) \/ TunnelBreaks(s)
  \/ \E c \in Conns : \/ getSession(c) \/ RequestStep(c) \/ ReadInput(c)
                      \/ LocalStep(c) \/ ReceiverStep(c) \/ WriterStep(c)
                      \/ ReadEdged(c) \/ StreamEnds(c) \/ ClientLeaves(c)
  \/ ServeStep

Spec == Init /\ [][Next]_vars

(* Every goroutine that can take a step does so in the end.  Nothing makes   *)
(* clients leave, streams end, tunnels break or the edge dial again.         *)
Fairness ==
  /\ \A s \in Sessions : WF_vars(SessionStep(s))
  /\ \A c \in Conns : /\ WF_vars(RequestStep(c)) /\ WF_vars(LocalStep(c))
                      /\ WF_vars(WriterStep(c)) /\ WF_vars(ReceiverStep(c))
  /\ WF_vars(ServeStep)

FairSpec == Spec /\ Fairness

-----------------------------------------------------------------------------
(* Types; Serve handles messages of connections only, since a CloseConnect   *)
(* ends it.                                                                  *)
TypeOK ==
  /\ sessions \in [Keys -> 0..MaxSession]
  /\ cloud \in [Sessions -> {"none", "updating", "addip", "serve", "closing", "closed", "gone"}]
  /\ conns \in [Sessions -> SUBSET Conns]
  /\ reader \in [Sessions -> Message \cup {NoMsg}]
  /\ todo \in [Sessions -> SUBSET Conns]
  /\ broken \in [Sessions -> BOOLEAN]
  /\ down \in [Sessions -> Seq(Message \cup {CloseConnect})]
  /\ up \in [Sessions -> Seq(Message)]
  /\ sess \in [Conns -> 0..MaxSession]
  /\ pc \in [Conns -> {"idle", "add", "send", "select", "bye", "client", "data", "eof",
                       "delete", "done"}]
  /\ peerStop \in [Conns -> 0..PeerCap]
  /\ client \in [Conns -> {"here", "eof", "reset"}]
  /\ edgeS \in 0..MaxSession
  /\ eMsg \in [msg : Message, at : {"lookup", "cache"}] \cup {Idle}
  /\ local \in [Conns -> {"none", "start", "dial", "serve", "bye", "delete", "done", "lost"}]
  /\ readChan \in [Conns -> Seq(Message)]
  /\ stop \in [Conns -> 0..StopCap]
  /\ rcv \in [Conns -> {"off", "recv", "stopping", "done"}]
  /\ wr \in [Conns -> {"off", "read", "write", "stopping", "done"}]
  /\ dropped \subseteq Conns
  /\ budget \in [Kinds -> Nat]

(* SetEdgePeerDone never waits on an exec or attach, which may sit in a read *)
(* of its client for as long as the user types nothing: edgePeerStop has a   *)
(* place for the RemoveConnect of the edge and one for the Close of the      *)
(* session, and neither comes twice.                                         *)
PeerDoneFits ==
  \A s \in Sessions : \A c \in Upgrades :
    /\ \/ reader[s] = NewMessage("remove", c)
       \/ cloud[s] = "closing" /\ c \in todo[s]
    /\ ~Ended(c)
    => peerStop[c] < PeerCap

(* The two goroutines of a logs or metrics connection never wait on Stop,    *)
(* which nobody reads once Serve has taken one token: the cloud sends one    *)
(* RemoveConnect, the stream from edged ends once, and Stop has two places.  *)
StopFits ==
  \A c \in Conns \ Upgrades :
    rcv[c] = "stopping" \/ wr[c] = "stopping" => stop[c] < StopCap

(* Close, which holds apiConnlock while it signals every connection, always  *)
(* gets to the end: no request can add itself to a session whose tunnel is   *)
(* lost, or wait for its lock for ever.                                      *)
SessionCloses == \A s \in Sessions : broken[s] /\ cloud[s] = "serve" ~> cloud[s] = "closed"

(* edged refused the request: ServeConnection ends without its goroutines.   *)
DialFailed(c) == local[c] \in {"delete", "done"} /\ rcv[c] = "off"

(* The handler of a client that has closed its connection returns, although  *)
(* an exec handler does so only on the answer of the edge, which may have    *)
(* ignored the RemoveConnect.  It does not if edged refused the request.     *)
RequestEnds == \A c \in Conns : client[c] = "eof" ~> Ended(c) \/ DialFailed(c)

(* A connection that is over in the cloud comes to an end at the edge, unless*)
(* the RemoveConnect overtook AddLocalConnection or the tunnel was lost.     *)
EdgeStops ==
  \A c \in Conns :
    <>[](pc[c] = "done" /\ local[c] \notin {"none", "done", "lost"}
           => c \in dropped \/ broken[sess[c]])
=============================================================================
