-------------------------- MODULE CloudHubSessions --------------------------
(***************************************************************************)
(* The life of edge-node connections in cloudhub.  Each connection has a    *)
(* goroutine (HandleConnection) that registers a message pool and a node    *)
(* session, runs the session until it is terminated, and cleans up; and a   *)
(* read loop (viaduct), started for a refused connection as well, that      *)
(* reports a read error by node ID.  The dispatcher looks pools up and      *)
(* makes missing ones.  The maps and the counter are shared; every access   *)
(* to a sync.Map or an atomic is a step of its own.                         *)
(***************************************************************************)
EXTENDS Integers, FiniteSets

CONSTANTS
  Nodes,      \* edge nodes
  Conns,      \* connections, each made once
  NodeOf,     \* the node that makes a connection
  None,       \* no session, no pool
  Made,       \* a pool made by the dispatcher, read by no session
  NodeLimits, \* the limits an instance may be configured with
  Cases,      \* bound: the sets of connections that may be made
  MaxSlow,    \* bound: keepalives that come too late, and node-deleted messages
  MaxMiss     \* bound: pools the dispatcher makes

ASSUME NodesAssumption == /\ NodeOf \in [Conns -> Nodes]
                          /\ None \notin Nodes \cup Conns \cup {Made}
                          /\ Made \notin Conns
ASSUME LimitAssumption == /\ NodeLimits \subseteq Nat /\ Cases \subseteq SUBSET Conns
                          /\ MaxSlow \in Nat /\ MaxMiss \in Nat

VARIABLES
  pc,          \* where the goroutine of each connection is
  up,          \* the transport works
  reading,     \* the read loop runs
  terminated,  \* the session's context is cancelled
  old,         \* the session AddSession has taken out of the map
  sessions,    \* Manager.NodeSessions
  NodeNumber,  \* Manager.NodeNumber
  NodeLimit,   \* Manager.NodeLimit
  pools,       \* messageDispatcher.NodeMessagePools; a session's pool has its name
  missed,      \* the node whose pool the dispatcher found missing
  slow, misses, \* what is left of MaxSlow and MaxMiss
  overlaps     \* history: the handlers that have been at work at the same time

connVars == <<up, reading, terminated>>
vars == <<pc, connVars, old, sessions, NodeNumber, NodeLimit, pools, missed, slow,
          misses, overlaps>>

Adding   == {"pool", "evict", "terminate", "uncount", "store", "count"}
Removing == {"checkpool", "deletepool", "check", "delete", "discount"}
Pcs == {"new", "limit", "refused", "run", "done"} \cup Adding \cup Removing

Init ==
  /\ \E made \in Cases : pc = [c \in Conns |-> IF c \in made THEN "new" ELSE "done"]
  /\ up = [c \in Conns |-> FALSE] /\ reading = [c \in Conns |-> FALSE]
  /\ terminated = [c \in Conns |-> FALSE]
  /\ old = [c \in Conns |-> None]
  /\ sessions = [n \in Nodes |-> None] /\ pools = [n \in Nodes |-> None]
  /\ NodeNumber = 0 /\ NodeLimit \in NodeLimits
  /\ missed = None
  /\ slow = MaxSlow /\ misses = MaxMiss
  /\ overlaps = {}

Goto(c, l) == pc' = [pc EXCEPT ![c] = l]

(* NodeSession.Terminating, once: cancel, shut the queues down, close.       *)
Terminating(s) ==
  /\ terminated' = [terminated EXCEPT ![s] = TRUE]
  /\ up' = [up EXCEPT ![s] = FALSE]

-----------------------------------------------------------------------------
(* The edge node connects when it has lost its previous connection.          *)
(* It may do so before cloudhub has cleaned up.                              *)
Settled(c) == pc[c] \in {"new", "refused", "done"}
Note(overlap, what) == overlaps' = IF overlap THEN overlaps \cup {what} ELSE overlaps

Open(c) ==
  /\ pc[c] = "new"
  /\ \A d \in Conns : NodeOf[d] = NodeOf[c] => ~up[d]
  /\ up' = [up EXCEPT ![c] = TRUE]
  /\ Note(\E d \in Conns : NodeOf[d] = NodeOf[c] /\ ~Settled(d), "node")
  /\ Goto(c, "limit")
  /\ UNCHANGED <<reading, terminated, old, sessions, NodeNumber, pools, missed,
                 slow, misses, NodeLimit>>

Break(c) ==
  /\ up[c]
  /\ up' = [up EXCEPT ![c] = FALSE]
  /\ UNCHANGED <<pc, reading, terminated, old, sessions, NodeNumber, pools,
                 missed, slow, misses, NodeLimit, overlaps>>

(* A mutant of ReachLimit: the limit is compared with > for >=.            *)
ReachLimitLate(c) ==
  /\ pc[c] = "limit"
  /\ Goto(c, IF NodeNumber > NodeLimit THEN "refused" ELSE "pool")
  /\ Note(\E d \in Conns : pc[d] \in Adding, "limit")
  /\ reading' = [reading EXCEPT ![c] = TRUE]
  /\ UNCHANGED <<up, terminated, old, sessions, NodeNumber, pools, missed, slow,
                 misses, NodeLimit>>

(* HandleConnection up to its goroutine; then the server starts the read     *)
(* loop, whatever HandleConnection has decided.                              *)
ReachLimit(c) ==
  /\ pc[c] = "limit"
  /\ Goto(c, IF NodeNumber >= NodeLimit THEN "refused" ELSE "pool")
  /\ Note(\E d \in Conns : pc[d] \in Adding, "limit")
  /\ reading' = [reading EXCEPT ![c] = TRUE]
  /\ UNCHANGED <<up, terminated, old, sessions, NodeNumber, pools, missed, slow,
                 misses, NodeLimit>>

AddNodeMessagePool(c) ==
  /\ pc[c] = "pool"
  /\ pools' = [pools EXCEPT ![NodeOf[c]] = c]
  /\ Note(missed = NodeOf[c], "pool")
  /\ Goto(c, "evict")
  /\ UNCHANGED <<connVars, old, sessions, NodeNumber, missed, slow, misses,
                 NodeLimit>>

(* A mutant of Evict: the result of LoadAndDelete is not looked at.        *)
EvictUnchecked(c) ==
  /\ pc[c] = "evict"
  /\ old' = [old EXCEPT ![c] = sessions[NodeOf[c]]]
  /\ sessions' = [sessions EXCEPT ![NodeOf[c]] = None]
  /\ Goto(c, "terminate")
  /\ UNCHANGED <<connVars, NodeNumber, pools, missed, slow, misses, NodeLimit, overlaps>>

(* AddSession: LoadAndDelete, terminate the old session and uncount it,      *)
(* Store, count.                                                             *)
Evict(c) ==
  /\ pc[c] = "evict"
  /\ old' = [old EXCEPT ![c] = sessions[NodeOf[c]]]
  /\ sessions' = [sessions EXCEPT ![NodeOf[c]] = None]
  /\ Goto(c, IF sessions[NodeOf[c]] = None THEN "store" ELSE "terminate")
  /\ UNCHANGED <<connVars, NodeNumber, pools, missed, slow, misses, NodeLimit, overlaps>>

TerminateOld(c) ==
  /\ pc[c] = "terminate"
  /\ Terminating(old[c])
  /\ Goto(c, "uncount")
  /\ UNCHANGED <<reading, old, sessions, NodeNumber, pools, missed, slow,
                 misses, NodeLimit, overlaps>>

UncountOld(c) ==
  /\ pc[c] = "uncount"
  /\ NodeNumber' = NodeNumber - 1
  /\ Goto(c, "store")
  /\ UNCHANGED <<connVars, old, sessions, pools, missed, slow, misses,
                 NodeLimit, overlaps>>

StoreSession(c) ==
  /\ pc[c] = "store"
  /\ sessions' = [sessions EXCEPT ![NodeOf[c]] = c]
  /\ Goto(c, "count")
  /\ UNCHANGED <<connVars, old, NodeNumber, pools, missed, slow, misses,
                 NodeLimit, overlaps>>

CountSession(c) ==
  /\ pc[c] = "count"
  /\ NodeNumber' = NodeNumber + 1
  /\ Goto(c, "run")
  /\ UNCHANGED <<connVars, old, sessions, pools, missed, slow, misses,
                 NodeLimit, overlaps>>

-----------------------------------------------------------------------------
(* While the session runs.  Keepalives of any connection of the node reach   *)
(* the session that is registered for it.                                    *)
Fed(c) == /\ sessions[NodeOf[c]] = c
          /\ \E d \in Conns : NodeOf[d] = NodeOf[c] /\ up[d] /\ reading[d]

(* A mutant of KeepAliveCheck: only a registered session is timed.         *)
KeepAliveCheckRegistered(c) ==
  /\ pc[c] = "run" /\ ~terminated[c] /\ sessions[NodeOf[c]] = c
  /\ \/ ~Fed(c) /\ UNCHANGED slow
     \/ Fed(c) /\ slow > 0 /\ slow' = slow - 1
  /\ Terminating(c)
  /\ UNCHANGED <<pc, reading, old, sessions, NodeNumber, pools, missed,
                 misses, NodeLimit, overlaps>>

(* A mutant of KeepAliveCheck: keepalives do not reset the timer.          *)
KeepAliveCheckDeaf(c) ==
  /\ pc[c] = "run" /\ ~terminated[c]
  /\ Terminating(c)
  /\ UNCHANGED <<pc, reading, old, sessions, NodeNumber, pools, missed, slow,
                 misses, NodeLimit, overlaps>>

KeepAliveCheck(c) ==
  /\ pc[c] = "run" /\ ~terminated[c]
  /\ \/ ~Fed(c) /\ UNCHANGED slow
     \/ Fed(c) /\ slow > 0 /\ slow' = slow - 1
  /\ Terminating(c)
  /\ UNCHANGED <<pc, reading, old, sessions, NodeNumber, pools, missed,
                 misses, NodeLimit, overlaps>>

(* SendAckMessage or SendNoAckMessage fails to write.                        *)
WriteFails(c) ==
  /\ pc[c] = "run" /\ ~terminated[c] /\ ~up[c]
  /\ Terminating(c)
  /\ UNCHANGED <<pc, reading, old, sessions, NodeNumber, pools, missed, slow,
                 misses, NodeLimit, overlaps>>

(* syncNoAckMessage meets the message that says the node was deleted.        *)
NodeStopped(c) ==
  /\ pc[c] = "run" /\ ~terminated[c]
  /\ slow > 0 /\ slow' = slow - 1
  /\ Terminating(c)
  /\ UNCHANGED <<pc, reading, old, sessions, NodeNumber, pools, missed,
                 misses, NodeLimit, overlaps>>

(* The read loop ends and reports the node, not the connection: whichever    *)
(* session is registered for the node is terminated.                         *)
OnReadTransportErr(c) ==
  /\ reading[c] /\ ~up[c]
  /\ reading' = [reading EXCEPT ![c] = FALSE]
  /\ IF sessions[NodeOf[c]] = None THEN UNCHANGED <<terminated, up>>
     ELSE Terminating(sessions[NodeOf[c]])
  /\ UNCHANGED <<pc, old, sessions, NodeNumber, pools, missed, slow, misses,
                 NodeLimit, overlaps>>

-----------------------------------------------------------------------------
(* After the session: DeleteNodeMessagePool and DeleteSession, each a look   *)
(* and then a delete.                                                        *)
Stopped(c) ==
  /\ pc[c] = "run" /\ terminated[c]
  /\ Goto(c, "checkpool")
  /\ UNCHANGED <<connVars, old, sessions, NodeNumber, pools, missed, slow,
                 misses, NodeLimit, overlaps>>

CheckPool(c) ==
  /\ pc[c] = "checkpool"
  /\ Goto(c, IF pools[NodeOf[c]] = c THEN "deletepool" ELSE "check")
  /\ UNCHANGED <<connVars, old, sessions, NodeNumber, pools, missed, slow,
                 misses, NodeLimit, overlaps>>

DeletePool(c) ==
  /\ pc[c] = "deletepool"
  /\ pools' = [pools EXCEPT ![NodeOf[c]] = None]
  /\ Goto(c, "check")
  /\ UNCHANGED <<connVars, old, sessions, NodeNumber, missed, slow, misses,
                 NodeLimit, overlaps>>

(* A mutant of CheckSession: the pool is compared, not the session.        *)
CheckSessionByPool(c) ==
  /\ pc[c] = "check"
  /\ Goto(c, IF pools[NodeOf[c]] \in {c, None} THEN "delete" ELSE "done")
  /\ UNCHANGED <<connVars, old, sessions, NodeNumber, pools, missed, slow,
                 misses, NodeLimit, overlaps>>

CheckSession(c) ==
  /\ pc[c] = "check"
  /\ Goto(c, IF sessions[NodeOf[c]] = c THEN "delete" ELSE "done")
  /\ UNCHANGED <<connVars, old, sessions, NodeNumber, pools, missed, slow,
                 misses, NodeLimit, overlaps>>

DeleteSession(c) ==
  /\ pc[c] = "delete"
  /\ sessions' = [sessions EXCEPT ![NodeOf[c]] = None]
  /\ Goto(c, "discount")
  /\ UNCHANGED <<connVars, old, NodeNumber, pools, missed, slow, misses,
                 NodeLimit, overlaps>>

(* A mutant of Discount: DeleteSession does not count.                     *)
DiscountNothing(c) ==
  /\ pc[c] = "discount"
  /\ Goto(c, "done")
  /\ UNCHANGED <<connVars, old, sessions, NodeNumber, pools, missed, slow, misses,
                 NodeLimit, overlaps>>

Discount(c) ==
  /\ pc[c] = "discount"
  /\ NodeNumber' = NodeNumber - 1
  /\ Goto(c, "done")
  /\ UNCHANGED <<connVars, old, sessions, pools, missed, slow, misses,
                 NodeLimit, overlaps>>

-----------------------------------------------------------------------------
(* A mutant of LoadPool: the pool is not looked up first.                  *)
LoadPoolAlways(n) ==
  /\ missed = None /\ misses > 0
  /\ missed' = n /\ misses' = misses - 1
  /\ UNCHANGED <<pc, connVars, old, sessions, NodeNumber, pools, slow,
                 NodeLimit, overlaps>>

(* GetNodeMessagePool of the dispatcher: Load, and Store if there is none.   *)
LoadPool(n) ==
  /\ missed = None /\ pools[n] = None /\ misses > 0
  /\ missed' = n /\ misses' = misses - 1
  /\ UNCHANGED <<pc, connVars, old, sessions, NodeNumber, pools, slow,
                 NodeLimit, overlaps>>

MakePool ==
  /\ missed # None
  /\ pools' = [pools EXCEPT ![missed] = Made]
  /\ missed' = None
  /\ UNCHANGED <<pc, connVars, old, sessions, NodeNumber, slow, misses,
                 NodeLimit, overlaps>>

HandleConnection(c) ==
  \/ ReachLimit(c) \/ AddNodeMessagePool(c) \/ Evict(c) \/ TerminateOld(c)
  \/ UncountOld(c) \/ StoreSession(c) \/ CountSession(c) \/ Stopped(c)
  \/ CheckPool(c) \/ DeletePool(c) \/ CheckSession(c) \/ DeleteSession(c)
  \/ Discount(c)

Next ==
  \/ \E c \in Conns : \/ Open(c) \/ Break(c) \/ HandleConnection(c)
                      \/ KeepAliveCheck(c) \/ WriteFails(c) \/ NodeStopped(c)
                      \/ OnReadTransportErr(c)
  \/ \E n \in Nodes : LoadPool(n)
  \/ MakePool

Spec == Init /\ [][Next]_vars

(* Goroutines run and the keepalive timer of a session that gets no          *)
(* keepalives fires.                                                         *)
Fairness == \A c \in Conns : /\ WF_vars(HandleConnection(c))
                             /\ WF_vars(OnReadTransportErr(c))
                             /\ WF_vars(KeepAliveCheck(c) /\ ~Fed(c))
FairSpec == Spec /\ Fairness

-----------------------------------------------------------------------------
(* The state has its type, and AddSession terminates only a session that it  *)
(* found in the map.                                                         *)
TypeOK ==
  /\ pc \in [Conns -> Pcs]
  /\ up \in [Conns -> BOOLEAN] /\ reading \in [Conns -> BOOLEAN]
  /\ terminated \in [Conns -> BOOLEAN]
  /\ old \in [Conns -> Conns \cup {None}]
  /\ \A c \in Conns : pc[c] = "terminate" => old[c] \in Conns
  /\ sessions \in [Nodes -> Conns \cup {None}]
  /\ NodeNumber \in Int /\ NodeLimit \in Nat
  /\ pools \in [Nodes -> Conns \cup {None, Made}]
  /\ missed \in Nodes \cup {None}
  /\ slow \in Nat /\ misses \in Nat
  /\ overlaps \subseteq {"node", "limit", "pool"}

(* Keepalives, acks and read errors are handed to the session in the map, so *)
(* a session must leave the map before its goroutine ends, however           *)
(* AddSession and DeleteSession of the node's connections interleave.        *)
InMap == {"count", "run", "checkpool", "deletepool", "check", "delete"}
NoDeadSession ==
  \A n \in Nodes : \A c \in Conns :
     sessions[n] = c => NodeOf[c] = n /\ pc[c] \in InMap

(* A session whose connection is lost, or that has dropped out of the map    *)
(* (so nothing can reach it), does not keep its goroutines for ever: it is   *)
(* terminated and cleaned up.  One thing can keep a dead session in the map: *)
(* the keepalives of a later connection of the node that was refused by the  *)
(* limit and is served all the same.                                         *)
KeptByRefused(c) ==
  \E d \in Conns : NodeOf[d] = NodeOf[c] /\ pc[d] = "refused" /\ up[d]
SessionsEnd ==
  \A c \in Conns :
     (pc[c] = "run" /\ (~up[c] \/ sessions[NodeOf[c]] # c))
        ~> (pc[c] = "done" \/ KeptByRefused(c))

(* NodeNumber is the number of connected nodes, whenever no connection is in *)
(* the middle of AddSession or of the cleanup, as long as no node has        *)
(* reconnected before the goroutine of its previous connection has ended:    *)
(* AddSession and DeleteSession look and change in separate steps and do not *)
(* exclude each other.                                                       *)
NumberExact ==
  "node" \notin overlaps /\ (\A c \in Conns : pc[c] \notin Adding \cup Removing)
     => NodeNumber = Cardinality({n \in Nodes : sessions[n] # None})

(* cloudhub serves no more nodes than NodeLimit, as long as no connection    *)
(* was compared with the limit while another one, already admitted, was not  *)
(* counted yet, and no node has reconnected too early.                       *)
LimitRespected ==
  overlaps \cap {"node", "limit"} = {}
     => Cardinality({n \in Nodes : sessions[n] # None}) <= NodeLimit

(* The dispatcher puts a node's messages into the pool that its running      *)
(* session reads, as long as the dispatcher had not found the pool missing   *)
(* just before the session registered its own, and the node has not          *)
(* reconnected too early: neither a look that is stale nor the cleanup of an *)
(* earlier session takes the pool away.                                      *)
PoolIsRead ==
  overlaps \cap {"node", "pool"} = {}
     => \A c \in Conns : pc[c] \in Adding \cup {"run"} /\ pc[c] # "pool"
                            => pools[NodeOf[c]] = c

(* The registered session of a working connection whose keepalives come in   *)
(* time keeps running, as long as no earlier connection of the node still    *)
(* has a read error to report: OnReadTransportErr is told the node, not the  *)
(* connection, and ends whichever session is registered.                     *)
HealthyKeepsRunning ==
  [][\A c \in Conns :
       /\ pc[c] = "run" /\ up[c] /\ sessions[NodeOf[c]] = c /\ slow' = slow
       /\ \A d \in Conns : NodeOf[d] = NodeOf[c] /\ reading[d] => up[d]
       => terminated'[c] = terminated[c]]_vars
=============================================================================
