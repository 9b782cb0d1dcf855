------------------------------ MODULE EdgeHub ------------------------------
(***************************************************************************)
(* The connection loop of edgehub (Start) and the goroutines it starts for   *)
(* every connection: routeToEdge reads, routeToCloud sends what edge modules *)
(* queue, keepalive pings.  They share eh.chClient, so a goroutine of an     *)
(* earlier connection goes on with the present one, and they report an error *)
(* over the unbuffered reconnectChan and exit.                               *)
(***************************************************************************)
EXTENDS Integers

CONSTANTS
  MaxMsgs,     \* bound: messages of edge modules for the cloud
  MaxBreaks,   \* bound: broken connections
  MaxFailures, \* bound: failing Init calls
  MaxRotations \* bound: rotated certificates

ASSUME BoundsAssumption == /\ MaxMsgs \in Nat /\ MaxBreaks \in Nat
                           /\ MaxFailures \in Nat /\ MaxRotations \in Nat

VARIABLES
  pc,        \* Start: "init", "wait" on reconnectChan, "sleep"
  link,      \* chClient's connection: "nil", "up", "broken", "closed"
  readers,   \* routeToEdge goroutines
  keepers,   \* keepalive goroutines
  senders,   \* routeToCloud goroutines waiting for a message
  holding,   \* routeToCloud goroutines with a message, in tryThrottle
  blocked,   \* goroutines at "reconnectChan <-", about to exit
  rotating,  \* ifRotationDone is at "reconnectChan <-"
  queue,     \* messages waiting in edgehub's channel
  msgs, breaks, failures, rotations   \* what is left of the bounds

goroutines == <<readers, keepers, senders, holding, blocked, rotating>>
bounds == <<msgs, breaks, failures, rotations>>
vars == <<pc, link, goroutines, queue, bounds>>

Init ==
  /\ pc = "init" /\ link = "nil"
  /\ readers = 0 /\ keepers = 0 /\ senders = 0 /\ holding = 0
  /\ blocked = 0 /\ rotating = FALSE
  /\ queue = 0
  /\ msgs = MaxMsgs /\ breaks = MaxBreaks
  /\ failures = MaxFailures /\ rotations = MaxRotations

-----------------------------------------------------------------------------
(* Start: initial and chClient.Init, pubConnectInfo, three goroutines.       *)
InitSucceeds ==
  /\ pc = "init"
  /\ pc' = "wait" /\ link' = "up"
  /\ readers' = readers + 1 /\ keepers' = keepers + 1 /\ senders' = senders + 1
  /\ UNCHANGED <<holding, blocked, rotating, queue, bounds>>

(* Init fails: sleep, and "continue" to a new client.                        *)
InitFails ==
  /\ pc = "init" /\ failures > 0
  /\ failures' = failures - 1
  /\ UNCHANGED <<pc, link, goroutines, queue, msgs, breaks, rotations>>

(* A mutant of Reconnect: no signal is waited for.                         *)
ReconnectUnasked ==
  /\ pc = "wait"
  /\ blocked' = blocked - 1 /\ UNCHANGED rotating
  /\ pc' = "sleep" /\ link' = "closed"
  /\ UNCHANGED <<readers, keepers, senders, holding, queue, bounds>>

(* "<-eh.reconnectChan", then UnInit and pubConnectInfo(false).              *)
Reconnect ==
  /\ pc = "wait"
  /\ \/ blocked > 0 /\ blocked' = blocked - 1 /\ UNCHANGED rotating
     \/ rotating /\ rotating' = FALSE /\ UNCHANGED blocked
  /\ pc' = "sleep" /\ link' = "closed"
  /\ UNCHANGED <<readers, keepers, senders, holding, queue, bounds>>

(* A mutant of Clean: reconnectChan is not emptied to the end.             *)
CleanNoDefault ==
  /\ pc = "sleep" /\ readers = 0 /\ keepers = 0
  /\ blocked > 0 /\ blocked' = blocked - 1
  /\ UNCHANGED <<pc, link, readers, keepers, senders, holding, rotating, queue,
                 bounds>>

(* A mutant of Clean: the old goroutines are not waited for.               *)
CleanAtOnce ==
  /\ pc = "sleep"
  /\ blocked' = 0 /\ rotating' = FALSE
  /\ pc' = "init" /\ link' = "nil"
  /\ UNCHANGED <<readers, keepers, senders, holding, queue, bounds>>

(* After waitTime, twice the heartbeat, the reader and the keepalive have    *)
(* met the closed connection.  Then reconnectChan is emptied and initial     *)
(* gets a new client.                                                        *)
Clean ==
  /\ pc = "sleep" /\ readers = 0 /\ keepers = 0
  /\ blocked' = 0 /\ rotating' = FALSE
  /\ pc' = "init" /\ link' = "nil"
  /\ UNCHANGED <<readers, keepers, senders, holding, queue, bounds>>

-----------------------------------------------------------------------------
(* routeToEdge: Receive fails.                                               *)
ReadFails ==
  /\ readers > 0 /\ link \in {"broken", "closed"}
  /\ readers' = readers - 1 /\ blocked' = blocked + 1
  /\ UNCHANGED <<pc, link, keepers, senders, holding, rotating, queue, bounds>>

(* keepalive: the ping fails.                                                *)
PingFails ==
  /\ keepers > 0 /\ link \in {"broken", "closed"}
  /\ keepers' = keepers - 1 /\ blocked' = blocked + 1
  /\ UNCHANGED <<pc, link, readers, senders, holding, rotating, queue, bounds>>

(* routeToCloud: Receive, then tryThrottle.                                  *)
Take ==
  /\ senders > 0 /\ queue > 0
  /\ queue' = queue - 1
  /\ senders' = senders - 1 /\ holding' = holding + 1
  /\ UNCHANGED <<pc, link, readers, keepers, blocked, rotating, bounds>>

(* ... sendToCloud, over whatever client there is now.  A write to a broken  *)
(* connection may still report success.                                      *)
SendSucceeds ==
  /\ holding > 0 /\ link \in {"up", "broken"}
  /\ holding' = holding - 1 /\ senders' = senders + 1
  /\ UNCHANGED <<pc, link, readers, keepers, blocked, rotating, queue, bounds>>

SendFails ==
  /\ holding > 0 /\ link # "up"
  /\ holding' = holding - 1 /\ blocked' = blocked + 1
  /\ UNCHANGED <<pc, link, readers, keepers, senders, rotating, queue, bounds>>

-----------------------------------------------------------------------------
(* Edge modules, the network and the certificate manager.                    *)
Message ==
  /\ msgs > 0 /\ msgs' = msgs - 1
  /\ queue' = queue + 1
  /\ UNCHANGED <<pc, link, goroutines, breaks, failures, rotations>>

Break ==
  /\ link = "up" /\ breaks > 0 /\ breaks' = breaks - 1
  /\ link' = "broken"
  /\ UNCHANGED <<pc, goroutines, queue, msgs, failures, rotations>>

Rotate ==
  /\ ~rotating /\ rotations > 0 /\ rotations' = rotations - 1
  /\ rotating' = TRUE
  /\ UNCHANGED <<pc, link, readers, keepers, senders, holding, blocked, queue,
                 msgs, breaks, failures>>

Next ==
  \/ InitSucceeds \/ InitFails \/ Reconnect \/ Clean
  \/ ReadFails \/ PingFails \/ Take \/ SendSucceeds \/ SendFails
  \/ Message \/ Break \/ Rotate

Spec == Init /\ [][Next]_vars

(* Goroutines run; Init succeeds at last (its failures are bounded).         *)
Fairness ==
  /\ WF_vars(InitSucceeds) /\ WF_vars(Reconnect) /\ WF_vars(Clean)
  /\ WF_vars(ReadFails) /\ WF_vars(PingFails) /\ WF_vars(Take)
  /\ WF_vars(SendSucceeds \/ SendFails)
FairSpec == Spec /\ Fairness

-----------------------------------------------------------------------------
(* Counts of goroutines are natural numbers, and Start is at one of its      *)
(* three places.                                                             *)
TypeOK ==
  /\ pc \in {"init", "wait", "sleep"}
  /\ link \in {"nil", "up", "broken", "closed"}
  /\ {readers, keepers, senders, holding, blocked, queue} \subseteq Nat
  /\ {msgs, breaks, failures, rotations} \subseteq Nat
  /\ rotating \in BOOLEAN

(* A connection that works has its own reader and keepalive and no left-over *)
(* ones, and at least one goroutine to send the modules' messages, however   *)
(* many goroutines of earlier connections are still about.                   *)
WorkingLinkIsServed ==
  link = "up" => readers = 1 /\ keepers = 1 /\ senders + holding >= 1

(* Once the network, the certificates and the modules give no more trouble,  *)
(* edgehub connects and stays connected: the errors that several goroutines  *)
(* report for one broken connection do not break the next ones for ever.     *)
StaysConnected == <>[](pc = "wait" /\ link = "up")
=============================================================================
