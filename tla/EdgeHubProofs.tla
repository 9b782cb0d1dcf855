--------------------------- MODULE EdgeHubProofs ---------------------------
(* Whatever fails and however often edgehub reconnects, a working connection *)
(* is served by exactly one reader and one keepalive.                        *)
EXTENDS EdgeHub, TLAPS

(* The place of Start determines the state of the connection, and when Start *)
(* dials again no reader and no keepalive is left.                           *)
LoopInv ==
  /\ TypeOK
  /\ pc = "init" => link = "nil" /\ readers = 0 /\ keepers = 0
  /\ pc = "wait" => link \in {"up", "broken"}
  /\ pc = "sleep" => link = "closed"
  /\ WorkingLinkIsServed

(* Each step keeps the loop's invariant.                                     *)
LEMMA LoopStep == ASSUME LoopInv, [Next]_vars PROVE LoopInv'
<1> USE DEF LoopInv, TypeOK, WorkingLinkIsServed, goroutines, bounds
<1>1. CASE UNCHANGED vars
  BY <1>1, ZenonT(30) DEF vars
<1>2. CASE InitSucceeds
  BY <1>2 DEF InitSucceeds
<1>3. CASE InitFails
  BY <1>3 DEF InitFails
<1>4. CASE Reconnect
  <2>1. rotating' \in BOOLEAN
    BY <1>4, ZenonT(30) DEF Reconnect
  <2>2. CASE blocked > 0 /\ blocked' = blocked - 1
    BY <1>4, <2>1, <2>2 DEF Reconnect
  <2>3. CASE blocked' = blocked
    BY <1>4, <2>1, <2>3, ZenonT(30) DEF Reconnect
  <2> QED
    BY <1>4, <2>2, <2>3, ZenonT(30) DEF Reconnect
<1>5. CASE Clean
  BY <1>5, ZenonT(30) DEF Clean
<1>6. CASE ReadFails
  BY <1>6 DEF ReadFails
<1>7. CASE PingFails
  BY <1>7 DEF PingFails
<1>8. CASE Take
  BY <1>8 DEF Take
<1>9. CASE SendSucceeds
  BY <1>9 DEF SendSucceeds
<1>10. CASE SendFails
  BY <1>10 DEF SendFails
<1>11. CASE Message
  BY <1>11 DEF Message
<1>12. CASE Break
  BY <1>12 DEF Break
<1>13. CASE Rotate
  BY <1>13 DEF Rotate
<1> QED
  BY <1>1, <1>2, <1>3, <1>4, <1>5, <1>6, <1>7, <1>8, <1>9, <1>10, <1>11,
     <1>12, <1>13, ZenonT(30) DEF Next

(* The loop's invariant holds for any number of messages, breaks, failing    *)
(* Inits and certificate rotations.                                          *)
LEMMA LoopAlways == Spec => []LoopInv
<1>1. Init => LoopInv
  <2> HAVE Init
  <2>1. rotating \in BOOLEAN
    BY Zenon DEF Init
  <2> QED
    BY <2>1, BoundsAssumption DEF Init, LoopInv, TypeOK, WorkingLinkIsServed
<1>2. LoopInv /\ [Next]_vars => LoopInv'
  BY LoopStep, ZenonT(30)
<1> QED
  BY <1>1, <1>2, PTL DEF Spec

(* Type correctness: no goroutine is counted below zero, in particular Start *)
(* never receives from reconnectChan what nobody sends.                      *)
THEOREM LoopTyped == Spec => []TypeOK
<1>1. LoopInv => TypeOK
  BY ZenonT(30) DEF LoopInv
<1> QED
  BY <1>1, LoopAlways, PTL

(* A connection that works has exactly one reader and one keepalive, and a   *)
(* goroutine to send, however often edgehub reconnects.                      *)
THEOREM LinkServed == Spec => []WorkingLinkIsServed
<1>1. LoopInv => WorkingLinkIsServed
  BY ZenonT(30) DEF LoopInv
<1> QED
  BY <1>1, LoopAlways, PTL
=============================================================================
