--------------------------- MODULE MCReliableSync ---------------------------
(* Instances of ReliableSync for TLC.                                        *)
EXTENDS ReliableSync, TLC

CONSTANTS u1, u2, u3, n1, n2

(* One object; and a pod that is deleted and created again beside it.        *)
OneObject == (u1 :> n1)
PodAndObject == (u1 :> n1) @@ (u2 :> n2) @@ (u3 :> n2)

(* What may happen to which objects, and how often.                          *)
Case(objects, budget1) == [objects |-> objects, budget |-> budget1]
None == [k \in Kinds |-> 0]
Updated == [None EXCEPT !["update"] = 1]

DeliveryCases  == {Case({u1}, [Updated EXCEPT !["late"] = 1, !["disconnect"] = 1, !["reorder"] = 1]),
                   Case({u1}, [Updated EXCEPT !["late"] = 1, !["delete"] = 1])}
Shuffled       == [None EXCEPT !["reorder"] = 1]
SafetyCases    == {Case({u1}, [Shuffled EXCEPT !["update"] = 1, !["delete"] = 1, !["api"] = 1, !["crash"] = 1]),
                   Case({u1}, [Shuffled EXCEPT !["update"] = 1, !["terminate"] = 1, !["query"] = 1, !["edge"] = 2]),
                   Case({u2, u3}, [Shuffled EXCEPT !["delete"] = 1])}
ReconnectCases == {Case({u1}, [Updated EXCEPT !["disconnect"] = 1])}
CrashCases     == {Case({u1}, [Updated EXCEPT !["crash"] = 1])}
=============================================================================
