--------------------------- MODULE MCStreamTunnel ---------------------------
(* Instances of StreamTunnel for TLC.                                        *)
EXTENDS StreamTunnel

CONSTANTS l1, x1

Case(cs, b) == [conns |-> cs, budget |-> b]
None == [k \in Kinds |-> 0]

TunnelCases ==
  {Case({l1}, [None EXCEPT !["tunnel"] = 2, !["eof"] = 1, !["end"] = 1, !["break"] = 1]),
   Case({l1}, [None EXCEPT !["tunnel"] = 2, !["eof"] = 1, !["output"] = 1, !["dial"] = 1,
                           !["endpoint"] = 1]),
   Case({x1}, [None EXCEPT !["tunnel"] = 1, !["eof"] = 1, !["input"] = 1, !["dial"] = 1]),
   Case({x1}, [None EXCEPT !["tunnel"] = 1, !["reset"] = 1, !["end"] = 1]),
   Case({x1}, [None EXCEPT !["tunnel"] = 1, !["eof"] = 1, !["break"] = 1]),
   Case({l1, x1}, [None EXCEPT !["tunnel"] = 1, !["end"] = 1, !["break"] = 1])}
=============================================================================
