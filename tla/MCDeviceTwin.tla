---------------------------- MODULE MCDeviceTwin ----------------------------
(***************************************************************************)
(* Instances of DeviceTwin for TLC.                                        *)
(***************************************************************************)
EXTENDS DeviceTwin

CONSTANTS d1, d2

MCDevices == {d1, d2}
MCKnown == {d1}
MCVals == {0, 1}
MCObjects == {"o1", "o2", "o3", "o4", "o5"}
MCMutexes == {"m1", "m2", "m3", "m4", "m5", "m6"}
WorkerBudgets == {[msgs |-> 2, mems |-> 1, fails |-> 0], [msgs |-> 1, mems |-> 1, fails |-> 1],
                  [msgs |-> 2, mems |-> 0, fails |-> 2], [msgs |-> 1, mems |-> 2, fails |-> 0],
                  [msgs |-> 0, mems |-> 2, fails |-> 1], [msgs |-> 3, mems |-> 0, fails |-> 0]}
UnlockBudgets == {[msgs |-> 1, mems |-> 1, fails |-> 0]}
=============================================================================
