---------------------------- MODULE RequestReply ----------------------------
(***************************************************************************)
(* What the beehive message bus promises the callers of its send operations: *)
(* a call has one outcome, and a call that reports success was answered by   *)
(* every module that owes it an answer, each of which had taken the request. *)
(***************************************************************************)
CONSTANTS
  Calls,    \* the calls, each with a message ID of its own
  Modules,  \* the modules of the group
  Mixes,    \* the mixes of operations to consider
  Target    \* the module SendSync and Send address

VARIABLES
  kind,     \* the operation of each call
  live,     \* modules that have not been cleaned up
  taken,    \* taken[c]: modules that received the message of call c
  answered, \* answered[c]: modules that have begun to answer call c
  outcome   \* outcome[c]: "pending" until the call returns

absVars == <<kind, live, taken, answered, outcome>>

Outcomes == {"ok", "error", "empty"}

(* The modules without whose answer call c does not succeed.                 *)
Owe(c) ==
  CASE kind[c] = "sync"      -> {Target[c]}
    [] kind[c] = "groupsync" -> live
    [] OTHER                   -> {}

AbsInit ==
  /\ kind \in Mixes /\ live = Modules
  /\ taken = [c \in Calls |-> {}] /\ answered = [c \in Calls |-> {}]
  /\ outcome = [c \in Calls |-> "pending"]

Take(c, m) ==
  /\ taken' = [taken EXCEPT ![c] = @ \cup {m}]
  /\ UNCHANGED <<kind, live, answered, outcome>>

Answer(c, m) ==
  /\ m \in taken[c]
  /\ answered' = [answered EXCEPT ![c] = @ \cup {m}]
  /\ UNCHANGED <<kind, live, taken, outcome>>

(* "empty" is the zero message with a nil error: a send that met a closed    *)
(* channel, which only a module that is gone has.                            *)
Return(c, o) ==
  /\ outcome[c] = "pending"
  /\ o = "ok" => Owe(c) \subseteq answered[c]
  /\ o = "empty" => Target[c] \notin live
  /\ outcome' = [outcome EXCEPT ![c] = o]
  /\ UNCHANGED <<kind, live, taken, answered>>

Leave(m) ==
  /\ live' = live \ {m}
  /\ UNCHANGED <<kind, taken, answered, outcome>>

AbsNext ==
  \/ \E c \in Calls, m \in Modules : Take(c, m) \/ Answer(c, m)
  \/ \E c \in Calls, o \in Outcomes : Return(c, o)
  \/ \E m \in Modules : Leave(m)

AbsSpec == AbsInit /\ [][AbsNext]_absVars
=============================================================================
