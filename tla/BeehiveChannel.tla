--------------------------- MODULE BeehiveChannel ---------------------------
(***************************************************************************)
(* beehive's channel context, the message bus between the modules of one     *)
(* process.  A module has a buffered channel; a synchronous request also has *)
(* an anonymous channel, filed under the message ID, on which SendResp puts  *)
(* the answer if it is still there.  The lock anonChsLock is modelled: a     *)
(* responder holds it for reading from its lookup to its send.               *)
(***************************************************************************)
EXTENDS Integers, Sequences, FiniteSets

CONSTANTS
  Modules,   \* the modules, all of one group
  Calls,     \* the calls of Send, SendSync, SendToGroup and SendToGroupSync
  Mixes,     \* which operation each call is: the mixes to consider
  Target,    \* the module that SendSync and Send address
  ChanSize,  \* ChannelSizeDefault
  MaxTries   \* tries of the metaclient's SendSync

Kinds == {"send", "sync", "group", "groupsync", "none"}

ASSUME ChannelAssumption ==
  /\ IsFiniteSet(Modules)
  /\ Mixes \subseteq [Calls -> Kinds] /\ Target \in [Calls -> Modules]
  /\ ChanSize \in Nat \ {0} /\ MaxTries \in Nat \ {0}

(* A message in a channel.  A retry sends the same ID again.                 *)
Message == [id : Calls, try : 1 .. MaxTries]
(* A module with a request it has taken and not answered.                    *)
Work == [mod : Modules, id : Calls, try : 1 .. MaxTries]

VARIABLES
  kind,         \* kind[c]: the operation call c is, for ever; "none" for no call
  cancelled,    \* beehiveContext.Cancel was called
  channels,     \* modules in ctx.channels and in the group's map
  closed,       \* modules whose channel is closed
  queue,        \* queue[m]: the messages in m's channel
  pc,           \* pc[c]: where the calling goroutine is
  tries,        \* tries[c]: attempts begun
  result,       \* result[c]: what the present attempt returns
  anonChannels, \* calls with an entry in ctx.anonChannels
  buffer,       \* buffer[c]: the answers in the buffered anonymous channel
  members,      \* members[c]: the channels counted in channelNumber
  senders,      \* senders[c]: modules to which a goroutine of c is sending
  working,      \* requests taken and not answered
  replying,     \* answers in SendResp, the read lock held
  taken,        \* history: taken[c], the modules that received c
  answered      \* history: answered[c], the modules that began to answer c

modVars == <<kind, cancelled, channels, closed>>
callVars == <<pc, tries, result, members>>
respVars == <<working, replying, taken, answered>>
vars == <<modVars, queue, callVars, anonChannels, buffer, senders, respVars>>

Init ==
  /\ kind \in Mixes
  /\ cancelled = FALSE /\ channels = Modules /\ closed = {}
  /\ queue = [m \in Modules |-> <<>>]
  /\ pc = [c \in Calls |-> "idle"]
  /\ tries = [c \in Calls |-> 0]
  /\ result = [c \in Calls |-> "none"]
  /\ members = [c \in Calls |-> {}]
  /\ anonChannels = {}
  /\ buffer = [c \in Calls |-> {}]
  /\ senders = [c \in Calls |-> {}]
  /\ working = {} /\ replying = {}
  /\ taken = [c \in Calls |-> {}] /\ answered = [c \in Calls |-> {}]

-----------------------------------------------------------------------------
(* A send on m's channel, by the goroutine of call c.                        *)
HasRoom(m) == m \notin closed /\ Len(queue[m]) < ChanSize
Put(m, c) == queue' = [queue EXCEPT ![m] = Append(@, [id |-> c, try |-> tries[c]])]
Goto(c, where) == pc' = [pc EXCEPT ![c] = where]
GotoWith(c, where, res) == Goto(c, where) /\ result' = [result EXCEPT ![c] = res]

(* anonChsLock.Lock: no responder is between its lookup and its send.        *)
WriteLock == replying = {}

channelNumber(c) == Cardinality(members[c])

(* getChannel, or getTypeChannel and len(channelList).                       *)
Call(c) ==
  /\ pc[c] = "idle" /\ kind[c] # "none"
  /\ tries' = [tries EXCEPT ![c] = @ + 1]
  /\ CASE kind[c] \in {"sync", "send"} ->
            /\ UNCHANGED members
            /\ IF Target[c] \notin channels THEN GotoWith(c, "returned", "error")
               ELSE /\ Goto(c, IF kind[c] = "sync" THEN "register" ELSE "sending")
                    /\ UNCHANGED result
       [] OTHER ->
            /\ members' = [members EXCEPT ![c] = channels]
            /\ Goto(c, IF kind[c] = "group" THEN "spawn" ELSE "register")
            /\ UNCHANGED result
  /\ UNCHANGED <<modVars, queue, anonChannels, buffer, senders, respVars>>

(* The anonymous channel is made and filed under the message ID.             *)
Register(c) ==
  /\ pc[c] = "register" /\ WriteLock
  /\ anonChannels' = anonChannels \cup {c}
  /\ Goto(c, IF kind[c] = "sync" THEN "sending" ELSE "spawn")
  /\ UNCHANGED <<modVars, queue, tries, result, members, buffer, senders, respVars>>

(* Send and SendSync: "reqChannel <- message".  Send then returns; SendSync  *)
(* goes on to its second select, where it is not yet.                        *)
SendMessage(c) ==
  /\ pc[c] = "sending" /\ HasRoom(Target[c])
  /\ Put(Target[c], c)
  /\ IF kind[c] = "sync" THEN Goto(c, "sent") /\ UNCHANGED result
     ELSE GotoWith(c, "returned", "ok")
  /\ UNCHANGED <<modVars, tries, members, anonChannels, buffer, senders, respVars>>

(* The channel is closed: the send panics, and recover makes the call return *)
(* the zero values, an empty message and no error.                           *)
SendPanics(c) ==
  /\ pc[c] = "sending" /\ Target[c] \in closed
  /\ GotoWith(c, IF kind[c] = "sync" THEN "leaving" ELSE "returned", "empty")
  /\ UNCHANGED <<modVars, queue, tries, members, anonChannels, buffer, senders,
                 respVars>>

(* SendSync reaches the second select.                                       *)
WaitResponse(c) ==
  /\ pc[c] = "sent"
  /\ Goto(c, "receiving")
  /\ UNCHANGED <<modVars, queue, tries, result, members, anonChannels, buffer,
                 senders, respVars>>

(* time.After in either select of SendSync.                                  *)
SyncTimeout(c) ==
  /\ kind[c] = "sync" /\ pc[c] \in {"sending", "receiving"}
  /\ GotoWith(c, "leaving", "error")
  /\ UNCHANGED <<modVars, queue, tries, members, anonChannels, buffer, senders,
                 respVars>>
-----------------------------------------------------------------------------
(* SendToGroup, SendToGroupSync: "go send(channel)" for the channels that    *)
(* are in the group's map now.                                               *)
Spawn(c) ==
  /\ pc[c] = "spawn"
  /\ senders' = [senders EXCEPT ![c] = channels]
  /\ IF kind[c] = "group" THEN GotoWith(c, "returned", "ok")
     ELSE Goto(c, "polling") /\ UNCHANGED result
  /\ UNCHANGED <<modVars, queue, tries, members, anonChannels, buffer, respVars>>

(* One of those goroutines sends, or panics on a closed channel and recovers.*)
GroupSend(c, m) ==
  /\ m \in senders[c]
  /\ senders' = [senders EXCEPT ![c] = @ \ {m}]
  /\ \/ HasRoom(m) /\ Put(m, c)
     \/ m \in closed /\ UNCHANGED queue
  /\ UNCHANGED <<modVars, callVars, anonChannels, buffer, respVars>>

(* sendTimer in the goroutine.  Only the wording of the error counts it.     *)
GroupSendTimeout(c, m) ==
  /\ kind[c] = "groupsync" /\ m \in senders[c]
  /\ senders' = [senders EXCEPT ![c] = @ \ {m}]
  /\ UNCHANGED <<modVars, queue, callVars, anonChannels, buffer, respVars>>

(* A mutant of GroupAnswered: one answer may be missing.                   *)
GroupAnsweredEarly(c) ==
  /\ pc[c] = "polling" /\ Cardinality(buffer[c]) + 1 >= channelNumber(c)
  /\ GotoWith(c, "leaving", "ok")
  /\ UNCHANGED <<modVars, queue, tries, members, anonChannels, buffer, senders,
                 respVars>>

(* "len(anonChan) == channelNumber".                                         *)
GroupAnswered(c) ==
  /\ pc[c] = "polling" /\ Cardinality(buffer[c]) = channelNumber(c)
  /\ GotoWith(c, "leaving", "ok")
  /\ UNCHANGED <<modVars, queue, tries, members, anonChannels, buffer, senders,
                 respVars>>

GroupTimeout(c) ==
  /\ pc[c] = "polling"
  /\ GotoWith(c, "leaving", "error")
  /\ UNCHANGED <<modVars, queue, tries, members, anonChannels, buffer, senders,
                 respVars>>
-----------------------------------------------------------------------------
(* A mutant of Unregister: without the lock.                               *)
UnregisterUnlocked(c) ==
  /\ pc[c] = "leaving"
  /\ anonChannels' = anonChannels \ {c}
  /\ buffer' = [buffer EXCEPT ![c] = {}]
  /\ Goto(c, "returned")
  /\ UNCHANGED <<modVars, queue, tries, result, members, senders, respVars>>

(* The deferred function of SendSync, cleanup of SendToGroupSync: the entry  *)
(* is deleted and the channel closed under the lock, and drained.            *)
Unregister(c) ==
  /\ pc[c] = "leaving" /\ WriteLock
  /\ anonChannels' = anonChannels \ {c}
  /\ buffer' = [buffer EXCEPT ![c] = {}]
  /\ Goto(c, "returned")
  /\ UNCHANGED <<modVars, queue, tries, result, members, senders, respVars>>

(* A mutant of Retry: one try too many.                                    *)
RetryOnceMore(c) ==
  /\ pc[c] = "returned" /\ kind[c] = "sync"
  /\ result[c] = "error" /\ tries[c] <= MaxTries
  /\ GotoWith(c, "idle", "none")
  /\ UNCHANGED <<modVars, queue, tries, members, anonChannels, buffer, senders,
                 respVars>>

(* The metaclient's SendSync: the same message again after an error, as long *)
(* as tries are left and wait.Poll has time.                                 *)
Retry(c) ==
  /\ pc[c] = "returned" /\ kind[c] = "sync"
  /\ result[c] = "error" /\ tries[c] < MaxTries
  /\ GotoWith(c, "idle", "none")
  /\ UNCHANGED <<modVars, queue, tries, members, anonChannels, buffer, senders,
                 respVars>>

Finish(c) ==
  /\ pc[c] = "returned"
  /\ Goto(c, "done")
  /\ UNCHANGED <<modVars, queue, tries, result, members, anonChannels, buffer,
                 senders, respVars>>
-----------------------------------------------------------------------------
(* A module's loop: it stops at Done, else Receive.                          *)
Receive(m) ==
  /\ ~cancelled /\ m \in channels /\ queue[m] # <<>>
  /\ LET msg == Head(queue[m]) IN
       /\ queue' = [queue EXCEPT ![m] = Tail(@)]
       /\ working' = IF kind[msg.id] \in {"sync", "groupsync"}
                     THEN working \cup {[mod |-> m, id |-> msg.id, try |-> msg.try]}
                     ELSE working
       /\ taken' = [taken EXCEPT ![msg.id] = @ \cup {m}]
  /\ UNCHANGED <<modVars, callVars, anonChannels, buffer, senders, replying,
                 answered>>

(* SendResp: RLock and the lookup.  No entry: the answer is dropped.         *)
RespLookup(w) ==
  /\ w \in working
  /\ working' = working \ {w}
  /\ answered' = [answered EXCEPT ![w.id] = @ \cup {w.mod}]
  /\ replying' = IF w.id \in anonChannels THEN replying \cup {w} ELSE replying
  /\ UNCHANGED <<modVars, queue, callVars, anonChannels, buffer, senders, taken>>

(* A mutant of RespSend: a select without a default.                       *)
RespSendBlocking(w) ==
  /\ w \in replying
  /\ replying' = replying \ {w}
  /\ IF kind[w.id] = "sync"
     THEN /\ UNCHANGED buffer
          /\ pc[w.id] = "receiving" /\ GotoWith(w.id, "leaving", "ok")
     ELSE /\ UNCHANGED <<pc, result>>
          /\ Cardinality(buffer[w.id]) < channelNumber(w.id)
          /\ buffer' = [buffer EXCEPT ![w.id] = @ \cup {w.mod}]
  /\ UNCHANGED <<modVars, queue, tries, members, anonChannels, senders, working,
                 taken, answered>>

(* Its select, and RUnlock.  The answer of a sync call meets the caller in   *)
(* its second select or is discarded, as is one the buffer has no room for.  *)
RespSend(w) ==
  /\ w \in replying
  /\ replying' = replying \ {w}
  /\ IF kind[w.id] = "sync"
     THEN /\ UNCHANGED buffer
          /\ IF pc[w.id] = "receiving" THEN GotoWith(w.id, "leaving", "ok")
             ELSE UNCHANGED <<pc, result>>
     ELSE /\ UNCHANGED <<pc, result>>
          /\ IF Cardinality(buffer[w.id]) < channelNumber(w.id)
             THEN buffer' = [buffer EXCEPT ![w.id] = @ \cup {w.mod}]
             ELSE UNCHANGED buffer
  /\ UNCHANGED <<modVars, queue, tries, members, anonChannels, senders, working,
                 taken, answered>>
-----------------------------------------------------------------------------
(* GracefulShutdown: Cancel, then Cleanup of each module: delChannel, and    *)
(* after a pause close.                                                      *)
Cancel ==
  /\ ~cancelled
  /\ cancelled' = TRUE
  /\ UNCHANGED <<kind, channels, closed, queue, callVars, anonChannels, buffer, senders,
                 respVars>>

DelChannel(m) ==
  /\ cancelled /\ m \in channels
  /\ Modules \ channels = closed
  /\ channels' = channels \ {m}
  /\ UNCHANGED <<kind, cancelled, closed, queue, callVars, anonChannels, buffer, senders,
                 respVars>>

CloseChannel(m) ==
  /\ m \in Modules \ (channels \cup closed)
  /\ closed' = closed \cup {m}
  /\ UNCHANGED <<kind, cancelled, channels, queue, callVars, anonChannels, buffer, senders,
                 respVars>>
-----------------------------------------------------------------------------
CallerStep(c) ==
  \/ Call(c) \/ Register(c) \/ SendMessage(c) \/ SendPanics(c) \/ WaitResponse(c)
  \/ SyncTimeout(c) \/ Spawn(c) \/ GroupAnswered(c) \/ GroupTimeout(c)
  \/ Unregister(c) \/ Retry(c) \/ Finish(c)
SenderStep(c, m) == GroupSend(c, m) \/ GroupSendTimeout(c, m)
ModuleStep(m) == Receive(m) \/ DelChannel(m) \/ CloseChannel(m)

Next ==
  \/ \E c \in Calls : CallerStep(c)
  \/ \E c \in Calls, m \in Modules : SenderStep(c, m)
  \/ \E m \in Modules : ModuleStep(m)
  \/ \E w \in working : RespLookup(w)
  \/ \E w \in replying : RespSend(w)
  \/ Cancel

(* A goroutine that can go on does, timers fire, and SendResp runs to its    *)
(* end.  Nothing is assumed of how soon modules receive or answer.           *)
Fairness ==
  /\ \A c \in Calls : WF_vars(CallerStep(c))
  /\ WF_vars(\E w \in replying : RespSend(w))

Spec == Init /\ [][Next]_vars /\ Fairness
-----------------------------------------------------------------------------
(* Every variable has its type; no channel holds more than its size.         *)
TypeOK ==
  /\ kind \in [Calls -> Kinds] /\ cancelled \in BOOLEAN
  /\ channels \subseteq Modules /\ closed \subseteq Modules
  /\ queue \in [Modules -> Seq(Message)]
  /\ \A m \in Modules : Len(queue[m]) <= ChanSize
  /\ pc \in [Calls -> {"idle", "register", "sending", "sent", "receiving", "spawn",
                       "polling", "leaving", "returned", "done"}]
  /\ tries \in [Calls -> 0 .. MaxTries]
  /\ result \in [Calls -> {"none", "ok", "error", "empty"}]
  /\ members \in [Calls -> SUBSET Modules]
  /\ anonChannels \subseteq Calls
  /\ buffer \in [Calls -> SUBSET Modules] /\ senders \in [Calls -> SUBSET Modules]
  /\ working \subseteq Work /\ replying \subseteq Work
  /\ taken \in [Calls -> SUBSET Modules] /\ answered \in [Calls -> SUBSET Modules]

(* A responder past its lookup sends on a channel that is still filed, hence *)
(* open: SendResp has no recover, and a send on a channel that a caller whose*)
(* timer fired has closed would end the process.                             *)
NoSendOnClosed == \A w \in replying : w.id \in anonChannels

(* The bus implements request and reply: what a caller is told ("ok",        *)
(* "error", or the empty message of a recovered panic) is decided once, and  *)
(* "ok" is reported only when every module that owes an answer gave one to a *)
(* request it had taken.                                                     *)
RR == INSTANCE RequestReply WITH
        live <- channels,
        outcome <- [c \in Calls |-> IF pc[c] = "done" THEN result[c] ELSE "pending"]
ImplementsRequestReply == RR!AbsSpec

(* SendSync and SendToGroupSync come back, whatever the modules do: no       *)
(* responder can keep the lock that a caller needs to leave.                 *)
EveryCallReturns ==
  \A c \in Calls : kind[c] \in {"sync", "groupsync"} => <>(pc[c] = "done")
=============================================================================
