------------------------ MODULE BeehiveChannelProofs ------------------------
(***************************************************************************)
(* Proofs about BeehiveChannel, for any modules, calls, channel size and     *)
(* number of tries: the types, that no answer is sent on a closed channel,   *)
(* and that the bus implements RequestReply.                                 *)
(***************************************************************************)
EXTENDS BeehiveChannel, FiniteSetTheorems, TLAPS

(* Where a message of call c may be.                                         *)
Routed(c, m) ==
  /\ kind[c] = "sync" => m = Target[c]
  /\ kind[c] = "groupsync" => m \in members[c]

(* Messages and answers are with modules their call addressed, and what is   *)
(* being answered was taken.                                                 *)
MessagesRouted ==
  /\ \A m \in Modules : \A i \in 1 .. Len(queue[m]) : Routed(queue[m][i].id, m)
  /\ \A w \in working \cup replying : Routed(w.id, w.mod) /\ w.mod \in taken[w.id]
  /\ \A w \in replying : w.mod \in answered[w.id]

(* What a call has started and collected fits the place it has reached.      *)
CallConsistent(c) ==
  /\ kind[c] = "groupsync" =>
       /\ senders[c] \subseteq members[c]
       /\ buffer[c] \subseteq members[c] \cap answered[c]
       /\ IF pc[c] = "idle" THEN members[c] = {} ELSE channels \subseteq members[c]
  /\ kind[c] \in {"sync", "send", "none"} => senders[c] = {}
  /\ pc[c] = "register" => kind[c] \in {"sync", "groupsync"}
  /\ pc[c] = "sending" => kind[c] \in {"sync", "send"}
  /\ pc[c] \in {"spawn", "polling"} => kind[c] \in {"group", "groupsync"}
  /\ pc[c] = "polling" => kind[c] = "groupsync"
  /\ pc[c] \in {"leaving", "returned", "done"} => result[c] # "none"
  /\ IF pc[c] = "idle" THEN tries[c] < MaxTries ELSE tries[c] >= 1
  /\ senders[c] # {} => tries[c] >= 1

(* What a call may report.                                                   *)
ResultJustified(c) ==
  /\ result[c] = "ok" /\ kind[c] = "sync" => Target[c] \in answered[c]
  /\ result[c] = "ok" /\ kind[c] = "groupsync" => channels \subseteq answered[c]
  /\ result[c] = "empty" => Target[c] \notin channels

ClosedAreGone == closed \cap channels = {}

IInv ==
  /\ TypeOK /\ NoSendOnClosed /\ MessagesRouted /\ ClosedAreGone
  /\ \A c \in Calls : CallConsistent(c) /\ ResultJustified(c)
-----------------------------------------------------------------------------
(* A send appends one message of its call to one channel.                    *)
LEMMA PutQueue ==
  ASSUME TypeOK, NEW c \in Calls, NEW m \in Modules, tries[c] >= 1,
         HasRoom(m), Put(m, c)
  PROVE  /\ queue' \in [Modules -> Seq(Message)]
         /\ \A n \in Modules : Len(queue'[n]) <= ChanSize
         /\ \A n \in Modules : \A i \in 1 .. Len(queue'[n]) :
              \/ i \in 1 .. Len(queue[n]) /\ queue'[n][i] = queue[n][i]
              \/ n = m /\ queue'[n][i].id = c
<1> DEFINE msg == [id |-> c, try |-> tries[c]]
<1>1. msg \in Message BY ChannelAssumption DEF TypeOK, Message
<1> HIDE DEF msg
<1>2. queue' = [queue EXCEPT ![m] = Append(@, msg)] BY ZenonT(30) DEF Put, msg
<1>3. queue[m] \in Seq(Message) /\ Len(queue[m]) < ChanSize BY ZenonT(30) DEF TypeOK, HasRoom
<1>4. /\ Append(queue[m], msg) \in Seq(Message)
      /\ Len(Append(queue[m], msg)) = Len(queue[m]) + 1
      /\ \A i \in 1 .. Len(queue[m]) : Append(queue[m], msg)[i] = queue[m][i]
      /\ Append(queue[m], msg)[Len(queue[m]) + 1] = msg
  BY <1>1, <1>3
<1>5. msg.id = c BY ZenonT(30) DEF msg
<1>6. queue' \in [Modules -> Seq(Message)] BY <1>2, <1>4, ZenonT(30) DEF TypeOK
<1>7. \A n \in Modules : Len(queue'[n]) <= ChanSize
  BY <1>2, <1>3, <1>4, ChannelAssumption DEF TypeOK
<1>8. ASSUME NEW n \in Modules, NEW i \in 1 .. Len(queue'[n])
      PROVE  \/ i \in 1 .. Len(queue[n]) /\ queue'[n][i] = queue[n][i]
             \/ n = m /\ queue'[n][i].id = c
  BY <1>2, <1>3, <1>4, <1>5, <1>8 DEF TypeOK
<1> QED BY <1>6, <1>7, <1>8, ZenonT(30)

(* A receive takes the first message of one channel.                         *)
LEMMA TakeQueue ==
  ASSUME TypeOK, NEW m \in Modules, queue[m] # <<>>,
         queue' = [queue EXCEPT ![m] = Tail(@)]
  PROVE  /\ Head(queue[m]) \in Message /\ Head(queue[m]) = queue[m][1]
         /\ 1 \in 1 .. Len(queue[m])
         /\ queue' \in [Modules -> Seq(Message)]
         /\ \A n \in Modules : Len(queue'[n]) <= ChanSize
         /\ \A n \in Modules : \A i \in 1 .. Len(queue'[n]) :
              \E j \in 1 .. Len(queue[n]) : queue'[n][i] = queue[n][j]
<1>1. queue[m] \in Seq(Message) /\ Len(queue[m]) <= ChanSize BY ZenonT(30) DEF TypeOK
<1>2. /\ Head(queue[m]) \in Message /\ Head(queue[m]) = queue[m][1]
      /\ 1 \in 1 .. Len(queue[m])
      /\ Tail(queue[m]) \in Seq(Message)
      /\ Len(Tail(queue[m])) = Len(queue[m]) - 1
      /\ \A i \in 1 .. Len(Tail(queue[m])) :
           i + 1 \in 1 .. Len(queue[m]) /\ Tail(queue[m])[i] = queue[m][i + 1]
  BY <1>1
<1>3. queue' \in [Modules -> Seq(Message)] BY <1>2, ZenonT(30) DEF TypeOK
<1>4. \A n \in Modules : Len(queue'[n]) <= ChanSize
  BY <1>1, <1>2, ChannelAssumption DEF TypeOK
<1>5. ASSUME NEW n \in Modules, NEW i \in 1 .. Len(queue'[n])
      PROVE  \E j \in 1 .. Len(queue[n]) : queue'[n][i] = queue[n][j]
  <2>1. CASE n = m BY <1>2, <1>5, <2>1, ZenonT(30) DEF TypeOK
  <2>2. CASE n # m BY <1>5, <2>2, ZenonT(30) DEF TypeOK
  <2> QED BY <2>1, <2>2, ZenonT(30)
<1> QED BY <1>2, <1>3, <1>4, <1>5, ZenonT(30)

(* What is under way belongs to calls and modules.                           *)
LEMMA InRange ==
  ASSUME TypeOK
  PROVE  /\ \A n \in Modules : \A i \in 1 .. Len(queue[n]) : queue[n][i].id \in Calls
         /\ \A w \in working \cup replying : w.id \in Calls /\ w.mod \in Modules
<1>1. ASSUME NEW n \in Modules, NEW i \in 1 .. Len(queue[n])
      PROVE  queue[n][i].id \in Calls
  <2>1. queue[n] \in Seq(Message) BY ZenonT(30) DEF TypeOK
  <2>2. queue[n][i] \in Message BY <2>1
  <2> QED BY <2>2, ZenonT(30) DEF Message
<1>2. \A w \in working \cup replying : w.id \in Calls /\ w.mod \in Modules
  BY ZenonT(30) DEF TypeOK, Work
<1> QED BY <1>1, <1>2, ZenonT(30)

(* A call begins.                                                            *)
LEMMA CallInv ==
  ASSUME IInv, NEW c \in Calls, Call(c)
  PROVE  IInv'
<1> USE ChannelAssumption DEF Call, Goto, GotoWith, modVars, respVars, Kinds
<1>1. TypeOK'
  <2>1. tries[c] < MaxTries /\ tries[c] \in Nat BY DEF IInv, TypeOK, CallConsistent
  <2>2. tries' \in [Calls -> 0 .. MaxTries] BY <2>1 DEF IInv, TypeOK
  <2>3. members' \in [Calls -> SUBSET Modules] BY ZenonT(30) DEF IInv, TypeOK
  <2>4. /\ pc' \in [Calls -> {"idle", "register", "sending", "sent", "receiving",
                              "spawn", "polling", "leaving", "returned", "done"}]
        /\ result' \in [Calls -> {"none", "ok", "error", "empty"}]
    BY ZenonT(30) DEF IInv, TypeOK
  <2> QED BY <2>2, <2>3, <2>4, ZenonT(30) DEF IInv, TypeOK
<1>2. NoSendOnClosed' BY ZenonT(30) DEF IInv, TypeOK, NoSendOnClosed, WriteLock
<1>3. MessagesRouted'
  <2>1. ASSUME NEW x \in Calls, NEW m \in Modules, Routed(x, m) PROVE Routed(x, m)'
    BY <2>1, ZenonT(30) DEF IInv, TypeOK, Routed, CallConsistent
  <2>2. \A m \in Modules : \A i \in 1 .. Len(queue[m]) : queue[m][i].id \in Calls
    BY InRange, ZenonT(30) DEF IInv
  <2>3. \A w \in working \cup replying : w.id \in Calls /\ w.mod \in Modules
    BY InRange, ZenonT(30) DEF IInv
  <2> HIDE DEF Call
  <2>4. UNCHANGED <<queue, working, replying, taken, answered>> BY ZenonT(30) DEF Call
  <2> QED BY <2>1, <2>2, <2>3, <2>4, ZenonT(30) DEF IInv, MessagesRouted
<1>4. ClosedAreGone' BY ZenonT(30) DEF IInv, TypeOK, ClosedAreGone
<1>5. ASSUME NEW x \in Calls PROVE CallConsistent(x)'
  BY <1>5 DEF IInv, TypeOK, CallConsistent, MessagesRouted, Routed, Work
<1>6. ASSUME NEW x \in Calls PROVE ResultJustified(x)'
  BY <1>6, SMTT(30) DEF IInv, TypeOK, CallConsistent, ResultJustified, MessagesRouted, Routed,
               ClosedAreGone, Work
<1> QED BY <1>1, <1>2, <1>3, <1>4, <1>5, <1>6, ZenonT(30) DEF IInv

(* A call files its anonymous channel.                                       *)
LEMMA RegisterInv ==
  ASSUME IInv, NEW c \in Calls, Register(c)
  PROVE  IInv'
<1> USE ChannelAssumption DEF Register, Goto, modVars, respVars
<1>1. TypeOK' BY ZenonT(30) DEF IInv, TypeOK, Message, Work, CallConsistent
<1>2. NoSendOnClosed' BY ZenonT(30) DEF IInv, TypeOK, NoSendOnClosed, WriteLock
<1>3. MessagesRouted'
  BY DEF IInv, TypeOK, MessagesRouted, Routed, CallConsistent, Message, Work
<1>4. ClosedAreGone' BY ZenonT(30) DEF IInv, TypeOK, ClosedAreGone
<1>5. ASSUME NEW x \in Calls PROVE CallConsistent(x)'
  BY <1>5, ZenonT(30) DEF IInv, TypeOK, CallConsistent, MessagesRouted, Routed, Work
<1>6. ASSUME NEW x \in Calls PROVE ResultJustified(x)'
  BY <1>6, SMTT(30) DEF IInv, TypeOK, CallConsistent, ResultJustified, MessagesRouted, Routed,
               ClosedAreGone, Work
<1> QED BY <1>1, <1>2, <1>3, <1>4, <1>5, <1>6, ZenonT(30) DEF IInv

(* A message is queued.                                                      *)
LEMMA SendMessageInv ==
  ASSUME IInv, NEW c \in Calls, SendMessage(c)
  PROVE  IInv'
<1> USE ChannelAssumption DEF SendMessage, HasRoom, Put, Goto, GotoWith, modVars, respVars
<1>0. /\ tries[c] >= 1 /\ Target[c] \in Modules
      /\ Routed(c, Target[c])
  BY ZenonT(30) DEF IInv, CallConsistent, Routed
<1>q. /\ queue' \in [Modules -> Seq(Message)]
      /\ \A n \in Modules : Len(queue'[n]) <= ChanSize
      /\ \A n \in Modules : \A i \in 1 .. Len(queue'[n]) :
           \/ i \in 1 .. Len(queue[n]) /\ queue'[n][i] = queue[n][i]
           \/ n = Target[c] /\ queue'[n][i].id = c
  <2> HIDE DEF HasRoom, Put
  <2> QED BY <1>0, PutQueue DEF IInv
<1> HIDE DEF Put
<1>1. TypeOK' BY <1>q, ZenonT(30) DEF IInv, TypeOK
<1>2. NoSendOnClosed' BY ZenonT(30) DEF IInv, TypeOK, NoSendOnClosed, WriteLock
<1>3. MessagesRouted'
  <2>1. \A n \in Modules, x \in Calls : Routed(x, n)' <=> Routed(x, n)
    BY ZenonT(30) DEF Routed
  <2>2. \A n \in Modules : \A i \in 1 .. Len(queue[n]) : queue[n][i].id \in Calls
    BY InRange, ZenonT(30) DEF IInv
  <2>3. \A w \in working \cup replying : w.id \in Calls /\ w.mod \in Modules
    BY InRange, ZenonT(30) DEF IInv
  <2> HIDE DEF SendMessage
  <2>4. UNCHANGED <<working, replying, taken, answered>> BY ZenonT(30) DEF SendMessage
  <2> QED BY <1>0, <1>q, <2>1, <2>2, <2>3, <2>4, ZenonT(30) DEF IInv, MessagesRouted
<1>4. ClosedAreGone' BY ZenonT(30) DEF IInv, TypeOK, ClosedAreGone
<1>5. ASSUME NEW x \in Calls PROVE CallConsistent(x)'
  BY <1>5 DEF IInv, TypeOK, CallConsistent, MessagesRouted, Routed, Work
<1>6. ASSUME NEW x \in Calls PROVE ResultJustified(x)'
  BY <1>6, SMTT(30) DEF IInv, TypeOK, CallConsistent, ResultJustified, MessagesRouted, Routed,
               ClosedAreGone, Work
<1> QED BY <1>1, <1>2, <1>3, <1>4, <1>5, <1>6, ZenonT(30) DEF IInv

(* A send meets a closed channel.                                            *)
LEMMA SendPanicsInv ==
  ASSUME IInv, NEW c \in Calls, SendPanics(c)
  PROVE  IInv'
<1> USE ChannelAssumption DEF SendPanics, Goto, GotoWith, modVars, respVars
<1>1. TypeOK' BY ZenonT(30) DEF IInv, TypeOK, Message, Work, CallConsistent
<1>2. NoSendOnClosed' BY ZenonT(30) DEF IInv, TypeOK, NoSendOnClosed, WriteLock
<1>3. MessagesRouted'
  BY DEF IInv, TypeOK, MessagesRouted, Routed, CallConsistent, Message, Work
<1>4. ClosedAreGone' BY ZenonT(30) DEF IInv, TypeOK, ClosedAreGone
<1>5. ASSUME NEW x \in Calls PROVE CallConsistent(x)'
  BY <1>5, ZenonT(30) DEF IInv, TypeOK, CallConsistent, MessagesRouted, Routed, Work
<1>6. ASSUME NEW x \in Calls PROVE ResultJustified(x)'
  BY <1>6, SMTT(30) DEF IInv, TypeOK, CallConsistent, ResultJustified, MessagesRouted, Routed,
               ClosedAreGone, Work
<1> QED BY <1>1, <1>2, <1>3, <1>4, <1>5, <1>6, ZenonT(30) DEF IInv

(* SendSync reaches its second select.                                       *)
LEMMA WaitResponseInv ==
  ASSUME IInv, NEW c \in Calls, WaitResponse(c)
  PROVE  IInv'
<1> USE ChannelAssumption DEF WaitResponse, Goto, modVars, respVars
<1>1. TypeOK' BY ZenonT(30) DEF IInv, TypeOK, Message, Work, CallConsistent
<1>2. NoSendOnClosed' BY ZenonT(30) DEF IInv, TypeOK, NoSendOnClosed, WriteLock
<1>3. MessagesRouted'
  BY DEF IInv, TypeOK, MessagesRouted, Routed, CallConsistent, Message, Work
<1>4. ClosedAreGone' BY ZenonT(30) DEF IInv, TypeOK, ClosedAreGone
<1>5. ASSUME NEW x \in Calls PROVE CallConsistent(x)'
  BY <1>5, ZenonT(30) DEF IInv, TypeOK, CallConsistent, MessagesRouted, Routed, Work
<1>6. ASSUME NEW x \in Calls PROVE ResultJustified(x)'
  BY <1>6, SMTT(30) DEF IInv, TypeOK, CallConsistent, ResultJustified, MessagesRouted, Routed,
               ClosedAreGone, Work
<1> QED BY <1>1, <1>2, <1>3, <1>4, <1>5, <1>6, ZenonT(30) DEF IInv

(* SendSync gives up.                                                        *)
LEMMA SyncTimeoutInv ==
  ASSUME IInv, NEW c \in Calls, SyncTimeout(c)
  PROVE  IInv'
<1> USE ChannelAssumption DEF SyncTimeout, Goto, GotoWith, modVars, respVars
<1>1. TypeOK' BY ZenonT(30) DEF IInv, TypeOK, Message, Work, CallConsistent
<1>2. NoSendOnClosed' BY ZenonT(30) DEF IInv, TypeOK, NoSendOnClosed, WriteLock
<1>3. MessagesRouted'
  BY DEF IInv, TypeOK, MessagesRouted, Routed, CallConsistent, Message, Work
<1>4. ClosedAreGone' BY ZenonT(30) DEF IInv, TypeOK, ClosedAreGone
<1>5. ASSUME NEW x \in Calls PROVE CallConsistent(x)'
  BY <1>5, ZenonT(30) DEF IInv, TypeOK, CallConsistent, MessagesRouted, Routed, Work
<1>6. ASSUME NEW x \in Calls PROVE ResultJustified(x)'
  BY <1>6, SMTT(30) DEF IInv, TypeOK, CallConsistent, ResultJustified, MessagesRouted, Routed,
               ClosedAreGone, Work
<1> QED BY <1>1, <1>2, <1>3, <1>4, <1>5, <1>6, ZenonT(30) DEF IInv

(* A broadcast starts its goroutines.                                        *)
LEMMA SpawnInv ==
  ASSUME IInv, NEW c \in Calls, Spawn(c)
  PROVE  IInv'
<1> USE ChannelAssumption DEF Spawn, Goto, GotoWith, modVars, respVars
<1>1. TypeOK' BY ZenonT(30) DEF IInv, TypeOK, Message, Work, CallConsistent
<1>2. NoSendOnClosed' BY ZenonT(30) DEF IInv, TypeOK, NoSendOnClosed, WriteLock
<1>3. MessagesRouted'
  BY DEF IInv, TypeOK, MessagesRouted, Routed, CallConsistent, Message, Work
<1>4. ClosedAreGone' BY ZenonT(30) DEF IInv, TypeOK, ClosedAreGone
<1>5. ASSUME NEW x \in Calls PROVE CallConsistent(x)'
  BY <1>5 DEF IInv, TypeOK, CallConsistent, MessagesRouted, Routed, Work
<1>6. ASSUME NEW x \in Calls PROVE ResultJustified(x)'
  BY <1>6, SMTT(30) DEF IInv, TypeOK, CallConsistent, ResultJustified, MessagesRouted, Routed,
               ClosedAreGone, Work
<1> QED BY <1>1, <1>2, <1>3, <1>4, <1>5, <1>6, ZenonT(30) DEF IInv

(* A goroutine of a broadcast sends.                                         *)
LEMMA GroupSendInv ==
  ASSUME IInv, NEW c \in Calls, NEW m \in Modules, GroupSend(c, m)
  PROVE  IInv'
<1> USE ChannelAssumption DEF GroupSend, HasRoom, Put, modVars, callVars, respVars
<1>0. tries[c] >= 1 /\ Routed(c, m)
  BY ZenonT(30) DEF IInv, TypeOK, CallConsistent, Routed
<1>q. /\ queue' \in [Modules -> Seq(Message)]
      /\ \A n \in Modules : Len(queue'[n]) <= ChanSize
      /\ \A n \in Modules : \A i \in 1 .. Len(queue'[n]) :
           \/ i \in 1 .. Len(queue[n]) /\ queue'[n][i] = queue[n][i]
           \/ n = m /\ queue'[n][i].id = c
  <2>1. CASE HasRoom(m) /\ Put(m, c)
    <3> HIDE DEF HasRoom, Put
    <3> QED BY <1>0, <2>1, PutQueue, ZenonT(30) DEF IInv
  <2>2. CASE UNCHANGED queue BY <2>2, ZenonT(30) DEF IInv, TypeOK
  <2> QED BY <2>1, <2>2, ZenonT(30)
<1> HIDE DEF Put
<1>1. TypeOK' BY <1>q, ZenonT(30) DEF IInv, TypeOK
<1>2. NoSendOnClosed' BY ZenonT(30) DEF IInv, TypeOK, NoSendOnClosed, WriteLock
<1>3. MessagesRouted'
  <2>1. \A n \in Modules, x \in Calls : Routed(x, n)' <=> Routed(x, n)
    BY ZenonT(30) DEF Routed
  <2>2. \A n \in Modules : \A i \in 1 .. Len(queue[n]) : queue[n][i].id \in Calls
    BY InRange, ZenonT(30) DEF IInv
  <2>3. \A w \in working \cup replying : w.id \in Calls /\ w.mod \in Modules
    BY InRange, ZenonT(30) DEF IInv
  <2> HIDE DEF GroupSend
  <2>4. UNCHANGED <<working, replying, taken, answered>> BY ZenonT(30) DEF GroupSend
  <2> QED BY <1>0, <1>q, <2>1, <2>2, <2>3, <2>4, ZenonT(30) DEF IInv, MessagesRouted
<1>4. ClosedAreGone' BY ZenonT(30) DEF IInv, TypeOK, ClosedAreGone
<1>5. ASSUME NEW x \in Calls PROVE CallConsistent(x)'
  BY <1>5, ZenonT(30) DEF IInv, TypeOK, CallConsistent, MessagesRouted, Routed, Work
<1>6. ASSUME NEW x \in Calls PROVE ResultJustified(x)'
  BY <1>6, SMTT(30) DEF IInv, TypeOK, CallConsistent, ResultJustified, MessagesRouted, Routed,
               ClosedAreGone, Work
<1> QED BY <1>1, <1>2, <1>3, <1>4, <1>5, <1>6, ZenonT(30) DEF IInv

(* A goroutine of a broadcast gives up.                                      *)
LEMMA GroupSendTimeoutInv ==
  ASSUME IInv, NEW c \in Calls, NEW m \in Modules, GroupSendTimeout(c, m)
  PROVE  IInv'
<1> USE ChannelAssumption DEF GroupSendTimeout, modVars, callVars, respVars
<1>1. TypeOK' BY ZenonT(30) DEF IInv, TypeOK, Message, Work, CallConsistent
<1>2. NoSendOnClosed' BY ZenonT(30) DEF IInv, TypeOK, NoSendOnClosed, WriteLock
<1>3. MessagesRouted'
  BY DEF IInv, TypeOK, MessagesRouted, Routed, CallConsistent, Message, Work
<1>4. ClosedAreGone' BY ZenonT(30) DEF IInv, TypeOK, ClosedAreGone
<1>5. ASSUME NEW x \in Calls PROVE CallConsistent(x)'
  BY <1>5, ZenonT(30) DEF IInv, TypeOK, CallConsistent, MessagesRouted, Routed, Work
<1>6. ASSUME NEW x \in Calls PROVE ResultJustified(x)'
  BY <1>6, SMTT(30) DEF IInv, TypeOK, CallConsistent, ResultJustified, MessagesRouted, Routed,
               ClosedAreGone, Work
<1> QED BY <1>1, <1>2, <1>3, <1>4, <1>5, <1>6, ZenonT(30) DEF IInv

(* A broadcast has its answers: as many as there were members, hence one of  *)
(* each.                                                                     *)
LEMMA GroupAnsweredInv ==
  ASSUME IInv, NEW c \in Calls, GroupAnswered(c)
  PROVE  IInv'
<1> USE ChannelAssumption DEF GroupAnswered, Goto, GotoWith, modVars, respVars
<1>1. TypeOK' BY ZenonT(30) DEF IInv, TypeOK, Message, Work, CallConsistent
<1>2. NoSendOnClosed' BY ZenonT(30) DEF IInv, TypeOK, NoSendOnClosed, WriteLock
<1>3. MessagesRouted'
  BY DEF IInv, TypeOK, MessagesRouted, Routed, CallConsistent, Message, Work
<1>4. ClosedAreGone' BY ZenonT(30) DEF IInv, TypeOK, ClosedAreGone
<1>5. ASSUME NEW x \in Calls PROVE CallConsistent(x)'
  BY <1>5, SMTT(30) DEF IInv, TypeOK, CallConsistent, MessagesRouted, Routed, Work
<1>6. ASSUME NEW x \in Calls PROVE ResultJustified(x)'
  <2>1. /\ kind[c] = "groupsync" /\ channels \subseteq members[c]
        /\ buffer[c] \subseteq members[c] \cap answered[c]
        /\ members[c] \subseteq Modules
    BY ZenonT(30) DEF IInv, TypeOK, CallConsistent
  <2>2. IsFiniteSet(members[c]) BY <2>1, FS_Subset, ZenonT(30)
  <2>3. buffer[c] = members[c] BY <2>1, <2>2, FS_Subset, ZenonT(30) DEF channelNumber
  <2>4. CASE x = c BY <2>1, <2>3, <2>4, ZenonT(30) DEF IInv, TypeOK, ResultJustified
  <2>5. CASE x # c BY <2>5, ZenonT(30) DEF IInv, TypeOK, ResultJustified
  <2> QED BY <2>4, <2>5, ZenonT(30)
<1> QED BY <1>1, <1>2, <1>3, <1>4, <1>5, <1>6, ZenonT(30) DEF IInv

(* A broadcast gives up.                                                     *)
LEMMA GroupTimeoutInv ==
  ASSUME IInv, NEW c \in Calls, GroupTimeout(c)
  PROVE  IInv'
<1> USE ChannelAssumption DEF GroupTimeout, Goto, GotoWith, modVars, respVars
<1>1. TypeOK' BY ZenonT(30) DEF IInv, TypeOK, Message, Work, CallConsistent
<1>2. NoSendOnClosed' BY ZenonT(30) DEF IInv, TypeOK, NoSendOnClosed, WriteLock
<1>3. MessagesRouted'
  BY DEF IInv, TypeOK, MessagesRouted, Routed, CallConsistent, Message, Work
<1>4. ClosedAreGone' BY ZenonT(30) DEF IInv, TypeOK, ClosedAreGone
<1>5. ASSUME NEW x \in Calls PROVE CallConsistent(x)'
  BY <1>5, ZenonT(30) DEF IInv, TypeOK, CallConsistent, MessagesRouted, Routed, Work
<1>6. ASSUME NEW x \in Calls PROVE ResultJustified(x)'
  BY <1>6, SMTT(30) DEF IInv, TypeOK, CallConsistent, ResultJustified, MessagesRouted, Routed,
               ClosedAreGone, Work
<1> QED BY <1>1, <1>2, <1>3, <1>4, <1>5, <1>6, ZenonT(30) DEF IInv

(* A call removes its anonymous channel.                                     *)
LEMMA UnregisterInv ==
  ASSUME IInv, NEW c \in Calls, Unregister(c)
  PROVE  IInv'
<1> USE ChannelAssumption DEF Unregister, Goto, modVars, respVars
<1>1. TypeOK' BY ZenonT(30) DEF IInv, TypeOK, Message, Work, CallConsistent
<1>2. NoSendOnClosed' BY ZenonT(30) DEF IInv, TypeOK, NoSendOnClosed, WriteLock
<1>3. MessagesRouted'
  BY DEF IInv, TypeOK, MessagesRouted, Routed, CallConsistent, Message, Work
<1>4. ClosedAreGone' BY ZenonT(30) DEF IInv, TypeOK, ClosedAreGone
<1>5. ASSUME NEW x \in Calls PROVE CallConsistent(x)'
  BY <1>5 DEF IInv, TypeOK, CallConsistent, MessagesRouted, Routed, Work
<1>6. ASSUME NEW x \in Calls PROVE ResultJustified(x)'
  BY <1>6, SMTT(30) DEF IInv, TypeOK, CallConsistent, ResultJustified, MessagesRouted, Routed,
               ClosedAreGone, Work
<1> QED BY <1>1, <1>2, <1>3, <1>4, <1>5, <1>6, ZenonT(30) DEF IInv

(* The metaclient tries again.                                               *)
LEMMA RetryInv ==
  ASSUME IInv, NEW c \in Calls, Retry(c)
  PROVE  IInv'
<1> USE ChannelAssumption DEF Retry, Goto, GotoWith, modVars, respVars
<1>1. TypeOK' BY ZenonT(30) DEF IInv, TypeOK, Message, Work, CallConsistent
<1>2. NoSendOnClosed' BY ZenonT(30) DEF IInv, TypeOK, NoSendOnClosed, WriteLock
<1>3. MessagesRouted'
  BY DEF IInv, TypeOK, MessagesRouted, Routed, CallConsistent, Message, Work
<1>4. ClosedAreGone' BY ZenonT(30) DEF IInv, TypeOK, ClosedAreGone
<1>5. ASSUME NEW x \in Calls PROVE CallConsistent(x)'
  BY <1>5, ZenonT(30) DEF IInv, TypeOK, CallConsistent, MessagesRouted, Routed, Work
<1>6. ASSUME NEW x \in Calls PROVE ResultJustified(x)'
  BY <1>6, SMTT(30) DEF IInv, TypeOK, CallConsistent, ResultJustified, MessagesRouted, Routed,
               ClosedAreGone, Work
<1> QED BY <1>1, <1>2, <1>3, <1>4, <1>5, <1>6, ZenonT(30) DEF IInv

(* A call returns.                                                           *)
LEMMA FinishInv ==
  ASSUME IInv, NEW c \in Calls, Finish(c)
  PROVE  IInv'
<1> USE ChannelAssumption DEF Finish, Goto, modVars, respVars
<1>1. TypeOK' BY ZenonT(30) DEF IInv, TypeOK, Message, Work, CallConsistent
<1>2. NoSendOnClosed' BY ZenonT(30) DEF IInv, TypeOK, NoSendOnClosed, WriteLock
<1>3. MessagesRouted'
  BY DEF IInv, TypeOK, MessagesRouted, Routed, CallConsistent, Message, Work
<1>4. ClosedAreGone' BY ZenonT(30) DEF IInv, TypeOK, ClosedAreGone
<1>5. ASSUME NEW x \in Calls PROVE CallConsistent(x)'
  BY <1>5, ZenonT(30) DEF IInv, TypeOK, CallConsistent, MessagesRouted, Routed, Work
<1>6. ASSUME NEW x \in Calls PROVE ResultJustified(x)'
  BY <1>6, SMTT(30) DEF IInv, TypeOK, CallConsistent, ResultJustified, MessagesRouted, Routed,
               ClosedAreGone, Work
<1> QED BY <1>1, <1>2, <1>3, <1>4, <1>5, <1>6, ZenonT(30) DEF IInv

(* A module takes a message.                                                 *)
LEMMA ReceiveInv ==
  ASSUME IInv, NEW m \in Modules, Receive(m)
  PROVE  IInv'
<1> USE ChannelAssumption DEF Receive, modVars, callVars
<1> DEFINE msg == Head(queue[m])
           job == [mod |-> m, id |-> msg.id, try |-> msg.try]
<1>q. /\ msg \in Message /\ msg = queue[m][1] /\ 1 \in 1 .. Len(queue[m])
      /\ queue' \in [Modules -> Seq(Message)]
      /\ \A n \in Modules : Len(queue'[n]) <= ChanSize
      /\ \A n \in Modules : \A i \in 1 .. Len(queue'[n]) :
           \E j \in 1 .. Len(queue[n]) : queue'[n][i] = queue[n][j]
  BY TakeQueue, ZenonT(30) DEF IInv
<1>w. /\ msg.id \in Calls /\ job \in Work /\ job.id = msg.id /\ job.mod = m
      /\ Routed(msg.id, m)
  BY <1>q, ZenonT(30) DEF Message, Work, IInv, MessagesRouted
<1>u. /\ working' \subseteq working \cup {job}
      /\ taken' = [taken EXCEPT ![msg.id] = @ \cup {m}]
      /\ UNCHANGED <<replying, answered, kind, members>>
  BY ZenonT(30)
<1> HIDE DEF msg, job
<1>1. TypeOK'
  <2>1. working' \subseteq Work BY <1>w, <1>u, SMTT(30) DEF IInv, TypeOK
  <2>2. taken' \in [Calls -> SUBSET Modules]
    <3> HIDE DEF Receive
    <3> QED BY <1>w, <1>u, SMTT(30) DEF IInv, TypeOK
  <2> QED BY <1>q, <2>1, <2>2, SMTT(30) DEF IInv, TypeOK
<1>2. NoSendOnClosed' BY SMTT(30) DEF IInv, TypeOK, NoSendOnClosed, WriteLock
<1>3. MessagesRouted'
  <2>1. \A n \in Modules, x \in Calls : Routed(x, n)' <=> Routed(x, n)
    BY <1>u, ZenonT(30) DEF Routed
  <2>2. \A n \in Modules : \A i \in 1 .. Len(queue[n]) : queue[n][i].id \in Calls
    BY InRange, ZenonT(30) DEF IInv
  <2>3. \A w \in working \cup replying : w.id \in Calls /\ w.mod \in Modules
    BY InRange, ZenonT(30) DEF IInv
  <2> HIDE DEF Receive
  <2>4. \A x \in Calls : taken[x] \subseteq taken'[x] BY <1>w, <1>u, ZenonT(30) DEF IInv, TypeOK
  <2>5. m \in taken'[msg.id] BY <1>w, <1>u, ZenonT(30) DEF IInv, TypeOK
  <2>6. (\A n \in Modules : \A i \in 1 .. Len(queue[n]) : Routed(queue[n][i].id, n))'
    <3> SUFFICES ASSUME NEW n \in Modules, NEW i \in 1 .. Len(queue'[n])
                 PROVE  Routed(queue[n][i].id, n)'
      OBVIOUS
    <3>1. PICK j \in 1 .. Len(queue[n]) : queue'[n][i] = queue[n][j] BY <1>q, ZenonT(30)
    <3>2. Routed(queue[n][j].id, n) BY SMTT(30) DEF IInv, MessagesRouted
    <3> QED BY <1>u, <3>1, <3>2, ZenonT(30) DEF Routed
  <2>7. (\A w \in working \cup replying : Routed(w.id, w.mod) /\ w.mod \in taken[w.id])'
    BY <1>w, <1>u, <2>1, <2>3, <2>4, <2>5, ZenonT(30) DEF IInv, MessagesRouted
  <2>8. \A w \in replying' : w.mod \in answered'[w.id]
    BY <1>u, ZenonT(30) DEF IInv, MessagesRouted
  <2> QED BY <2>6, <2>7, <2>8, ZenonT(30) DEF MessagesRouted
<1>4. ClosedAreGone' BY SMTT(30) DEF IInv, TypeOK, ClosedAreGone
<1>5. ASSUME NEW x \in Calls PROVE CallConsistent(x)'
  BY <1>5, SMTT(30) DEF IInv, TypeOK, CallConsistent, MessagesRouted, Routed, Work
<1>6. ASSUME NEW x \in Calls PROVE ResultJustified(x)'
  BY <1>6, SMTT(30) DEF IInv, TypeOK, CallConsistent, ResultJustified, MessagesRouted, Routed,
               ClosedAreGone, Work
<1> QED BY <1>1, <1>2, <1>3, <1>4, <1>5, <1>6, ZenonT(30) DEF IInv

(* SendResp finds the channel, or not.                                       *)
LEMMA RespLookupInv ==
  ASSUME IInv, NEW w \in Work, RespLookup(w)
  PROVE  IInv'
<1> USE ChannelAssumption DEF RespLookup, modVars, callVars
<1>0. w.id \in Calls /\ w.mod \in Modules BY ZenonT(30) DEF Work
<1>1. TypeOK'
  <2>1. working' \subseteq Work /\ replying' \subseteq Work BY ZenonT(30) DEF IInv, TypeOK
  <2>2. answered' \in [Calls -> SUBSET Modules] BY <1>0, ZenonT(30) DEF IInv, TypeOK
  <2>3. buffer' \in [Calls -> SUBSET Modules] BY <1>0, ZenonT(30) DEF IInv, TypeOK
  <2>4. /\ pc' \in [Calls -> {"idle", "register", "sending", "sent", "receiving",
                              "spawn", "polling", "leaving", "returned", "done"}]
        /\ result' \in [Calls -> {"none", "ok", "error", "empty"}]
    BY <1>0, ZenonT(30) DEF IInv, TypeOK
  <2> QED BY <2>1, <2>2, <2>3, <2>4, ZenonT(30) DEF IInv, TypeOK
<1>2. NoSendOnClosed' BY ZenonT(30) DEF IInv, TypeOK, NoSendOnClosed, WriteLock
<1>3. MessagesRouted'
  BY DEF IInv, TypeOK, MessagesRouted, Routed, CallConsistent, Message, Work
<1>4. ClosedAreGone' BY ZenonT(30) DEF IInv, TypeOK, ClosedAreGone
<1>5. ASSUME NEW x \in Calls PROVE CallConsistent(x)'
  BY <1>5 DEF IInv, TypeOK, CallConsistent, MessagesRouted, Routed, Work
<1>6. ASSUME NEW x \in Calls PROVE ResultJustified(x)'
  BY <1>6, SMTT(30) DEF IInv, TypeOK, CallConsistent, ResultJustified, MessagesRouted, Routed,
               ClosedAreGone, Work
<1> QED BY <1>1, <1>2, <1>3, <1>4, <1>5, <1>6, ZenonT(30) DEF IInv

(* SendResp sends, or not.                                                   *)
LEMMA RespSendInv ==
  ASSUME IInv, NEW w \in Work, RespSend(w)
  PROVE  IInv'
<1> USE ChannelAssumption DEF RespSend, Goto, GotoWith, modVars
<1>0. w.id \in Calls /\ w.mod \in Modules BY ZenonT(30) DEF Work
<1>1. TypeOK'
  <2>1. working' \subseteq Work /\ replying' \subseteq Work BY ZenonT(30) DEF IInv, TypeOK
  <2>2. answered' \in [Calls -> SUBSET Modules] BY <1>0, ZenonT(30) DEF IInv, TypeOK
  <2>3. buffer' \in [Calls -> SUBSET Modules]
    <3>1. \/ buffer' = buffer
          \/ buffer' = [buffer EXCEPT ![w.id] = @ \cup {w.mod}]
      OBVIOUS
    <3>2. buffer \in [Calls -> SUBSET Modules] BY ZenonT(30) DEF IInv, TypeOK
    <3> HIDE DEF RespSend
    <3> QED BY <1>0, <3>1, <3>2, SMTT(30)
  <2>4. /\ pc' \in [Calls -> {"idle", "register", "sending", "sent", "receiving",
                              "spawn", "polling", "leaving", "returned", "done"}]
        /\ result' \in [Calls -> {"none", "ok", "error", "empty"}]
    BY <1>0, ZenonT(30) DEF IInv, TypeOK
  <2> QED BY <2>1, <2>2, <2>3, <2>4, ZenonT(30) DEF IInv, TypeOK
<1>2. NoSendOnClosed' BY ZenonT(30) DEF IInv, TypeOK, NoSendOnClosed, WriteLock
<1>3. MessagesRouted'
  BY DEF IInv, TypeOK, MessagesRouted, Routed, CallConsistent, Message, Work
<1>4. ClosedAreGone' BY ZenonT(30) DEF IInv, TypeOK, ClosedAreGone
<1>5. ASSUME NEW x \in Calls PROVE CallConsistent(x)'
  <2>1. /\ w.mod \in answered[w.id] /\ Routed(w.id, w.mod)
    BY ZenonT(30) DEF IInv, MessagesRouted
  <2>2. CASE x # w.id BY <1>0, <1>5, <2>2 DEF IInv, TypeOK, CallConsistent
  <2>3. CASE x = w.id /\ kind[x] = "sync"
    BY <1>0, <1>5, <2>3, SMTT(30) DEF IInv, TypeOK, CallConsistent
  <2>4. CASE x = w.id /\ kind[x] # "sync"
    <3>1. UNCHANGED <<pc, result, members, answered, senders, tries, kind, channels>>
      BY <2>4, ZenonT(30)
    <3>2. buffer'[x] \subseteq buffer[x] \cup {w.mod} BY <1>0, <2>4, ZenonT(30) DEF IInv, TypeOK
    <3> QED BY <2>1, <2>4, <3>1, <3>2, ZenonT(30) DEF IInv, CallConsistent, Routed
  <2> QED BY <2>2, <2>3, <2>4, ZenonT(30)
<1>6. ASSUME NEW x \in Calls PROVE ResultJustified(x)'
  BY <1>6, SMTT(30) DEF IInv, TypeOK, CallConsistent, ResultJustified, MessagesRouted, Routed,
               ClosedAreGone, Work
<1> QED BY <1>1, <1>2, <1>3, <1>4, <1>5, <1>6, ZenonT(30) DEF IInv

(* The process is told to stop.                                              *)
LEMMA CancelInv ==
  ASSUME IInv, Cancel
  PROVE  IInv'
<1> USE ChannelAssumption DEF Cancel, callVars, respVars
<1>1. TypeOK' BY ZenonT(30) DEF IInv, TypeOK, Message, Work, CallConsistent
<1>2. NoSendOnClosed' BY ZenonT(30) DEF IInv, TypeOK, NoSendOnClosed, WriteLock
<1>3. MessagesRouted'
  BY DEF IInv, TypeOK, MessagesRouted, Routed, CallConsistent, Message, Work
<1>4. ClosedAreGone' BY ZenonT(30) DEF IInv, TypeOK, ClosedAreGone
<1>5. ASSUME NEW x \in Calls PROVE CallConsistent(x)'
  BY <1>5, ZenonT(30) DEF IInv, TypeOK, CallConsistent, MessagesRouted, Routed, Work
<1>6. ASSUME NEW x \in Calls PROVE ResultJustified(x)'
  BY <1>6, SMTT(30) DEF IInv, TypeOK, CallConsistent, ResultJustified, MessagesRouted, Routed,
               ClosedAreGone, Work
<1> QED BY <1>1, <1>2, <1>3, <1>4, <1>5, <1>6, ZenonT(30) DEF IInv

(* A module is removed.                                                      *)
LEMMA DelChannelInv ==
  ASSUME IInv, NEW m \in Modules, DelChannel(m)
  PROVE  IInv'
<1> USE ChannelAssumption DEF DelChannel, callVars, respVars
<1>1. TypeOK' BY ZenonT(30) DEF IInv, TypeOK, Message, Work, CallConsistent
<1>2. NoSendOnClosed' BY ZenonT(30) DEF IInv, TypeOK, NoSendOnClosed, WriteLock
<1>3. MessagesRouted'
  BY DEF IInv, TypeOK, MessagesRouted, Routed, CallConsistent, Message, Work
<1>4. ClosedAreGone' BY ZenonT(30) DEF IInv, TypeOK, ClosedAreGone
<1>5. ASSUME NEW x \in Calls PROVE CallConsistent(x)'
  BY <1>5, ZenonT(30) DEF IInv, TypeOK, CallConsistent, MessagesRouted, Routed, Work
<1>6. ASSUME NEW x \in Calls PROVE ResultJustified(x)'
  BY <1>6, SMTT(30) DEF IInv, TypeOK, CallConsistent, ResultJustified, MessagesRouted, Routed,
               ClosedAreGone, Work
<1> QED BY <1>1, <1>2, <1>3, <1>4, <1>5, <1>6, ZenonT(30) DEF IInv

(* Its channel is closed.                                                    *)
LEMMA CloseChannelInv ==
  ASSUME IInv, NEW m \in Modules, CloseChannel(m)
  PROVE  IInv'
<1> USE ChannelAssumption DEF CloseChannel, callVars, respVars
<1>1. TypeOK' BY ZenonT(30) DEF IInv, TypeOK, Message, Work, CallConsistent
<1>2. NoSendOnClosed' BY ZenonT(30) DEF IInv, TypeOK, NoSendOnClosed, WriteLock
<1>3. MessagesRouted'
  BY DEF IInv, TypeOK, MessagesRouted, Routed, CallConsistent, Message, Work
<1>4. ClosedAreGone' BY ZenonT(30) DEF IInv, TypeOK, ClosedAreGone
<1>5. ASSUME NEW x \in Calls PROVE CallConsistent(x)'
  BY <1>5, ZenonT(30) DEF IInv, TypeOK, CallConsistent, MessagesRouted, Routed, Work
<1>6. ASSUME NEW x \in Calls PROVE ResultJustified(x)'
  BY <1>6, SMTT(30) DEF IInv, TypeOK, CallConsistent, ResultJustified, MessagesRouted, Routed,
               ClosedAreGone, Work
<1> QED BY <1>1, <1>2, <1>3, <1>4, <1>5, <1>6, ZenonT(30) DEF IInv
-----------------------------------------------------------------------------
(* The initial state.                                                        *)
LEMMA InitInv == Init => IInv
<1> SUFFICES ASSUME Init PROVE IInv OBVIOUS
<1> USE ChannelAssumption DEF Init
<1>1. TypeOK
  <2>1. queue \in [Modules -> Seq(Message)] /\ \A m \in Modules : Len(queue[m]) = 0
    OBVIOUS
  <2>2. kind \in [Calls -> Kinds] /\ cancelled \in BOOLEAN BY ZenonT(30)
  <2> QED BY <2>1, <2>2 DEF TypeOK
<1>2. NoSendOnClosed /\ ClosedAreGone BY ZenonT(30) DEF NoSendOnClosed, ClosedAreGone
<1>3. MessagesRouted
  <2>1. \A m \in Modules : Len(queue[m]) = 0 OBVIOUS
  <2> QED BY <2>1 DEF MessagesRouted
<1>4. ASSUME NEW c \in Calls PROVE CallConsistent(c) /\ ResultJustified(c)
  BY <1>4 DEF CallConsistent, ResultJustified
<1> QED BY <1>1, <1>2, <1>3, <1>4, ZenonT(30) DEF IInv

(* A step that changes nothing.                                              *)
LEMMA StutterInv == ASSUME IInv, UNCHANGED vars PROVE IInv'
<1> USE DEF vars, modVars, callVars, respVars
<1>1. TypeOK' BY ZenonT(30) DEF IInv, TypeOK
<1>2. NoSendOnClosed' /\ ClosedAreGone' BY ZenonT(30) DEF IInv, NoSendOnClosed, ClosedAreGone
<1>3. MessagesRouted' BY ZenonT(30) DEF IInv, MessagesRouted, Routed
<1>4. ASSUME NEW c \in Calls PROVE CallConsistent(c)' /\ ResultJustified(c)'
  BY <1>4, ZenonT(30) DEF IInv, CallConsistent, ResultJustified
<1> QED BY <1>1, <1>2, <1>3, <1>4, ZenonT(30) DEF IInv

(* Every step keeps the invariant.                                           *)
LEMMA NextInv == IInv /\ [Next]_vars => IInv'
<1> SUFFICES ASSUME IInv, [Next]_vars PROVE IInv' OBVIOUS
<1>1. ASSUME NEW c \in Calls, CallerStep(c) PROVE IInv'
  BY <1>1, CallInv, RegisterInv, SendMessageInv, SendPanicsInv, WaitResponseInv,
     SyncTimeoutInv, SpawnInv, GroupAnsweredInv, GroupTimeoutInv, UnregisterInv,
     RetryInv, FinishInv, ZenonT(30) DEF CallerStep
<1>2. ASSUME NEW c \in Calls, NEW m \in Modules, SenderStep(c, m) PROVE IInv'
  BY <1>2, GroupSendInv, GroupSendTimeoutInv, ZenonT(30) DEF SenderStep
<1>3. ASSUME NEW m \in Modules, ModuleStep(m) PROVE IInv'
  BY <1>3, ReceiveInv, DelChannelInv, CloseChannelInv, ZenonT(30) DEF ModuleStep
<1>4. ASSUME NEW w \in working, RespLookup(w) PROVE IInv'
  BY <1>4, RespLookupInv, ZenonT(30) DEF IInv, TypeOK
<1>5. ASSUME NEW w \in replying, RespSend(w) PROVE IInv'
  BY <1>5, RespSendInv, ZenonT(30) DEF IInv, TypeOK
<1>6. CASE Cancel BY <1>6, CancelInv, ZenonT(30)
<1>7. CASE UNCHANGED vars BY <1>7, StutterInv, ZenonT(30)
<1> QED BY <1>1, <1>2, <1>3, <1>4, <1>5, <1>6, <1>7, ZenonT(30) DEF Next

(* IInv holds in every reachable state.                                      *)
LEMMA Inductive == Spec => []IInv
BY InitInv, NextInv, PTL DEF Spec

(* Every variable keeps its type and no channel holds more than its size,    *)
(* for any number of modules and calls.                                      *)
THEOREM TypeCorrect == Spec => []TypeOK
<1>1. IInv => TypeOK BY ZenonT(30) DEF IInv
<1> QED BY <1>1, Inductive, PTL

(* SendResp never sends on a closed anonymous channel: a caller that timed   *)
(* out closes it under the lock its responders hold from lookup to send.     *)
THEOREM ResponsesSafe == Spec => []NoSendOnClosed
<1>1. IInv => NoSendOnClosed BY ZenonT(30) DEF IInv
<1> QED BY <1>1, Inductive, PTL
-----------------------------------------------------------------------------
(* What the callers see of the state.                                        *)
Seen == <<kind, channels, taken, answered>>
Outcome == [c \in Calls |-> IF pc[c] = "done" THEN result[c] ELSE "pending"]

(* A step that changes neither is a stutter of RequestReply.                 *)
LEMMA Unseen ==
  ASSUME UNCHANGED Seen, Outcome' = Outcome PROVE UNCHANGED RR!absVars
BY ZenonT(30) DEF Seen, Outcome, RR!absVars

(* The steps of a call before it returns are not seen.                       *)
LEMMA CallerUnseen ==
  ASSUME IInv, NEW c \in Calls, pc[c] # "done",
         \A x \in Calls \ {c} : pc'[x] = pc[x] /\ result'[x] = result[x],
         pc'[c] # "done", UNCHANGED Seen
  PROVE  UNCHANGED RR!absVars
<1>1. Outcome' = Outcome BY ZenonT(30) DEF Outcome
<1> QED BY <1>1, Unseen, ZenonT(30)

(* A caller's step is a stutter, or its return.                              *)
LEMMA CallerRefines ==
  ASSUME IInv, NEW c \in Calls, CallerStep(c)
  PROVE  RR!AbsNext \/ UNCHANGED RR!absVars
<1> USE DEF modVars, callVars, respVars, Goto, GotoWith, Seen
<1>t. /\ pc = [x \in Calls |-> pc[x]]
      /\ result = [x \in Calls |-> result[x]]
  BY ZenonT(30) DEF IInv, TypeOK
<1>1. CASE Finish(c)
  <2>1. /\ result[c] \in RR!Outcomes /\ pc[c] = "returned"
    BY <1>1, SMTT(30) DEF IInv, TypeOK, CallConsistent, Finish, RR!Outcomes
  <2>2. Outcome[c] = "pending" BY <2>1, ZenonT(30) DEF Outcome
  <2>3. PICK o \in RR!Outcomes : o = result[c] BY <2>1, ZenonT(30)
  <2>4. Outcome' = [Outcome EXCEPT ![c] = o]
    BY <1>1, <1>t, <2>3, ZenonT(30) DEF Finish, Outcome
  <2>5. o = "ok" => RR!Owe(c) \subseteq answered[c]
    BY <2>3, ZenonT(30) DEF IInv, ResultJustified, RR!Owe
  <2>6. o = "empty" => Target[c] \notin channels BY <2>3, ZenonT(30) DEF IInv, ResultJustified
  <2>7. UNCHANGED Seen BY <1>1, ZenonT(30) DEF Finish
  <2>8. RR!Return(c, o)
    BY <2>2, <2>4, <2>5, <2>6, <2>7, ZenonT(30) DEF RR!Return, Outcome
  <2> QED BY <2>8, ZenonT(30) DEF RR!AbsNext
<1>2. CASE ~Finish(c)
  <2>1. /\ pc[c] # "done" /\ pc'[c] # "done"
        /\ \A x \in Calls \ {c} : pc'[x] = pc[x] /\ result'[x] = result[x]
    <3>1. CASE Call(c) BY <1>t, <3>1, ZenonT(30) DEF Call
    <3>2. CASE Register(c) \/ WaitResponse(c) \/ SyncTimeout(c)
      BY <1>t, <3>2, ZenonT(30) DEF Register, WaitResponse, SyncTimeout
    <3>3. CASE SendMessage(c) \/ SendPanics(c) \/ Spawn(c)
      BY <1>t, <3>3, ZenonT(30) DEF SendMessage, SendPanics, Spawn
    <3>4. CASE GroupAnswered(c) \/ GroupTimeout(c) \/ Unregister(c) \/ Retry(c)
      BY <1>t, <3>4, ZenonT(30) DEF GroupAnswered, GroupTimeout, Unregister, Retry
    <3> QED BY <1>2, <3>1, <3>2, <3>3, <3>4, ZenonT(30) DEF CallerStep
  <2>2. UNCHANGED Seen
    BY <1>2, ZenonT(30) DEF CallerStep, Call, Register, WaitResponse, SyncTimeout, SendMessage,
                SendPanics, Spawn, GroupAnswered, GroupTimeout, Unregister, Retry
  <2> QED BY <2>1, <2>2, CallerUnseen, ZenonT(30)
<1> QED BY <1>1, <1>2, ZenonT(30)

(* Receiving is Take, the lookup of SendResp is Answer, delChannel is Leave; *)
(* the rest is not seen.                                                     *)
LEMMA NextRefines ==
  ASSUME IInv, [Next]_vars PROVE RR!AbsNext \/ UNCHANGED RR!absVars
<1> USE DEF modVars, callVars, respVars
<1>1. ASSUME NEW c \in Calls, CallerStep(c) PROVE RR!AbsNext \/ UNCHANGED RR!absVars
  BY <1>1, CallerRefines, SMTT(30)
<1>2. ASSUME NEW c \in Calls, NEW m \in Modules, SenderStep(c, m)
      PROVE  UNCHANGED RR!absVars
  BY <1>2, Unseen, ZenonT(30) DEF SenderStep, GroupSend, GroupSendTimeout, Seen, Outcome
<1>3. ASSUME NEW m \in Modules, Receive(m) PROVE RR!AbsNext
  <2> DEFINE msg == Head(queue[m])
  <2>1. msg.id \in Calls
    BY <1>3, TakeQueue, ZenonT(30) DEF IInv, Receive, Message
  <2>2. RR!Take(msg.id, m) BY <1>3, ZenonT(30) DEF Receive, RR!Take
  <2> QED BY <2>1, <2>2, ZenonT(30) DEF RR!AbsNext
<1>4. ASSUME NEW m \in Modules, DelChannel(m) PROVE RR!AbsNext
  BY <1>4, ZenonT(30) DEF DelChannel, RR!Leave, RR!AbsNext
<1>5. ASSUME NEW m \in Modules, CloseChannel(m) PROVE UNCHANGED RR!absVars
  BY <1>5, Unseen, ZenonT(30) DEF CloseChannel, Seen, Outcome
<1>6. ASSUME NEW w \in working, RespLookup(w) PROVE RR!AbsNext
  <2>1. w.id \in Calls /\ w.mod \in Modules /\ w.mod \in taken[w.id]
    BY InRange, ZenonT(30) DEF IInv, MessagesRouted
  <2>2. RR!Answer(w.id, w.mod) BY <1>6, <2>1, ZenonT(30) DEF RespLookup, RR!Answer
  <2> QED BY <2>1, <2>2, ZenonT(30) DEF RR!AbsNext
<1>7. ASSUME NEW w \in replying, RespSend(w) PROVE UNCHANGED RR!absVars
  <2>1. w.id \in Calls BY InRange, ZenonT(30) DEF IInv
  <2>2. CASE pc[w.id] = "receiving"
    BY <1>7, <2>1, <2>2, CallerUnseen, ZenonT(30) DEF IInv, TypeOK, RespSend, GotoWith, Goto, Seen
  <2>3. CASE pc[w.id] # "receiving"
    BY <1>7, <2>3, Unseen, ZenonT(30) DEF RespSend, GotoWith, Goto, Seen, Outcome
  <2> QED BY <2>2, <2>3, ZenonT(30)
<1>8. CASE Cancel BY <1>8, Unseen, ZenonT(30) DEF Cancel, Seen, Outcome
<1>9. CASE UNCHANGED vars BY <1>9, Unseen, ZenonT(30) DEF vars, Seen, Outcome
<1> QED BY <1>1, <1>2, <1>3, <1>4, <1>5, <1>6, <1>7, <1>8, <1>9, ZenonT(30)
        DEF Next, ModuleStep

(* The bus implements RequestReply: a call has one outcome, and success is   *)
(* reported only with the answers of all the modules that owe one.           *)
THEOREM BusRefines == Spec => ImplementsRequestReply
<1>1. Init => RR!AbsInit BY ZenonT(30) DEF Init, RR!AbsInit
<1>2. IInv /\ [Next]_vars => [RR!AbsNext]_RR!absVars BY NextRefines, ZenonT(30)
<1> QED BY <1>1, <1>2, Inductive, PTL DEF Spec, ImplementsRequestReply, RR!AbsSpec
=============================================================================
