------------------------------- MODULE WebProofs -------------------------------
(***************************************************************************)
(* What the HTTP server drives.  The receiver: the order of its commands,   *)
(* the completeness of an applied profile, and the answers about it, for    *)
(* every set of profiles, length of the queue and number of retries.  The   *)
(* settings: that NVS holds what posts meant, for all items and payloads.   *)
(***************************************************************************)
EXTENDS MCWeb, TLAPS

Commands == [ticket: Nat, expects: BOOLEAN, retries: 0..RetryCount]

Webs == [at: {"idle", "store", "stop", "reset", "detect", "mark", "queue"},
         profile: Profiles, index: Nat \ {0}]

Attempts == {"none", "begun", "given up"}

Shapes ==
  /\ {stored, configured, applied} \subseteq Profiles
  /\ autoQueued \in BOOLEAN /\ longMask \in BOOLEAN /\ surveying \in BOOLEAN
  /\ attempt \in Attempts
  /\ detected \in Types
  /\ web \in Webs
  /\ web.index <= Length[web.profile] + 1
  /\ queue \in Seq(Commands) /\ Len(queue) <= QueueLength
  /\ task \in {"receive", "taken", "write", "wait", "done"}
  /\ cmd \in Commands
  /\ busy \in BOOLEAN /\ matched \in BOOLEAN
  /\ ticket \in Nat \ {0} /\ calls \in 0..MaxCalls
  /\ begun \in 1..ticket /\ first \in 1..ticket
  /\ tried \subseteq 1..(ticket - 1) /\ last \in 0..(ticket - 1)

Pending == task \in {"taken", "write"}

(* Everything waiting lies behind everything written, the command in hand   *)
(* between the two; a command given up or written for good may lie anywhere *)
(* before.                                                                  *)
Ordered ==
  /\ cmd.ticket \in 0..(ticket - 1)
  /\ \A i \in 1..Len(queue) : queue[i].ticket \in 1..(ticket - 1) /\ queue[i].ticket >= last
  /\ \A i, j \in 1..Len(queue) : i < j => queue[i].ticket < queue[j].ticket
  /\ task \in {"taken", "write", "wait"} =>
       /\ cmd.ticket >= last /\ cmd.ticket > 0
       /\ \A i \in 1..Len(queue) : cmd.ticket < queue[i].ticket

(* No command gets lost before its first writing. *)
Kept ==
  \A t \in 1..(ticket - 1) :
    \/ t \in tried
    \/ \E i \in 1..Len(queue) : queue[i].ticket = t
    \/ Pending /\ cmd.ticket = t

(* The commands of a profile have tickets in a row, from the first one on. *)
Batch ==
  /\ web.at # "queue" => web.index = 1
  /\ web.at = "queue" => ticket = begun + web.index - 1
  /\ applied # NoProfile => first + Length[applied] <= ticket

IInv == Shapes /\ Ordered /\ Kept /\ Batch

-----------------------------------------------------------------------------
(* The queue *)

LEMMA PutLast ==
  ASSUME NEW S, NEW q \in Seq(S), NEW x \in S
  PROVE  /\ Append(q, x) \in Seq(S)
         /\ Len(Append(q, x)) = Len(q) + 1
         /\ \A i \in 1..Len(q) : Append(q, x)[i] = q[i]
         /\ Append(q, x)[Len(q) + 1] = x
  OBVIOUS

LEMMA TakeFirst ==
  ASSUME NEW S, NEW q \in Seq(S), q # <<>>
  PROVE  /\ Head(q) \in S /\ Tail(q) \in Seq(S)
         /\ Len(q) >= 1 /\ Len(Tail(q)) = Len(q) - 1
         /\ Head(q) = q[1]
         /\ \A i \in 1..(Len(q) - 1) : Tail(q)[i] = q[i + 1]
  OBVIOUS

LEMMA PutFirst ==
  ASSUME NEW S, NEW q \in Seq(S), NEW x \in S
  PROVE  /\ <<x>> \o q \in Seq(S)
         /\ Len(<<x>> \o q) = Len(q) + 1
         /\ (<<x>> \o q)[1] = x
         /\ \A i \in 1..Len(q) : (<<x>> \o q)[i + 1] = q[i]
  OBVIOUS

LEMMA CommandType == \A t \in Nat, e \in BOOLEAN : Command(t, e) \in Commands
  BY ReceiverAssumption DEF Command, Commands

LEMMA InitHolds == Init => IInv
<1> SUFFICES ASSUME Init PROVE IInv
  OBVIOUS
<1> USE ReceiverAssumption
<1>1. Shapes
  <2>1. cmd \in Commands
    BY CommandType DEF Init
  <2>2. web \in Webs /\ web.index <= Length[web.profile] + 1
    BY DEF Init, Idle, Webs
  <2>3. 0 \in 0..MaxCalls
    OBVIOUS
  <2>4. queue \in Seq(Commands) /\ Len(queue) <= QueueLength
    BY DEF Init
  <2>5. ticket = 1 /\ begun = 1 /\ first = 1 /\ tried = {} /\ last = 0
    BY DEF Init
  <2>6. {stored, configured, applied} \subseteq Profiles /\ detected \in Types
    BY DEF Init, Types
  <2>7. /\ autoQueued \in BOOLEAN /\ surveying \in BOOLEAN /\ busy \in BOOLEAN
        /\ matched \in BOOLEAN /\ longMask \in BOOLEAN /\ attempt \in Attempts
    BY DEF Init, Attempts
  <2>8. task \in {"receive", "taken", "write", "wait", "done"} /\ calls \in 0..MaxCalls
    BY <2>3 DEF Init
  <2> HIDE ReceiverAssumption
  <2> QED BY <2>1, <2>2, <2>4, <2>5, <2>6, <2>7, <2>8 DEF Shapes
<1>2. Ordered /\ Kept
  <2>1. queue = <<>> /\ Len(queue) = 0 /\ cmd.ticket = 0 /\ ticket = 1 /\ task = "receive"
    BY DEF Init, Command
  <2>2. tried = {} /\ last = 0
    BY DEF Init
  <2>3. Ordered
    BY <2>1, <2>2 DEF Ordered
  <2>4. Kept
    BY <2>1 DEF Kept
  <2> QED BY <2>3, <2>4
<1>3. Batch
  BY DEF Init, Batch, Idle
<1> QED BY <1>1, <1>2, <1>3 DEF IInv

-----------------------------------------------------------------------------
(* What an accepted command does, whoever sends it *)

LEMMA Accepted ==
  ASSUME Shapes, Ordered, Kept, NEW e \in BOOLEAN, Enqueue(e), UNCHANGED side
  PROVE  /\ queue' \in Seq(Commands) /\ Len(queue') <= QueueLength
         /\ ticket' = ticket + 1
         /\ Ordered' /\ Kept'
<1> USE DEF Shapes
<1> DEFINE x == Command(ticket, e)
<1>0. x \in Commands /\ x.ticket = ticket
  BY CommandType DEF Command
<1>1. queue' = Append(queue, x) /\ ticket' = ticket + 1 /\ Len(queue) < QueueLength
  BY DEF Enqueue
<1> HIDE DEF x
<1>2. /\ queue' \in Seq(Commands) /\ Len(queue') = Len(queue) + 1
      /\ \A i \in 1..Len(queue) : queue'[i] = queue[i]
      /\ queue'[Len(queue) + 1] = x
  BY <1>0, <1>1, PutLast
<1>3. Len(queue) \in Nat /\ last \in Int /\ last < ticket
  OBVIOUS
<1>4. \A i \in 1..Len(queue') : i \in 1..Len(queue) \/ i = Len(queue) + 1
  BY <1>2, <1>3
<1>5. Ordered'
  <2>1. cmd'.ticket \in 0..(ticket' - 1)
    BY <1>1 DEF Ordered, side
  <2>2. \A i \in 1..Len(queue') : queue'[i].ticket \in 1..(ticket' - 1) /\ queue'[i].ticket >= last'
    BY <1>0, <1>1, <1>2, <1>3, <1>4 DEF Ordered, side
  <2>3. \A i, j \in 1..Len(queue') : i < j => queue'[i].ticket < queue'[j].ticket
    BY <1>0, <1>1, <1>2, <1>3, <1>4 DEF Ordered
  <2>4. task' \in {"taken", "write", "wait"} =>
          /\ cmd'.ticket >= last' /\ cmd'.ticket > 0
          /\ \A i \in 1..Len(queue') : cmd'.ticket < queue'[i].ticket
    BY <1>0, <1>1, <1>2, <1>3, <1>4 DEF Ordered, side
  <2> QED BY <2>1, <2>2, <2>3, <2>4 DEF Ordered
<1>6. Kept'
  <2> SUFFICES ASSUME NEW t \in 1..(ticket' - 1)
               PROVE  \/ t \in tried'
                      \/ \E i \in 1..Len(queue') : queue'[i].ticket = t
                      \/ Pending' /\ cmd'.ticket = t
    BY DEF Kept
  <2>1. CASE t = ticket
    BY <2>1, <1>0, <1>2, <1>3
  <2>2. CASE t \in 1..(ticket - 1)
    BY <2>2, <1>2, <1>3 DEF Kept, Pending, side
  <2> QED BY <2>1, <2>2, <1>1
<1> QED BY <1>1, <1>2, <1>3, <1>5, <1>6, ReceiverAssumption

LEMMA Untouched ==
  ASSUME UNCHANGED <<queue, ticket, task, cmd, tried, last>>
  PROVE  (Ordered => Ordered') /\ (Kept => Kept')
  BY DEF Ordered, Kept, Pending

-----------------------------------------------------------------------------
(* The HTTP task *)

LEMMA LengthType == Length \in [Profiles -> Nat \ {0}] /\ NoProfile \in Profiles
                    /\ Survey \in Profiles /\ Diagnostics \in Profiles
  BY ReceiverAssumption

LEMMA NewWeb ==
  ASSUME NEW at \in {"idle", "store", "stop", "reset", "detect", "mark", "queue"},
         NEW p \in Profiles
  PROVE  LET w == [at |-> at, profile |-> p, index |-> 1]
         IN  /\ w \in Webs /\ w.index <= Length[w.profile] + 1
             /\ w.at = at /\ w.index = 1
  BY LengthType DEF Webs

LEMMA IdleWeb == Idle \in Webs /\ Idle.index <= Length[Idle.profile] + 1
                 /\ Idle.at = "idle" /\ Idle.index = 1
  BY NewWeb, LengthType DEF Idle

LEMMA MovedWeb ==
  ASSUME Shapes, NEW at \in {"idle", "store", "stop", "reset", "detect", "mark", "queue"}
  PROVE  LET w == [web EXCEPT !.at = at]
         IN  /\ w \in Webs /\ w.index <= Length[w.profile] + 1
             /\ w.at = at /\ w.index = web.index /\ w.profile = web.profile
  BY DEF Shapes, Webs

LEMMA CallStep ==
  ASSUME IInv, NEW at \in {"store", "stop", "reset"}, NEW p \in Profiles,
         Call(at, p), surveying' \in BOOLEAN
  PROVE  IInv'
<1>1. Ordered' /\ Kept'
  BY Untouched DEF IInv, Call, side
<1>2. web' \in Webs /\ web'.index <= Length[web'.profile] + 1
      /\ web'.at = at /\ web'.index = 1
  BY NewWeb DEF Call
<1>3. calls' \in 0..MaxCalls
  BY ReceiverAssumption DEF IInv, Shapes, Call
<1>4. Shapes'
  BY <1>2, <1>3 DEF IInv, Shapes, Call, side, profile, flash
<1>5. Batch'
  BY <1>2 DEF IInv, Batch, Call, profile
<1> QED BY <1>1, <1>4, <1>5 DEF IInv

(* An operation of the HTTP task that leaves the queue and the counters alone *)
LEMMA WebStep ==
  ASSUME IInv, UNCHANGED <<detected, queue, side, ticket>>,
         {stored', configured', applied'} \subseteq Profiles,
         autoQueued' \in BOOLEAN, longMask' \in BOOLEAN, attempt' \in Attempts,
         surveying' \in BOOLEAN,
         web' \in Webs, web'.index <= Length[web'.profile] + 1,
         calls' \in 0..MaxCalls, begun' \in 1..ticket, first' \in 1..ticket,
         Batch'
  PROVE  IInv'
<1>1. Ordered' /\ Kept'
  BY Untouched DEF IInv, side
<1>2. Shapes'
  BY DEF IInv, Shapes, side
<1> QED BY <1>1, <1>2 DEF IInv

LEMMA Known ==
  ASSUME IInv
  PROVE  /\ {stored, configured, applied} \subseteq Profiles
         /\ autoQueued \in BOOLEAN /\ longMask \in BOOLEAN /\ surveying \in BOOLEAN
         /\ attempt \in Attempts
         /\ web \in Webs /\ web.profile \in Profiles /\ web.index \in Nat \ {0}
         /\ web.index <= Length[web.profile] + 1
         /\ calls \in 0..MaxCalls /\ ticket \in Nat \ {0}
         /\ begun \in 1..ticket /\ first \in 1..ticket
  BY DEF IInv, Shapes, Webs

LEMMA CallsStep == ASSUME IInv, calls < MaxCalls PROVE calls + 1 \in 0..MaxCalls
  BY Known, ReceiverAssumption

LEMMA ApplyingStep ==
  ASSUME IInv, StoreProfile \/ StoreFails \/ ResetProfile \/ DetectType \/ GiveUp
               \/ Finish \/ MarkQueued \/ Poll \/ \E p \in Profiles : PostProfile(p)
  PROVE  IInv'
<1> USE Known, LengthType
<1>0. Shapes /\ Batch
  BY DEF IInv
<1>1. CASE StoreProfile
  <2>1. web' \in Webs /\ web'.index <= Length[web'.profile] + 1 
        /\ web'.at = "reset" /\ web'.index = 1
    BY <1>0, <1>1, MovedWeb DEF StoreProfile, Batch
  <2> QED BY <1>0, <1>1, <2>1, WebStep DEF StoreProfile, Batch, profile, flash
<1>2. CASE StoreFails
  BY <1>0, <1>2, IdleWeb, WebStep DEF StoreFails, Batch, profile, flash
<1>3. CASE ResetProfile
  <2>1. web' \in Webs /\ web'.index <= Length[web'.profile] + 1 
        /\ web'.at = "detect" /\ web'.index = 1
    BY <1>0, <1>3, MovedWeb DEF ResetProfile, Batch
  <2> QED BY <1>0, <1>3, <2>1, WebStep DEF ResetProfile, Batch, flash, Attempts
<1>4. CASE DetectType
  <2>1. /\ web' \in Webs /\ web'.index <= Length[web'.profile] + 1
        /\ web'.index = 1 /\ (web'.at = "queue" => begun' = ticket)
    BY <1>0, <1>4, MovedWeb, IdleWeb DEF DetectType, Batch
  <2>2. begun' \in 1..ticket
    BY <1>4 DEF DetectType
  <2> QED BY <1>0, <1>4, <2>1, <2>2, WebStep DEF DetectType, Batch, profile, flash
<1>5. CASE GiveUp
  BY <1>0, <1>5, IdleWeb, WebStep DEF GiveUp, Batch, flash, Attempts
<1>6. CASE Finish
  <2>1. /\ applied' = web.profile /\ first' = begun /\ web' = Idle
        /\ ticket' = ticket /\ begun' = begun
    BY <1>6 DEF Finish, side
  <2>2. Length[web.profile] \in Nat /\ web.index = Length[web.profile] + 1
    BY <1>6 DEF Finish
  <2>3. ticket = begun + web.index - 1
    BY <1>0, <1>6 DEF Finish, Batch
  <2>4. Batch'
    BY <2>1, <2>2, <2>3, IdleWeb DEF Batch
  <2>5. autoQueued' \in BOOLEAN /\ surveying' \in BOOLEAN
    BY <1>6 DEF Finish
  <2> QED BY <1>6, <2>1, <2>4, <2>5, IdleWeb, WebStep DEF Finish, flash, Attempts
<1>7. CASE MarkQueued
  <2>1. web' \in Webs /\ web'.index <= Length[web'.profile] + 1 /\ web'.index = 1
    BY <1>0, <1>7, MovedWeb DEF MarkQueued, Batch
  <2>2. web'.at = "queue" /\ ticket' = begun' + web'.index - 1
    BY <1>0, <1>7 DEF MarkQueued, Batch, Shapes, Webs
  <2>3. applied' = applied /\ first' = first /\ ticket' = ticket /\ begun' \in 1..ticket
    BY <1>7 DEF MarkQueued
  <2>4. Batch'
    BY <1>0, <2>1, <2>2, <2>3 DEF Batch
  <2>5. attempt' \in Attempts /\ autoQueued' \in BOOLEAN
    BY <1>7 DEF MarkQueued, Attempts
  <2> QED BY <1>7, <2>1, <2>3, <2>4, <2>5, WebStep DEF MarkQueued, flash
<1>8. CASE Poll
  <2>1. web' \in Webs /\ web'.index <= Length[web'.profile] + 1 
        /\ web'.at # "queue" /\ web'.index = 1
    BY <1>8, NewWeb, IdleWeb DEF Poll
  <2> QED BY <1>0, <1>8, <2>1, WebStep DEF Poll, Batch, flash
<1>9. ASSUME NEW p \in Profiles, PostProfile(p) PROVE IInv'
  BY <1>0, <1>9, CallsStep, WebStep, ReceiverAssumption DEF PostProfile, Batch, profile, flash
<1> QED BY <1>1, <1>2, <1>3, <1>4, <1>5, <1>6, <1>7, <1>8, <1>9

LEMMA AcceptedShapes ==
  ASSUME Shapes, ticket' = ticket + 1,
         queue' \in Seq(Commands), Len(queue') <= QueueLength,
         web' \in Webs, web'.index <= Length[web'.profile] + 1, calls' \in 0..MaxCalls,
         UNCHANGED <<flash, profile, surveying, detected, side, begun, first>>
  PROVE  Shapes'
<1>1. UNCHANGED <<stored, longMask, configured, applied, autoQueued, attempt, surveying, detected,
                  task, cmd, busy, matched, tried, last, begun, first>>
  BY DEF flash, profile, side
<1>2. /\ ticket' \in Nat \ {0} /\ begun' \in 1..ticket' /\ first' \in 1..ticket'
      /\ tried' \subseteq 1..(ticket' - 1) /\ last' \in 0..(ticket' - 1)
  BY <1>1 DEF Shapes
<1> QED BY <1>1, <1>2 DEF Shapes

(* The operations that put a command into the queue *)
LEMMA EnqueueStep ==
  ASSUME IInv, (\E e \in BOOLEAN : SendCommand(e)) \/ SendStop \/ QueueNext
  PROVE  IInv'
<1> USE Known, LengthType
<1>0. Shapes /\ Ordered /\ Kept /\ Batch
  BY DEF IInv
<1>1. ASSUME NEW e \in BOOLEAN, SendCommand(e) PROVE IInv'
  <2>1. Enqueue(e) /\ UNCHANGED side
    BY <1>1 DEF SendCommand
  <2>2. /\ queue' \in Seq(Commands) /\ Len(queue') <= QueueLength
        /\ ticket' = ticket + 1 /\ Ordered' /\ Kept'
    BY <1>0, <2>1, Accepted
  <2>3. calls' \in 0..MaxCalls
    BY <1>1, CallsStep DEF SendCommand
  <2>4. Shapes'
    BY <1>0, <1>1, <2>2, <2>3, AcceptedShapes DEF SendCommand
  <2>5. Batch'
    <3>1. web.at = "idle" /\ UNCHANGED <<web, begun, applied, first>>
      BY <1>1 DEF SendCommand, profile
    <3> QED BY <1>0, <2>2, <3>1 DEF Batch
  <2> QED BY <2>2, <2>4, <2>5 DEF IInv
<1>2. CASE SendStop
  <2>1. /\ web' \in Webs /\ web'.index <= Length[web'.profile] + 1
        /\ web'.at = "store" /\ web'.index = 1
    BY <1>0, <1>2, MovedWeb DEF SendStop, Batch
  <2>2. CASE Enqueue(FALSE)
    <3>1. /\ queue' \in Seq(Commands) /\ Len(queue') <= QueueLength
          /\ ticket' = ticket + 1 /\ Ordered' /\ Kept'
      BY <1>0, <1>2, <2>2, Accepted DEF SendStop
    <3>2. Shapes'
      BY <1>0, <1>2, <2>1, <3>1, AcceptedShapes DEF SendStop
    <3>3. Batch'
      <4>1. UNCHANGED <<begun, applied, first>>
        BY <1>2 DEF SendStop, profile
      <4> QED BY <1>0, <2>1, <3>1, <4>1 DEF Batch
    <3> QED BY <3>1, <3>2, <3>3 DEF IInv
  <2>3. CASE UNCHANGED <<queue, ticket>>
    BY <1>0, <1>2, <2>1, <2>3, WebStep DEF SendStop, Batch, profile, flash
  <2> QED BY <1>2, <2>2, <2>3 DEF SendStop
<1>3. CASE QueueNext
  <2> DEFINE e == web.index \in Expects
  <2>1. e \in BOOLEAN /\ Enqueue(e) /\ UNCHANGED side
    BY <1>3 DEF QueueNext
  <2> HIDE DEF e
  <2>2. /\ queue' \in Seq(Commands) /\ Len(queue') <= QueueLength
        /\ ticket' = ticket + 1 /\ Ordered' /\ Kept'
    BY <1>0, <2>1, Accepted
  <2>3. /\ web' \in Webs /\ web'.index = web.index + 1
        /\ web'.at = "queue" /\ web'.profile = web.profile
    BY <1>3 DEF QueueNext, Webs
  <2>4. web'.index <= Length[web'.profile] + 1
    BY <1>3, <2>3 DEF QueueNext
  <2>5. Shapes'
    BY <1>0, <1>3, <2>2, <2>3, <2>4, AcceptedShapes DEF QueueNext
  <2>6. Batch'
    <3>1. web.at = "queue" /\ UNCHANGED <<begun, applied, first>>
      BY <1>3 DEF QueueNext, profile
    <3>2. Length[applied] \in Nat /\ first \in Nat /\ begun \in Nat
      OBVIOUS
    <3>3. ticket' = begun' + web'.index - 1
      <4>1. ticket = begun + web.index - 1
        BY <1>0, <3>1 DEF Batch
      <4>2. ticket' = ticket + 1 /\ web'.index = web.index + 1 /\ begun' = begun
        BY <2>2, <2>3, <3>1
      <4>3. web.index \in Nat /\ begun \in Nat /\ ticket \in Nat
        BY <1>0, <3>2 DEF Shapes, Webs
      <4> QED BY ONLY <4>1, <4>2, <4>3
    <3>4. applied' # NoProfile => first' + Length[applied'] <= ticket'
      BY <1>0, <2>2, <3>1, <3>2 DEF Batch
    <3> QED BY <2>3, <3>3, <3>4 DEF Batch
  <2> QED BY <2>2, <2>5, <2>6 DEF IInv
<1> QED BY <1>1, <1>2, <1>3

-----------------------------------------------------------------------------
(* The command task *)

LEMMA CommandShapes ==
  ASSUME Shapes, NEW from, NEW to \in {"receive", "taken", "write", "wait", "done"},
         CommandStep(from, to),
         queue' \in Seq(Commands), Len(queue') <= QueueLength, cmd' \in Commands,
         busy' \in BOOLEAN, matched' \in BOOLEAN,
         tried' \subseteq 1..(ticket - 1), last' \in 0..(ticket - 1)
  PROVE  Shapes'
  BY DEF Shapes, CommandStep, profile, flash

LEMMA CommandBatch ==
  ASSUME Batch, NEW from, NEW to, CommandStep(from, to)
  PROVE  Batch'
  BY DEF Batch, CommandStep, profile

LEMMA ReceiveStep == ASSUME IInv, Receive PROVE IInv'
<1>0. Shapes /\ Ordered /\ Kept /\ Batch
  BY DEF IInv
<1>1. /\ cmd' = Head(queue) /\ queue' = Tail(queue) /\ queue # <<>>
      /\ CommandStep("receive", "taken") /\ UNCHANGED <<busy, matched, tried, last, ticket>>
      /\ task' = "taken" /\ task = "receive"
  BY DEF Receive, CommandStep
<1>2. /\ cmd' = queue[1] /\ cmd' \in Commands /\ queue' \in Seq(Commands)
      /\ Len(queue') = Len(queue) - 1 /\ Len(queue) \in Nat /\ Len(queue) >= 1
      /\ \A i \in 1..(Len(queue) - 1) : queue'[i] = queue[i + 1]
  BY <1>0, <1>1, TakeFirst DEF Shapes
<1>3. Shapes'
  <2>1. Len(queue') <= QueueLength
    BY <1>0, <1>2, ReceiverAssumption DEF Shapes
  <2>2. busy' \in BOOLEAN /\ matched' \in BOOLEAN
        /\ tried' \subseteq 1..(ticket - 1) /\ last' \in 0..(ticket - 1)
    BY <1>0, <1>1 DEF Shapes
  <2> QED BY <1>0, <1>1, <1>2, <2>1, <2>2, CommandShapes
<1>4. ticket \in Nat \ {0} /\ last \in Nat /\ 1 \in 1..Len(queue)
  BY <1>0, <1>2 DEF Shapes
<1>5. Ordered'
  <2>1. \A i \in 1..Len(queue') : i + 1 \in 1..Len(queue) /\ queue'[i] = queue[i + 1]
    BY <1>2
  <2>2. cmd'.ticket \in 1..(ticket - 1) /\ cmd'.ticket >= last
    BY <1>0, <1>2, <1>4 DEF Ordered
  <2>3. \A i \in 1..Len(queue') : queue'[i].ticket \in 1..(ticket' - 1) /\ queue'[i].ticket >= last'
    <3>1. ASSUME NEW i \in 1..Len(queue')
          PROVE  queue[i + 1].ticket \in 1..(ticket - 1) /\ queue[i + 1].ticket >= last
      BY <1>0, <2>1 DEF Ordered
    <3> QED BY <1>1, <2>1, <3>1
  <2>4. ASSUME NEW i \in 1..Len(queue'), NEW j \in 1..Len(queue'), i < j
        PROVE  queue'[i].ticket < queue'[j].ticket
    <3>1. i + 1 \in 1..Len(queue) /\ j + 1 \in 1..Len(queue) /\ i + 1 < j + 1
      BY <2>1, <2>4
    <3>2. queue[i + 1].ticket < queue[j + 1].ticket
      BY <1>0, <3>1 DEF Ordered
    <3> QED BY <2>1, <3>2
  <2>5. \A i \in 1..Len(queue') : cmd'.ticket < queue'[i].ticket
    <3>1. \A j \in 1..Len(queue) : 1 < j => queue[1].ticket < queue[j].ticket
      BY <1>0, <1>4 DEF Ordered
    <3>2. \A i \in 1..Len(queue') : 1 < i + 1
      OBVIOUS
    <3> QED BY <1>2, <2>1, <3>1, <3>2
  <2> QED BY <1>1, <1>4, <2>2, <2>3, <2>4, <2>5 DEF Ordered
<1>6. Kept'
  <2> SUFFICES ASSUME NEW t \in 1..(ticket - 1), t \notin tried
               PROVE  \/ \E i \in 1..Len(queue') : queue'[i].ticket = t
                      \/ cmd'.ticket = t
    BY <1>1 DEF Kept, Pending
  <2>1. PICK i \in 1..Len(queue) : queue[i].ticket = t
    BY <1>0, <1>1 DEF Kept, Pending
  <2>2. CASE i = 1
    BY <2>1, <2>2, <1>2
  <2>3. CASE i # 1
    <3>1. i - 1 \in 1..(Len(queue) - 1) /\ (i - 1) + 1 = i
      BY <2>3, <1>2
    <3>2. queue'[i - 1] = queue[i] /\ i - 1 \in 1..Len(queue')
      BY <3>1, <1>2
    <3> QED BY <2>1, <3>2
  <2> QED BY <2>2, <2>3
<1> QED BY <1>0, <1>1, <1>3, <1>5, <1>6, CommandBatch DEF IInv

LEMMA WriteStep == ASSUME IInv, Write \/ WriteFails PROVE IInv'
<1>0. Shapes /\ Ordered /\ Kept /\ Batch
  BY DEF IInv
<1>1. /\ tried' = tried \cup {cmd.ticket} /\ last' = cmd.ticket
      /\ task = "write" /\ task' \in {"wait", "receive"}
      /\ UNCHANGED <<queue, cmd, matched, ticket>> /\ busy' \in BOOLEAN
  BY <1>0 DEF Write, WriteFails, CommandStep, Shapes
<1>2. \E to \in {"wait", "receive"} : CommandStep("write", to)
  BY DEF Write, WriteFails
<1>3. cmd.ticket \in 1..(ticket - 1) /\ cmd.ticket \in Nat
  BY <1>0, <1>1 DEF Ordered
<1>4. Shapes'
  <2>1. /\ queue' \in Seq(Commands) /\ Len(queue') <= QueueLength /\ cmd' \in Commands
        /\ busy' \in BOOLEAN /\ matched' \in BOOLEAN
    BY <1>0, <1>1 DEF Shapes
  <2>2. tried' \subseteq 1..(ticket - 1) /\ last' \in 0..(ticket - 1)
    <3>1. tried \subseteq 1..(ticket - 1) /\ ticket \in Nat
      BY <1>0 DEF Shapes
    <3>2. \A t \in tried' : t \in tried \/ t = cmd.ticket
      BY <1>1
    <3>3. tried' \subseteq 1..(ticket - 1)
      BY <1>3, <3>1, <3>2
    <3>4. last' \in 0..(ticket - 1)
      BY <1>1, <1>3, <3>1
    <3> QED BY <3>3, <3>4
  <2>3. PICK to \in {"receive", "wait"} : CommandStep("write", to)
    BY <1>2
  <2> QED BY <1>0, <2>1, <2>2, <2>3, CommandShapes
<1>5. Ordered'
  BY <1>0, <1>1, <1>3 DEF Ordered
<1>6. Kept'
  BY <1>0, <1>1 DEF Kept, Pending
<1> QED BY <1>0, <1>2, <1>4, <1>5, <1>6, CommandBatch DEF IInv

LEMMA PlainStep == ASSUME IInv, Announce \/ Done \/ Release PROVE IInv'
<1>0. Shapes /\ Ordered /\ Kept /\ Batch
  BY DEF IInv
<1>1. /\ UNCHANGED <<queue, cmd, ticket, tried, last>>
      /\ busy' \in BOOLEAN /\ matched' \in BOOLEAN
  BY <1>0 DEF Announce, Done, Release, CommandStep, Shapes
<1>2. \/ task = "taken" /\ task' = "write" /\ CommandStep("taken", "write")
      \/ task = "wait" /\ task' = "done" /\ CommandStep("wait", "done")
      \/ task = "done" /\ task' = "receive" /\ CommandStep("done", "receive")
  BY DEF Announce, Done, Release, CommandStep
<1>3. Shapes'
  BY <1>0, <1>1, <1>2, CommandShapes DEF Shapes
<1>4. Ordered'
  BY <1>0, <1>1, <1>2 DEF Ordered
<1>5. Kept'
  BY <1>0, <1>1, <1>2 DEF Kept, Pending
<1> QED BY <1>0, <1>2, <1>3, <1>4, <1>5, CommandBatch DEF IInv

LEMMA TimesOutStep == ASSUME IInv, TimesOut PROVE IInv'
<1>0. Shapes /\ Ordered /\ Kept /\ Batch
  BY DEF IInv
<1>1. /\ CommandStep("wait", "done") /\ task = "wait" /\ task' = "done"
      /\ UNCHANGED <<busy, matched, tried, last, ticket>>
  BY DEF TimesOut, CommandStep
<1>2. ticket \in Nat \ {0} /\ last \in Nat /\ Len(queue) \in Nat
  BY <1>0 DEF Shapes
<1>3. CASE UNCHANGED <<queue, cmd>>
  <2>1. Shapes'
    BY <1>0, <1>1, <1>3, CommandShapes DEF Shapes
  <2>2. Ordered' /\ Kept'
    BY <1>0, <1>1, <1>3 DEF Ordered, Kept, Pending
  <2> QED BY <1>0, <1>1, <2>1, <2>2, CommandBatch DEF IInv
<1>4. CASE Retry
  <2>1. cmd' \in Commands /\ cmd'.ticket = cmd.ticket
    <3>1. /\ cmd \in [ticket: Nat, expects: BOOLEAN, retries: 0..RetryCount]
          /\ cmd.retries > 0 /\ cmd' = [cmd EXCEPT !.retries = @ - 1]
      BY <1>0, <1>4 DEF Retry, Shapes, Commands
    <3>2. cmd.retries - 1 \in 0..RetryCount
      BY <3>1, ReceiverAssumption
    <3> QED BY <3>1, <3>2 DEF Commands
  <2>2. CASE queue' = queue
    <3>1. Shapes'
      BY <1>0, <1>1, <2>1, <2>2, CommandShapes DEF Shapes
    <3>2. Ordered'
      BY <1>0, <1>1, <2>1, <2>2 DEF Ordered
    <3>3. Kept'
      BY <1>0, <1>1, <2>2 DEF Kept, Pending
    <3> QED BY <1>0, <1>1, <3>1, <3>2, <3>3, CommandBatch DEF IInv
  <2>3. CASE queue' = <<cmd'>> \o queue /\ Len(queue) < QueueLength
    <3>1. /\ queue' \in Seq(Commands) /\ Len(queue') = Len(queue) + 1
          /\ queue'[1] = cmd' /\ \A i \in 1..Len(queue) : queue'[i + 1] = queue[i]
      BY <1>0, <2>1, <2>3, PutFirst DEF Shapes
    <3>2. Len(queue') <= QueueLength
      BY <1>2, <2>3, <3>1, ReceiverAssumption
    <3>3. Shapes'
      BY <1>0, <1>1, <2>1, <3>1, <3>2, CommandShapes DEF Shapes
    <3>4. \A i \in 1..Len(queue') :
            \/ i = 1 /\ queue'[i].ticket = cmd.ticket
            \/ i - 1 \in 1..Len(queue) /\ queue'[i] = queue[i - 1]
      <4> SUFFICES ASSUME NEW i \in 1..Len(queue'), i # 1
                   PROVE  i - 1 \in 1..Len(queue) /\ queue'[i] = queue[i - 1]
        BY <2>1, <3>1
      <4>1. i - 1 \in 1..Len(queue) /\ (i - 1) + 1 = i
        BY <1>2, <3>1
      <4> QED BY <3>1, <4>1
    <3>5. cmd.ticket \in 1..(ticket - 1) /\ cmd.ticket >= last
      BY <1>0, <1>1, <1>2 DEF Ordered
    <3>6. Ordered'
      <4>1. \A i \in 1..Len(queue') : queue'[i].ticket \in 1..(ticket' - 1) /\ queue'[i].ticket >= last'
        BY <1>0, <1>1, <3>4, <3>5 DEF Ordered
      <4>2. \A i, j \in 1..Len(queue') : i < j => queue'[i].ticket < queue'[j].ticket
        <5> SUFFICES ASSUME NEW i \in 1..Len(queue'), NEW j \in 1..Len(queue'), i < j
                     PROVE  queue'[i].ticket < queue'[j].ticket
          OBVIOUS
        <5>1. j - 1 \in 1..Len(queue) /\ queue'[j] = queue[j - 1]
          BY <3>1, <3>4
        <5>2. CASE i = 1 /\ queue'[i].ticket = cmd.ticket
          BY <1>0, <1>1, <5>1, <5>2 DEF Ordered
        <5>3. CASE i - 1 \in 1..Len(queue) /\ queue'[i] = queue[i - 1]
          BY <1>0, <5>1, <5>3 DEF Ordered
        <5> QED BY <3>4, <5>2, <5>3
      <4> QED BY <1>0, <1>1, <2>1, <4>1, <4>2 DEF Ordered
    <3>7. Kept'
      <4> SUFFICES ASSUME NEW t \in 1..(ticket - 1), t \notin tried
                   PROVE  \E i \in 1..Len(queue') : queue'[i].ticket = t
        BY <1>1 DEF Kept, Pending
      <4>1. PICK i \in 1..Len(queue) : queue[i].ticket = t
        BY <1>0, <1>1 DEF Kept, Pending
      <4>2. i + 1 \in 1..Len(queue') /\ queue'[i + 1] = queue[i]
        BY <1>2, <3>1
      <4> QED BY <4>1, <4>2
    <3> QED BY <1>0, <1>1, <3>3, <3>6, <3>7, CommandBatch DEF IInv
  <2> QED BY <1>4, <2>2, <2>3 DEF Retry
<1> QED BY <1>3, <1>4 DEF TimesOut

-----------------------------------------------------------------------------
LEMMA CallingStep ==
  ASSUME IInv,
         \/ \E p \in Profiles, persist \in BOOLEAN : ApplyProfile(p, persist)
         \/ \E p \in Profiles : EndSurvey(p)
         \/ StartSurvey \/ StopSurvey
  PROVE  IInv'
<1> USE LengthType, Known
<1>1. ASSUME NEW p \in Profiles, NEW persist \in BOOLEAN, ApplyProfile(p, persist) PROVE IInv'
  BY <1>1, CallStep DEF ApplyProfile
<1>2. ASSUME NEW p \in Profiles, EndSurvey(p) PROVE IInv'
  BY <1>2, CallStep DEF EndSurvey
<1>3. CASE StartSurvey
  BY <1>3, CallStep DEF StartSurvey
<1>4. CASE StopSurvey
  BY <1>4, CallStep DEF StopSurvey
<1> QED BY <1>1, <1>2, <1>3, <1>4

LEMMA HandlerStep ==
  ASSUME IInv, DetectDevice \/ MatchLine \/ UNCHANGED vars
  PROVE  IInv'
<1>0. Shapes /\ Ordered /\ Kept /\ Batch
  BY DEF IInv
<1>1. CASE DetectDevice
  <2>1. UNCHANGED <<queue, ticket, task, cmd, tried, last>> /\ detected' \in Types
    BY <1>1, ReceiverAssumption DEF DetectDevice, side
  <2> QED BY <1>0, <1>1, <2>1, Untouched DEF DetectDevice, IInv, Shapes, Batch, side, profile, flash
<1>2. CASE MatchLine
  BY <1>0, <1>2, Untouched DEF MatchLine, IInv, Shapes, Batch, profile, flash
<1>3. CASE UNCHANGED vars
  BY <1>0, <1>3, Untouched DEF vars, IInv, Shapes, Batch, side, profile, flash
<1> QED BY <1>1, <1>2, <1>3

LEMMA StepHolds == IInv /\ [Next]_vars => IInv'
  BY ApplyingStep, EnqueueStep, ReceiveStep, WriteStep, PlainStep, TimesOutStep,
     CallingStep, HandlerStep
  DEF Next, Applying, Commanding

-----------------------------------------------------------------------------
(* The types, and the queue never longer than it was made. *)
THEOREM ReceiverTypeCorrect == Spec => []TypeOK
<1>1. ASSUME IInv PROVE TypeOK
  <2>1. /\ web.at \in {"idle", "store", "stop", "reset", "detect", "mark", "queue"}
        /\ web.profile \in Profiles /\ web.index \in 1..(Length[web.profile] + 1)
    BY <1>1, Known, LengthType DEF Webs
  <2>2. cmd.retries \in 0..RetryCount /\ cmd.ticket \in 0..(ticket - 1)
    BY <1>1 DEF IInv, Shapes, Ordered, Commands
  <2>3. \A i \in 1..Len(queue) : queue[i].ticket \in 1..(ticket - 1)
    BY <1>1 DEF IInv, Ordered
  <2> QED BY <1>1, <2>1, <2>2, <2>3 DEF IInv, Shapes, Attempts, TypeOK
<1> QED BY InitHolds, StepHolds, <1>1, PTL DEF Spec

(* Commands reach the receiver in the order in which they were accepted, *)
(* repetitions before everything accepted later.                         *)
THEOREM CommandsInOrder == Spec => InOrder
<1>1. ASSUME IInv, [Next]_vars PROVE [last' >= last]_last
  <2>1. CASE Write \/ WriteFails
    BY <1>1, <2>1 DEF Write, WriteFails, CommandStep, IInv, Ordered
  <2>2. CASE ~(Write \/ WriteFails)
    <3>1. last' = last
      BY <1>1, <2>2
      DEF Next, Applying, Commanding, vars, side, Call, ApplyProfile, EndSurvey,
          StartSurvey, StopSurvey, PostProfile, SendCommand, SendStop, StoreProfile,
          StoreFails, ResetProfile, DetectType, QueueNext, GiveUp, Finish, Poll,
          MarkQueued, DetectDevice, MatchLine, Receive, Announce, Done, TimesOut, Release
    <3> QED BY <3>1
  <2> QED BY <2>1, <2>2
<1> QED BY InitHolds, StepHolds, <1>1, PTL DEF Spec, InOrder

(* A profile that counts as applied was accepted whole and has been given to *)
(* the UART once the queue has drained.                                      *)
THEOREM AppliedProfileSent == Spec => []AppliedWasSent
<1>1. ASSUME IInv PROVE AppliedWasSent
  <2> SUFFICES ASSUME applied # NoProfile, queue = <<>>, task = "receive",
                      NEW t \in first..(first + Length[applied] - 1)
               PROVE  t \in tried
    BY DEF AppliedWasSent
  <2>1. t \in 1..(ticket - 1)
    BY <1>1, Known, LengthType DEF IInv, Batch
  <2>2. ~ \E i \in 1..Len(queue) : queue[i].ticket = t
    OBVIOUS
  <2> QED BY <1>1, <2>1, <2>2 DEF IInv, Kept, Pending
<1> QED BY InitHolds, StepHolds, <1>1, PTL DEF Spec

-----------------------------------------------------------------------------
(* What is heard from the receiver *)

StatusProofs == INSTANCE ReceiverStatusProofs WITH
  Sentences <- MCSentences, Units <- MCUnits,
  TableSize <- 2, Room <- 3, MaxPayload <- 3, LengthMod <- 5, Stale <- 0, AgeMod <- 2,
  Configured <- "unicore", MaxUnits <- 3, MaxTime <- 3,
  detected <- s_detected, web <- s_web

LEMMA SameStatusAssumption == StatusProofs!StatusAssumption
BY WebAssumption
DEF Status!StatusAssumption, StatusProofs!StatusAssumption,
    Status!Constellations, StatusProofs!Constellations

(* The two instances of ReceiverStatus are the same. *)
LEMMA SamePacket ==
  ASSUME NEW b
  PROVE  Status!FromPacket(b) = StatusProofs!FromPacket(b)
BY Zenon DEF
    Status!Accepts, StatusProofs!Accepts, Status!Fix, StatusProofs!Fix,
    Status!FromPacket, StatusProofs!FromPacket, Status!InTable, StatusProofs!InTable,
    Status!NavPvt, StatusProofs!NavPvt, Status!NavSat, StatusProofs!NavSat,
    Status!Nothing, StatusProofs!Nothing, Status!Packet, StatusProofs!Packet,
    Status!PacketSays, StatusProofs!PacketSays, Status!RelPos, StatusProofs!RelPos,
    Status!Reports, StatusProofs!Reports, Status!Says, StatusProofs!Says,
    Status!UbxConstellation, StatusProofs!UbxConstellation

LEMMA SameLine ==
  ASSUME NEW b
  PROVE  Status!FromLine(b) = StatusProofs!FromLine(b)
BY Zenon DEF
    Status!BestSat, StatusProofs!BestSat, Status!Fix, StatusProofs!Fix,
    Status!FromLine, StatusProofs!FromLine, Status!Gga, StatusProofs!Gga, Status!Gsa,
    StatusProofs!Gsa, Status!Gsv, StatusProofs!Gsv, Status!InTable,
    StatusProofs!InTable, Status!Keyword, StatusProofs!Keyword, Status!LineEnds,
    StatusProofs!LineEnds, Status!LineSays, StatusProofs!LineSays, Status!NewLine,
    StatusProofs!NewLine, Status!Nothing, StatusProofs!Nothing, Status!Of,
    StatusProofs!Of, Status!Parsed, StatusProofs!Parsed, Status!Reports,
    StatusProofs!Reports, Status!Says, StatusProofs!Says, Status!Unicore,
    StatusProofs!Unicore

LEMMA SameByte == Status!Byte => StatusProofs!Byte
BY SamePacket, SameLine DEF
    Status!Accepts, StatusProofs!Accepts, Status!AfterSum, StatusProofs!AfterSum,
    Status!Buffered, StatusProofs!Buffered, Status!Byte, StatusProofs!Byte, Status!Fed,
    StatusProofs!Fed, Status!Hunting, StatusProofs!Hunting, Status!Later,
    StatusProofs!Later, Status!Latest, StatusProofs!Latest, Status!Letter,
    StatusProofs!Letter, Status!LineEnds, StatusProofs!LineEnds, Status!LineRoom,
    StatusProofs!LineRoom, Status!NewLine, StatusProofs!NewLine, Status!Printable,
    StatusProofs!Printable, Status!SeesSync, StatusProofs!SeesSync, Status!Summed,
    StatusProofs!Summed, Status!Sync1, StatusProofs!Sync1, Status!Sync2,
    StatusProofs!Sync2

LEMMA SameUpdate == Status!Update => StatusProofs!Update
BY DEF
    Status!Found, StatusProofs!Found, Status!Free, StatusProofs!Free, Status!NoSat,
    StatusProofs!NoSat, Status!Place, StatusProofs!Place, Status!SlotOf,
    StatusProofs!SlotOf, Status!Slots, StatusProofs!Slots, Status!Update,
    StatusProofs!Update, Status!Victim, StatusProofs!Victim, Status!history,
    StatusProofs!history, Status!parser, StatusProofs!parser, Status!status,
    StatusProofs!status

LEMMA SameOthers ==
  /\ \A u : Status!Send(u) => StatusProofs!Send(u)
  /\ Status!Tick => StatusProofs!Tick
  /\ Status!Poll => StatusProofs!Poll
  /\ Status!Answer => StatusProofs!Answer
  /\ Status!Detect => StatusProofs!Detect
BY DEF
    Status!Age, StatusProofs!Age, Status!Aged, StatusProofs!Aged, Status!Answer, StatusProofs!Answer, Status!Answers,
    StatusProofs!Answers, Status!Detect, StatusProofs!Detect, Status!NoSat,
    StatusProofs!NoSat, Status!Poll, StatusProofs!Poll, Status!Send, StatusProofs!Send,
    Status!Silent, StatusProofs!Silent, Status!Slots, StatusProofs!Slots, Status!Tick,
    StatusProofs!Tick, Status!Unlocked, StatusProofs!Unlocked, Status!history,
    StatusProofs!history, Status!parser, StatusProofs!parser, Status!status,
    StatusProofs!status

LEMMA StatusBehaves == MCSpec => StatusProofs!Spec
<1>1. MCInit => StatusProofs!Init
  BY DEF MCInit,
    Status!Free, StatusProofs!Free, Status!Hunting, StatusProofs!Hunting, Status!Init,
    StatusProofs!Init, Status!NoSat, StatusProofs!NoSat, Status!Slots,
    StatusProofs!Slots
<1>2. [MCNext]_<<part, vars, configVars, statusVars>>
        => [StatusProofs!Next]_(StatusProofs!vars)
  <2>1. Status!Next => StatusProofs!Next
    BY SameByte, SameUpdate, SameOthers DEF Status!Next, StatusProofs!Next
  <2>2. UNCHANGED statusVars => UNCHANGED StatusProofs!vars
    BY DEF statusVars, StatusProofs!vars, StatusProofs!parser, StatusProofs!status,
           StatusProofs!history
  <2>3. [MCNext]_<<part, vars, configVars, statusVars>>
          => Status!Next \/ UNCHANGED statusVars
    BY DEF MCNext
  <2> QED BY <2>1, <2>2, <2>3
<1> QED BY <1>1, <1>2, PTL DEF MCSpec, StatusProofs!Spec

(* Of what GET /status answers: the table of satellites keeps the newest, what  *)
(* is listed was reported within RECEIVER_MESSAGE_STALE_MS of the poll or a     *)
(* turn of 32-bit milliseconds or more before it, and the two words for the fix *)
(* agree.                                                                       *)
THEOREM AnswersSoundCorrect == MCSpec => []AnswersSound
<1>1. StatusProofs!Spec => []StatusProofs!StatusSound
  BY StatusProofs!StatusIsSound, SameStatusAssumption
<1>2. StatusProofs!StatusSound => AnswersSound
  BY DEF AnswersSound, StatusProofs!StatusSound,
    Status!Answers, StatusProofs!Answers, Status!AnswersFresh,
    StatusProofs!AnswersFresh, Status!FixAgrees, StatusProofs!FixAgrees, Status!Listed,
    StatusProofs!Listed, Status!NoSat, StatusProofs!NoSat, Status!Slots,
    StatusProofs!Slots, Status!TableKeepsNewest, StatusProofs!TableKeepsNewest,
    Status!TypeOK, StatusProofs!TypeOK, Status!Unlocked, StatusProofs!Unlocked,
    Status!Within, StatusProofs!Within
<1> QED BY <1>1, <1>2, StatusBehaves, PTL

-----------------------------------------------------------------------------
(* Numbers of the settings *)

LEMMA ModRange ==
  ASSUME NEW S \in Nat, S > 0, NEW n \in Int
  PROVE  n % S \in 0..(S - 1)
OBVIOUS

LEMMA ModSmall ==
  ASSUME NEW S \in Nat, NEW n \in 0..(S - 1)
  PROVE  n % S = n
OBVIOUS

LEMMA ModNegative ==
  ASSUME NEW S \in Nat, S > 0, NEW n \in (-S)..(-1)
  PROVE  n % S = n + S
OBVIOUS

LEMMA DivMod ==
  ASSUME NEW S \in Nat, S > 0, NEW n \in Nat
  PROVE  n = ((n \div S) * S) + (n % S)
OBVIOUS

LEMMA DivModExact ==
  ASSUME NEW S \in Nat, S > 0, NEW q \in Nat, NEW r \in 0..(S - 1)
  PROVE  ((q * S) + r) \div S = q /\ ((q * S) + r) % S = r
OBVIOUS

LEMMA DivBound ==
  ASSUME NEW S \in Nat, S > 0, NEW q \in Nat, NEW n \in 0..((q * S) - 1)
  PROVE  n \div S \in 0..(q - 1)
OBVIOUS

LEMMA Halves ==
  ASSUME NEW W \in Nat, NEW S \in Nat, S <= W
  PROVE  /\ S \div 2 \in Nat /\ W \div 2 \in Nat /\ S \div 2 <= W \div 2
         /\ 2 * (S \div 2) <= S /\ 2 * (W \div 2) <= W
OBVIOUS

LEMMA Powers ==
  ASSUME NEW B \in Nat, B >= 2
  PROVE  /\ B * B \in Nat /\ B * B * B \in Nat /\ B * B * B * B \in Nat
         /\ B <= B * B /\ B * B <= B * B * B * B /\ B <= (B * B * B * B) \div 2
OBVIOUS

Widths == {1, 2, 4}

LEMMA Ranges ==
  ASSUME NEW w \in Widths
  PROVE  /\ Config!Range(w) \in Nat /\ 2 <= Config!Range(w)
         /\ Config!Range(w) <= Config!Word
         /\ Config!Range(1) <= Config!Word \div 2
         /\ Config!Word = Config!Range(4) /\ Config!Word \in Nat
<1>1. ByteValues \in Nat /\ ByteValues >= 2
  BY WebAssumption DEF Config!ConfigAssumption
<1>2. /\ Config!Range(1) = ByteValues /\ Config!Range(2) = ByteValues * ByteValues
      /\ Config!Range(4) = ByteValues * ByteValues * ByteValues * ByteValues
  BY DEF Config!Range
<1>3. /\ ByteValues * ByteValues \in Nat /\ ByteValues * ByteValues * ByteValues * ByteValues \in Nat
      /\ ByteValues <= ByteValues * ByteValues /\ ByteValues * ByteValues <= ByteValues * ByteValues * ByteValues * ByteValues
      /\ ByteValues <= (ByteValues * ByteValues * ByteValues * ByteValues) \div 2
  BY <1>1, Powers
<1>4. Config!Word = Config!Range(4)
  BY DEF Config!Word
<1>5. CASE w = 1
  BY <1>1, <1>2, <1>3, <1>4, <1>5
<1>6. CASE w = 2
  BY <1>1, <1>2, <1>3, <1>4, <1>6
<1>7. CASE w = 4
  BY <1>1, <1>2, <1>3, <1>4, <1>7
<1> QED BY <1>5, <1>6, <1>7 DEF Widths

LEMMA ItemTyped ==
  ASSUME NEW k \in Config!Keys
  PROVE  /\ Items[k].type \in Config!Types
         /\ Items[k].def \in Config!Values(Items[k].type)
         /\ Config!Size(Items[k].type) \in Widths
<1>1. Items[k].type \in Config!Types /\ Items[k].def \in Config!Values(Items[k].type)
  BY WebAssumption DEF Config!ConfigAssumption
<1>2. \A t \in Config!Types : Config!Size(t) \in Widths
  BY DEF Config!Types, Config!Size, Widths
<1> QED BY <1>1, <1>2

-----------------------------------------------------------------------------
(* Texts of settings *)

LEMMA StrtolKeeps ==
  ASSUME NEW n \in Int, -(Config!Word \div 2) <= n, n < Config!Word \div 2
  PROVE  Config!Strtol(n) = n
<1>1. Config!Word \div 2 \in Nat
  BY Ranges, Halves DEF Widths
<1> QED BY <1>1 DEF Config!Strtol

LEMMA StrtoulKeeps ==
  ASSUME NEW n \in Nat, n < Config!Word
  PROVE  Config!Strtoul(n) = n
<1>1. Config!Word \in Nat
  BY Ranges DEF Widths
<1>2. n \in 0..(Config!Word - 1) /\ -n < Config!Word
  BY <1>1
<1>3. n % Config!Word = n
  BY <1>1, <1>2, ModSmall
<1> QED BY <1>1, <1>2, <1>3 DEF Config!Strtoul

LEMMA StrtoInt ==
  ASSUME NEW n \in Int
  PROVE  Config!Strtol(n) \in Int /\ Config!Strtoul(n) \in Int
<1>1. Config!Word \in Nat /\ Config!Word > 0 /\ Config!Word \div 2 \in Nat
  BY Ranges, Halves DEF Widths
<1>2. n % Config!Word \in Int
  BY <1>1, ModRange
<1> QED BY <1>1, <1>2 DEF Config!Strtol, Config!Strtoul

LEMMA LowTyped ==
  ASSUME NEW k \in Config!Keys, Items[k].type # "string", NEW n \in Int
  PROVE  Config!Low(Items[k].type, n) \in Config!Values(Items[k].type)
<1> DEFINE S == Config!Range(Config!Size(Items[k].type))
<1>1. S \in Nat /\ S > 0
  BY ItemTyped, Ranges
<1>2. n % S \in 0..(S - 1)
  <2> HIDE DEF S
  <2> QED BY <1>1, ModRange
<1> QED BY <1>2 DEF Config!Low, Config!Values

(* What config_post_handler stores, type by type *)
LEMMA BytesOfText ==
  ASSUME NEW k, NEW text, Items[k].type = "string"
  PROVE  Config!Bytes(k, text) = text[2]
BY DEF Config!Bytes

LEMMA BytesOfColor ==
  ASSUME NEW k, NEW text, Items[k].type = "color"
  PROVE  Config!Bytes(k, text) =
           IF text[1] = "color" THEN Config!Rgba(k, text[2]) ELSE Config!Refused
BY DEF Config!Bytes, Config!Signed

LEMMA BytesOfIp ==
  ASSUME NEW k, NEW text, Items[k].type = "ip"
  PROVE  Config!Bytes(k, text) = IF text[1] = "ip" THEN text[2] ELSE Config!Refused
BY DEF Config!Bytes, Config!Signed

LEMMA BytesOfNumber ==
  ASSUME NEW k, NEW text, Items[k].type \notin {"string", "color", "ip"}
  PROVE  Config!Bytes(k, text) =
           IF text[1] # "number" THEN Config!Refused
           ELSE IF Items[k].type \in {"bool", "int8", "int32"}
             THEN Config!Low(Items[k].type, Config!Strtol(text[2]))
             ELSE Config!Low(Items[k].type, Config!Strtoul(text[2]))
BY DEF Config!Bytes, Config!Signed

LEMMA BytesTyped ==
  ASSUME NEW k \in Config!Keys, NEW text, Config!Proper(k, text)
  PROVE  \/ Config!Bytes(k, text) = Config!Refused
         \/ Config!Bytes(k, text) \in Config!Values(Items[k].type)
<1> DEFINE t == Items[k].type
           n == text[2]
<1>1. t \in Config!Types /\ Items[k].def \in Config!Values(t) /\ text[2] \in Int
  BY ItemTyped DEF Config!Proper
<1>2. ByteValues \in Nat /\ ByteValues >= 2
  BY WebAssumption DEF Config!ConfigAssumption
<1>3. CASE t = "string"
  BY <1>3, BytesOfText DEF Config!Proper, Config!Values
<1>4. CASE t = "color"
  <2>1. Config!Values(t) = 0..((ByteValues * ByteValues * ByteValues * ByteValues) - 1)
    BY <1>4 DEF Config!Values, Config!Size, Config!Range
  <2>2. Items[k].def \in Int
    BY <1>1, <2>1
  <2>3. Items[k].def % ByteValues \in 0..(ByteValues - 1)
    BY <1>2, <2>2, ModRange
  <2>4. ByteValues * ByteValues * ByteValues \in Nat
    BY <1>2, Powers
  <2>5. ASSUME NEW C \in Nat, NEW m \in 0..(C - 1), NEW r \in 0..(ByteValues - 1)
        PROVE  (m * ByteValues) + r \in 0..((C * ByteValues) - 1)
    <3>1. (m + 1) * ByteValues <= C * ByteValues /\ m * ByteValues >= 0 /\ m * ByteValues \in Int
      BY <1>2
    <3> QED BY <1>2, <3>1
  <2>6. CASE text[1] = "color"
    <3>1. n \in 0..(ByteValues * ByteValues * ByteValues - 1)
      BY <2>6 DEF Config!Proper
    <3>2. (n * ByteValues) + (Items[k].def % ByteValues) \in 0..(((ByteValues * ByteValues * ByteValues) * ByteValues) - 1)
      BY <2>3, <2>4, <2>5, <3>1
    <3>3. 0 \in 0..((ByteValues * ByteValues * ByteValues * ByteValues) - 1)
      BY <1>2, <2>4
    <3>4. Config!Bytes(k, text) = Config!Rgba(k, n)
      BY <1>4, <2>6, BytesOfColor
    <3> HIDE DEF n
    <3>5. Config!Rgba(k, n) \in 0..((ByteValues * ByteValues * ByteValues * ByteValues) - 1)
      BY <3>2, <3>3 DEF Config!Rgba
    <3> QED BY <2>1, <3>4, <3>5
  <2>7. CASE text[1] # "color"
    BY <1>4, <2>7, BytesOfColor
  <2> QED BY <2>6, <2>7
<1>5. CASE t = "ip"
  BY <1>5, BytesOfIp DEF Config!Proper, Config!Values, Config!Size, Config!Word
<1>6. CASE t \notin {"string", "color", "ip"}
  <2>1. CASE text[1] # "number"
    BY <1>6, <2>1, BytesOfNumber
  <2>2. CASE text[1] = "number"
    <3>1. \/ Config!Bytes(k, text) = Config!Low(t, Config!Strtol(n))
          \/ Config!Bytes(k, text) = Config!Low(t, Config!Strtoul(n))
      BY <1>6, <2>2, BytesOfNumber
    <3>2. Config!Strtol(n) \in Int /\ Config!Strtoul(n) \in Int
      BY <1>1, StrtoInt
    <3> QED BY <1>6, <3>1, <3>2, LowTyped
  <2> QED BY <2>1, <2>2
<1> QED BY <1>3, <1>4, <1>5, <1>6

(* The casts keep what the type can hold. *)
LEMMA SignedKept ==
  ASSUME NEW k \in Config!Keys, NEW n \in Int,
         Items[k].type \in {"bool", "int8", "int32"},
         -(Config!Range(Config!Size(Items[k].type)) \div 2) <= n,
         n < Config!Range(Config!Size(Items[k].type)) \div 2
  PROVE  Config!Typed(k, Config!Low(Items[k].type, Config!Strtol(n))) = n
<1> DEFINE S == Config!Range(Config!Size(Items[k].type))
<1>1. S \in Nat /\ S >= 2 /\ S <= Config!Word /\ Config!Word \in Nat
  BY ItemTyped, Ranges
<1>2. -(S \div 2) <= n /\ n < S \div 2
  OBVIOUS
<1>3. \A r : Config!Typed(k, r) = IF r >= S \div 2 THEN r - S ELSE r
  BY DEF Config!Typed, Config!Signed
<1>4. \A m : Config!Low(Items[k].type, m) = m % S
  BY DEF Config!Low
<1> HIDE DEF S
<1>5. /\ S \div 2 \in Nat /\ 2 * (S \div 2) <= S /\ S \div 2 <= Config!Word \div 2
      /\ Config!Word \div 2 \in Nat
  BY <1>1, Halves
<1>6. Config!Strtol(n) = n
  BY <1>2, <1>5, StrtolKeeps
<1>7. CASE n >= 0
  <2>1. n \in 0..(S - 1)
    BY <1>1, <1>2, <1>5, <1>7
  <2>2. n % S = n
    BY <1>1, <2>1, ModSmall
  <2> QED BY <1>2, <1>3, <1>4, <1>5, <1>6, <2>2
<1>8. CASE n < 0
  <2>1. n \in (-S)..(-1)
    BY <1>1, <1>2, <1>5, <1>8
  <2>2. n % S = n + S
    BY <1>1, <2>1, ModNegative
  <2>3. n + S >= S \div 2 /\ (n + S) - S = n
    BY <1>1, <1>2, <1>5
  <2> QED BY <1>3, <1>4, <1>6, <2>2, <2>3
<1> QED BY <1>7, <1>8

LEMMA UnsignedKept ==
  ASSUME NEW k \in Config!Keys, NEW n \in Nat,
         Items[k].type \notin {"bool", "int8", "int32"},
         n < Config!Range(Config!Size(Items[k].type))
  PROVE  Config!Typed(k, Config!Low(Items[k].type, Config!Strtoul(n))) = n
<1> DEFINE S == Config!Range(Config!Size(Items[k].type))
<1>1. S \in Nat /\ S >= 2 /\ S <= Config!Word /\ Config!Word \in Nat
  BY ItemTyped, Ranges
<1>2. n < S
  OBVIOUS
<1>3. \A r : Config!Typed(k, r) = r
  BY DEF Config!Typed, Config!Signed
<1>4. \A m : Config!Low(Items[k].type, m) = m % S
  BY DEF Config!Low
<1> HIDE DEF S
<1>5. Config!Strtoul(n) = n
  BY <1>1, <1>2, StrtoulKeeps
<1>6. n % S = n
  BY <1>1, <1>2, ModSmall
<1> QED BY <1>3, <1>4, <1>5, <1>6

LEMMA Meaning ==
  ASSUME NEW k \in Config!Keys, NEW text, Config!Proper(k, text),
         Config!Bytes(k, text) # Config!Refused
  PROVE  Config!Typed(k, Config!Bytes(k, text)) = Config!Meant(k, text)
<1>1. CASE ~(text[1] = "number" /\ Config!Fits(k, text))
  BY <1>1 DEF Config!Meant
<1>2. CASE text[1] = "number" /\ Config!Fits(k, text)
  <2> DEFINE S == Config!Range(Config!Size(Items[k].type))
  <2>0. Config!Meant(k, text) = text[2] /\ text[2] \in Int
    BY <1>2 DEF Config!Meant, Config!Proper
  <2>1. CASE Items[k].type = "string"
    BY <2>0, <2>1, BytesOfText DEF Config!Typed, Config!Signed
  <2>2. Items[k].type # "color" /\ Items[k].type # "ip"
    BY <1>2, BytesOfColor, BytesOfIp
  <2>3. CASE Items[k].type \in {"bool", "int8", "int32"}
    <3>1. -(S \div 2) <= text[2] /\ text[2] < S \div 2
      BY <1>2, <2>3 DEF Config!Fits, Config!Signed
    <3>2. Config!Bytes(k, text) = Config!Low(Items[k].type, Config!Strtol(text[2]))
      BY <1>2, <2>3, BytesOfNumber
    <3> QED BY <2>0, <2>3, <3>1, <3>2, SignedKept
  <2>4. CASE Items[k].type \notin {"string", "bool", "int8", "int32"}
    <3>1. 0 <= text[2] /\ text[2] < S
      BY <1>2, <2>4 DEF Config!Fits, Config!Signed
    <3>2. Config!Bytes(k, text) = Config!Low(Items[k].type, Config!Strtoul(text[2]))
      BY <1>2, <2>2, <2>4, BytesOfNumber
    <3>3. text[2] \in Nat
      BY <2>0, <3>1
    <3> QED BY <2>0, <2>4, <3>1, <3>2, <3>3, UnsignedKept
  <2> QED BY <2>1, <2>2, <2>3, <2>4
<1> QED BY <1>1, <1>2

(* What config_get_handler prints can be posted back. *)
LEMMA PrintedProper ==
  ASSUME NEW k \in Config!Keys, NEW raw \in Config!Values(Items[k].type)
  PROVE  Config!Proper(k, Config!Printed(k, raw))
<1> DEFINE t == Items[k].type
<1>1. ByteValues \in Nat /\ ByteValues >= 2 /\ Config!Word \in Nat /\ Config!Word >= 2
  BY WebAssumption, Ranges DEF Config!ConfigAssumption, Widths
<1>2. raw \in 0..(Config!Word - 1)
  <2>1. CASE t = "string"
    BY <2>1 DEF Config!Values
  <2>2. CASE t # "string"
    <3>1. Config!Range(Config!Size(t)) \in Nat /\ Config!Range(Config!Size(t)) <= Config!Word
      BY ItemTyped, Ranges
    <3> QED BY <1>1, <2>2, <3>1 DEF Config!Values
  <2> QED BY <2>1, <2>2
<1>3. 0 \in 0..(Config!Word - 1) /\ raw \in Int
  BY <1>1, <1>2
<1>4. CASE Config!Printed(k, raw) = <<"unchanged", 0>>
  BY <1>3, <1>4 DEF Config!Proper, Config!Forms
<1>5. CASE Config!Printed(k, raw) # <<"unchanged", 0>>
  <2>1. CASE t = "color"
    <3>1. Config!Printed(k, raw) = <<"color", raw \div ByteValues>>
      BY <1>5, <2>1 DEF Config!Printed
    <3>2. ByteValues * ByteValues * ByteValues \in Nat /\ Config!Word = (ByteValues * ByteValues * ByteValues) * ByteValues
      BY <1>1, Powers DEF Config!Word, Config!Range
    <3>3. raw \div ByteValues \in 0..(ByteValues * ByteValues * ByteValues - 1)
      BY <1>1, <1>2, <3>2, DivBound
    <3>4. raw \div ByteValues \in Int
      BY <3>2, <3>3
    <3> HIDE DEF t
    <3> QED BY <2>1, <3>1, <3>3, <3>4 DEF Config!Proper, Config!Forms, t
  <2>2. CASE t = "ip"
    <3>1. Config!Printed(k, raw) = <<"ip", raw>>
      BY <1>5, <2>2 DEF Config!Printed
    <3> QED BY <1>2, <1>3, <3>1 DEF Config!Proper, Config!Forms
  <2>3. CASE t = "string"
    <3>1. Config!Printed(k, raw) = IF raw = 0 THEN <<"empty", 0>> ELSE <<"word", raw>>
      BY <1>5, <2>3 DEF Config!Printed
    <3> QED BY <1>2, <1>3, <3>1 DEF Config!Proper, Config!Forms
  <2>4. CASE t \notin {"color", "ip", "string"}
    <3>1. Config!Printed(k, raw) = <<"number", raw>>
      BY <1>5, <2>4 DEF Config!Printed
    <3> QED BY <1>3, <2>4, <3>1 DEF Config!Proper, Config!Forms
  <2> QED BY <2>1, <2>2, <2>3, <2>4
<1> QED BY <1>4, <1>5

(* A color has the alpha of its default, unless it is a transparent black. *)
Sane(k, raw) ==
  /\ raw \in Config!Values(Items[k].type)
  /\ Items[k].type = "color" => raw = 0 \/ raw % ByteValues = Items[k].def % ByteValues

LEMMA BytesSane ==
  ASSUME NEW k \in Config!Keys, NEW text, Config!Proper(k, text),
         Config!Bytes(k, text) # Config!Refused
  PROVE  Sane(k, Config!Bytes(k, text))
<1>1. Config!Bytes(k, text) \in Config!Values(Items[k].type)
  BY BytesTyped
<1>2. ASSUME Items[k].type = "color", Config!Bytes(k, text) # 0
      PROVE  Config!Bytes(k, text) % ByteValues = Items[k].def % ByteValues
  <2> DEFINE d == Items[k].def % ByteValues
             n == text[2]
  <2>1. text[1] = "color" /\ Config!Bytes(k, text) = Config!Rgba(k, n)
    BY <1>2, BytesOfColor
  <2>2. Config!Bytes(k, text) = (n * ByteValues) + d
    BY <1>2, <2>1 DEF Config!Rgba
  <2>3. ByteValues \in Nat /\ ByteValues > 0 /\ ByteValues * ByteValues * ByteValues \in Nat
    BY WebAssumption, Powers DEF Config!ConfigAssumption
  <2>4. n \in Nat
    BY <2>1, <2>3 DEF Config!Proper
  <2>5. Items[k].def \in Int
    <3>1. Config!Range(Config!Size(Items[k].type)) \in Nat
      BY ItemTyped, Ranges
    <3> QED BY <1>2, <3>1, ItemTyped DEF Config!Values
  <2>6. d \in 0..(ByteValues - 1)
    BY <2>3, <2>5, ModRange
  <2> HIDE DEF d, n
  <2>7. ((n * ByteValues) + d) % ByteValues = d
    BY <2>3, <2>4, <2>6, DivModExact
  <2>8. Config!Bytes(k, text) % ByteValues = d
    BY <2>2, <2>7
  <2> QED BY <2>8 DEF d
<1> QED BY <1>1, <1>2 DEF Sane

LEMMA PrintedBack ==
  ASSUME NEW k \in Config!Keys, NEW raw, Sane(k, raw), Config!Restorable(k, raw),
         ~Config!Skipped(k, Config!Printed(k, raw))
  PROVE  Config!Bytes(k, Config!Printed(k, raw)) = raw
<1> DEFINE t == Items[k].type
           text == Config!Printed(k, raw)
           S == Config!Range(Config!Size(t))
<1>1. Config!Printed(k, raw) # <<"unchanged", 0>>
  BY DEF Config!Skipped
<1>2. S \in Nat /\ S <= Config!Word /\ Config!Word \in Nat /\ Config!Word \div 2 \in Nat
  BY ItemTyped, Ranges, Halves DEF Widths
<1>3. CASE t = "string"
  <2>1. text = IF raw = 0 THEN <<"empty", 0>> ELSE <<"word", raw>>
    BY <1>1, <1>3 DEF Config!Printed
  <2>2. text[2] = raw
    BY <2>1
  <2> QED BY <1>3, <2>2, BytesOfText
<1>4. CASE t = "ip"
  <2>1. text = <<"ip", raw>>
    BY <1>1, <1>4 DEF Config!Printed
  <2> HIDE DEF text
  <2>2. Config!Bytes(k, text) = raw
    BY <1>4, <2>1, BytesOfIp
  <2> QED BY <2>2 DEF text
<1>5. CASE t = "color"
  <2> DEFINE n == raw \div ByteValues
             d == Items[k].def % ByteValues
  <2>1. text = <<"color", n>>
    BY <1>1, <1>5 DEF Config!Printed
  <2>2. Config!Bytes(k, text) = Config!Rgba(k, n)
    <3> HIDE DEF text, n
    <3> QED BY <1>5, <2>1, BytesOfColor
  <2>3. ByteValues \in Nat /\ ByteValues > 0 /\ raw \in Nat
    BY <1>2, <1>5, WebAssumption DEF Config!ConfigAssumption, Sane, Config!Values
  <2>4. CASE n = 0
    <3>1. raw = 0
      BY <1>5, <2>4 DEF Config!Restorable
    <3> QED BY <2>2, <2>4, <3>1 DEF Config!Rgba
  <2>5. CASE n # 0
    <3>1. raw # 0
      BY <2>3, <2>5
    <3>2. raw % ByteValues = d
      BY <1>5, <3>1 DEF Sane
    <3>3. raw = (n * ByteValues) + (raw % ByteValues)
      BY <2>3, DivMod
    <3>4. Config!Rgba(k, n) = (n * ByteValues) + d
      BY <2>5 DEF Config!Rgba
    <3> HIDE DEF n, d, text
    <3>5. Config!Bytes(k, text) = raw
      BY <2>2, <3>2, <3>3, <3>4
    <3> QED BY <3>5 DEF text
  <2> QED BY <2>4, <2>5
<1>6. CASE t \notin {"string", "ip", "color"}
  <2>1. text = <<"number", raw>>
    BY <1>1, <1>6 DEF Config!Printed
  <2>2. raw \in 0..(S - 1) /\ raw \in Int
    BY <1>2, <1>6 DEF Sane, Config!Values
  <2>3. Config!Low(t, raw) = raw
    <3>1. raw % S = raw
      <4> HIDE DEF S
      <4> QED BY <1>2, <2>2, ModSmall
    <3> QED BY <3>1 DEF Config!Low
  <2>4. CASE t \in {"bool", "int8", "int32"}
    <3>1. raw < Config!Word \div 2
      <4>1. CASE t = "int32"
        BY <4>1 DEF Config!Restorable
      <4>2. CASE t # "int32"
        <5>1. S <= Config!Word \div 2
          BY <2>4, <4>2, Ranges DEF Config!Size, Widths
        <5> QED BY <1>2, <2>2, <5>1
      <4> QED BY <4>1, <4>2
    <3>2. Config!Strtol(raw) = raw
      BY <1>2, <2>2, <3>1, StrtolKeeps
    <3>3. Config!Bytes(k, text) = Config!Low(t, Config!Strtol(raw))
      <4> HIDE DEF text
      <4> QED BY <1>6, <2>1, <2>4, BytesOfNumber
    <3> QED BY <2>3, <3>2, <3>3
  <2>5. CASE t \notin {"bool", "int8", "int32"}
    <3>1. Config!Strtoul(raw) = raw
      BY <1>2, <2>2, StrtoulKeeps
    <3>2. Config!Bytes(k, text) = Config!Low(t, Config!Strtoul(raw))
      <4> HIDE DEF text
      <4> QED BY <1>6, <2>1, <2>5, BytesOfNumber
    <3> QED BY <2>3, <3>1, <3>2
  <2> QED BY <2>4, <2>5
<1> QED BY <1>3, <1>4, <1>5, <1>6

(* The next key of a payload *)
LEMMA NextKeyIs ==
  ASSUME NEW texts, NEW k \in 1..(Len(Items) + 1)
  PROVE  /\ Config!NextKey(texts, k) \in k..(Len(Items) + 1)
         /\ \/ Config!NextKey(texts, k) = Len(Items) + 1
            \/ Config!NextKey(texts, k) \in DOMAIN texts
         /\ \A i \in k..(Config!NextKey(texts, k) - 1) : i \notin DOMAIN texts
<1> DEFINE L == Len(Items) + 1
           Found(j) == (j = L \/ j \in DOMAIN texts) /\ \A i \in k..(j - 1) : i \notin DOMAIN texts
           T == {j \in k..L : j = L \/ j \in DOMAIN texts}
<1>1. L \in Nat
  BY WebAssumption DEF Config!ConfigAssumption
<1>2. T \subseteq Nat /\ T # {}
  <2>1. k..L \subseteq Nat /\ L \in k..L
    BY <1>1
  <2>2. L \in T
    BY <2>1
  <2> QED BY <2>1, <2>2
<1>3. PICK m \in T : \A n \in T : m <= n
  <2> HIDE DEF T
  <2> QED BY <1>2, StatusProofs!SmallestNumber
<1>4. m \in k..L
  OBVIOUS
<1>5. Found(m)
  <2>1. ASSUME NEW i \in k..(m - 1), i \in DOMAIN texts
        PROVE  FALSE
    <3>1. i \in k..L /\ i < m
      BY <1>1, <1>4
    <3>2. i \in T
      BY <2>1, <3>1
    <3>3. m <= i
      BY <1>3, <3>2
    <3> QED BY <1>1, <1>4, <3>1, <3>3
  <2> QED BY <2>1
<1>6. Config!NextKey(texts, k) = CHOOSE j \in k..L : Found(j)
  BY DEF Config!NextKey
<1> HIDE DEF Found
<1>7. Config!NextKey(texts, k) \in k..L /\ Found(Config!NextKey(texts, k))
  BY <1>4, <1>5, <1>6
<1> QED BY <1>7 DEF Found

-----------------------------------------------------------------------------
(* The settings *)

Ends == Len(Items) + 1

SaneStore(store) ==
  /\ store \in [Config!Keys -> Int]
  /\ \A k \in Config!Keys : store[k] = Config!Absent \/ Sane(k, store[k])

ProperTexts(texts) ==
  DOMAIN texts \subseteq Config!Keys /\ \A k \in DOMAIN texts : Config!Proper(k, texts[k])

(* What NVS holds, and the counters *)
StoreShapes ==
  /\ SaneStore(c_stored) /\ SaneStore(committed)
  /\ answer \in {"none", "ok", "error"} /\ restarting \in BOOLEAN
  /\ adrift \in BOOLEAN

StoreCounts ==
  posts \in 0..MaxPosts /\ resets \in 0..MaxResets /\ faults \in 0..MaxFaults

(* A POST under way: what it names is legitimate, what it passed is stored. *)
JobInv ==
  /\ job = [at |-> job.at, key |-> job.key, texts |-> job.texts, back |-> job.back]
  /\ job.at \in {"idle", "items", "commit"} /\ job.key \in 0..Ends
  /\ job.at # "idle" =>
       /\ ProperTexts(job.texts) /\ job.key \in 1..Ends
       /\ job.key \in Config!Keys => job.key \in DOMAIN job.texts
       /\ \A k \in Config!Keys :
            Config!Names(job.texts, k) /\ Config!Bytes(k, job.texts[k]) # Config!Refused
              => Config!Meant(k, job.texts[k]) \in legit[k]
       /\ \A k \in Config!Keys :
            k < job.key /\ Config!Names(job.texts, k)
              => /\ Config!Bytes(k, job.texts[k]) # Config!Refused
                 /\ c_stored[k] = Config!Bytes(k, job.texts[k])
  /\ job.at = "commit" => job.key = Ends

(* A text is what the store holds, as it is printed or as a post of it leaves it. *)
Reads(k, text) ==
  \/ text = Config!Printed(k, Config!Raw(k, c_stored))
  \/ /\ ~Config!Skipped(k, text) /\ Config!Bytes(k, text) # Config!Refused
     /\ c_stored[k] = Config!Bytes(k, text)

PageInv ==
  /\ page = [texts |-> page.texts, fresh |-> page.fresh]
  /\ ProperTexts(page.texts)
  /\ page.fresh => DOMAIN page.texts = Config!Keys
                   /\ \A k \in Config!Keys : Reads(k, page.texts[k])
  /\ job.at # "idle" /\ job.back => job.texts = page.texts

SettingsInv ==
  /\ StoreShapes /\ StoreCounts /\ JobInv /\ PageInv /\ Config!StoreIsMeant

LEMMA SettingIs ==
  ASSUME NEW store, NEW k \in Config!Keys
  PROVE  Config!Settings(store)[k] = Config!Typed(k, Config!Raw(k, store))
BY DEF Config!Settings

LEMMA MeantIs ==
  Config!StoreIsMeant <=>
    \A k \in Config!Keys :
      /\ Config!Typed(k, Config!Raw(k, c_stored)) \in legit[k]
      /\ Config!Typed(k, Config!Raw(k, committed)) \in legit[k]
BY SettingIs DEF Config!StoreIsMeant

LEMMA MeantIsNext ==
  Config!StoreIsMeant' <=>
    \A k \in Config!Keys :
      /\ Config!Typed(k, Config!Raw(k, c_stored')) \in legit'[k]
      /\ Config!Typed(k, Config!Raw(k, committed')) \in legit'[k]
BY SettingIs DEF Config!StoreIsMeant

LEMMA RawSane ==
  ASSUME NEW store, SaneStore(store), NEW k \in Config!Keys
  PROVE  Sane(k, Config!Raw(k, store))
BY ItemTyped DEF SaneStore, Sane, Config!Raw

LEMMA BlankSane ==
  ASSUME NEW k \in Config!Keys
  PROVE  Sane(k, Config!Blank(k))
<1>1. CASE Items[k].type = "string"
  <2>1. Config!Word \in Nat /\ Config!Word > 0
    <3>1. 1 \in Widths
      BY DEF Widths
    <3> QED BY <3>1, Ranges
  <2> QED BY <1>1, <2>1 DEF Sane, Config!Blank, Config!Values
<1>2. CASE Items[k].type # "string"
  BY <1>2, ItemTyped DEF Sane, Config!Blank
<1> QED BY <1>1, <1>2

LEMMA SaneIsInt ==
  ASSUME NEW k \in Config!Keys, NEW raw, Sane(k, raw)
  PROVE  raw \in Int
<1>1. Config!Range(Config!Size(Items[k].type)) \in Nat /\ Config!Word \in Nat
  BY ItemTyped, Ranges DEF Widths
<1> QED BY <1>1 DEF Sane, Config!Values

(* Bytes are no mark of an absent value. *)
LEMMA BytesPresent ==
  ASSUME NEW k \in Config!Keys, NEW text, Config!Proper(k, text),
         Config!Bytes(k, text) # Config!Refused
  PROVE  Config!Bytes(k, text) \in Nat /\ Config!Bytes(k, text) # Config!Absent
<1>1. Config!Bytes(k, text) \in Config!Values(Items[k].type)
  BY BytesTyped
<1>2. Config!Values(Items[k].type) \subseteq Nat
  <2>1. Config!Range(Config!Size(Items[k].type)) \in Nat /\ Config!Word \in Nat
    BY ItemTyped, Ranges DEF Widths
  <2> QED BY <2>1 DEF Config!Values
<1>3. Config!Absent \notin Nat
  BY DEF Config!Absent
<1> QED BY <1>1, <1>2, <1>3

LEMMA SettingsInit ==
  ASSUME Config!Init
  PROVE  SettingsInv
<1>1. c_stored = [k \in Config!Keys |-> Config!Absent] /\ committed = c_stored
  BY DEF Config!Init
<1>2. Config!Absent \in Int
  BY DEF Config!Absent
<1>3. StoreShapes
  BY <1>1, <1>2 DEF Config!Init, StoreShapes, SaneStore
<1>4. StoreCounts
  BY WebAssumption DEF Config!Init, StoreCounts, Config!ConfigAssumption
<1>5. Ends \in Nat
  BY WebAssumption DEF Config!ConfigAssumption, Ends
<1>6. JobInv
  BY <1>5 DEF Config!Init, Config!Idle, JobInv
<1>7. ProperTexts(<<>>)
  BY DEF ProperTexts
<1>8. PageInv
  BY <1>7 DEF Config!Init, Config!NoPage, Config!Idle, PageInv
<1>9. legit = [k \in Config!Keys |-> {Config!Settings(c_stored)[k]}]
  BY DEF Config!Init
<1>10. Config!StoreIsMeant
  BY <1>1, <1>9, SettingIs, MeantIs
<1> QED BY <1>3, <1>4, <1>6, <1>8, <1>10 DEF SettingsInv

LEMMA SetItemStep ==
  ASSUME SettingsInv, Config!SetItem
  PROVE  SettingsInv'
<1> DEFINE k == job.key
           text == job.texts[k]
<1>1. /\ job.at = "items" /\ k \in Config!Keys
      /\ Config!Skipped(k, text) \/ Config!Bytes(k, text) # Config!Refused
      /\ c_stored' = IF Config!Skipped(k, text) THEN c_stored
                     ELSE [c_stored EXCEPT ![k] = Config!Bytes(k, text)]
      /\ page' = [page EXCEPT !.fresh = @ /\ (job.back \/ c_stored' = c_stored)]
      /\ job' = [job EXCEPT !.key = Config!NextKey(job.texts, k + 1)]
      /\ UNCHANGED <<committed, answer, restarting, adrift, legit, posts, resets,
                     faults>>
  BY DEF Config!SetItem
<1>2. StoreShapes /\ StoreCounts /\ JobInv /\ PageInv /\ Config!StoreIsMeant
  BY DEF SettingsInv
<1>3. Ends \in Nat /\ Config!Keys = 1..(Ends - 1)
  BY WebAssumption DEF Config!ConfigAssumption, Ends, Config!Keys
<1>4. k \in DOMAIN job.texts /\ Config!Proper(k, text) /\ ProperTexts(job.texts)
  BY <1>1, <1>2 DEF JobInv, ProperTexts
<1>5. job' = [at |-> "items", key |-> Config!NextKey(job.texts, k + 1),
              texts |-> job.texts, back |-> job.back]
  BY <1>1, <1>2 DEF JobInv
<1>6. page'.texts = page.texts
      /\ page'.fresh = (page.fresh /\ (job.back \/ c_stored' = c_stored))
      /\ page' = [texts |-> page'.texts, fresh |-> page'.fresh]
  BY <1>1, <1>2 DEF PageInv
<1>7. k + 1 \in 1..Ends /\ k + 1 \in Nat /\ k \in Nat
  BY <1>1, <1>3
<1> DEFINE j == Config!NextKey(job.texts, k + 1)
<1>8. /\ j \in (k + 1)..Ends /\ (j = Ends \/ j \in DOMAIN job.texts)
      /\ \A i \in (k + 1)..(j - 1) : i \notin DOMAIN job.texts
  BY <1>7, NextKeyIs DEF Ends
<1>9. /\ ~Config!Skipped(k, text) =>
           /\ Config!Bytes(k, text) # Config!Refused
           /\ Config!Bytes(k, text) \in Nat /\ Config!Bytes(k, text) # Config!Absent
           /\ Sane(k, Config!Bytes(k, text))
  BY <1>1, <1>4, BytesPresent, BytesSane
<1>10. /\ c_stored \in [Config!Keys -> Int]
       /\ c_stored' \in [Config!Keys -> Int]
       /\ \A i \in Config!Keys : i # k => c_stored'[i] = c_stored[i]
       /\ ~Config!Skipped(k, text) => c_stored'[k] = Config!Bytes(k, text)
       /\ Config!Skipped(k, text) => c_stored' = c_stored
  <2> HIDE DEF k, text
  <2> QED BY <1>1, <1>2, <1>9 DEF StoreShapes, SaneStore
<1>11. StoreShapes'
  <2>1. \A i \in Config!Keys : c_stored'[i] = Config!Absent \/ Sane(i, c_stored'[i])
    <3> HIDE DEF k, text
    <3> QED BY <1>1, <1>2, <1>9, <1>10 DEF StoreShapes, SaneStore
  <2> QED BY <1>1, <1>2, <1>10, <2>1 DEF StoreShapes, SaneStore
<1>12. JobInv'
  <2> HIDE DEF j
  <2>1. j \in 1..Ends /\ j > k
    BY <1>7, <1>8
  <2>2. j \in Config!Keys => j \in DOMAIN job.texts
    BY <1>3, <1>8
  <2>3. ASSUME NEW i \in Config!Keys, i < j, Config!Names(job.texts, i)
        PROVE  /\ Config!Bytes(i, job.texts[i]) # Config!Refused
               /\ c_stored'[i] = Config!Bytes(i, job.texts[i])
    <3>1. i <= k
      <4>1. i \in DOMAIN job.texts
        BY <2>3 DEF Config!Names
      <4>2. i \in Nat
        BY <1>3
      <4>3. i \notin (k + 1)..(j - 1)
        BY <1>8, <4>1
      <4> QED BY <1>3, <1>7, <1>8, <2>3, <4>2, <4>3
    <3>2. CASE i = k
      BY <1>9, <1>10, <2>3, <3>2 DEF Config!Names
    <3>3. CASE i # k
      <4>1. i < k
        BY <1>3, <1>7, <3>1, <3>3
      <4>2. /\ Config!Bytes(i, job.texts[i]) # Config!Refused
            /\ c_stored[i] = Config!Bytes(i, job.texts[i])
        BY <1>1, <1>2, <2>3, <4>1 DEF JobInv
      <4> QED BY <1>10, <3>3, <4>2
    <3> QED BY <3>2, <3>3
  <2>4. \A i \in Config!Keys :
          Config!Names(job.texts, i) /\ Config!Bytes(i, job.texts[i]) # Config!Refused
            => Config!Meant(i, job.texts[i]) \in legit[i]
    BY <1>1, <1>2 DEF JobInv
  <2>5. /\ job'.at = "items" /\ job'.key = j /\ job'.texts = job.texts
        /\ job' = [at |-> job'.at, key |-> job'.key, texts |-> job'.texts, back |-> job'.back]
    BY <1>5 DEF j
  <2>6. 1..Ends \subseteq 0..Ends
    OBVIOUS
  <2> QED BY <1>1, <1>4, <2>1, <2>2, <2>3, <2>4, <2>5, <2>6 DEF JobInv
<1>13. PageInv'
  <2>1. job'.texts = job.texts /\ job'.back = job.back /\ job'.at = "items"
    BY <1>5
  <2>2. job.back => job.texts = page.texts
    BY <1>1, <1>2 DEF PageInv
  <2>3. ASSUME page'.fresh
        PROVE  /\ DOMAIN page.texts = Config!Keys
               /\ \A i \in Config!Keys : Reads(i, page.texts[i])'
    <3>1. /\ DOMAIN page.texts = Config!Keys /\ page.fresh
          /\ \A i \in Config!Keys : Reads(i, page.texts[i])
      BY <1>2, <1>6, <2>3 DEF PageInv
    <3>2. CASE c_stored' = c_stored
      BY <1>6, <3>1, <3>2 DEF Reads
    <3>3. CASE c_stored' # c_stored
      <4>1. job.texts = page.texts /\ ~Config!Skipped(k, text)
        BY <1>6, <1>10, <2>2, <2>3, <3>3
      <4>2. ASSUME NEW i \in Config!Keys
            PROVE  Reads(i, page.texts[i])'
        <5>1. CASE i = k
          BY <1>6, <1>9, <1>10, <4>1, <5>1 DEF Reads
        <5>2. CASE i # k
          <6>1. Reads(i, page.texts[i]) /\ c_stored'[i] = c_stored[i]
            BY <1>10, <3>1, <5>2
          <6> QED BY <1>6, <6>1 DEF Reads, Config!Raw
        <5> QED BY <5>1, <5>2
      <4> QED BY <3>1, <4>2
    <3> QED BY <3>2, <3>3
  <2>4. ProperTexts(page.texts)
    BY <1>2 DEF PageInv
  <2> QED BY <1>6, <2>1, <2>2, <2>3, <2>4 DEF PageInv
<1>14. Config!StoreIsMeant'
  <2>1. ASSUME NEW i \in Config!Keys
        PROVE  Config!Typed(i, Config!Raw(i, c_stored')) \in legit[i]
    <3>1. CASE i = k /\ ~Config!Skipped(k, text)
      <4>1. Config!Raw(k, c_stored') = Config!Bytes(k, text)
        BY <1>9, <1>10, <3>1 DEF Config!Raw
      <4>2. Config!Typed(k, Config!Bytes(k, text)) = Config!Meant(k, text)
        BY <1>1, <1>4, <1>9, <3>1, Meaning
      <4>3. Config!Meant(k, text) \in legit[k]
        BY <1>1, <1>2, <1>4, <1>9, <3>1 DEF JobInv, Config!Names
      <4> QED BY <3>1, <4>1, <4>2, <4>3
    <3>2. CASE i # k \/ Config!Skipped(k, text)
      <4>1. c_stored'[i] = c_stored[i]
        BY <1>10, <3>2
      <4> QED BY <1>2, <4>1, MeantIs DEF Config!Raw
    <3> QED BY <3>1, <3>2
  <2> QED BY <1>1, <1>2, <2>1, MeantIs, MeantIsNext
<1>15. StoreCounts'
  BY <1>1, <1>2 DEF StoreCounts
<1> QED BY <1>11, <1>12, <1>13, <1>14, <1>15 DEF SettingsInv

LEMMA FaultCounts ==
  ASSUME StoreCounts, Config!Fault \/ UNCHANGED faults, UNCHANGED <<posts, resets>>
  PROVE  StoreCounts'
BY WebAssumption DEF StoreCounts, Config!Fault, Config!ConfigAssumption

LEMMA BeginStep ==
  ASSUME SettingsInv, NEW texts, NEW back, Config!Begin(texts, back),
         ProperTexts(texts), back => texts = page.texts
  PROVE  SettingsInv'
<1>1. /\ job = Config!Idle /\ posts < MaxPosts /\ posts' = posts + 1
      /\ job' = [at |-> "items", key |-> Config!NextKey(texts, 1), texts |-> texts,
                 back |-> back]
      /\ legit' = [k \in Config!Keys |->
                     IF Config!Names(texts, k) /\ Config!Bytes(k, texts[k]) # Config!Refused
                       THEN legit[k] \cup {Config!Meant(k, texts[k])} ELSE legit[k]]
      /\ UNCHANGED <<c_stored, committed, page, answer, restarting, adrift, resets,
                     faults>>
  BY DEF Config!Begin
<1>2. StoreShapes /\ StoreCounts /\ JobInv /\ PageInv /\ Config!StoreIsMeant
  BY DEF SettingsInv
<1>3. Ends \in Nat /\ 1 \in 1..Ends /\ Config!Keys = 1..(Ends - 1)
  BY WebAssumption DEF Config!ConfigAssumption, Ends, Config!Keys
<1> DEFINE j == Config!NextKey(texts, 1)
<1>4. /\ j \in 1..Ends /\ (j = Ends \/ j \in DOMAIN texts)
      /\ \A i \in 1..(j - 1) : i \notin DOMAIN texts
  BY <1>3, NextKeyIs DEF Ends
<1>5. /\ job'.at = "items" /\ job'.key = j /\ job'.texts = texts /\ job'.back = back
      /\ job' = [at |-> job'.at, key |-> job'.key, texts |-> job'.texts, back |-> job'.back]
  BY <1>1
<1> HIDE DEF j
<1>6. \A k \in Config!Keys :
        /\ legit[k] \subseteq legit'[k]
        /\ Config!Names(texts, k) /\ Config!Bytes(k, texts[k]) # Config!Refused
             => Config!Meant(k, texts[k]) \in legit'[k]
  BY <1>1
<1>7. JobInv'
  <2>1. j \in 0..Ends /\ (j \in Config!Keys => j \in DOMAIN texts)
    BY <1>3, <1>4
  <2>2. ASSUME NEW k \in Config!Keys, k < j, Config!Names(texts, k)
        PROVE  FALSE
    <3>1. k \in 1..(j - 1)
      BY <1>3, <1>4, <2>2
    <3> QED BY <1>4, <2>2, <3>1 DEF Config!Names
  <2> QED BY <1>4, <1>5, <1>6, <2>1, <2>2 DEF JobInv
<1>8. PageInv'
  BY <1>1, <1>2, <1>5 DEF PageInv, Reads
<1>9. Config!StoreIsMeant'
  BY <1>1, <1>2, <1>6, MeantIs, MeantIsNext DEF Config!Raw
<1>10. StoreShapes' /\ StoreCounts'
  BY <1>1, <1>2, WebAssumption DEF StoreShapes, SaneStore, StoreCounts, Config!ConfigAssumption
<1> QED BY <1>7, <1>8, <1>9, <1>10 DEF SettingsInv

LEMMA PostStep ==
  ASSUME SettingsInv, Config!PostConfig \/ Config!PostBack
  PROVE  SettingsInv'
<1>1. ASSUME NEW texts \in Posts, Config!Begin(texts, FALSE)
      PROVE  SettingsInv'
  <2>1. ProperTexts(texts)
    BY WebAssumption DEF Config!ConfigAssumption, ProperTexts
  <2> QED BY <1>1, <2>1, BeginStep
<1>2. ASSUME Config!Begin(page.texts, page.fresh)
      PROVE  SettingsInv'
  <2>1. ProperTexts(page.texts)
    BY DEF SettingsInv, PageInv
  <2> QED BY <1>2, <2>1, BeginStep
<1> QED BY <1>1, <1>2 DEF Config!PostConfig, Config!PostBack

LEMMA GetStep ==
  ASSUME SettingsInv, Config!Get
  PROVE  SettingsInv'
<1>1. PICK raws \in [Config!Keys -> Int] :
        /\ \A k \in Config!Keys : raws[k] \in {Config!Raw(k, c_stored), Config!Blank(k)}
        /\ page' = [texts |-> [k \in Config!Keys |-> Config!Printed(k, raws[k])],
                    fresh |-> page'.fresh]
        /\ page'.fresh => \A k \in Config!Keys : raws[k] = Config!Raw(k, c_stored)
  <2>1. \A k \in Config!Keys : Config!Raw(k, c_stored) \in Int /\ Config!Blank(k) \in Int
    BY RawSane, BlankSane, SaneIsInt DEF SettingsInv, StoreShapes
  <2>2. CASE page' = [texts |-> [k \in Config!Keys |->
                                   Config!Printed(k, Config!Raw(k, c_stored))], fresh |-> TRUE]
    <3> DEFINE raws == [k \in Config!Keys |-> Config!Raw(k, c_stored)]
    <3>1. raws \in [Config!Keys -> Int]
      BY <2>1
    <3>2. page' = [texts |-> [k \in Config!Keys |-> Config!Printed(k, raws[k])],
                   fresh |-> page'.fresh]
      BY <2>2
    <3>3. \A k \in Config!Keys : raws[k] = Config!Raw(k, c_stored)
      OBVIOUS
    <3> HIDE DEF raws
    <3> QED BY <3>1, <3>2, <3>3
  <2>3. ASSUME NEW unread \in Config!Keys,
               page' = [texts |-> [k \in Config!Keys |->
                          Config!Printed(k, IF k = unread THEN Config!Blank(k)
                                                          ELSE Config!Raw(k, c_stored))],
                        fresh |-> FALSE]
        PROVE  \E raws \in [Config!Keys -> Int] :
        /\ \A k \in Config!Keys : raws[k] \in {Config!Raw(k, c_stored), Config!Blank(k)}
        /\ page' = [texts |-> [k \in Config!Keys |-> Config!Printed(k, raws[k])],
                    fresh |-> page'.fresh]
        /\ page'.fresh => \A k \in Config!Keys : raws[k] = Config!Raw(k, c_stored)
    <3> DEFINE raws == [k \in Config!Keys |-> IF k = unread THEN Config!Blank(k)
                                                            ELSE Config!Raw(k, c_stored)]
    <3>1. raws \in [Config!Keys -> Int]
      BY <2>1
    <3>2. page' = [texts |-> [k \in Config!Keys |-> Config!Printed(k, raws[k])],
                   fresh |-> page'.fresh] /\ ~page'.fresh
      BY <2>3
    <3>3. \A k \in Config!Keys : raws[k] \in {Config!Raw(k, c_stored), Config!Blank(k)}
      OBVIOUS
    <3> HIDE DEF raws
    <3> QED BY <3>1, <3>2, <3>3
  <2> QED BY <2>2, <2>3 DEF Config!Get
<1>2. /\ job = Config!Idle /\ (Config!Fault \/ UNCHANGED faults)
      /\ UNCHANGED <<c_stored, committed, job, answer, restarting, adrift, legit,
                     posts, resets>>
  BY DEF Config!Get
<1>3. StoreShapes /\ StoreCounts /\ JobInv /\ PageInv /\ Config!StoreIsMeant
  BY DEF SettingsInv
<1>4. \A k \in Config!Keys :
        /\ Config!Proper(k, Config!Printed(k, raws[k]))
        /\ page'.texts[k] = Config!Printed(k, raws[k])
  <2>1. \A k \in Config!Keys : Sane(k, raws[k])
    BY <1>1, <1>3, RawSane, BlankSane DEF StoreShapes
  <2> QED BY <1>1, <2>1, PrintedProper DEF Sane
<1>5. PageInv'
  <2>1. DOMAIN page'.texts = Config!Keys
    BY <1>1
  <2>2. job'.at = "idle"
    BY <1>2 DEF Config!Idle
  <2>3. page'.fresh => \A k \in Config!Keys : Reads(k, page.texts[k])'
    BY <1>1, <1>2, <1>4 DEF Reads, Config!Raw
  <2>4. page' = [texts |-> page'.texts, fresh |-> page'.fresh]
    BY <1>1
  <2> QED BY <1>4, <2>1, <2>2, <2>3, <2>4 DEF PageInv, ProperTexts
<1>6. JobInv'
  BY <1>2, <1>3 DEF JobInv
<1>7. Config!StoreIsMeant'
  BY <1>2, <1>3, MeantIs, MeantIsNext DEF Config!Raw
<1>8. StoreShapes' /\ StoreCounts'
  BY <1>2, <1>3, FaultCounts DEF StoreShapes, SaneStore
<1> QED BY <1>5, <1>6, <1>7, <1>8 DEF SettingsInv

(* A job that ends leaves nothing to say of it. *)
LEMMA JobEnds ==
  ASSUME SettingsInv, job' = Config!Idle, UNCHANGED <<page, c_stored>>
  PROVE  JobInv' /\ PageInv'
<1>1. /\ job'.at = "idle" /\ job'.key = 0
      /\ job' = [at |-> job'.at, key |-> job'.key, texts |-> job'.texts, back |-> job'.back]
  BY DEF Config!Idle
<1>2. 0 \in 0..Ends
  BY WebAssumption DEF Config!ConfigAssumption, Ends
<1>3. JobInv'
  BY <1>1, <1>2 DEF JobInv
<1>4. PageInv'
  BY <1>1 DEF SettingsInv, PageInv, Reads
<1> QED BY <1>3, <1>4

LEMMA RefuseStep ==
  ASSUME SettingsInv, Config!RefuseItem \/ Config!SyncFails
  PROVE  SettingsInv'
<1>1. /\ job' = Config!Idle /\ answer' = "error" /\ (Config!Fault \/ UNCHANGED faults)
      /\ UNCHANGED <<c_stored, committed, page, restarting, adrift, legit, posts,
                     resets>>
  BY DEF Config!RefuseItem, Config!SyncFails
<1>2. StoreCounts'
  BY <1>1, FaultCounts DEF SettingsInv
<1>3. StoreShapes'
  BY <1>1 DEF SettingsInv, StoreShapes, SaneStore
<1>4. Config!StoreIsMeant'
  BY <1>1, MeantIs, MeantIsNext DEF SettingsInv, Config!Raw
<1> QED BY <1>1, <1>2, <1>3, <1>4, JobEnds DEF SettingsInv

LEMMA CommitSane ==
  ASSUME SettingsInv, c_stored' = c_stored, committed' \in {committed, c_stored},
         answer' \in {"none", "ok", "error"}, restarting' \in BOOLEAN,
         adrift' \in BOOLEAN
  PROVE  StoreShapes'
BY DEF SettingsInv, StoreShapes, SaneStore

LEMMA SyncStep ==
  ASSUME SettingsInv, Config!Sync
  PROVE  SettingsInv'
<1>1. /\ job.at = "items" /\ job.key \notin Config!Keys
      /\ job' = [job EXCEPT !.at = "commit"]
      /\ committed' \in {committed, c_stored}
      /\ UNCHANGED <<c_stored, page, answer, restarting, adrift, legit, posts, resets,
                     faults>>
  BY DEF Config!Sync
<1>2. StoreShapes /\ StoreCounts /\ JobInv /\ PageInv /\ Config!StoreIsMeant
  BY DEF SettingsInv
<1>3. job' = [at |-> "commit", key |-> job.key, texts |-> job.texts, back |-> job.back]
  BY <1>1, <1>2 DEF JobInv
<1>4. job.key = Ends
  <2>1. job.key \in 1..Ends /\ Ends \in Nat /\ Config!Keys = 1..(Ends - 1)
    BY <1>1, <1>2, WebAssumption DEF JobInv, Config!ConfigAssumption, Ends, Config!Keys
  <2> QED BY <1>1, <2>1
<1>5. /\ job'.at = "commit" /\ job'.key = job.key /\ job'.texts = job.texts
      /\ job'.back = job.back
      /\ job' = [at |-> job'.at, key |-> job'.key, texts |-> job'.texts, back |-> job'.back]
  BY <1>3
<1>6. JobInv'
  BY <1>1, <1>2, <1>4, <1>5 DEF JobInv
<1>7. PageInv'
  BY <1>1, <1>2, <1>5 DEF PageInv, Reads
<1>8. StoreShapes'
  BY <1>1, <1>2, CommitSane DEF StoreShapes
<1>9. StoreCounts'
  BY <1>1, <1>2 DEF StoreCounts
<1>10. Config!StoreIsMeant'
  BY <1>1, <1>2, MeantIs, MeantIsNext DEF Config!Raw
<1> QED BY <1>6, <1>7, <1>8, <1>9, <1>10 DEF SettingsInv

LEMMA OtherCommitsStep ==
  ASSUME SettingsInv, Config!OtherCommits
  PROVE  SettingsInv'
<1>1. /\ committed' = c_stored
      /\ UNCHANGED <<c_stored, page, job, answer, restarting, adrift, legit, posts,
                     resets, faults>>
  BY DEF Config!OtherCommits, Config!CommitStore
<1>2. StoreShapes'
  BY <1>1, CommitSane DEF SettingsInv, StoreShapes
<1>3. JobInv' /\ PageInv' /\ StoreCounts'
  BY <1>1 DEF SettingsInv, JobInv, PageInv, Reads, StoreCounts
<1>4. Config!StoreIsMeant'
  BY <1>1, MeantIs, MeantIsNext DEF SettingsInv, Config!Raw
<1> QED BY <1>2, <1>3, <1>4 DEF SettingsInv

LEMMA AcknowledgeStep ==
  ASSUME SettingsInv, Config!Acknowledge
  PROVE  SettingsInv'
<1> DEFINE Committed ==
             /\ committed' = c_stored
             /\ legit' = [k \in Config!Keys |->
                            IF Config!Names(job.texts, k)
                              THEN {Config!Meant(k, job.texts[k])} ELSE legit[k]]
<1>1. /\ job.at = "commit" /\ job' = Config!Idle /\ answer' = "ok"
      /\ Committed \/ UNCHANGED <<committed, legit>>
      /\ Config!Fault \/ UNCHANGED faults
      /\ UNCHANGED <<c_stored, page, posts, resets>>
  BY DEF Config!Acknowledge, Config!CommitPost, Config!CommitStore
<1>2. StoreShapes /\ StoreCounts /\ JobInv /\ PageInv /\ Config!StoreIsMeant
  BY DEF SettingsInv
<1>3. StoreShapes'
  <2>1. restarting' \in BOOLEAN /\ adrift' \in BOOLEAN
    <3>1. restarting \in BOOLEAN /\ adrift \in BOOLEAN
      BY <1>2 DEF StoreShapes
    <3>2. restarting' = TRUE \/ restarting' = restarting
      BY DEF Config!Acknowledge, Config!StartRestart, Config!RestartFails
    <3>3. adrift' = adrift \/ adrift' = (adrift \/ ~restarting)
      BY Zenon DEF Config!Acknowledge, Config!StartRestart, Config!RestartFails
    <3> QED BY <3>1, <3>2, <3>3, Zenon
  <2> QED BY <1>1, <2>1, CommitSane
<1>4. StoreCounts'
  BY <1>1, <1>2, FaultCounts
<1>5. ASSUME Committed, NEW k \in Config!Keys
      PROVE  Config!Typed(k, Config!Raw(k, c_stored)) \in legit'[k]
  <2>1. CASE Config!Names(job.texts, k)
    <3>1. k < job.key
      BY <1>1, <1>2, WebAssumption DEF JobInv, Ends, Config!Keys, Config!ConfigAssumption
    <3>2. /\ Config!Bytes(k, job.texts[k]) # Config!Refused
          /\ c_stored[k] = Config!Bytes(k, job.texts[k])
      BY <1>1, <1>2, <2>1, <3>1 DEF JobInv
    <3>3. Config!Proper(k, job.texts[k])
      BY <1>1, <1>2, <2>1 DEF JobInv, ProperTexts, Config!Names
    <3>4. Config!Raw(k, c_stored) = Config!Bytes(k, job.texts[k])
      BY <3>2, <3>3, BytesPresent DEF Config!Raw
    <3> QED BY <1>5, <2>1, <3>2, <3>3, <3>4, Meaning
  <2>2. CASE ~Config!Names(job.texts, k)
    BY <1>2, <1>5, <2>2, MeantIs
  <2> QED BY <2>1, <2>2
<1>6. Config!StoreIsMeant'
  <2>1. CASE Committed
    BY <1>1, <1>5, <2>1, MeantIsNext DEF Config!Raw
  <2>2. CASE UNCHANGED <<committed, legit>>
    BY <1>1, <1>2, <2>2, MeantIs, MeantIsNext DEF Config!Raw
  <2> QED BY <1>1, <2>1, <2>2
<1> QED BY <1>1, <1>3, <1>4, <1>6, JobEnds DEF SettingsInv

LEMMA BootStep ==
  ASSUME SettingsInv, Config!Restart \/ Config!Reset
  PROVE  SettingsInv'
<1>1. PICK kept \in SUBSET {k \in Config!Keys : c_stored[k] # committed[k]} :
        c_stored' = [k \in Config!Keys |-> IF k \in kept THEN c_stored[k] ELSE committed[k]]
  BY DEF Config!Restart, Config!Reset, Config!Boot
<1>2. /\ committed' = c_stored' /\ job' = Config!Idle /\ restarting' = FALSE
      /\ answer' = "none" /\ page' = [page EXCEPT !.fresh = @ /\ c_stored' = c_stored]
      /\ adrift' \in BOOLEAN /\ (Config!Fault \/ UNCHANGED faults)
      /\ UNCHANGED <<legit, posts>>
  BY DEF Config!Restart, Config!Reset, Config!Boot
<1>3. StoreShapes /\ StoreCounts /\ JobInv /\ PageInv /\ Config!StoreIsMeant
  BY DEF SettingsInv
<1>4. \A k \in Config!Keys : c_stored'[k] \in {c_stored[k], committed[k]}
  BY <1>1
<1>5. c_stored' \in [Config!Keys -> Int]
  BY <1>1, <1>3 DEF StoreShapes, SaneStore
<1>6. SaneStore(c_stored)'
  BY <1>3, <1>4, <1>5 DEF StoreShapes, SaneStore
<1>7. StoreShapes'
  BY <1>2, <1>6 DEF StoreShapes, SaneStore
<1>8. StoreCounts'
  <2>1. UNCHANGED resets \/ (resets < MaxResets /\ resets' = resets + 1)
    BY DEF Config!Restart, Config!Reset
  <2> QED BY <1>2, <1>3, <2>1, WebAssumption
          DEF StoreCounts, Config!Fault, Config!ConfigAssumption
<1>9. JobInv'
  <2>1. /\ job'.at = "idle" /\ job'.key = 0
        /\ job' = [at |-> job'.at, key |-> job'.key, texts |-> job'.texts, back |-> job'.back]
    BY <1>2 DEF Config!Idle
  <2>2. 0 \in 0..Ends
    BY WebAssumption DEF Config!ConfigAssumption, Ends
  <2> QED BY <2>1, <2>2 DEF JobInv
<1>10. PageInv'
  <2>1. /\ page'.texts = page.texts /\ page' = [texts |-> page'.texts, fresh |-> page'.fresh]
        /\ page'.fresh = (page.fresh /\ c_stored' = c_stored)
    BY <1>2, <1>3 DEF PageInv
  <2>2. job'.at = "idle"
    BY <1>2 DEF Config!Idle
  <2>3. ASSUME page'.fresh
        PROVE  /\ DOMAIN page'.texts = Config!Keys
               /\ \A k \in Config!Keys : Reads(k, page.texts[k])'
    BY <1>3, <2>1, <2>3 DEF PageInv, Reads
  <2>4. ProperTexts(page.texts)
    BY <1>3 DEF PageInv
  <2> QED BY <2>1, <2>2, <2>3, <2>4 DEF PageInv
<1>11. Config!StoreIsMeant'
  <2>1. \A k \in Config!Keys :
          Config!Raw(k, c_stored') \in {Config!Raw(k, c_stored), Config!Raw(k, committed)}
    BY <1>4 DEF Config!Raw
  <2> QED BY <1>2, <1>3, <2>1, MeantIs, MeantIsNext
<1> QED BY <1>7, <1>8, <1>9, <1>10, <1>11 DEF SettingsInv

LEMMA SettingsStep ==
  ASSUME SettingsInv, [Config!Next]_configVars
  PROVE  SettingsInv'
<1>1. CASE UNCHANGED configVars
  <2>1. StoreShapes' /\ StoreCounts' /\ JobInv' /\ PageInv'
    BY <1>1 DEF configVars, SettingsInv, StoreShapes, SaneStore, StoreCounts, JobInv,
           PageInv, Reads
  <2>2. Config!StoreIsMeant'
    BY <1>1, MeantIs, MeantIsNext DEF configVars, SettingsInv, Config!Raw
  <2> QED BY <2>1, <2>2 DEF SettingsInv
<1>2. CASE Config!Next
  BY <1>2, SetItemStep, PostStep, GetStep, RefuseStep, SyncStep, OtherCommitsStep,
     AcknowledgeStep, BootStep DEF Config!Next, Config!Handler
<1> QED BY <1>1, <1>2

(* Whatever posts of /config fail half way and whenever the device restarts,    *)
(* NVS holds for every item what the last post that was committed meant by it   *)
(* or what a later one meant (config_post_handler, config.c).                   *)
THEOREM StoreIsMeantCorrect == MCSpec => []StoreIsMeant
<1>1. MCInit => SettingsInv
  BY SettingsInit DEF MCInit
<1>2. SettingsInv /\ [MCNext]_<<part, vars, configVars, statusVars>> => SettingsInv'
  <2>1. [MCNext]_<<part, vars, configVars, statusVars>> => [Config!Next]_configVars
    BY DEF MCNext
  <2> QED BY <2>1, SettingsStep
<1>3. SettingsInv => StoreIsMeant
  <2> SUFFICES ASSUME SettingsInv PROVE StoreIsMeant
    OBVIOUS
  <2>1. \A k \in Config!Keys :
          {c_stored[k], committed[k]} \subseteq
            {Config!Absent} \cup Config!Values(Items[k].type)
    BY DEF SettingsInv, StoreShapes, SaneStore, Sane
  <2>2. Config!TypeOK
    BY <2>1 DEF SettingsInv, StoreShapes, StoreCounts, JobInv, Ends, Config!TypeOK
  <2> QED BY <2>2 DEF SettingsInv, StoreIsMeant
<1> QED BY <1>1, <1>2, <1>3, PTL DEF MCSpec

LEMMA PageKeepsStep ==
  ASSUME SettingsInv, Config!SetItem, job.back, page.fresh,
         Config!Restorable(job.key, Config!Raw(job.key, c_stored))
  PROVE  Config!Settings(c_stored') = Config!Settings(c_stored)
<1> DEFINE k == job.key
           text == job.texts[k]
           raw == Config!Raw(k, c_stored)
<1>1. /\ job.at = "items" /\ k \in Config!Keys
      /\ Config!Skipped(k, text) \/ Config!Bytes(k, text) # Config!Refused
      /\ c_stored' = IF Config!Skipped(k, text) THEN c_stored
                     ELSE [c_stored EXCEPT ![k] = Config!Bytes(k, text)]
  BY DEF Config!SetItem
<1>2. Reads(k, text) /\ Config!Proper(k, text)
  BY <1>1 DEF SettingsInv, JobInv, PageInv, ProperTexts
<1>3. c_stored \in [Config!Keys -> Int] /\ Sane(k, raw)
  BY <1>1, RawSane DEF SettingsInv, StoreShapes, SaneStore
<1>4. CASE Config!Skipped(k, text)
  BY <1>1, <1>4
<1>5. CASE ~Config!Skipped(k, text)
  <2>1. Config!Bytes(k, text) # Config!Absent
    BY <1>1, <1>2, <1>5, BytesPresent
  <2>2. Config!Bytes(k, text) = raw
    <3>1. CASE text = Config!Printed(k, raw)
      BY <1>1, <1>3, <1>5, <3>1, PrintedBack
    <3>2. CASE c_stored[k] = Config!Bytes(k, text)
      BY <2>1, <3>2 DEF Config!Raw
    <3> QED BY <1>2, <3>1, <3>2 DEF Reads
  <2>3. c_stored'[k] = raw /\ raw # Config!Absent
        /\ \A i \in Config!Keys : i # k => c_stored'[i] = c_stored[i]
    <3> HIDE DEF k, text, raw
    <3> QED BY <1>1, <1>3, <1>5, <2>1, <2>2
  <2>4. ASSUME NEW i \in Config!Keys
        PROVE  Config!Raw(i, c_stored') = Config!Raw(i, c_stored)
    <3>1. CASE i = k
      BY <2>3, <3>1 DEF Config!Raw
    <3>2. CASE i # k
      BY <2>3, <3>2 DEF Config!Raw
    <3> QED BY <3>1, <3>2
  <2> QED BY <2>4 DEF Config!Settings
<1> QED BY <1>4, <1>5

(* A page that posts back what GET /config gave it changes no setting, the      *)
(* secrets it was not shown among them, save for what it cannot restore.        *)
THEOREM PageKeepsCorrect == MCSpec => Config!PageKeeps
<1>1. MCInit => SettingsInv
  BY SettingsInit DEF MCInit
<1>2. SettingsInv /\ [MCNext]_<<part, vars, configVars, statusVars>> => SettingsInv'
  <2>1. [MCNext]_<<part, vars, configVars, statusVars>> => [Config!Next]_configVars
    BY DEF MCNext
  <2> QED BY <2>1, SettingsStep
<1>3. SettingsInv =>
        [Config!SetItem /\ job.back /\ page.fresh
           /\ Config!Restorable(job.key, Config!Raw(job.key, c_stored))
             => Config!Settings(c_stored') = Config!Settings(c_stored)]_(Config!vars)
  BY PageKeepsStep
<1> QED BY <1>1, <1>2, <1>3, PTL DEF MCSpec, Config!PageKeeps

=============================================================================
