------------------------- MODULE NtripRuntimeProofs -------------------------
(***************************************************************************)
(* Proofs about NtripRuntime, for any number of slots, any limit, any set  *)
(* of descriptors, clients and operations.                                 *)
(***************************************************************************)
EXTENDS NtripRuntime, FiniteSetTheorems, TLAPS

(* The two shapes most steps of a slot task have. *)
LEMMA MovesKeepsType ==
  ASSUME TypeOK, NEW s \in Slots, NEW from, NEW to \in TaskPlaces,
         Moves(s, from, to), UNCHANGED <<enabled, mock, sup, call, env>>
  PROVE  TypeOK'
BY ConstantsAssumption DEF ConstantsAssumption, TypeOK, Moves, Goes, Scope,
     flags, sup, env, NoFd

LEMMA EntersKeepsType ==
  ASSUME TypeOK, NEW s \in Slots, NEW from, NEW to \in TaskPlaces,
         NEW st \in States, Enters(s, from, to, st),
         UNCHANGED <<enabled, mock, sup, call, env>>
  PROVE  TypeOK'
BY ConstantsAssumption DEF ConstantsAssumption, TypeOK, Enters, Goes, Scope,
     SetState, flags, sup, env, NoFd

LEMMA TaskKeepsType ==
  ASSUME TypeOK, NEW s \in Slots, TaskStep(s) PROVE TypeOK'
<1> USE TaskStep(s) DEF TaskStep, States
<1>0. /\ "created" \in TaskPlaces /\ "check" \in TaskPlaces
      /\ "config" \in TaskPlaces /\ "waitip" \in TaskPlaces
      /\ "dial" \in TaskPlaces /\ "mocked" \in TaskPlaces
      /\ "store" \in TaskPlaces /\ "auth" \in TaskPlaces
      /\ "request" \in TaskPlaces /\ "mark" \in TaskPlaces
      /\ "failed" \in TaskPlaces /\ "stream" \in TaskPlaces
      /\ "receive" \in TaskPlaces /\ "write" \in TaskPlaces
      /\ "close" \in TaskPlaces /\ "exit" \in TaskPlaces
  BY DEF TaskPlaces
<1> DEFINE Rest == UNCHANGED <<enabled, mock, sup, call, env>>
<1>1. CASE \/ CheckStop(s) \/ CheckStream(s) \/ Authenticate(s)
           \/ StreamContinues(s) \/ WriteStream(s)
  <2>1. \E from \in TaskPlaces, to \in TaskPlaces : Moves(s, from, to)
    BY <1>0, <1>1 DEF CheckStop, CheckStream, Authenticate, StreamContinues,
                      WriteStream
  <2> QED BY <2>1, MovesKeepsType
<1>2. CASE \/ BeginConnect(s) \/ DialFailed(s) \/ BeginAuth(s)
           \/ AuthFailed(s) \/ MarkStreaming(s)
  <2>1. \E from \in TaskPlaces, to \in TaskPlaces, st \in States :
          Enters(s, from, to, st)
    BY <1>0, <1>2 DEF BeginConnect, DialFailed, BeginAuth, AuthFailed,
                      MarkStreaming
  <2> QED BY <2>1, EntersKeepsType
<1>3. CASE DialMocked(s)
  <2>1. CASE \E st \in States, to \in TaskPlaces : Enters(s, "mocked", to, st)
    BY <1>0, <2>1, EntersKeepsType
  <2>2. CASE Moves(s, "mocked", "failed")
    BY <1>0, <2>2, MovesKeepsType
  <2> QED BY <1>0, <1>3, <2>1, <2>2 DEF DialMocked
<1> USE ConstantsAssumption
    DEF ConstantsAssumption, TypeOK, Goes, SetState, Scope, DestroySocket,
        sup, env, flags, NoFd, Nobody
<1>4. CASE TaskStart(s) BY <1>0, <1>4 DEF TaskStart
<1>5. CASE ReadConfig(s) BY <1>0, <1>5 DEF ReadConfig
<1>6. CASE DialConnected(s) BY <1>0, <1>6 DEF DialConnected
<1>7. CASE StoreSocket(s) BY <1>0, <1>7 DEF StoreSocket
<1>8. CASE AttemptFailed(s) BY <1>0, <1>8 DEF AttemptFailed
<1>9. CASE LoadSocket(s) BY <1>0, <1>9 DEF LoadSocket
<1>10. CASE WriteFailed(s) BY <1>0, <1>10 DEF WriteFailed
<1>11. CASE StreamEnded(s) BY <1>0, <1>11 DEF StreamEnded
<1>12. CASE TaskExit(s) BY <1>0, <1>12 DEF TaskExit, ResetSlot
<1> QED BY <1>1, <1>2, <1>3, <1>4, <1>5, <1>6, <1>7, <1>8, <1>9, <1>10,
           <1>11, <1>12

LEMMA SupervisorKeepsType == ASSUME TypeOK, SupervisorStep PROVE TypeOK'
<1>0. 1 \in Slots /\ \A s \in Slots : s < NumSlots => s + 1 \in Slots
  BY ConstantsAssumption DEF ConstantsAssumption, Slots
<1> USE <1>0 DEF TypeOK, sup, env, flags, local
<1>1. CASE SupervisorBegin BY <1>1 DEF SupervisorBegin
<1>2. CASE SupervisorRead BY <1>2 DEF SupervisorRead
<1>3. CASE SupervisorPublish BY <1>3 DEF SupervisorPublish
<1>4. ASSUME NEW s \in Slots, Supervises(s),
             live' \in [Slots -> Int], handle' \in [Slots -> BOOLEAN],
             stopRequested' \in [Slots -> BOOLEAN],
             pc' \in [Slots -> TaskPlaces \cup {"none"}],
             state' \in [Slots -> States]
      PROVE TypeOK'
  <2>1. /\ supAllowed' \in Nat /\ supActive' \in Nat
        /\ supSlot' \in Slots /\ supAt' \in {"begin", "read", "slot", "publish"}
    BY <1>4 DEF Supervises, MoreSlots
  <2>2. shouldRun' \in [Slots -> BOOLEAN]
    BY <1>4 DEF Supervises, AllowSlot, InBudget
  <2>3. supEnabled' \in BOOLEAN /\ supSafe' \in BOOLEAN
    BY <1>4 DEF Supervises, MoreSlots
  <2>4. UNCHANGED <<enabled, sock, mock, outdated, fd, owner, call, env,
                    taskRunning>>
    BY <1>4 DEF Supervises, MoreSlots
  <2> QED BY <1>4, <2>1, <2>2, <2>3, <2>4
<1>5. ASSUME NEW s \in Slots, SupervisorStops(s) PROVE TypeOK'
  BY <1>4, <1>5 DEF SupervisorStops, SetState, States
<1>6. ASSUME NEW s \in Slots, SupervisorStarts(s) PROVE TypeOK'
  BY <1>4, <1>6 DEF SupervisorStarts, TaskPlaces
<1>7. ASSUME NEW s \in Slots, SupervisorStartFails(s) PROVE TypeOK'
  BY <1>4, <1>7 DEF SupervisorStartFails
<1>8. ASSUME NEW s \in Slots, SupervisorKeeps(s) PROVE TypeOK'
  BY <1>4, <1>8 DEF SupervisorKeeps
<1> QED BY <1>1, <1>2, <1>3, <1>5, <1>6, <1>7, <1>8 DEF SupervisorStep

LEMMA ClientKeepsType ==
  ASSUME TypeOK, NEW c \in Clients, ClientStep(c) PROVE TypeOK'
<1> USE ConstantsAssumption
    DEF ConstantsAssumption, TypeOK, sup, env, flags, local, Spends, SpendsTwo,
        Idle, NoFd, Nobody, States, SetState, DestroySocket
<1>1. CASE StoreAll(c)
  <2>1. [op |-> "restart"] \in Calls
    BY DEF Calls
  <2> QED BY <1>1, <2>1 DEF StoreAll
<1>0. Idle \in Calls
  BY DEF Calls
<1>2. CASE RestartAll(c)
  BY <1>0, <1>2 DEF RestartAll
<1>3. ASSUME NEW s \in Slots, NEW b \in BOOLEAN, StoreEnabled(c, s, b)
      PROVE TypeOK'
  <2>1. [op |-> "enable", slot |-> s, to |-> b] \in Calls
    BY DEF Calls
  <2> QED BY <1>3, <2>1 DEF StoreEnabled
<1>4. ASSUME NEW s \in Slots, SlotEnable(c, s) PROVE TypeOK'
  BY <1>0, <1>4 DEF SlotEnable
<1>5. ASSUME NEW s \in Slots, SlotDisable(c, s) PROVE TypeOK'
  BY <1>0, <1>5 DEF SlotDisable
<1>6. ASSUME NEW s \in Slots, NEW m \in MockModes, SetMockMode(c, s, m)
      PROVE TypeOK'
  BY <1>6 DEF SetMockMode
<1> QED BY <1>1, <1>2, <1>3, <1>4, <1>5, <1>6 DEF ClientStep

LEMMA TypeStep == ASSUME TypeOK, [Next]_vars PROVE TypeOK'
<1>1. CASE Environment
  <2>1. netUp' \in BOOLEAN /\ heapLow' \in BOOLEAN
    BY <1>1 DEF Environment, TypeOK
  <2>2. events' \in Nat
    BY <1>1 DEF Environment, TypeOK
  <2> QED BY <1>1, <2>1, <2>2 DEF Environment, TypeOK, flags, sup, local
<1>2. CASE UNCHANGED vars
  BY <1>2 DEF vars, TypeOK, flags, sup, local, env
<1> QED BY <1>1, <1>2, TaskKeepsType, SupervisorKeepsType, ClientKeepsType
        DEF Next

LEMMA TypeInit == Init => TypeOK
<1> SUFFICES ASSUME Init PROVE TypeOK
  OBVIOUS
<1>1. call \in [Clients -> Calls]
  BY DEF Init, Calls
<1>2. state \in [Slots -> States] /\ mock \in [Slots -> AllMocks]
  BY DEF Init, States, AllMocks
<1>3. 1 \in Slots
  BY ConstantsAssumption DEF ConstantsAssumption, Slots
<1>4. /\ shouldRun \in [Slots -> BOOLEAN] /\ stopRequested \in [Slots -> BOOLEAN]
      /\ taskRunning \in [Slots -> BOOLEAN] /\ handle \in [Slots -> BOOLEAN]
      /\ outdated \in [Slots -> BOOLEAN]
  BY DEF Init
<1>5. /\ sock \in [Slots -> Fds \cup {NoFd}] /\ fd \in [Slots -> Fds \cup {NoFd}]
      /\ owner \in [Fds -> Slots \cup {Nobody}] /\ live \in [Slots -> Int]
      /\ pc \in [Slots -> TaskPlaces \cup {"none"}]
  BY DEF Init
<1>6. /\ supAt \in {"begin", "read", "slot", "publish"} /\ supSlot \in Slots
      /\ supEnabled \in BOOLEAN /\ supSafe \in BOOLEAN
      /\ supAllowed \in Nat /\ supActive \in Nat
      /\ netUp \in BOOLEAN /\ heapLow \in BOOLEAN /\ events \in Nat
  BY <1>3 DEF Init
<1> QED BY <1>1, <1>2, <1>4, <1>5, <1>6 DEF Init, TypeOK

(* Type correctness: every variable keeps its type in every behaviour. *)
THEOREM TypeCorrect == Spec => []TypeOK
BY TypeInit, TypeStep, PTL DEF Spec

-----------------------------------------------------------------------------
(* A step that leaves the task and the fields of slot t alone, and opens or
   closes only connections of other slots, keeps the invariant of t. *)
LEMMA OtherSlot ==
  ASSUME TypeOK, NEW t \in Slots, TaskInv(t),
         pc'[t] = pc[t], live'[t] = live[t], handle'[t] = handle[t],
         taskRunning'[t] = taskRunning[t], state'[t] = state[t],
         sock'[t] = sock[t], fd'[t] = fd[t],
         \A f \in Fds : owner'[f] = t <=> owner[f] = t
  PROVE  TaskInv(t)'
<1>1. sock[t] \in Fds \cup {NoFd} /\ fd[t] \in Fds \cup {NoFd}
  BY DEF TypeOK
<1> QED BY <1>1 DEF TaskInv

LEMMA NoFdNotInFds == NoFd \notin Fds
BY ConstantsAssumption DEF ConstantsAssumption, NoFd

(* Closing the socket of a slot closes connections of that slot only. *)
LEMMA DestroyOwn ==
  ASSUME TypeOK, NEW s \in Slots, TaskInv(s), DestroySocket(s)
  PROVE  /\ sock'[s] = NoFd
         /\ \A t \in Slots \ {s} : sock'[t] = sock[t]
         /\ \A t \in Slots \ {s}, f \in Fds : owner'[f] = t <=> owner[f] = t
         /\ \A f \in Fds : owner'[f] = s => owner[f] = s /\ sock[s] # f
         /\ \A f \in Fds : owner[f] = s /\ sock[s] # f => owner'[f] = s
<1>1. sock[s] \in Fds \cup {NoFd} /\ sock \in [Slots -> Fds \cup {NoFd}]
  BY DEF TypeOK
<1>2. Nobody \notin Slots
  BY ConstantsAssumption DEF ConstantsAssumption, Slots, Nobody
<1>3. sock'[s] = NoFd /\ \A t \in Slots \ {s} : sock'[t] = sock[t]
  BY <1>1 DEF DestroySocket
<1>4. \A f \in Fds : owner'[f] = IF f = sock[s] THEN Nobody ELSE owner[f]
  BY DEF DestroySocket
<1>5. \A t \in Slots \ {s}, f \in Fds : owner'[f] = t <=> owner[f] = t
  BY <1>2, <1>4, NoFdNotInFds DEF TaskInv
<1> QED BY <1>2, <1>3, <1>4, <1>5

(* A step of the task of slot s, seen by slot s ... *)
LEMMA TaskStepOwn ==
  ASSUME TypeOK, NEW s \in Slots, TaskInv(s), TaskStep(s)
  PROVE  TaskInv(s)'
<1>1. /\ pc \in [Slots -> TaskPlaces \cup {"none"}]
      /\ sock \in [Slots -> Fds \cup {NoFd}] /\ fd \in [Slots -> Fds \cup {NoFd}]
      /\ live \in [Slots -> Int] /\ handle \in [Slots -> BOOLEAN]
      /\ taskRunning \in [Slots -> BOOLEAN] /\ state \in [Slots -> States]
      /\ owner \in [Fds -> Slots \cup {Nobody}]
      /\ Nobody \notin Slots /\ NoFd \notin Fds
  BY ConstantsAssumption DEF TypeOK, ConstantsAssumption, Slots, Nobody, NoFd
<1> USE <1>1, TaskStep(s), TaskInv(s) DEF TaskInv, BeforeSocket, Goes, flags
<1>2. ASSUME NEW from \in TaskPlaces, NEW to \in TaskPlaces,
             Goes(s, from, to), from \notin {"created", "store"},
             to \notin {"created", "store"},
             from \in BeforeSocket \/ to \notin BeforeSocket,
             UNCHANGED <<sock, live, handle, taskRunning, owner>>
      PROVE  TaskInv(s)'
  <2>1. /\ from # "none" /\ to # "none" /\ pc[s] = from /\ pc'[s] = to
        /\ sock'[s] = sock[s] /\ live'[s] = live[s] /\ handle'[s] = handle[s]
        /\ taskRunning'[s] = taskRunning[s]
        /\ \A f \in Fds : owner'[f] = owner[f]
    BY <1>2 DEF TaskPlaces
  <2> QED BY <1>2, <2>1
<1>3. CASE \/ CheckStop(s) \/ CheckStream(s) \/ Authenticate(s)
           \/ StreamContinues(s) \/ WriteStream(s)
  BY <1>2, <1>3 DEF CheckStop, CheckStream, Authenticate, StreamContinues,
                    WriteStream, Moves, TaskPlaces
<1>4. CASE \/ BeginConnect(s) \/ DialFailed(s) \/ BeginAuth(s)
           \/ AuthFailed(s) \/ MarkStreaming(s)
  BY <1>2, <1>4 DEF BeginConnect, DialFailed, BeginAuth, AuthFailed,
                    MarkStreaming, Enters, TaskPlaces
<1>5. CASE DialMocked(s) \/ LoadSocket(s) \/ WriteFailed(s) \/ ReadConfig(s)
  BY <1>2, <1>5 DEF DialMocked, LoadSocket, WriteFailed, ReadConfig, Moves,
                    Enters, TaskPlaces
<1>6. CASE TaskStart(s)
  BY <1>6 DEF TaskStart
<1>7. CASE DialConnected(s)
  BY <1>7 DEF DialConnected
<1>8. CASE StoreSocket(s)
  BY <1>8 DEF StoreSocket
<1>9. CASE AttemptFailed(s) \/ StreamEnded(s)
  BY <1>9, DestroyOwn DEF AttemptFailed, StreamEnded
<1>10. CASE TaskExit(s)
  BY <1>10, DestroyOwn DEF TaskExit, ResetSlot, SetState
<1> QED BY <1>3, <1>4, <1>5, <1>6, <1>7, <1>8, <1>9, <1>10 DEF TaskStep

(* ... and by every other slot. *)
LEMMA TaskStepOther ==
  ASSUME TypeOK, NEW s \in Slots, TaskInv(s), TaskStep(s),
         NEW t \in Slots \ {s}, TaskInv(t)
  PROVE  TaskInv(t)'
<1>1. \A f \in Fds : owner'[f] = t <=> owner[f] = t
  <2>1. CASE UNCHANGED owner
    BY <2>1
  <2>2. CASE DestroySocket(s)
    BY <2>2, DestroyOwn
  <2>3. CASE DialConnected(s)
    BY <2>3, ConstantsAssumption
       DEF DialConnected, TypeOK, Slots, Nobody, ConstantsAssumption
  <2> QED BY <2>1, <2>2, <2>3
          DEF TaskStep, TaskStart, CheckStop, ReadConfig, BeginConnect,
              DialFailed, DialMocked, StoreSocket, BeginAuth, Authenticate,
              AuthFailed, MarkStreaming, AttemptFailed, CheckStream,
              StreamContinues, LoadSocket, WriteStream, WriteFailed,
              StreamEnded, TaskExit, ResetSlot, Moves, Enters
<1>2. \/ sock'[t] = sock[t]
  <2>1. UNCHANGED sock \/ \E v : sock' = [sock EXCEPT ![s] = v]
    BY DEF TaskStep, TaskStart, CheckStop, ReadConfig, BeginConnect,
           DialConnected, DialFailed, DialMocked, StoreSocket, BeginAuth,
           Authenticate, AuthFailed, MarkStreaming, AttemptFailed,
           CheckStream, StreamContinues, LoadSocket, WriteStream,
           WriteFailed, StreamEnded, TaskExit, ResetSlot, Moves, Enters, DestroySocket
  <2> QED BY <2>1 DEF TypeOK
<1>3. fd'[t] = fd[t]
  <2>1. UNCHANGED fd \/ \E v : fd' = [fd EXCEPT ![s] = v]
    BY DEF TaskStep, TaskStart, CheckStop, ReadConfig, BeginConnect,
           DialConnected, DialFailed, DialMocked, StoreSocket, BeginAuth,
           Authenticate, AuthFailed, MarkStreaming, AttemptFailed,
           CheckStream, StreamContinues, LoadSocket, WriteStream,
           WriteFailed, StreamEnded, TaskExit, ResetSlot, Moves, Enters, Scope
  <2> QED BY <2>1 DEF TypeOK
<1>4. state'[t] = state[t]
  <2>1. UNCHANGED state \/ \E v : state' = [state EXCEPT ![s] = v]
    BY DEF TaskStep, TaskStart, CheckStop, ReadConfig, BeginConnect,
           DialConnected, DialFailed, DialMocked, StoreSocket, BeginAuth,
           Authenticate, AuthFailed, MarkStreaming, AttemptFailed,
           CheckStream, StreamContinues, LoadSocket, WriteStream,
           WriteFailed, StreamEnded, TaskExit, ResetSlot, Moves, Enters, SetState
  <2> QED BY <2>1 DEF TypeOK
<1>5. pc'[t] = pc[t]
  <2>1. \E v : pc' = [pc EXCEPT ![s] = v]
    BY DEF TaskStep, TaskStart, CheckStop, ReadConfig, BeginConnect,
           DialConnected, DialFailed, DialMocked, StoreSocket, BeginAuth,
           Authenticate, AuthFailed, MarkStreaming, AttemptFailed,
           CheckStream, StreamContinues, LoadSocket, WriteStream,
           WriteFailed, StreamEnded, TaskExit, ResetSlot, Moves, Enters, Goes
  <2> QED BY <2>1 DEF TypeOK
<1>6. /\ live'[t] = live[t] /\ handle'[t] = handle[t]
      /\ taskRunning'[t] = taskRunning[t]
  <2>1. CASE UNCHANGED <<live, handle, taskRunning>>
    BY <2>1
  <2>2. CASE TaskStart(s)
    BY <2>2 DEF TaskStart, TypeOK
  <2>3. CASE TaskExit(s)
    BY <2>3 DEF TaskExit, ResetSlot, TypeOK
  <2> QED BY <2>1, <2>2, <2>3
          DEF TaskStep, CheckStop, ReadConfig, BeginConnect,
              DialConnected, DialFailed, DialMocked, StoreSocket, BeginAuth,
              Authenticate, AuthFailed, MarkStreaming, AttemptFailed,
              CheckStream, StreamContinues, LoadSocket, WriteStream,
              WriteFailed, StreamEnded, Moves, Enters, flags
<1> QED BY <1>1, <1>2, <1>3, <1>4, <1>5, <1>6, OtherSlot

LEMMA SupervisorKeepsInv ==
  ASSUME IInv, SupervisorStep, NEW t \in Slots PROVE TaskInv(t)'
<1> USE DEF IInv, TypeOK, flags, local
<1>1. CASE SupervisorBegin \/ SupervisorRead \/ SupervisorPublish
  BY <1>1, OtherSlot DEF SupervisorBegin, SupervisorRead, SupervisorPublish
<1>2. ASSUME NEW s \in Slots,
             SupervisorStartFails(s) \/ SupervisorKeeps(s)
      PROVE  TaskInv(t)'
  BY <1>2, OtherSlot DEF SupervisorStartFails, SupervisorKeeps, Supervises
<1>3. ASSUME NEW s \in Slots, SupervisorStops(s) PROVE TaskInv(t)'
  <2>1. t # s => state'[t] = state[t]
    BY <1>3 DEF SupervisorStops, SetState
  <2>2. state'[s] \in {"DISABLED", "HARDWARE_LIMITED"}
    BY <1>3 DEF SupervisorStops, SetState
  <2>3. UNCHANGED <<pc, live, handle, taskRunning, sock, fd, owner>>
    BY <1>3 DEF SupervisorStops, Supervises
  <2> QED BY <2>1, <2>2, <2>3, OtherSlot DEF TaskInv
<1>4. ASSUME NEW s \in Slots, SupervisorStarts(s) PROVE TaskInv(t)'
  <2>1. pc[s] = "none"
    BY <1>4 DEF SupervisorStarts, MayCreate, TaskInv
  <2>2. CASE t # s
    BY <1>4, <2>2, OtherSlot DEF SupervisorStarts, Supervises
  <2>3. CASE t = s
    BY <1>4, <2>1, <2>3
       DEF SupervisorStarts, Supervises, TaskInv, BeforeSocket
  <2> QED BY <2>2, <2>3
<1> QED BY <1>1, <1>2, <1>3, <1>4 DEF SupervisorStep

LEMMA ClientKeepsInv ==
  ASSUME IInv, NEW c \in Clients, ClientStep(c), NEW t \in Slots
  PROVE  TaskInv(t)'
<1> USE DEF IInv, flags, local
<1>1. CASE StoreAll(c)
  BY <1>1, OtherSlot DEF StoreAll
<1>2. ASSUME NEW s \in Slots,
             SlotEnable(c, s) \/ \E b \in BOOLEAN : StoreEnabled(c, s, b)
      PROVE  TaskInv(t)'
  BY <1>2, OtherSlot DEF StoreEnabled, SlotEnable
<1>3. ASSUME NEW s \in Slots,
             SlotDisable(c, s) \/ \E m \in MockModes : SetMockMode(c, s, m)
      PROVE  TaskInv(t)'
  <2>1. DestroySocket(s) /\ UNCHANGED <<pc, live, handle, taskRunning, fd>>
    BY <1>3 DEF SlotDisable, SetMockMode
  <2>2. state' = state \/ SetState(s, "DISABLED")
    BY <1>3 DEF SlotDisable, SetMockMode
  <2>3. CASE t # s
    <3>1. state'[t] = state[t]
      BY <2>2, <2>3 DEF SetState, TypeOK
    <3> QED BY <2>1, <2>3, <3>1, DestroyOwn, OtherSlot
  <2>4. CASE t = s
    <3>1. pc[s] = "none" => state'[s] \in {"DISABLED", "HARDWARE_LIMITED",
                                          "DISCONNECTED"}
      BY <2>2 DEF SetState, TypeOK, TaskInv
    <3>2. pc[s] = "store" => sock[s] = NoFd /\ fd[s] \in Fds
      BY DEF TaskInv, BeforeSocket, TypeOK
    <3>3. NoFd \notin Fds
      BY ConstantsAssumption DEF ConstantsAssumption, NoFd
    <3> QED BY <2>1, <2>4, <3>1, <3>2, <3>3, DestroyOwn DEF TaskInv
  <2> QED BY <2>3, <2>4
<1>4. CASE RestartAll(c)
  <2>1. /\ sock'[t] = NoFd /\ state'[t] = "DISCONNECTED"
        /\ UNCHANGED <<pc, live, handle, taskRunning, fd>>
    BY <1>4 DEF RestartAll
  <2>2. NoFd \notin Fds /\ Nobody \notin Slots
    BY ConstantsAssumption DEF ConstantsAssumption, NoFd, Nobody, Slots
  <2>3. \A f \in Fds : owner'[f] = t => owner[f] = t /\ sock[t] # f
    BY <1>4, <2>2 DEF RestartAll, TypeOK
  <2>4. pc[t] = "store" => fd[t] \in Fds /\ owner[fd[t]] = t
    BY DEF TaskInv, TypeOK
  <2>5. pc[t] = "store" => \A s \in Slots : sock[s] # fd[t]
    BY <2>2, <2>4 DEF TaskInv, BeforeSocket
  <2>6. pc[t] = "store" => owner'[fd[t]] = t
    BY <1>4, <2>4, <2>5 DEF RestartAll
  <2> QED BY <2>1, <2>2, <2>3, <2>4, <2>6 DEF TaskInv
<1> QED BY <1>1, <1>2, <1>3, <1>4 DEF ClientStep

LEMMA InvInit == Init => IInv
<1> SUFFICES ASSUME Init, NEW s \in Slots PROVE TaskInv(s)
  BY TypeInit DEF IInv
<1>1. Nobody \notin Slots
  BY ConstantsAssumption DEF ConstantsAssumption, Nobody, Slots
<1> QED BY <1>1 DEF Init, TaskInv, BeforeSocket

LEMMA InvStep == ASSUME IInv, [Next]_vars PROVE IInv'
<1> SUFFICES ASSUME NEW t \in Slots PROVE TaskInv(t)'
  BY TypeStep DEF IInv
<1>1. ASSUME NEW s \in Slots, TaskStep(s) PROVE TaskInv(t)'
  BY <1>1, TaskStepOwn, TaskStepOther DEF IInv
<1>2. CASE Environment \/ UNCHANGED vars
  BY <1>2, OtherSlot DEF Environment, vars, flags, local, IInv
<1> QED BY <1>1, <1>2, SupervisorKeepsInv, ClientKeepsInv DEF Next

(* The inductive invariant holds in every behaviour. *)
THEOREM InvCorrect == Spec => []IInv
BY InvInit, InvStep, PTL DEF Spec

(* Whatever the supervisor, the tasks and the API calls do and in whatever
   order, a slot never has two tasks at work on the same fields. *)
THEOREM OneTaskPerSlotCorrect == Spec => []OneTaskPerSlot
<1>1. IInv => OneTaskPerSlot
  BY DEF IInv, TaskInv, OneTaskPerSlot
<1> QED BY <1>1, InvCorrect, PTL

(* slot->sock never names a connection of another slot, so the five places
   that destroy it under the lock close nothing that is not theirs. *)
THEOREM SocketIsOwnCorrect == Spec => []SocketIsOwn
<1>1. IInv => SocketIsOwn
  BY DEF IInv, TaskInv, SocketIsOwn
<1> QED BY <1>1, InvCorrect, PTL

(* No connection is ever forgotten without being closed. *)
THEOREM NoSocketLeakCorrect == Spec => []NoSocketLeak
<1>1. IInv => NoSocketLeak
  BY DEF IInv, TaskInv, NoSocketLeak
<1> QED BY <1>1, InvCorrect, PTL

(* The status of a slot without a task never claims that there is one. *)
THEOREM NoGhostStateCorrect == Spec => []NoGhostState
<1>1. IInv => NoGhostState
  BY DEF IInv, TaskInv, NoGhostState
<1> QED BY <1>1, InvCorrect, PTL

-----------------------------------------------------------------------------
(* The supervisor never grants more slots than the board allows, and the    *)
(* runtime implements SlotWorkers.                                          *)

Conn == [s \in Slots |-> {f \in Fds : owner[f] = s}]

LEMMA WorkersInit == Init => Workers!Init
<1> SUFFICES ASSUME Init PROVE Workers!Init
  OBVIOUS
<1>1. Nobody \notin Slots
  BY ConstantsAssumption DEF ConstantsAssumption, Nobody, Slots
<1>2. \A s \in Slots : {f \in Fds : owner[f] = s} = {}
  BY <1>1 DEF Init
<1> QED BY <1>2 DEF Init, Workers!Init

(* A slot owns at most the connection in slot->sock, unless its task has
   just opened one and not stored it yet. *)
LEMMA ConnOfSlot ==
  ASSUME IInv, NEW s \in Slots
  PROVE  /\ sock[s] # NoFd => Conn[s] = {sock[s]}
         /\ pc[s] # "store" /\ sock[s] = NoFd => Conn[s] = {}
<1>1. sock[s] \in Fds \cup {NoFd} /\ TaskInv(s)
  BY DEF IInv, TypeOK
<1>2. sock[s] # NoFd => pc[s] # "store"
  BY <1>1 DEF TaskInv, BeforeSocket
<1>3. \A f \in Fds : owner[f] = s /\ pc[s] # "store" => sock[s] = f
  BY <1>1 DEF TaskInv
<1>4. sock[s] # NoFd => sock[s] \in Fds /\ owner[sock[s]] = s
  BY <1>1 DEF TaskInv
<1> QED BY <1>2, <1>3, <1>4, NoFdNotInFds DEF Conn

(* Closing the socket of a slot drops its connection, if it has one. *)
LEMMA DestroyDrops ==
  ASSUME IInv, NEW s \in Slots, DestroySocket(s)
  PROVE  \E D \in SUBSET Slots :
           Conn' = [t \in Slots |-> IF t \in D THEN {} ELSE Conn[t]]
<1> DEFINE D == IF sock[s] = NoFd THEN {} ELSE {s}
<1>1. Nobody \notin Slots
  BY ConstantsAssumption DEF ConstantsAssumption, Nobody, Slots
<1>2. \A f \in Fds : owner'[f] = IF f = sock[s] THEN Nobody ELSE owner[f]
  BY DEF DestroySocket
<1>3. ASSUME NEW t \in Slots
      PROVE  Conn'[t] = IF t \in D THEN {} ELSE Conn[t]
  <2>1. CASE sock[s] = NoFd
    BY <1>2, <2>1, NoFdNotInFds DEF Conn
  <2>2. CASE sock[s] # NoFd /\ t = s
    <3>1. \A f \in Fds : owner[f] = s => f = sock[s]
      BY <2>2, ConnOfSlot DEF Conn
    <3> QED BY <1>1, <1>2, <2>2, <3>1 DEF Conn
  <2>3. CASE sock[s] # NoFd /\ t # s
    <3>1. \A f \in Fds : owner'[f] = t <=> owner[f] = t
      BY <2>3, DestroyOwn DEF IInv
    <3> QED BY <2>3, <3>1 DEF Conn
  <2> QED BY <2>1, <2>2, <2>3
<1>4. D \in SUBSET Slots
  OBVIOUS
<1>5. Conn' = [t \in Slots |-> IF t \in D THEN {} ELSE Conn[t]]
  BY <1>3 DEF Conn
<1> QED BY <1>4, <1>5

LEMMA TaskImplements ==
  ASSUME IInv, NEW s \in Slots, TaskStep(s)
  PROVE  [Workers!Next]_(Workers!vars)
<1> USE DEF flags
<1>1. CASE UNCHANGED <<live, owner>>
  BY <1>1 DEF Workers!vars
<1>2. CASE DestroySocket(s) /\ UNCHANGED live
  BY <1>2, DestroyDrops DEF Conn, Workers!Next, Workers!Drop
<1>3. CASE DialConnected(s)
  <2>1. PICK f \in Fds : owner[f] = Nobody /\ owner' = [owner EXCEPT ![f] = s]
    BY <1>3 DEF DialConnected
  <2>2. Nobody \notin Slots /\ TaskInv(s) /\ owner \in [Fds -> Slots \cup {Nobody}]
    BY ConstantsAssumption DEF ConstantsAssumption, Nobody, Slots, IInv, TypeOK
  <2>3. live[s] = 1 /\ live' = live /\ Conn[s] = {}
    BY <1>3, <2>2, ConnOfSlot DEF DialConnected, Goes, TaskInv, BeforeSocket
  <2>4. \A t \in Slots : f \notin Conn[t]
    BY <2>1, <2>2 DEF Conn
  <2>5. Conn' = [Conn EXCEPT ![s] = {f}]
    <3>1. \A t \in Slots, g \in Fds :
            owner'[g] = t <=> IF g = f THEN t = s ELSE owner[g] = t
      BY <2>1, <2>2
    <3>2. \A t \in Slots : Conn'[t] = IF t = s THEN {f} ELSE Conn[t]
      <4> TAKE t \in Slots
      <4>1. CASE t = s
        <5>1. \A g \in Fds : owner[g] # s
          BY <2>3 DEF Conn
        <5> QED BY <3>1, <4>1, <5>1 DEF Conn
      <4>2. CASE t # s
        BY <2>4, <3>1, <4>2 DEF Conn
      <4> QED BY <4>1, <4>2
    <3> QED BY <3>2 DEF Conn
  <2>6. Workers!Connect(s, f)
    BY <2>3, <2>4, <2>5 DEF Conn, Workers!Connect
  <2> QED BY <2>6 DEF Workers!Next
<1>4. CASE TaskExit(s)
  <2>1. live[s] = 1 /\ pc[s] # "store" /\ DestroySocket(s)
    BY <1>4 DEF TaskExit, ResetSlot, Goes, IInv, TaskInv
  <2>2. live' = [live EXCEPT ![s] = 0]
    BY <1>4, <2>1 DEF TaskExit, ResetSlot
  <2>3. Conn'[s] = {}
    BY <2>1, DestroyOwn DEF Conn, IInv, TaskInv
  <2>4. \A t \in Slots \ {s} : Conn'[t] = Conn[t]
    BY <2>1, DestroyOwn DEF Conn, IInv
  <2>5. Conn' = [Conn EXCEPT ![s] = {}]
    BY <2>3, <2>4 DEF Conn
  <2>6. Workers!End(s)
    BY <2>1, <2>2, <2>5 DEF Conn, Workers!End
  <2> QED BY <2>6 DEF Workers!Next
<1> QED BY <1>1, <1>2, <1>3, <1>4
        DEF TaskStep, TaskStart, CheckStop, ReadConfig, BeginConnect,
            DialFailed, DialMocked, StoreSocket, BeginAuth, Authenticate,
            AuthFailed, MarkStreaming, AttemptFailed, CheckStream,
            StreamContinues, LoadSocket, WriteStream, WriteFailed,
            StreamEnded, Moves, Enters

LEMMA SupervisorImplements ==
  ASSUME IInv, SupervisorStep
  PROVE  [Workers!Next]_(Workers!vars)
<1> USE DEF flags, local
<1>1. CASE UNCHANGED <<live, owner>>
  BY <1>1 DEF Workers!vars
<1>2. ASSUME NEW s \in Slots, SupervisorStarts(s)
      PROVE  [Workers!Next]_(Workers!vars)
  <2>1. live[s] = 0 /\ live \in [Slots -> Int]
    BY <1>2 DEF SupervisorStarts, MayCreate, IInv, TypeOK, TaskInv
  <2>2. live' = [live EXCEPT ![s] = 1] /\ owner' = owner
    BY <1>2, <2>1 DEF SupervisorStarts, Supervises
  <2>3. Workers!Begin(s)
    BY <2>1, <2>2 DEF Workers!Begin
  <2> QED BY <2>3 DEF Workers!Next
<1> QED BY <1>1, <1>2
        DEF SupervisorStep, SupervisorBegin, SupervisorRead,
            SupervisorPublish, SupervisorStops, SupervisorStartFails,
            SupervisorKeeps, Supervises

LEMMA ClientImplements ==
  ASSUME IInv, NEW c \in Clients, ClientStep(c)
  PROVE  [Workers!Next]_(Workers!vars)
<1> USE DEF flags, local
<1>1. CASE UNCHANGED <<live, owner>>
  BY <1>1 DEF Workers!vars
<1>2. ASSUME NEW s \in Slots, DestroySocket(s), UNCHANGED live
      PROVE  [Workers!Next]_(Workers!vars)
  BY <1>2, DestroyDrops DEF Conn, Workers!Next, Workers!Drop
<1>3. CASE RestartAll(c)
  <2> DEFINE D == {s \in Slots : sock[s] # NoFd}
  <2>1. Nobody \notin Slots
    BY ConstantsAssumption DEF ConstantsAssumption, Nobody, Slots
  <2>2. \A f \in Fds : owner'[f] = IF \E s \in Slots : sock[s] = f
                                   THEN Nobody ELSE owner[f]
    BY <1>3 DEF RestartAll
  <2>3. ASSUME NEW t \in Slots
        PROVE  Conn'[t] = IF t \in D THEN {} ELSE Conn[t]
    <3>1. CASE t \in D
      <4>1. \A f \in Fds : owner[f] = t => f = sock[t]
        BY <3>1, ConnOfSlot DEF Conn
      <4> QED BY <2>1, <2>2, <3>1, <4>1 DEF Conn
    <3>2. CASE t \notin D
      <4>1. \A f \in Fds, s \in Slots : sock[s] = f => owner[f] # t
        BY <3>2, NoFdNotInFds DEF IInv, TaskInv
      <4> QED BY <2>1, <2>2, <3>2, <4>1 DEF Conn
    <3> QED BY <3>1, <3>2
  <2>4. Conn' = [t \in Slots |-> IF t \in D THEN {} ELSE Conn[t]]
    BY <2>3 DEF Conn
  <2>5. live' = live
    BY <1>3 DEF RestartAll
  <2>6. D \in SUBSET Slots
    OBVIOUS
  <2>7. \E E \in SUBSET Slots :
          Conn' = [t \in Slots |-> IF t \in E THEN {} ELSE Conn[t]]
    BY <2>4, <2>6
  <2> QED BY <2>5, <2>7 DEF Conn, Workers!Next, Workers!Drop
<1> QED BY <1>1, <1>2, <1>3
        DEF ClientStep, StoreAll, StoreEnabled, SlotEnable, SlotDisable,
            SetMockMode

LEMMA WorkersStep ==
  ASSUME IInv, [Next]_vars PROVE [Workers!Next]_(Workers!vars)
<1>1. CASE Environment \/ UNCHANGED vars
  BY <1>1 DEF Environment, vars, local, Workers!vars
<1> QED BY <1>1, TaskImplements, SupervisorImplements, ClientImplements
        DEF Next

(* Every behaviour of the runtime is one of the abstract worker pool. *)
THEOREM RuntimeImplementsWorkers == Spec => ImplementsSlotWorkers
BY WorkersInit, WorkersStep, InvCorrect, PTL
   DEF Spec, ImplementsSlotWorkers, Workers!Spec

-----------------------------------------------------------------------------
LEMMA GrantedIsFinite ==
  ASSUME TypeOK
  PROVE  /\ IsFiniteSet(Slots) /\ IsFiniteSet(Granted)
         /\ Cardinality(Granted) \in Nat
<1>1. IsFiniteSet(Slots)
  BY ConstantsAssumption, FS_Interval DEF ConstantsAssumption, Slots
<1>2. Granted \subseteq Slots
  BY ConstantsAssumption DEF ConstantsAssumption, Granted, Visited, TypeOK, Slots
<1> QED BY <1>1, <1>2, FS_Subset, FS_CardinalityType

LEMMA PassInit == Init => PassInv
<1> SUFFICES ASSUME Init PROVE PassInv
  OBVIOUS
<1>1. Granted = {}
  BY ConstantsAssumption DEF ConstantsAssumption, Init, Granted, Visited
<1> QED BY <1>1, FS_EmptySet, ConstantsAssumption
        DEF ConstantsAssumption, Init, PassInv

(* Steps outside the supervisor can only take a grant back. *)
LEMMA OthersKeepPass ==
  ASSUME TypeOK, PassInv, UNCHANGED sup,
         \A s \in Slots : shouldRun'[s] => shouldRun[s]
  PROVE  PassInv'
<1>1. Granted' \subseteq Granted
  BY ConstantsAssumption
     DEF ConstantsAssumption, Granted, Visited, sup, TypeOK, Slots
<1>2. Cardinality(Granted') <= Cardinality(Granted)
  BY <1>1, GrantedIsFinite, FS_Subset
<1>3. Cardinality(Granted') \in Nat /\ Cardinality(Granted) \in Nat
  BY <1>1, GrantedIsFinite, FS_Subset, FS_CardinalityType
<1> QED BY <1>2, <1>3, ConstantsAssumption
        DEF PassInv, sup, TypeOK, ConstantsAssumption

LEMMA SupervisorKeepsPass ==
  ASSUME TypeOK, TypeOK', PassInv, SupervisorStep PROVE PassInv'
<1>1. CASE SupervisorBegin \/ SupervisorRead
  <2>1. Granted' = Granted /\ supAt' # "begin" /\ supAllowed' = supAllowed
    BY <1>1 DEF SupervisorBegin, SupervisorRead, Granted, Visited, flags
  <2> QED BY <2>1 DEF PassInv
<1>2. CASE SupervisorPublish
  <2>1. Granted' = {}
    BY <1>2 DEF SupervisorPublish, Granted, Visited
  <2> QED BY <1>2, <2>1, FS_EmptySet, ConstantsAssumption
          DEF SupervisorPublish, PassInv, ConstantsAssumption
<1>3. ASSUME NEW s \in Slots, Supervises(s) PROVE PassInv'
  <2>1. /\ supSlot = s /\ supAt = "slot" /\ supAt' # "begin"
        /\ shouldRun' = [shouldRun EXCEPT ![s] = AllowSlot]
        /\ supAllowed' = IF InBudget THEN supAllowed + 1 ELSE supAllowed
    BY <1>3 DEF Supervises, MoreSlots
  <2>2. Visited' = Visited \cup {s} /\ s \notin Visited
    BY <1>3, ConstantsAssumption
       DEF Supervises, MoreSlots, Visited, Slots, ConstantsAssumption
  <2>3. Visited \subseteq Slots
    BY <2>1, ConstantsAssumption DEF Visited, Slots, ConstantsAssumption
  <2>4. Granted' = IF AllowSlot THEN Granted \cup {s} ELSE Granted
    BY <2>1, <2>2, <2>3 DEF Granted, TypeOK
  <2>5. /\ Cardinality(Granted') \in Nat /\ Cardinality(Granted) \in Nat
        /\ Cardinality(Granted') <= IF AllowSlot THEN Cardinality(Granted) + 1
                                                 ELSE Cardinality(Granted)
    <3>1. CASE AllowSlot
      <4>1. s \notin Granted
        BY <2>2 DEF Granted
      <4>2. IsFiniteSet(Granted) /\ Cardinality(Granted) \in Nat
        BY GrantedIsFinite
      <4>3. Cardinality(Granted \cup {s}) = Cardinality(Granted) + 1
        BY <4>1, <4>2, FS_AddElement
      <4> QED BY <2>4, <3>1, <4>2, <4>3
    <3>2. CASE ~AllowSlot
      BY <2>4, <3>2, GrantedIsFinite
    <3> QED BY <3>1, <3>2
  <2>6. supAllowed \in Nat /\ MaxSlots \in Nat
    BY ConstantsAssumption DEF TypeOK, ConstantsAssumption
  <2>7. Cardinality(Granted') <= supAllowed' /\ supAllowed' <= MaxSlots
    BY <2>1, <2>5, <2>6 DEF AllowSlot, InBudget, PassInv
  <2> QED BY <2>1, <2>7 DEF PassInv
<1> QED BY <1>1, <1>2, <1>3
        DEF SupervisorStep, SupervisorStops, SupervisorStarts,
            SupervisorStartFails, SupervisorKeeps

LEMMA PassStep ==
  ASSUME TypeOK, TypeOK', PassInv, [Next]_vars PROVE PassInv'
<1>1. ASSUME NEW s \in Slots, TaskStep(s) PROVE PassInv'
  <2>1. UNCHANGED shouldRun \/ shouldRun' = [shouldRun EXCEPT ![s] = FALSE]
    BY <1>1
       DEF TaskStep, TaskStart, CheckStop, ReadConfig, BeginConnect,
           DialConnected, DialFailed, DialMocked, StoreSocket, BeginAuth,
           Authenticate, AuthFailed, MarkStreaming, AttemptFailed,
           CheckStream, StreamContinues, LoadSocket, WriteStream,
           WriteFailed, StreamEnded, TaskExit, ResetSlot, Moves, Enters, flags
  <2>2. UNCHANGED sup
    BY <1>1 DEF TaskStep, sup
  <2> QED BY <2>1, <2>2, OthersKeepPass DEF TypeOK
<1>2. ASSUME NEW c \in Clients, ClientStep(c) PROVE PassInv'
  BY <1>2, OthersKeepPass
     DEF ClientStep, StoreAll, RestartAll, StoreEnabled, SlotEnable,
         SlotDisable, SetMockMode, flags, sup
<1>3. CASE Environment \/ UNCHANGED vars
  BY <1>3, OthersKeepPass DEF Environment, vars, flags, sup
<1> QED BY <1>1, <1>2, <1>3, SupervisorKeepsPass DEF Next

(* However often slots are enabled, disabled or stored during a pass of the
   supervisor, it grants at most max_ntrip_slots of them. *)
THEOREM GrantsCorrect == Spec => []GrantsWithinLimit
<1>1. TypeOK /\ PassInv => GrantsWithinLimit
  <2> SUFFICES ASSUME TypeOK, PassInv, supAt = "publish"
               PROVE  Cardinality({s \in Slots : shouldRun[s]}) <= MaxSlots
    BY DEF GrantsWithinLimit
  <2>1. Granted = {s \in Slots : shouldRun[s]}
    BY DEF Granted, Visited
  <2> QED BY <2>1, GrantedIsFinite, ConstantsAssumption
          DEF PassInv, TypeOK, ConstantsAssumption
<1>2. Init => PassInv
  BY PassInit
<1>3. TypeOK /\ TypeOK' /\ PassInv /\ [Next]_vars => PassInv'
  BY PassStep
<1> QED BY <1>1, <1>2, <1>3, TypeCorrect, PTL DEF Spec

=============================================================================
