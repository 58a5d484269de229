---------------------------- MODULE NtripRuntime ----------------------------
(***************************************************************************)
(* The supervised multi-slot NTRIP runtime (main/ntrip_runtime.c): one     *)
(* supervisor task, at most one task per slot, and the callers of the      *)
(* control API (the HTTP server task and the self-test task).              *)
(*                                                                         *)
(* A step is what happens between two releases of s_runtime_mutex, or one  *)
(* unlocked call (a socket call, a read of the slot store).  Sockets are   *)
(* file descriptors that lwIP hands out again once they are closed, so a   *)
(* descriptor a task still holds in a local may come to name the           *)
(* connection of another slot.                                             *)
(*                                                                         *)
(* Left out: statistics, the RTCM stream buffers, the wording of errors    *)
(* and the length of delays.                                               *)
(***************************************************************************)
EXTENDS Integers, FiniteSets

CONSTANTS
  NumSlots,   \* NTRIP_SLOT_COUNT
  MaxSlots,   \* capabilities.max_ntrip_slots of the board
  Fds,        \* the descriptors of lwIP
  Clients,    \* tasks that call the control API
  Ops,        \* the API operations the clients use
  MockModes,  \* the mock modes the clients set
  MaxEvents   \* bound: API calls, link flaps and heap dips in a behaviour

Slots == 1..NumSlots

NoFd   == -1
Nobody == 0

States == {"DISCONNECTED", "CONNECTING", "AUTHENTICATING", "STREAMING",
           "RECONNECT_WAIT", "HARDWARE_LIMITED", "DISABLED", "ERROR"}
AllMocks == {"none", "ok", "fail", "drop"}

ASSUME ConstantsAssumption ==
  /\ NumSlots \in Nat \ {0}
  /\ MaxSlots \in Nat
  /\ Fds \subseteq Nat
  /\ MockModes \subseteq AllMocks
  /\ MaxEvents \in Nat

VARIABLES
  enabled,     \* enabled[s]: the stored configuration of the slot
  shouldRun, stopRequested, taskRunning, handle, state, sock, mock,
               \* fields of s_runtime_slots[s]; handle: task_handle # NULL
  live,        \* live[s]: tasks created for the slot and not past their last
               \* locked section
  pc,          \* where the task of the slot is
  outdated,    \* outdated[s]: the store was changed since the task took its
               \* copy of the slot's configuration (host, mountpoint, ...)
  fd,          \* fd[s]: descriptor the task holds in a local
  owner,       \* owner[f]: slot whose connection f is, or Nobody
  supAt, supSlot, supEnabled, supSafe, supAllowed, supActive,
               \* the supervisor's place and its locals; supActive is the
               \* count it publishes as s_runtime_active_slot_count
  call,        \* call[c]: what client c has still to do
  netUp, heapLow, events

flags == <<shouldRun, stopRequested, taskRunning, handle>>
sup   == <<supAt, supSlot, supEnabled, supSafe, supAllowed, supActive>>
env   == <<netUp, heapLow, events>>
local == <<live, pc, outdated, fd>>
vars  == <<enabled, flags, state, sock, mock, local, owner, sup, call, env>>

TaskPlaces == {"created", "check", "config", "waitip", "dial", "mocked",
               "store", "auth", "request", "mark", "failed", "stream",
               "receive", "write", "close", "exit"}

(* The places where the task works from its copy of the configuration. *)
HasConfig == TaskPlaces \ {"created", "check", "config", "exit"}

Idle == [op |-> "idle"]
Calls == {Idle, [op |-> "restart"]}
           \cup [op : {"enable"}, slot : Slots, to : BOOLEAN]

TypeOK ==
  /\ enabled \in [Slots -> BOOLEAN]
  /\ shouldRun \in [Slots -> BOOLEAN] /\ stopRequested \in [Slots -> BOOLEAN]
  /\ taskRunning \in [Slots -> BOOLEAN] /\ handle \in [Slots -> BOOLEAN]
  /\ state \in [Slots -> States]
  /\ sock \in [Slots -> Fds \cup {NoFd}]
  /\ mock \in [Slots -> AllMocks]
  /\ live \in [Slots -> Int]
  /\ pc \in [Slots -> TaskPlaces \cup {"none"}]
  /\ outdated \in [Slots -> BOOLEAN]
  /\ fd \in [Slots -> Fds \cup {NoFd}]
  /\ owner \in [Fds -> Slots \cup {Nobody}]
  /\ supAt \in {"begin", "read", "slot", "publish"} /\ supSlot \in Slots
  /\ supEnabled \in BOOLEAN /\ supSafe \in BOOLEAN
  /\ supAllowed \in Nat /\ supActive \in Nat
  /\ call \in [Clients -> Calls]
  /\ netUp \in BOOLEAN /\ heapLow \in BOOLEAN /\ events \in Nat

(* The state after ntrip_runtime_init, with any stored configuration. *)
Init ==
  /\ enabled \in [Slots -> BOOLEAN]
  /\ shouldRun = [s \in Slots |-> FALSE]
  /\ stopRequested = [s \in Slots |-> FALSE]
  /\ taskRunning = [s \in Slots |-> FALSE]
  /\ handle = [s \in Slots |-> FALSE]
  /\ state = [s \in Slots |-> "DISABLED"]
  /\ sock = [s \in Slots |-> NoFd]
  /\ mock = [s \in Slots |-> "none"]
  /\ live = [s \in Slots |-> 0]
  /\ pc = [s \in Slots |-> "none"]
  /\ outdated = [s \in Slots |-> FALSE]
  /\ fd = [s \in Slots |-> NoFd]
  /\ owner = [f \in Fds |-> Nobody]
  /\ supAt = "begin" /\ supSlot = 1 /\ supEnabled = FALSE /\ supSafe = FALSE
  /\ supAllowed = 0 /\ supActive = 0
  /\ call = [c \in Clients |-> Idle]
  /\ netUp \in BOOLEAN /\ heapLow = FALSE /\ events = 0

-----------------------------------------------------------------------------
(* Helpers shared by the tasks. *)

Goes(s, from, to) == pc[s] = from /\ pc' = [pc EXCEPT ![s] = to]

SetState(s, st) == state' = [state EXCEPT ![s] = st]

DestroySocketKeepsNumber(s) ==   \* mutant: closes, but does not forget
  /\ owner' = [f \in Fds |-> IF f = sock[s] THEN Nobody ELSE owner[f]]
  /\ UNCHANGED sock

(* destroy_socket(&slot->sock): close the descriptor and forget it. *)
DestroySocket(s) ==
  /\ sock' = [sock EXCEPT ![s] = NoFd]
  /\ owner' = [f \in Fds |-> IF f = sock[s] THEN Nobody ELSE owner[f]]

(* ntrip_runtime_should_stop *)
ShouldStop(s) == stopRequested[s] \/ ~shouldRun[s]

(* The places where a local of the task holds a descriptor; leaving them
   is leaving the scope of the local. *)
HoldsFd == {"store", "auth", "request", "write"}
Scope(s, to) == fd' = IF to \in HoldsFd THEN fd ELSE [fd EXCEPT ![s] = NoFd]

(* A step that only moves the task on, and one that also sets the state. *)
Moves(s, from, to) ==
  /\ Goes(s, from, to) /\ Scope(s, to)
  /\ UNCHANGED <<flags, state, sock, live, outdated, owner>>

Enters(s, from, to, st) ==
  /\ Goes(s, from, to) /\ Scope(s, to)
  /\ SetState(s, st)
  /\ UNCHANGED <<flags, sock, live, outdated, owner>>

-----------------------------------------------------------------------------
(* ntrip_runtime_slot_task *)

TaskStart(s) ==
  /\ Goes(s, "created", "check")
  /\ taskRunning' = [taskRunning EXCEPT ![s] = TRUE]
  /\ stopRequested' = [stopRequested EXCEPT ![s] = FALSE]
  /\ sock' = [sock EXCEPT ![s] = NoFd]
  /\ SetState(s, "DISCONNECTED")
  /\ UNCHANGED <<shouldRun, handle, live, outdated, fd, owner>>

(* The condition of the outer loop; the task also idles here for the time
   of a reconnect delay, which a stop cuts short. *)
CheckStop(s) ==
  \/ ShouldStop(s) /\ Moves(s, "check", "exit")
  \/ ~ShouldStop(s) /\ Moves(s, "check", "config")

ReadConfig(s) ==
  /\ Goes(s, "config", "waitip")
  /\ outdated' = [outdated EXCEPT ![s] = FALSE]
  /\ UNCHANGED <<flags, state, sock, live, fd, owner>>

(* The link is polled every 100 ms; a stop request is not looked at. *)
BeginConnect(s) ==
  /\ netUp
  /\ Enters(s, "waitip", IF mock[s] = "none" THEN "dial" ELSE "mocked",
            "CONNECTING")

(* connect_socket: a new connection on any free descriptor. *)
DialConnected(s) ==
  /\ Goes(s, "dial", "store")
  /\ \E f \in Fds :
       /\ owner[f] = Nobody
       /\ owner' = [owner EXCEPT ![f] = s]
       /\ fd' = [fd EXCEPT ![s] = f]
  /\ UNCHANGED <<flags, state, sock, live, outdated>>

DialFailed(s) == Enters(s, "dial", "failed", "ERROR")

(* ntrip_runtime_mock_connect_and_auth reads the mode a second time: it may
   have been cleared since. *)
DialMocked(s) ==
  \/ mock[s] \in {"ok", "drop"} /\ Enters(s, "mocked", "stream", "STREAMING")
  \/ mock[s] = "fail" /\ Enters(s, "mocked", "failed", "ERROR")
  \/ mock[s] = "none" /\ Moves(s, "mocked", "failed")

StoreSocket(s) ==
  /\ Goes(s, "store", "auth")
  /\ sock' = [sock EXCEPT ![s] = fd[s]]
  /\ UNCHANGED <<flags, state, live, outdated, fd, owner>>

BeginAuth(s) == Enters(s, "auth", "request", "AUTHENTICATING")

(* write and read on the local descriptor can only succeed while it is
   open, be it for this connection or, handed out again, for another. *)
FdIsOpen(s) == fd[s] # NoFd /\ owner[fd[s]] # Nobody

Authenticate(s) == FdIsOpen(s) /\ Moves(s, "request", "mark")
AuthFailed(s) == Enters(s, "request", "failed", "ERROR")

MarkStreaming(s) == Enters(s, "mark", "stream", "STREAMING")

AttemptFailedKeepsSocket(s) ==   \* mutant: the failure path forgets to close
  /\ Goes(s, "failed", "check")
  /\ SetState(s, "RECONNECT_WAIT")
  /\ UNCHANGED <<flags, sock, owner, live, outdated, fd>>

(* note_socket_closed, then a locked section.  The close is merged with the
   section that follows it: no other task can tell the two apart. *)
AttemptFailed(s) ==
  /\ Goes(s, "failed", "check")
  /\ DestroySocket(s)
  /\ SetState(s, "RECONNECT_WAIT")
  /\ UNCHANGED <<flags, live, outdated, fd>>

StreamEndedKeepsSocket(s) ==   \* mutant: a stopped stream is not closed
  /\ Goes(s, "close", "check")
  /\ IF ShouldStop(s) THEN UNCHANGED <<state, sock, owner>>
                      ELSE DestroySocket(s) /\ SetState(s, "RECONNECT_WAIT")
  /\ UNCHANGED <<flags, live, outdated, fd>>

StreamEnded(s) ==
  /\ Goes(s, "close", "check")
  /\ DestroySocket(s)
  /\ IF ShouldStop(s) THEN UNCHANGED state ELSE SetState(s, "RECONNECT_WAIT")
  /\ UNCHANGED <<flags, live, outdated, fd>>

CheckStream(s) ==
  \/ ShouldStop(s) /\ Moves(s, "stream", "close")
  \/ ~ShouldStop(s) /\ Moves(s, "stream", "receive")

(* Nothing in the buffer for 500 ms, or a write that a mock accepts. *)
StreamContinues(s) == Moves(s, "receive", "stream")

(* write(slot->sock, ...): the argument is read first, without the lock. *)
LoadSocket(s) ==
  /\ mock[s] \in {"none", "fail"}
  /\ Goes(s, "receive", "write")
  /\ fd' = [fd EXCEPT ![s] = sock[s]]
  /\ UNCHANGED <<flags, state, sock, live, outdated, owner>>

WriteStream(s) == FdIsOpen(s) /\ Moves(s, "write", "stream")

(* The state stays when an overflow already left its text in last_error. *)
WriteFailed(s) ==
  /\ \/ Goes(s, "write", "close")
     \/ mock[s] = "drop" /\ Goes(s, "receive", "close")
  /\ Scope(s, "close")
  /\ SetState(s, "ERROR") \/ UNCHANGED state
  /\ UNCHANGED <<flags, sock, live, outdated, owner>>

ResetSlotKeepsHandle(s) ==   \* mutant: task_handle is not reset
  /\ taskRunning' = [taskRunning EXCEPT ![s] = FALSE]
  /\ stopRequested' = [stopRequested EXCEPT ![s] = FALSE]
  /\ shouldRun' = [shouldRun EXCEPT ![s] = FALSE]
  /\ SetState(s, "DISABLED") /\ UNCHANGED handle

ResetSlotKeepsState(s) ==   \* mutant: the last state is left standing
  /\ taskRunning' = [taskRunning EXCEPT ![s] = FALSE]
  /\ stopRequested' = [stopRequested EXCEPT ![s] = FALSE]
  /\ shouldRun' = [shouldRun EXCEPT ![s] = FALSE]
  /\ handle' = [handle EXCEPT ![s] = FALSE] /\ UNCHANGED state

ResetSlot(s) ==
  /\ taskRunning' = [taskRunning EXCEPT ![s] = FALSE]
  /\ stopRequested' = [stopRequested EXCEPT ![s] = FALSE]
  /\ shouldRun' = [shouldRun EXCEPT ![s] = FALSE]
  /\ handle' = [handle EXCEPT ![s] = FALSE]
  /\ SetState(s, "DISABLED")

TaskExit(s) ==
  /\ Goes(s, "exit", "none")
  /\ DestroySocket(s)
  /\ ResetSlot(s)
  /\ live' = [live EXCEPT ![s] = @ - 1]
  /\ outdated' = [outdated EXCEPT ![s] = FALSE]
  /\ UNCHANGED fd

TaskStep(s) ==
  /\ \/ TaskStart(s) \/ CheckStop(s) \/ ReadConfig(s) \/ BeginConnect(s)
     \/ DialConnected(s) \/ DialFailed(s) \/ DialMocked(s) \/ StoreSocket(s)
     \/ BeginAuth(s) \/ Authenticate(s) \/ AuthFailed(s) \/ MarkStreaming(s)
     \/ AttemptFailed(s) \/ CheckStream(s) \/ StreamContinues(s)
     \/ LoadSocket(s) \/ WriteStream(s) \/ WriteFailed(s) \/ StreamEnded(s)
     \/ TaskExit(s)
  /\ UNCHANGED <<enabled, mock, sup, call, env>>

-----------------------------------------------------------------------------
(* ntrip_runtime_supervisor_task: one pass over the slots every second. *)

SupervisorBegin ==
  /\ supAt = "begin" /\ supAt' = "read"
  /\ supSafe' = heapLow
  /\ UNCHANGED <<supSlot, supEnabled, supAllowed, supActive>>
  /\ UNCHANGED <<enabled, flags, state, sock, mock, local, owner, call,
                 env>>

(* The configuration is read before the runtime lock is taken. *)
SupervisorRead ==
  /\ supAt = "read" /\ supAt' = "slot"
  /\ supEnabled' = enabled[supSlot]
  /\ UNCHANGED <<supSlot, supSafe, supAllowed, supActive>>
  /\ UNCHANGED <<enabled, flags, state, sock, mock, local, owner, call,
                 env>>

InBudgetOffByOne == supEnabled /\ supAllowed <= MaxSlots   \* mutant
InBudget == supEnabled /\ supAllowed < MaxSlots
AllowSlot == InBudget /\ ~supSafe

MoreSlots(s) == s < NumSlots

(* What every locked section does besides its decision on the slot. *)
Supervises(s) ==
  /\ supAt = "slot" /\ supSlot = s
  /\ shouldRun' = [shouldRun EXCEPT ![s] = AllowSlot]
  /\ supAllowed' = IF InBudget THEN supAllowed + 1 ELSE supAllowed
  /\ supActive' = IF taskRunning[s] THEN supActive + 1 ELSE supActive
  /\ IF MoreSlots(s) THEN supSlot' = s + 1 /\ supAt' = "read"
                     ELSE supSlot' = s /\ supAt' = "publish"
  /\ supEnabled' = FALSE
  /\ UNCHANGED <<supSafe, taskRunning>>
  /\ UNCHANGED <<enabled, sock, mock, outdated, fd, owner, call, env>>

SupervisorStops(s) ==
  /\ ~AllowSlot
  /\ Supervises(s)
  /\ stopRequested' = [stopRequested EXCEPT ![s] = TRUE]
  /\ SetState(s, IF supEnabled THEN "HARDWARE_LIMITED" ELSE "DISABLED")
  /\ UNCHANGED <<handle, live, pc>>

MayCreateUnseen(s) == ~taskRunning[s]   \* mutant: the handle is not looked at
MayCreate(s) == ~taskRunning[s] /\ ~handle[s]

SupervisorStarts(s) ==
  /\ AllowSlot /\ MayCreate(s)
  /\ Supervises(s)
  /\ stopRequested' = [stopRequested EXCEPT ![s] = FALSE]
  /\ handle' = [handle EXCEPT ![s] = TRUE]
  /\ live' = [live EXCEPT ![s] = @ + 1]
  /\ pc' = [pc EXCEPT ![s] = "created"]
  /\ UNCHANGED state

(* xTaskCreate finds no memory; its result is not looked at. *)
SupervisorStartFails(s) ==
  /\ AllowSlot /\ MayCreate(s)
  /\ Supervises(s)
  /\ stopRequested' = [stopRequested EXCEPT ![s] = FALSE]
  /\ UNCHANGED <<handle, live, pc, state>>

SupervisorKeeps(s) ==
  /\ AllowSlot /\ ~MayCreate(s)
  /\ Supervises(s)
  /\ UNCHANGED <<stopRequested, handle, live, pc, state>>

SupervisorPublish ==
  /\ supAt = "publish" /\ supAt' = "begin"
  /\ supSlot' = 1 /\ supSafe' = FALSE /\ supAllowed' = 0 /\ supActive' = 0
  /\ UNCHANGED supEnabled
  /\ UNCHANGED <<enabled, flags, state, sock, mock, local, owner, call,
                 env>>

SupervisorStep ==
  \/ SupervisorBegin \/ SupervisorRead \/ SupervisorPublish
  \/ \E s \in Slots : \/ SupervisorStops(s) \/ SupervisorStarts(s)
                      \/ SupervisorStartFails(s) \/ SupervisorKeeps(s)

-----------------------------------------------------------------------------
(* The control API.  Clients are HTTP requests and the self-test; a call
   that stores a configuration first has its locked part still to do. *)

Spends(op) ==
  op \in Ops /\ events < MaxEvents /\ events' = events + 1
    /\ UNCHANGED <<netUp, heapLow>>

SpendsTwo(op) ==
  op \in Ops /\ events + 1 < MaxEvents /\ events' = events + 2
    /\ UNCHANGED <<netUp, heapLow>>

(* POST /api/ntrip: ntrip_slots_set_all, then ntrip_runtime_restart_all; it  *)
(* counts as two in the bound. *)
StoreAll(c) ==
  /\ call[c] = Idle /\ SpendsTwo("store")
  /\ enabled' \in [Slots -> BOOLEAN]
  /\ outdated' = [s \in Slots |-> pc[s] \in HasConfig]
  /\ call' = [call EXCEPT ![c] = [op |-> "restart"]]
  /\ UNCHANGED <<flags, state, sock, mock, live, pc, fd, owner, sup>>

RestartAllConnectedOnly(c) ==   \* mutant: only slots with a socket must stop
  /\ \/ call[c] = [op |-> "restart"] /\ UNCHANGED env
     \/ call[c] = Idle /\ Spends("restart")
  /\ call' = [call EXCEPT ![c] = Idle]
  /\ stopRequested' = [s \in Slots |-> stopRequested[s] \/ sock[s] # NoFd]
  /\ sock' = [s \in Slots |-> NoFd]
  /\ owner' = [f \in Fds |-> IF \E s \in Slots : sock[s] = f
                             THEN Nobody ELSE owner[f]]
  /\ state' = [s \in Slots |-> "DISCONNECTED"]
  /\ UNCHANGED <<enabled, shouldRun, taskRunning, handle, mock, local,
                 sup>>

RestartAll(c) ==
  /\ \/ call[c] = [op |-> "restart"] /\ UNCHANGED env
     \/ call[c] = Idle /\ Spends("restart")
  /\ call' = [call EXCEPT ![c] = Idle]
  /\ stopRequested' = [s \in Slots |-> TRUE]
  /\ sock' = [s \in Slots |-> NoFd]
  /\ owner' = [f \in Fds |-> IF \E s \in Slots : sock[s] = f
                             THEN Nobody ELSE owner[f]]
  /\ state' = [s \in Slots |-> "DISCONNECTED"]
  /\ UNCHANGED <<enabled, shouldRun, taskRunning, handle, mock, local,
                 sup>>

(* ntrip_runtime_slot_enable(s, b, true): the store ... *)
StoreEnabled(c, s, b) ==
  /\ call[c] = Idle /\ Spends("enable")
  /\ enabled' = [enabled EXCEPT ![s] = b]
  /\ call' = [call EXCEPT ![c] = [op |-> "enable", slot |-> s, to |-> b]]
  /\ UNCHANGED <<flags, state, sock, mock, local, owner, sup>>

(* ... and the part under the lock. *)
SlotEnable(c, s) ==
  /\ call[c] = [op |-> "enable", slot |-> s, to |-> TRUE]
  /\ call' = [call EXCEPT ![c] = Idle]
  /\ stopRequested' = [stopRequested EXCEPT ![s] = FALSE]
  /\ UNCHANGED <<enabled, shouldRun, taskRunning, handle, state, sock,
                 mock, local, owner, sup, env>>

SlotDisable(c, s) ==
  /\ call[c] = [op |-> "enable", slot |-> s, to |-> FALSE]
  /\ call' = [call EXCEPT ![c] = Idle]
  /\ stopRequested' = [stopRequested EXCEPT ![s] = TRUE]
  /\ DestroySocket(s)
  /\ SetState(s, "DISABLED")
  /\ UNCHANGED <<enabled, shouldRun, taskRunning, handle, mock, local,
                 sup, env>>

SetMockMode(c, s, m) ==
  /\ call[c] = Idle /\ Spends("mock")
  /\ mock' = [mock EXCEPT ![s] = m]
  /\ stopRequested' = [stopRequested EXCEPT ![s] = TRUE]
  /\ DestroySocket(s)
  /\ UNCHANGED <<enabled, shouldRun, taskRunning, handle, state, local,
                 sup, call>>

ClientStep(c) ==
  \/ StoreAll(c) \/ RestartAll(c)
  \/ \E s \in Slots :
       \/ SlotEnable(c, s) \/ SlotDisable(c, s)
       \/ \E b \in BOOLEAN : StoreEnabled(c, s, b)
       \/ \E m \in MockModes : SetMockMode(c, s, m)

(* The link and the heap change under the runtime. *)
Environment ==
  /\ events < MaxEvents /\ events' = events + 1
  /\ \/ "link" \in Ops /\ netUp' = ~netUp /\ UNCHANGED heapLow
     \/ "heap" \in Ops /\ heapLow' = ~heapLow /\ UNCHANGED netUp
  /\ UNCHANGED <<enabled, flags, state, sock, mock, local, owner, sup,
                 call>>

Next ==
  \/ \E s \in Slots : TaskStep(s)
  \/ SupervisorStep
  \/ \E c \in Clients : ClientStep(c)
  \/ Environment

Spec == Init /\ [][Next]_vars

(* FreeRTOS runs every ready task, a client finishes the call it is in, and
   a slot that is granted a task gets one when memory allows it again and
   again. *)
Fairness ==
  /\ \A s \in Slots : WF_vars(TaskStep(s)) /\ SF_vars(SupervisorStarts(s))
  /\ WF_vars(SupervisorStep)
  /\ \A c \in Clients : WF_vars(call[c] # Idle /\ ClientStep(c))

FairSpec == Spec /\ Fairness

-----------------------------------------------------------------------------
(* Safety *)

(* The supervisor never creates a task for a slot that still has one: the
   task it created and that has not run yet has task_running still FALSE. *)
OneTaskPerSlot == \A s \in Slots : live[s] <= 1

(* slot->sock always names an open connection of that slot, so closing it
   through destroy_socket never closes the connection of another slot. *)
SocketIsOwn == \A s \in Slots : sock[s] # NoFd => owner[sock[s]] = s

(* Every connection a slot opened can still be found through slot->sock, or
   is about to be stored there: none of lwIP's few descriptors is lost. *)
NoSocketLeak ==
  \A s \in Slots, f \in Fds :
    owner[f] = s => sock[s] = f \/ (pc[s] = "store" /\ fd[s] = f)

(* A slot whose task is gone is never reported as connecting, connected or
   waiting to reconnect by the status API. *)
NoGhostState ==
  \A s \in Slots :
    pc[s] = "none" => state[s] \in {"DISABLED", "HARDWARE_LIMITED",
                                   "DISCONNECTED"}

(* When a supervisor pass is over it has granted no more slots than the
   board allows, whatever was reconfigured during the pass. *)
GrantsWithinLimit ==
  supAt = "publish" => Cardinality({s \in Slots : shouldRun[s]}) <= MaxSlots

(* Scenario capability_limit_check of the self-test: the published number
   of active slots stays within max_ntrip_slots.  The code breaks this. *)
ActiveWithinLimit == supAt = "publish" => supActive <= MaxSlots

(* The runtime implements the promise of SlotWorkers. *)
Workers == INSTANCE SlotWorkers
             WITH workers <- live,
                  conn <- [s \in Slots |-> {f \in Fds : owner[f] = s}]
ImplementsSlotWorkers == Workers!Spec

(* The inductive invariant behind the four invariants above: how the place
   of the task, the fields of its slot and the descriptors hang together. *)
BeforeSocket == {"none", "created", "check", "config", "waitip", "dial",
                 "mocked", "store"}
TaskInv(s) ==
  /\ live[s] = IF pc[s] = "none" THEN 0 ELSE 1
  /\ handle[s] <=> pc[s] # "none"
  /\ taskRunning[s] <=> pc[s] \notin {"none", "created"}
  /\ pc[s] \in BeforeSocket => sock[s] = NoFd
  /\ sock[s] # NoFd => owner[sock[s]] = s
  /\ pc[s] = "store" => fd[s] # NoFd /\ owner[fd[s]] = s
  /\ \A f \in Fds :
       owner[f] = s => sock[s] = f \/ (pc[s] = "store" /\ fd[s] = f)
  /\ pc[s] = "none" => state[s] \in {"DISABLED", "HARDWARE_LIMITED",
                                    "DISCONNECTED"}
IInv == TypeOK /\ \A s \in Slots : TaskInv(s)

(* Of the slots this pass has been over, no more than supAllowed are
   granted; a granted slot counts against the limit. *)
Visited == IF supAt = "publish" THEN Slots ELSE 1..(supSlot - 1)
Granted == {s \in Visited : shouldRun[s]}
PassInv ==
  /\ supAllowed <= MaxSlots
  /\ supAt = "begin" => supSlot = 1
  /\ Cardinality(Granted) <= supAllowed

(* Liveness *)

(* The slots the configuration and the limit of the board call for. *)
Chosen(s) ==
  enabled[s] /\ Cardinality({t \in Slots : t < s /\ enabled[t]}) < MaxSlots

(* With the link up and enough heap, exactly the chosen slots end up with a
   task: no stop is lost for good, no restart leaves a slot without one. *)
ConvergesToConfig ==
  <>[](netUp /\ ~heapLow) =>
    <>[](\A s \in Slots : live[s] = IF Chosen(s) THEN 1 ELSE 0)

(* After POST /api/ntrip no task goes on with the configuration it read
   before: the restart reaches also a task that is just being created. *)
AppliesStoredConfig ==
  <>[]netUp => <>[](\A s \in Slots : ~outdated[s])

(* Scenarios 0, 1 and 5 of the self-test: a chosen slot whose mock accepts
   connections ends up reported as STREAMING, also when the runtime is
   restarted under it or the mock is switched while its task is connecting. *)
MockedSlotStreams ==
  \A s \in Slots :
    <>[](mock[s] = "ok" /\ Chosen(s) /\ netUp /\ ~heapLow) =>
      <>[](state[s] = "STREAMING")

=============================================================================
