------------------------------ MODULE MCLoraTx ------------------------------
(***************************************************************************)
(* The two ways on which corrections leave the device, for TLC.  The radio  *)
(* at both ends: LoraTx, the base, and beside it LoraRx, the rover; what is *)
(* between the two is LoraLink's.  And a slot of NtripRuntime whose mocks   *)
(* the self test and an HTTP client switch.  They share no state; a         *)
(* behaviour is one of the three, chosen by part at the start.              *)
(***************************************************************************)
EXTENDS LoraTx

VARIABLES
  part,
  boot, cfg, listening, heard, hearing, last, r_flags, r_sem, r_irq, r_seen,
  named, payload, delivered, due, blind, overrun, r_faults,
  enabled, shouldRun, stopRequested, taskRunning, handle, state, sock, mock,
  live, pc, outdated, fd, owner, supAt, supSlot, supEnabled, supSafe,
  supAllowed, supActive, call, netUp, heapLow, events

CONSTANTS
  web, selftest,             \* the clients of the runtime
  RoverRequests,             \* what the builds of the rover ask for
  RoverPackets, RoverFaults  \* bounds: packets on its air, calls that fail

Asked(region, c, freq, power) ==
  [region |-> region, chip |-> c, freq |-> freq, power |-> power]

(* Builds the code takes, the first with less power, and two it refuses *)
MCRequests ==
  {Asked("EU868", "SX1262", 0, 22), Asked("CUSTOM", "SX1268", 433000, 17),
   Asked("US915", "SX1268", 0, 20), Asked("CUSTOM", "SX1262", 0, 20)}

Rover == INSTANCE LoraRx WITH
  Requests <- RoverRequests, MaxPackets <- RoverPackets, MaxFaults <- RoverFaults,
  onAir <- heard,
  flags <- r_flags, sem <- r_sem, irq <- r_irq, seen <- r_seen, faults <- r_faults

(* One slot, and two tasks that use the control API                          *)
Mocked == INSTANCE NtripRuntime WITH
  NumSlots <- 1, MaxSlots <- 1, Fds <- {0, 1}, Clients <- {web, selftest},
  Ops <- {"mock", "restart", "store", "link"},
  MockModes <- {"none", "ok", "fail", "drop"}, MaxEvents <- 4

roverVars == <<boot, cfg, listening, heard, hearing, last, r_flags, r_sem, r_irq,
               r_seen, named, payload, delivered, due, blind, overrun, r_faults>>

mockedVars == <<enabled, shouldRun, stopRequested, taskRunning, handle, state,
                sock, mock, live, pc, outdated, fd, owner, supAt, supSlot,
                supEnabled, supSafe, supAllowed, supActive, call, netUp, heapLow,
                events>>

ASSUME MCAssumption == Rover!RxAssumption

(* One initial state of the parts that do not run is enough. *)
RoverQuiet == cfg = Asked("EU868", "SX1262", 0, 22)
MocksQuiet == netUp /\ ~enabled[1]

MCInit ==
  /\ Init /\ Rover!Init /\ Mocked!Init
  /\ \/ part = "base" /\ RoverQuiet /\ MocksQuiet
     \/ part = "rover" /\ MocksQuiet
     \/ part = "mocked" /\ RoverQuiet

MCNext ==
  \/ part = "base" /\ Next /\ UNCHANGED <<part, roverVars, mockedVars>>
  \/ part = "rover" /\ Rover!Next /\ UNCHANGED <<part, vars, mockedVars>>
  \/ part = "mocked" /\ Mocked!Next /\ UNCHANGED <<part, vars, roverVars>>

(* The fairness of each module, where it is the one that runs *)
MCFairness ==
  /\ WF_vars(part = "base" /\ TxTask) /\ SF_vars(part = "base" /\ TxSend)
  /\ WF_vars(part = "base" /\ IrqTask) /\ WF_vars(part = "base" /\ ChipTxDone)
  /\ WF_roverVars(part = "rover" /\ Rover!AppMain)
  /\ WF_roverVars(part = "rover" /\ Rover!IrqTask)
  /\ WF_roverVars(part = "rover" /\ (Rover!EndPacket \/ Rover!LosePacket))
  /\ WF_mockedVars(part = "mocked" /\ Mocked!TaskStep(1))
  /\ SF_mockedVars(part = "mocked" /\ Mocked!SupervisorStarts(1))
  /\ WF_mockedVars(part = "mocked" /\ Mocked!SupervisorStep)
  /\ \A c \in {web, selftest} :
       WF_mockedVars(part = "mocked" /\ call[c] # Mocked!Idle /\ Mocked!ClientStep(c))

MCSpec == MCInit /\ [][MCNext]_<<part, vars, roverVars, mockedVars>> /\ MCFairness

(* What the rover's pipeline is given, and the radio behind it *)
RoverSound ==
  Rover!TypeOK /\ Rover!RadioLawful /\ Rover!InOrder /\ Rover!HeardIsDelivered

(* The rover goes deaf only in the gap between reading and clearing flags.   *)
RoverWakes == Rover!RoverWakes

(* Neither end comes to a stop: the base gets through its queue, the rover   *)
(* through the flags of its chip.                                            *)
NeverStops == QueueDrains /\ Rover!FlagsDrain

(* A chosen slot whose mock accepts connections streams, and what was stored *)
(* is used (scenarios 0, 1 and 5 of the self test, POST /api/ntrip).         *)
MockedRuns ==
  part = "mocked" => Mocked!MockedSlotStreams /\ Mocked!AppliesStoredConfig
=============================================================================
