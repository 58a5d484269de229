------------------------------- MODULE LoraRx -------------------------------
(***************************************************************************)
(* The radio of a rover: app_main (main.c) builds the configuration, has   *)
(* lora_radio.c check it against its region and set up the chip, starts    *)
(* the reception and then the pipeline; the interrupt task reads the flags *)
(* of the SX126x, clears what it read, asks the chip for its last packet,  *)
(* reads it and hands it to the pipeline.  A rover never transmits, so     *)
(* nothing but this task touches the chip once it listens.                 *)
(*                                                                         *)
(* Packets are numbered by the order on the air.  DIO1 rises with the      *)
(* first flag and stays high while any is set: only the rise wakes the     *)
(* task.  Every SPI command may fail, before or after it took effect.      *)
(***************************************************************************)
EXTENDS Integers, Sequences

CONSTANTS
  Requests,    \* what the build asks for: [region, chip, freq, power]
  MaxPackets,  \* bound: packets on the air
  MaxFaults    \* bound: commands and allocations that fail

VARIABLES
  boot,        \* how far app_main is
  cfg,         \* s_cfg, of it what the region rules
  listening,   \* the chip is in continuous reception
  onAir,       \* number of packets begun
  hearing,     \* the last of them is still coming in
  last,        \* the packet that the chip's buffer status names
  flags,       \* the chip's interrupt flags
  sem,         \* s_irq_sem
  irq,         \* where the interrupt task is
  seen,        \* its irq_status
  named,       \* the packet its rx_status names
  payload,     \* its payload: a packet and whether it is whole
  delivered,   \* what the pipeline was given
  due,         \* history: packets the running pipeline should be given
  blind,       \* history: a flag was raised between reading and clearing the
               \* flags, or one of these commands failed
  overrun,     \* history: a packet began before the last was dealt with
  faults       \* history: number of calls that failed

app  == <<boot, cfg>>
chip == <<listening, onAir, hearing, last, flags, sem>>
task == <<irq, seen, named, payload, delivered>>
vars == <<app, chip, task, due, blind, overrun, faults>>

Flags == {"rx_done", "crc_error", "header_error"}

-----------------------------------------------------------------------------
(* s_region_profiles: chips, default frequency in kHz (0: none), power in dBm *)
Common == {"SX1261", "SX1262", "LLCC68"}
Profile(chips, freq, power) == [chips |-> chips, freq |-> freq, power |-> power]
Regions ==
  [EU868  |-> Profile(Common, 869525, 14),
   US915  |-> Profile(Common, 915000, 20),
   AU915  |-> Profile(Common, 917500, 20),
   AS923  |-> Profile(Common, 923200, 16),
   CUSTOM |-> Profile(Common \cup {"SX1268"}, 0, 22)]

(* The build picks its region from these and a chip by name. *)
Builds == [region : DOMAIN Regions, chip : STRING, freq : Nat, power : Int]

RxAssumption ==
  MaxPackets \in Nat /\ MaxFaults \in Nat /\ Requests \subseteq Builds

(* lora_region_resolve_frequency_hz; 0 is its error *)
Resolve(region, freq) == IF freq # 0 THEN freq ELSE Regions[region].freq

(* lora_validate_region_config: the chip, and the largest power allowed *)
Allowed(c) ==
  /\ c.chip \in Regions[c.region].chips
  /\ Resolve(c.region, c.freq) # 0

ClampNot(c) == [c EXCEPT !.freq = Resolve(c.region, c.freq)]  \* mutant: as asked
Clamp(c) ==
  [c EXCEPT !.freq = Resolve(c.region, c.freq),
            !.power = IF @ > Regions[c.region].power THEN Regions[c.region].power ELSE @]
-----------------------------------------------------------------------------
Init ==
  /\ boot = "build" /\ cfg \in Requests
  /\ listening = FALSE /\ onAir = 0 /\ hearing = FALSE /\ last = 0
  /\ flags = {} /\ sem = FALSE
  /\ irq = "none" /\ seen = {} /\ named = 0
  /\ payload = [packet |-> 0, whole |-> TRUE] /\ delivered = <<>>
  /\ due = {} /\ blind = FALSE /\ overrun = FALSE /\ faults = 0

Fails == faults < MaxFaults /\ faults' = faults + 1

Advance(to) == boot' = to /\ UNCHANGED <<task, due, blind, overrun>>

(* lora_build_default_config, on the frequency of the build *)
Build ==
  /\ boot = "build"
  /\ LET freq == Resolve(cfg.region, cfg.freq) IN
       IF freq # 0 THEN cfg' = [cfg EXCEPT !.freq = freq] /\ Advance("check")
                   ELSE UNCHANGED cfg /\ Advance("off")
  /\ UNCHANGED <<chip, faults>>

(* lora_radio_init *)
Check ==
  /\ boot = "check"
  /\ IF Allowed(cfg) THEN cfg' = Clamp(cfg) /\ Advance("prepare")
                     ELSE UNCHANGED cfg /\ Advance("off")
  /\ UNCHANGED <<chip, faults>>

(* A call that may fail; what was set up before it stays. *)
Attempt(from, to) ==
  /\ boot = from
  /\ \/ Advance(to) /\ UNCHANGED faults
     \/ Advance("off") /\ Fails
  /\ UNCHANGED <<cfg, chip>>

(* Semaphores, pins and the bus *)
Prepare == Attempt("prepare", "apply")

(* The chip's registers, from a reset on, and all flags cleared *)
Apply == Attempt("apply", "spawn")

Spawn ==
  /\ boot = "spawn"
  /\ \/ boot' = "listen" /\ irq' = "idle" /\ UNCHANGED faults
     \/ boot' = "off" /\ UNCHANGED irq /\ Fails
  /\ UNCHANGED <<cfg, chip, seen, named, payload, delivered, due, blind, overrun>>

(* lora_radio_start_rx; its last wait for BUSY may fail when the chip listens. *)
StartRx ==
  /\ boot = "listen"
  /\ \/ Advance("pipeline") /\ listening' = TRUE /\ UNCHANGED faults
     \/ Advance("off") /\ listening' \in BOOLEAN /\ Fails
  /\ flags' = {}
  /\ UNCHANGED <<cfg, onAir, hearing, last, sem>>

(* rover_lora_pipeline_init: packets the task handed on before are dropped. *)
StartPipeline == Attempt("pipeline", "up")

AppMain ==
  Build \/ Check \/ Prepare \/ Apply \/ Spawn \/ StartRx \/ StartPipeline
-----------------------------------------------------------------------------
(* The interrupt task *)

Moves(from, to) == irq = from /\ irq' = to /\ UNCHANGED <<app, due, overrun>>
AtIrq(from, to) == Moves(from, to) /\ UNCHANGED blind

Wake ==
  /\ AtIrq("idle", "get") /\ sem /\ sem' = FALSE
  /\ UNCHANGED <<listening, onAir, hearing, last, flags, seen, named, payload,
                 delivered, faults>>

(* sx126x_get_and_clear_irq_status: two commands; without a flag the task     *)
(* waits a tick and goes back to sleep.                                      *)
GetFlags ==
  /\ AtIrq("get", IF flags = {} THEN "idle" ELSE "clear")
  /\ seen' = flags
  /\ UNCHANGED <<chip, named, payload, delivered, faults>>

ClearRxOnly == flags \ (seen \cap {"rx_done"})  \* mutant: the error flags stay
Cleared == flags \ seen

(* RX_DONE is looked at first: a packet with a CRC error is read like others. *)
ClearFlags ==
  /\ AtIrq("clear", IF "rx_done" \in seen THEN "status" ELSE "error")
  /\ flags' = Cleared
  /\ UNCHANGED <<listening, onAir, hearing, last, sem, seen, named, payload,
                 delivered, faults>>

GetFails ==
  /\ Moves("get", "error") /\ Fails /\ blind' = TRUE
  /\ UNCHANGED <<chip, seen, named, payload, delivered>>

ClearFails ==
  /\ Moves("clear", "error") /\ Fails /\ blind' = TRUE
  /\ flags' \in {flags, Cleared}
  /\ UNCHANGED <<listening, onAir, hearing, last, sem, seen, named, payload, delivered>>

BufferStatus ==
  /\ AtIrq("status", "read") /\ named' = last
  /\ UNCHANGED <<chip, seen, payload, delivered, faults>>

(* What is coming in at the moment may overwrite what is read. *)
ReadBuffer ==
  /\ AtIrq("read", "emit")
  /\ \E whole \in BOOLEAN :
       /\ whole \/ hearing \/ named # last
       /\ payload' = [packet |-> named, whole |-> whole]
  /\ UNCHANGED <<chip, seen, named, delivered, faults>>

ReadFails ==
  /\ irq \in {"status", "read"} /\ AtIrq(irq, "error") /\ Fails
  /\ UNCHANGED <<chip, seen, named, payload, delivered>>

Ready == boot = "up"

(* lora_radio_emit, lora_cb and the pipeline, for which errors are nothing. *)
Emit ==
  /\ \/ AtIrq("emit", "idle")
        /\ delivered' = IF Ready THEN Append(delivered, payload) ELSE delivered
     \/ AtIrq("error", "idle") /\ UNCHANGED delivered
  /\ UNCHANGED <<chip, seen, named, payload, faults>>

IrqTask ==
  \/ Wake \/ GetFlags \/ ClearFlags \/ BufferStatus \/ ReadBuffer \/ Emit
  \/ GetFails \/ ClearFails \/ ReadFails
-----------------------------------------------------------------------------
(* The chip and DIO1 *)

Busy == sem \/ irq \notin {"none", "idle"} \/ flags # {}

Raise(raised) ==
  /\ flags' = flags \cup raised
  /\ sem' = (sem \/ flags = {})
  /\ blind' = (blind \/ irq = "clear")

BeginPacket ==
  /\ listening /\ ~hearing /\ onAir < MaxPackets
  /\ hearing' = TRUE /\ onAir' = onAir + 1
  /\ overrun' = (overrun \/ Busy)
  /\ UNCHANGED <<app, listening, last, flags, sem, task, due, blind, faults>>

EndPacket ==
  /\ hearing /\ hearing' = FALSE /\ last' = onAir
  /\ Raise({"rx_done"}) \/ Raise({"rx_done", "crc_error"})
  /\ due' = IF Ready THEN due \cup {onAir} ELSE due
  /\ UNCHANGED <<app, listening, onAir, task, overrun, faults>>

LosePacket ==
  /\ hearing /\ hearing' = FALSE
  /\ Raise({"header_error"})
  /\ UNCHANGED <<app, listening, onAir, last, task, due, overrun, faults>>

Next == AppMain \/ IrqTask \/ BeginPacket \/ EndPacket \/ LosePacket

Spec == Init /\ [][Next]_vars

(* The scheduler runs both tasks, and a packet ends. *)
Fairness == WF_vars(AppMain) /\ WF_vars(IrqTask) /\ WF_vars(EndPacket \/ LosePacket)
FairSpec == Spec /\ Fairness
-----------------------------------------------------------------------------
Packets == 0..MaxPackets

TypeOK ==
  /\ boot \in {"build", "check", "prepare", "apply", "spawn", "listen",
              "pipeline", "up", "off"}
  /\ onAir \in Packets /\ last \in Packets /\ named \in Packets
  /\ hearing \in BOOLEAN
  /\ flags \in SUBSET Flags /\ seen \in SUBSET Flags
  /\ irq \in {"none", "idle", "get", "clear", "status", "read", "emit", "error"}
  /\ payload \in [packet : Packets, whole : BOOLEAN]
  /\ delivered \in Seq([packet : Packets, whole : BOOLEAN])
  /\ due \in SUBSET Packets
  /\ sem \in BOOLEAN /\ listening \in BOOLEAN /\ blind \in BOOLEAN
  /\ overrun \in BOOLEAN /\ faults \in 0..MaxFaults

(* The chip never comes into use outside what the profile of its region       *)
(* allows; the pipeline runs only behind such a radio.                        *)
Lawful(c) == Allowed(c) /\ c.freq # 0 /\ c.power <= Regions[c.region].power

RadioLawful == listening \/ boot = "up" => listening /\ Lawful(cfg)

(* Packets reach the pipeline in the order of the air, none more than twice   *)
(* and, unless a new one began before the last was dealt with, none twice and *)
(* each as the chip received it.                                              *)
InOrder ==
  /\ \A i \in 1..Len(delivered), j \in 1..Len(delivered) :
       i < j => delivered[i].packet <= delivered[j].packet
  /\ \A i \in 1..(Len(delivered) - 2) : delivered[i].packet # delivered[i + 2].packet
  /\ ~overrun =>
       /\ \A i \in 1..(Len(delivered) - 1) : delivered[i].packet # delivered[i + 1].packet
       /\ \A i \in 1..Len(delivered) : delivered[i].whole

(* When the task has dealt with all, each packet due was delivered, if no     *)
(* command failed and none came on the heels of another.                      *)
HeardIsDelivered ==
  ~Busy /\ ~overrun /\ faults = 0 =>
    \A k \in due : \E i \in 1..Len(delivered) : delivered[i].packet = k

(* The receiver never goes deaf: while a flag is set, DIO1 is high and the    *)
(* task is woken or has yet to read the flags, but for the two cases that     *)
(* blind stands for.                                                          *)
RoverWakes == flags # {} => sem \/ irq \in {"get", "clear"} \/ blind

(* What that rests on: before the task exists no flag is set, and once it has *)
(* read the flags it has read all of them.                                    *)
EarlyQuiet ==
  boot \in {"build", "check", "prepare", "apply", "spawn"} =>
    irq = "none" /\ flags = {} /\ ~listening /\ ~hearing
ReadsAll == irq = "clear" => flags \subseteq seen \/ blind

(* and it gets through with them: none stays set. *)
FlagsDrain == []<>(flags = {} \/ blind)
=============================================================================
