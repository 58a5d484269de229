------------------------------- MODULE LoraTx -------------------------------
(***************************************************************************)
(* How the base transmits: the transmit task (rtk_lora_pipeline.c) hands   *)
(* one packet at a time to the radio and waits for an event; the interrupt *)
(* task (lora_radio.c) reads the interrupt flags of the SX126x chip and    *)
(* emits the events.  Both talk to the chip under s_radio_mutex; an event  *)
(* is emitted after the mutex is given back.  DIO1 wakes the interrupt     *)
(* task on a rising edge only, and stays high while any flag is set.       *)
(*                                                                         *)
(* Packets are numbered.  Everything outside the program that goes wrong   *)
(* (noise, SPI errors, a chip that gives up, a wait of 5 s that runs out   *)
(* early) counts as a fault.                                               *)
(***************************************************************************)
EXTENDS Integers, Sequences, SequencesExt

CONSTANTS
  QueueDepth,  \* RTK_LORA_TX_QUEUE_DEPTH
  MaxPackets,  \* bound: packets in a behaviour
  MaxFaults    \* bound: faults in a behaviour

ASSUME TxAssumption ==
  QueueDepth \in Nat \ {0} /\ MaxPackets \in Nat /\ MaxFaults \in Nat

VARIABLES
  enqueued,  \* number of the last packet offered to tx_queue
  queue,     \* tx_queue
  place,     \* where the transmit task is
  cur,       \* its packet
  bits,      \* tx_events: "done", "fail"
  irq,       \* where the interrupt task is
  seen,      \* its irq_status
  txActive,  \* s_tx_active
  mode,      \* the chip: "standby", "rx" or "tx"
  onAir,     \* the packet in its buffer
  flags,     \* its interrupt flags
  sem,       \* s_irq_sem
  aired,     \* history: packets completely transmitted
  recorded,  \* history: packets passed to duty_cycle_record_tx
  faults     \* history: number of faults

task == <<enqueued, queue, place, cur, recorded>>
chip == <<mode, onAir, flags, sem, aired>>
vars == <<task, bits, irq, seen, txActive, chip, faults>>

Numbers == 1..MaxPackets
Flags == {"tx_done", "rx_done", "header_error", "timeout"}

TypeOK ==
  /\ enqueued \in 0..MaxPackets
  /\ queue \in Seq(Numbers) /\ Len(queue) <= QueueDepth
  /\ place \in {"receive", "check", "send", "wait"}
  /\ cur \in 0..MaxPackets /\ (place # "receive" => cur # 0)
  /\ bits \in SUBSET {"done", "fail"}
  /\ irq \in {"idle", "read", "done", "fail"}
  /\ seen \in SUBSET Flags
  /\ txActive \in BOOLEAN
  /\ mode \in {"standby", "rx", "tx"}
  /\ onAir \in 0..MaxPackets /\ (mode = "tx" => onAir # 0)
  /\ flags \in SUBSET Flags
  /\ sem \in BOOLEAN
  /\ aired \in Seq(Numbers) /\ recorded \in Seq(Numbers)
  /\ faults \in 0..MaxFaults

(* The radio starts in continuous reception, app_main calls
   lora_radio_start_rx before the pipeline exists. *)
Init ==
  /\ enqueued = 0 /\ queue = <<>> /\ place = "receive" /\ cur = 0
  /\ bits = {} /\ irq = "idle" /\ seen = {} /\ txActive = FALSE
  /\ mode = "rx" /\ onAir = 0 /\ flags = {} /\ sem = FALSE
  /\ aired = <<>> /\ recorded = <<>> /\ faults = 0

Fault == faults < MaxFaults /\ faults' = faults + 1

-----------------------------------------------------------------------------
(* The parse task enqueues without waiting: a full queue drops the packet. *)
QueueRoom == Len(queue) < QueueDepth

Enqueue ==
  /\ enqueued < MaxPackets
  /\ enqueued' = enqueued + 1
  /\ queue' = IF QueueRoom THEN Append(queue, enqueued + 1) ELSE queue
  /\ UNCHANGED <<place, cur, recorded, bits, irq, seen, txActive, chip, faults>>

(* The transmit task. *)
TxReceive ==
  /\ place = "receive" /\ queue # <<>>
  /\ cur' = Head(queue) /\ queue' = Tail(queue)
  /\ place' = "check"
  /\ UNCHANGED <<enqueued, recorded, bits, irq, seen, txActive, chip, faults>>

(* tx_enabled and duty_cycle_can_send decide; ClearBits. *)
TxDrop ==
  /\ place = "check" /\ place' = "receive"
  /\ UNCHANGED <<enqueued, queue, cur, recorded, bits, irq, seen, txActive,
                 chip, faults>>
TxClear ==
  /\ place = "check" /\ place' = "send"
  /\ bits' = {}
  /\ UNCHANGED <<enqueued, queue, cur, recorded, irq, seen, txActive, chip,
                 faults>>

LockFree == irq # "read"   \* s_radio_mutex

(* lora_radio_send: standby, clear all flags, write, set_tx. *)
FlagsAtSendKept == flags   \* mutant: the flags are not cleared
FlagsAtSend == {}

TxSend ==
  /\ place = "send" /\ LockFree
  /\ mode' = "tx" /\ onAir' = cur /\ flags' = FlagsAtSend
  /\ txActive' = TRUE
  /\ place' = "wait"
  /\ UNCHANGED <<enqueued, queue, cur, recorded, bits, irq, seen, sem, aired,
                 faults>>

(* An SPI error: before standby took effect, before the transmission
   started, or in the wait for BUSY after set_tx did start it. *)
TxSendFails ==
  /\ place = "send" /\ LockFree /\ Fault
  /\ \/ UNCHANGED <<mode, onAir, flags>>
     \/ mode' = "standby" /\ flags' \in {flags, {}} /\ onAir' \in {onAir, cur}
     \/ mode' = "tx" /\ flags' = {} /\ onAir' = cur
  /\ place' = "receive"
  /\ UNCHANGED <<enqueued, queue, cur, recorded, bits, irq, seen, txActive,
                 sem, aired>>

(* The wait ends: TX_DONE is looked at first; both bits are cleared. *)
TxDone ==
  /\ place = "wait" /\ "done" \in bits
  /\ recorded' = Append(recorded, cur)
  /\ bits' = {} /\ place' = "receive"
  /\ UNCHANGED <<enqueued, queue, cur, irq, seen, txActive, chip, faults>>

TxFailedRetries ==   \* mutant: puts the packet back
  /\ place = "wait" /\ "fail" \in bits /\ "done" \notin bits
  /\ bits' = {} /\ place' = "receive"
  /\ queue' = IF QueueRoom THEN <<cur>> \o queue ELSE queue
  /\ UNCHANGED <<enqueued, cur, recorded, irq, seen, txActive, chip, faults>>
TxFailed ==
  /\ place = "wait" /\ "fail" \in bits /\ "done" \notin bits
  /\ bits' = {} /\ place' = "receive"
  /\ UNCHANGED <<enqueued, queue, cur, recorded, irq, seen, txActive, chip,
                 faults>>

(* RTK_LORA_TX_WAIT_MS ran out: nothing is to come any more, or, as a
   fault, the transmission takes longer than 5 s or the events are late. *)
NothingToCome == mode # "tx" /\ ~sem /\ irq = "idle"

WaitEndsNever == FALSE    \* mutant: portMAX_DELAY
WaitEnds == NothingToCome /\ UNCHANGED faults

TxTimeout ==
  /\ place = "wait" /\ bits = {}
  /\ WaitEnds
  /\ place' = "receive"
  /\ UNCHANGED <<enqueued, queue, cur, recorded, bits, irq, seen, txActive, chip>>

TxTimeoutEarly ==
  /\ place = "wait" /\ bits = {}
  /\ ~NothingToCome /\ Fault
  /\ place' = "receive"
  /\ UNCHANGED <<enqueued, queue, cur, recorded, bits, irq, seen, txActive, chip>>

-----------------------------------------------------------------------------
(* The interrupt task: reading and clearing the flags are two SPI commands,
   under the mutex. *)
IrqRead ==
  /\ irq = "idle" /\ sem
  /\ sem' = FALSE /\ seen' = flags /\ irq' = "read"
  /\ UNCHANGED <<task, bits, txActive, mode, onAir, flags, aired, faults>>

IrqReadFails ==
  /\ irq = "idle" /\ sem /\ Fault
  /\ sem' = FALSE /\ irq' = "fail"
  /\ UNCHANGED <<task, bits, seen, txActive, mode, onAir, flags, aired>>

(* Nothing for this pipeline to hear of: no flag, or a received packet,
   whatever other flag came with it. *)
IrqIgnore ==
  /\ irq = "read" /\ (seen = {} \/ "rx_done" \in seen)
  /\ flags' = flags \ seen /\ irq' = "idle"
  /\ UNCHANGED <<task, bits, seen, txActive, mode, onAir, sem, aired, faults>>

(* lora_start_rx_locked, then LORA_RADIO_EVENT_TX_DONE. *)
IrqTxDone ==
  /\ irq = "read" /\ "tx_done" \in seen /\ "rx_done" \notin seen
  /\ flags' = {} /\ mode' = "rx"
  /\ txActive' = FALSE /\ irq' = "done"
  /\ UNCHANGED <<task, bits, seen, onAir, sem, aired, faults>>

(* The buffer cannot be read, or reception not started again. *)
IrqHandlerFails ==
  /\ irq = "read" /\ seen \cap {"rx_done", "tx_done"} # {} /\ Fault
  /\ flags' \in {flags \ seen, {}}
  /\ txActive' = (txActive /\ "rx_done" \in seen)
  /\ mode' \in {mode} \cup {m \in {"rx"} : "tx_done" \in seen}
  /\ irq' = "fail"
  /\ UNCHANGED <<task, bits, seen, onAir, sem, aired>>

IrqHeaderError ==
  /\ irq = "read" /\ "header_error" \in seen
  /\ seen \cap {"rx_done", "tx_done"} = {}
  /\ flags' = flags \ seen /\ irq' = "fail"
  /\ UNCHANGED <<task, bits, seen, txActive, mode, onAir, sem, aired, faults>>

(* LORA_RADIO_EVENT_TX_TIMEOUT, or _RX_TIMEOUT, which nobody waits for. *)
TimeoutEventDone == IF txActive THEN "done" ELSE "idle"   \* mutant: sets TX_DONE
TimeoutEvent == IF txActive THEN "fail" ELSE "idle"

IrqTimeout ==
  /\ irq = "read" /\ seen = {"timeout"}
  /\ flags' = flags \ seen
  /\ irq' = TimeoutEvent
  /\ txActive' = FALSE
  /\ UNCHANGED <<task, bits, seen, mode, onAir, sem, aired, faults>>

(* rtk_lora_pipeline_handle_radio_event, in the interrupt task. *)
IrqEmit ==
  /\ irq \in {"done", "fail"}
  /\ bits' = bits \cup {irq} /\ irq' = "idle"
  /\ UNCHANGED <<task, seen, txActive, chip, faults>>

-----------------------------------------------------------------------------
(* The chip and the DIO1 interrupt. *)
Raise(f) == flags' = flags \cup {f} /\ sem' = (sem \/ flags = {})

ChipTxDone ==
  /\ mode = "tx" /\ mode' = "standby"
  /\ Raise("tx_done")
  /\ aired' = Append(aired, onAir)
  /\ UNCHANGED <<task, bits, irq, seen, txActive, onAir, faults>>

ChipHears ==
  /\ mode = "rx" /\ Raise("rx_done")
  /\ UNCHANGED <<task, bits, irq, seen, txActive, mode, onAir, aired, faults>>

ChipHearsNoise ==
  /\ mode = "rx" /\ Fault /\ Raise("header_error")
  /\ UNCHANGED <<task, bits, irq, seen, txActive, mode, onAir, aired>>

(* The transmission runs into the timeout of set_tx, or ends in silence
   (a reset of the chip). *)
ChipGivesUp ==
  /\ mode = "tx" /\ Fault /\ mode' = "standby"
  /\ Raise("timeout") \/ (flags' = {} /\ UNCHANGED sem)
  /\ UNCHANGED <<task, bits, irq, seen, txActive, onAir, aired>>

TxTask == TxReceive \/ TxDrop \/ TxClear \/ TxSend \/ TxSendFails
            \/ TxDone \/ TxFailed \/ TxTimeout \/ TxTimeoutEarly
IrqTask == IrqRead \/ IrqReadFails \/ IrqIgnore \/ IrqTxDone
             \/ IrqHandlerFails \/ IrqHeaderError \/ IrqTimeout \/ IrqEmit
Next == Enqueue \/ TxTask \/ IrqTask
          \/ ChipTxDone \/ ChipHears \/ ChipHearsNoise \/ ChipGivesUp

Spec == Init /\ [][Next]_vars

(* The scheduler runs the tasks, waits run out, a transmission ends.  The
   mutex is free between two receptions, which are milliseconds apart. *)
FairSpec ==
  /\ Spec
  /\ WF_vars(TxTask) /\ SF_vars(TxSend) /\ WF_vars(IrqTask)
  /\ WF_vars(ChipTxDone)

-----------------------------------------------------------------------------
(* Packets go on the air at most once and in the order they were queued:
   what LoraLink takes one round of the transmit task for. *)
Stream == INSTANCE LossyStream WITH sent <- enqueued, delivered <- aired
ImplementsLossyStream == Stream!Spec

(* Airtime is not counted twice: whatever fails or comes late, there are no
   more records than transmissions. *)
NoOverAccounting == Len(recorded) <= Len(aired)

(* While nothing outside goes wrong, the task never reaches for the radio
   while a packet is on the air, and the airtime of every transmission is
   recorded before the next packet is looked at, although receptions are
   handled at the same time. *)
Accounted ==
  faults = 0 =>
    /\ mode = "tx" => place = "wait" /\ onAir = cur
    /\ \A k \in Numbers :
         Contains(aired, k) =>
           Contains(recorded, k) \/ (place = "wait" /\ k = cur)

(* The transmit task gets through its queue: no lost event holds it up. *)
QueueDrains == []<>(place = "receive" /\ queue = <<>>)

(* What the order rests on: the task works through the numbers, and what is
   on the air or was aired is never ahead of its packet. *)
OrderInv ==
  /\ cur <= enqueued
  /\ \A i \in 1..Len(queue) :
       /\ cur < queue[i] /\ queue[i] <= enqueued
       /\ \A j \in (i + 1)..Len(queue) : queue[i] < queue[j]
  /\ \A i \in 1..Len(aired) : aired[i] <= cur
  /\ mode = "tx" => onAir <= cur /\ \A i \in 1..Len(aired) : aired[i] < onAir
  /\ place \in {"check", "send"} =>
       /\ \A i \in 1..Len(aired) : aired[i] < cur
       /\ mode = "tx" => onAir < cur

(* A completed transmission is recorded at most once: it is a flag of the
   chip, then an event under way, then an event bit, then a record. *)
Underway ==
  (IF "tx_done" \in flags \/ (irq = "read" /\ "tx_done" \in seen) THEN 1 ELSE 0)
    + (IF irq = "done" THEN 1 ELSE 0)
    + (IF "done" \in bits THEN 1 ELSE 0)
AccountInv == Len(recorded) + Underway <= Len(aired)

(* Without faults the chip, the interrupt task and the transmit task go
   round together: on the air, then the flag in standby, then the event
   with reception on again.  A flag raised outside the mutex has always
   woken the interrupt task, and receptions never hide a TX_DONE. *)
Round ==
  /\ "fail" \notin bits /\ irq # "fail"
  /\ flags \in {{}, {"rx_done"}, {"tx_done"}}
  /\ flags # {} /\ irq # "read" => sem
  /\ irq = "read" => flags = seen \/ (seen = {} /\ sem)
  /\ "rx_done" \in flags => mode = "rx"
  /\ "tx_done" \in flags <=> mode = "standby"
  /\ ~(irq = "done" /\ "done" \in bits)
  /\ irq = "done" \/ "done" \in bits <=> place = "wait" /\ mode = "rx"
  /\ place # "wait" => mode = "rx"
  /\ mode = "tx" => onAir = cur

(* What was aired is recorded, but for the packet the task waits for. *)
Unrecorded == IF place = "wait" /\ mode # "tx" THEN {cur} ELSE {}
AiredRecorded ==
  \A i \in 1..Len(aired) :
    aired[i] \in Unrecorded \/ \E j \in 1..Len(recorded) : recorded[j] = aired[i]
QuietInv == faults = 0 => Round /\ AiredRecorded

=============================================================================
