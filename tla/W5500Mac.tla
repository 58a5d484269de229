------------------------------ MODULE W5500Mac ------------------------------
(***************************************************************************)
(* The receive task and the transmit function of the W5500 driver          *)
(* (components/w5500/src/esp_eth_mac_w5500.c).  The chip keeps received     *)
(* frames in a ring and raises RECV in its interrupt register; the pin is   *)
(* low while RECV is set and enabled, and its edge notifies the task.  A    *)
(* transmission is one SEND command and a poll for SEND in that register.   *)
(*                                                                         *)
(* Abstractions: a frame is its number; ring pointers and sizes are the     *)
(* sequence rx; a fault is an SPI transfer that fails, or a header it       *)
(* garbled.  The chip empties its ring when the socket is opened again,     *)
(* seconds after it was closed, when the task has long come to rest.        *)
(***************************************************************************)
EXTENDS Naturals, Sequences, SequencesExt

CONSTANTS
  RxRoom,     \* frames the ring holds
  MaxRx,      \* bound on frames received
  MaxTx,      \* bound on frames sent
  MaxFaults,  \* bound on SPI faults, failed allocations and slow sends
  MaxLinks    \* bound on losses of the link

MacAssumption ==
  RxRoom \in Nat \ {0} /\ {MaxRx, MaxTx, MaxFaults, MaxLinks} \subseteq Nat

VARIABLES
  link, links,      \* socket open and interrupt enabled; losses so far
  rx, recv,         \* the ring, RECV of the interrupt register
  arrived, passed,  \* frames arrived so far; those handed to the stack
  note, place,      \* the task's notification, its place
  remain, more,     \* remain_bytes of the frame at hand, packets_remain
  tx, txPlace,      \* number of the frame being sent; transmit's place
  sending, sent,    \* frames the chip has yet to send, SEND of the register
  reported,         \* frames transmit returned ESP_OK for
  wire,             \* frames on the wire
  faults, failed  \* faults so far; history: a transmission failed

receiver    == <<rx, recv, arrived, passed, note, place, remain, more>>
transmitter == <<tx, txPlace, sending, sent, reported, wire, failed>>
vars == <<link, links, receiver, transmitter, faults>>

Init ==
  /\ link = TRUE /\ links = 0
  /\ rx = <<>> /\ recv = FALSE /\ arrived = 0 /\ passed = <<>>
  /\ note = FALSE /\ place = "take" /\ remain = 0 /\ more = FALSE
  /\ tx = 0 /\ txPlace = "idle" /\ sending = <<>> /\ sent = FALSE
  /\ reported = {} /\ wire = {} /\ faults = 0 /\ failed = FALSE

Fault == faults < MaxFaults /\ faults' = faults + 1

Go(from, to) == place = from /\ place' = to
-----------------------------------------------------------------------------
(* The chip *)

(* A frame that finds the ring full is lost. *)
Arrive ==
  /\ link /\ arrived < MaxRx
  /\ arrived' = arrived + 1
  /\ IF Len(rx) < RxRoom
       THEN rx' = Append(rx, arrived') /\ recv' = TRUE /\ note' = (note \/ ~recv)
       ELSE UNCHANGED <<rx, recv, note>>
  /\ UNCHANGED <<link, links, passed, place, remain, more, transmitter, faults>>

Sent ==
  /\ sending # <<>>
  /\ wire' = wire \union {Head(sending)} /\ sending' = Tail(sending)
  /\ sent' = TRUE
  /\ UNCHANGED <<link, links, receiver, tx, txPlace, reported, failed, faults>>

(* emac_w5500_set_link: stop disables the interrupt and closes the socket,  *)
(* start opens it.                                                          *)
LinkDown ==
  /\ link /\ links < MaxLinks
  /\ link' = FALSE /\ links' = links + 1
  /\ UNCHANGED <<receiver, transmitter, faults>>

LinkUp ==
  /\ ~link /\ place \in {"take", "astray"} /\ ~note
  /\ link' = TRUE /\ place' = "take"
  /\ rx' = <<>> /\ recv' = FALSE
  /\ UNCHANGED <<links, arrived, passed, note, remain, more,
                 transmitter, faults>>
-----------------------------------------------------------------------------
(* emac_w5500_task *)

(* A notification, or after a second the level of the pin. *)
Take ==
  /\ note \/ (recv /\ link)
  /\ Go("take", "status")
  /\ note' = FALSE
  /\ UNCHANGED <<link, links, rx, recv, arrived, passed, remain, more,
                 transmitter, faults>>

(* A read that fails leaves RECV from the pass before in status. *)
ReadStatus ==
  /\ \/ recv /\ Go("status", "clear") /\ UNCHANGED faults
     \/ ~recv /\ Go("status", "take") /\ UNCHANGED faults
     \/ Go("status", "clear") /\ Fault
  /\ UNCHANGED <<link, links, rx, recv, arrived, passed, note, remain, more,
                 transmitter>>

(* RECV is cleared before the ring is looked at, never after. *)
ClearPlace == "clear"
RecvAfter(p) == IF p = ClearPlace THEN FALSE ELSE recv

Clear ==
  /\ Go("clear", "size")
  /\ \/ recv' = RecvAfter("clear") /\ UNCHANGED faults
     \/ UNCHANGED recv /\ Fault
  /\ UNCHANGED <<link, links, rx, arrived, passed, note, remain, more,
                 transmitter>>

(* emac_w5500_alloc_recv_buf: size of the ring, header of the first frame,  *)
(* a buffer for it.  An error leaves packets_remain as it is.  A header      *)
(* garbled to a length that could be one moves the read pointer into the     *)
(* middle of a frame: what the task passes on from there (astray) is no       *)
(* longer a frame of the wire, and nothing is said of it until the socket is *)
(* opened again.                                                             *)
RemainNow == Len(rx)

Alloc ==
  /\ \/ rx = <<>> /\ Go("size", "loop") /\ UNCHANGED <<remain, faults>>
     \/ rx # <<>> /\ Go("size", "receive") /\ remain' = RemainNow /\ UNCHANGED faults
     \/ rx # <<>> /\ Go("size", "flush") /\ Fault /\ UNCHANGED remain
     \/ rx # <<>> /\ Go("size", "astray") /\ Fault /\ UNCHANGED remain
     \/ Go("size", "loop") /\ Fault /\ UNCHANGED remain
  /\ UNCHANGED <<link, links, rx, recv, arrived, passed, note, more, transmitter>>

(* emac_w5500_receive: what remains was counted with the header; a transfer *)
(* that fails ends the loop; the frame stays, or is lost when the chip had  *)
(* the command RECV already.                                                *)
PassOnErrorToo == passed' = Append(passed, Head(rx))   \* mutant: buffer not freed
PassOnError == UNCHANGED passed

Receive ==
  /\ Go("receive", "loop")
  /\ \/ /\ passed' = Append(passed, Head(rx)) /\ rx' = Tail(rx)
        /\ more' = (remain > 1)
        /\ UNCHANGED faults
     \/ PassOnError /\ more' = FALSE /\ rx' \in {rx, Tail(rx)} /\ Fault
  /\ UNCHANGED <<link, links, recv, arrived, note, remain, transmitter>>

(* emac_w5500_flush_recv_frame, after a failed allocation *)
Flush ==
  /\ Go("flush", "loop")
  /\ \/ rx' = Tail(rx) /\ more' = (Len(rx) > 1) /\ UNCHANGED faults
     \/ more' = FALSE /\ rx' \in {rx, Tail(rx)} /\ Fault
  /\ UNCHANGED <<link, links, recv, arrived, passed, note, remain, transmitter>>

Loop ==
  /\ IF more THEN Go("loop", "size") ELSE Go("loop", "take")
  /\ recv' = RecvAfter("loop")
  /\ UNCHANGED <<link, links, rx, arrived, passed, note, remain, more,
                 transmitter, faults>>
-----------------------------------------------------------------------------
(* emac_w5500_transmit, called by the stack for one frame after the other *)

TxWrite ==
  /\ link /\ txPlace = "idle" /\ tx < MaxTx
  /\ tx' = tx + 1
  /\ sending' = Append(sending, tx')
  /\ txPlace' = "poll"
  /\ UNCHANGED <<link, links, receiver, sent, reported, wire, failed, faults>>

(* A transfer that fails before the command SEND is given *)
TxWriteFails ==
  /\ link /\ txPlace = "idle" /\ tx < MaxTx /\ Fault
  /\ tx' = tx + 1 /\ failed' = TRUE
  /\ UNCHANGED <<link, links, receiver, txPlace, sending, sent, reported, wire>>

SendFlagCleared == sent' = FALSE

TxDone ==
  /\ txPlace = "poll" /\ sent
  /\ SendFlagCleared
  /\ txPlace' = "idle" /\ reported' = reported \union {tx}
  /\ UNCHANGED <<link, links, receiver, tx, sending, wire, failed, faults>>

(* No SEND within tx_tmo, the link bit gone, or an SPI transfer failed: the *)
(* flag, if it comes, stays for the next call.                              *)
TxFails ==
  /\ txPlace = "poll" /\ Fault
  /\ txPlace' = "idle" /\ failed' = TRUE
  /\ UNCHANGED <<link, links, receiver, tx, sending, sent, reported, wire>>

RxTask == Take \/ ReadStatus \/ Clear \/ Alloc \/ Receive \/ Flush \/ Loop

Next == Arrive \/ Sent \/ LinkDown \/ LinkUp \/ RxTask
        \/ TxWrite \/ TxWriteFails \/ TxDone \/ TxFails

Spec == Init /\ [][Next]_vars

(* The task and the stack run, the chip sends what it was told to. *)
Fairness == WF_vars(RxTask) /\ WF_vars(TxDone) /\ WF_vars(Sent)

FairSpec == Spec /\ Fairness
-----------------------------------------------------------------------------
TypeOK ==
  /\ {link, recv, note, more, sent, failed} \subseteq BOOLEAN
  /\ Len(rx) <= RxRoom /\ Len(sending) <= MaxTx
  /\ place \in {"take", "status", "clear", "size", "receive", "flush", "loop",
               "astray"}
  /\ remain \in 0..RxRoom /\ arrived \in 0..MaxRx /\ tx \in 0..MaxTx
  /\ txPlace \in {"idle", "poll"}
  /\ reported \subseteq 1..MaxTx /\ wire \subseteq 1..MaxTx
  /\ faults \in 0..MaxFaults /\ links \in 0..MaxLinks

(* The stack gets frames in the order of the wire and none twice, whatever   *)
(* transfers fail in between, as long as the task is not astray.             *)
PassedInOrder ==
  \A i, j \in DOMAIN passed : i < j => passed[i] < passed[j]

(* A frame transmit reported as sent is on the wire, as long as no earlier   *)
(* transmission failed (its late flag would end the next wait at once, its   *)
(* bytes would go out with the next frame).                                  *)
ReportedIsSent == failed \/ reported \subseteq wire

(* Without faults no frame is forgotten in the ring, however arrivals fall   *)
(* between the task's reads of register and ring.                            *)
RingDrains == []<>(rx = <<>> \/ faults > 0)
=============================================================================
