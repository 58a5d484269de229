------------------------------ MODULE LoraLink ------------------------------
(***************************************************************************)
(* RTCM frames over LoRa: the base cuts a frame into fragments and queues  *)
(* them (rtk_lora_pipeline.c, lora_transport.c), its transmit task sends   *)
(* them one by one, the rover puts them together again and writes complete *)
(* frames to the GNSS receiver (rover_lora_pipeline.c).  Packets get lost  *)
(* in the queue, to the duty cycle and in the air; base and rover reboot.  *)
(*                                                                         *)
(* Frames are numbered; a fragment carries the number of its frame in      *)
(* place of the bytes.  CRC-16 and CRC-24 are taken to detect every        *)
(* alteration: a damaged packet is a lost one, and bytes of two frames     *)
(* never pass for a frame.  Base and rover use the same payload size and   *)
(* stream id, as main.c configures them.                                   *)
(***************************************************************************)
EXTENDS Integers, Sequences

CONSTANTS
  QueueDepth,    \* RTK_LORA_TX_QUEUE_DEPTH
  SeqMod,        \* values of the 16-bit frame_seq
  MaxFragments,  \* fragments of the longest frame
  MaxFrames,     \* bound: frames in a behaviour
  MaxReboots     \* bound: reboots of either side

ASSUME LinkAssumption ==
  /\ QueueDepth \in Nat \ {0} /\ SeqMod \in Nat \ {0}
  /\ MaxFragments \in Nat \ {0}
  /\ MaxFrames \in Nat /\ MaxReboots \in Nat

VARIABLES
  sent,      \* number of the last frame the base began to fragment
  nextSeq,   \* next_frame_seq of the base
  cut,       \* the fragment the parse task enqueues next
  queue,     \* tx_queue
  active, rxSeq, rxCount, received,
             \* reassembly_active, _frame_seq, _fragment_count, _received
  buffer,    \* buffer[i]: frame the bytes at fragment i are from, 0 if none
  out,       \* frames written to the GNSS UART
  reboots,
  made,      \* history: made[f] is the key <<seq, count>> frame f got
  got        \* history: fragments of f that arrived since the rover booted

base  == <<nextSeq, cut, queue>>
rover == <<active, rxSeq, rxCount, received, buffer>>
vars  == <<sent, base, rover, out, reboots, made, got>>

Frames  == 1..MaxFrames
Indices == 0..(MaxFragments - 1)
Seqs    == 0..(SeqMod - 1)
Mixed   == 0   \* bytes of more than one frame

Packets == [frame : Frames, seq : Seqs, index : Indices, count : 1..MaxFragments]
NoCut == [frame |-> 0, seq |-> 0, index |-> 0, count |-> 0]

TypeOK ==
  /\ sent \in 0..MaxFrames /\ nextSeq \in Seqs
  /\ cut \in Packets \cup {NoCut}
  /\ queue \in Seq(Packets) /\ Len(queue) <= QueueDepth
  /\ active \in BOOLEAN /\ rxSeq \in Seqs /\ rxCount \in 0..MaxFragments
  /\ received \in SUBSET Indices
  /\ buffer \in [Indices -> 0..MaxFrames]
  /\ out \in Seq(0..MaxFrames)
  /\ reboots \in 0..MaxReboots
  /\ made \in [Frames -> Seqs \X (0..MaxFragments)]
  /\ got \in [Frames -> SUBSET Indices]

BaseInit == nextSeq = 0 /\ cut = NoCut /\ queue = <<>>
RoverInit ==
  /\ active = FALSE /\ rxSeq = 0 /\ rxCount = 0 /\ received = {}
  /\ buffer = [i \in Indices |-> 0]

Init ==
  /\ sent = 0 /\ BaseInit /\ RoverInit /\ out = <<>> /\ reboots = 0
  /\ made = [f \in Frames |-> <<0, 0>>]
  /\ got = [f \in Frames |-> {}]

-----------------------------------------------------------------------------
(* The parse task of the base: lora_transport_fragment_frame with the       *)
(* callback that enqueues.  The transmit task runs between two fragments.   *)

BeginFrame(n) ==
  /\ cut = NoCut /\ sent < MaxFrames
  /\ sent' = sent + 1
  /\ nextSeq' = (nextSeq + 1) % SeqMod
  /\ cut' = [frame |-> sent + 1, seq |-> nextSeq, index |-> 0, count |-> n]
  /\ made' = [made EXCEPT ![sent + 1] = <<nextSeq, n>>]
  /\ UNCHANGED <<queue, rover, out, reboots, got>>

MoreFragments(c) == c.index + 1 < c.count

EnqueueFragment ==
  /\ cut # NoCut /\ Len(queue) < QueueDepth
  /\ queue' = Append(queue, cut)
  /\ cut' = IF MoreFragments(cut) THEN [cut EXCEPT !.index = @ + 1] ELSE NoCut
  /\ UNCHANGED <<sent, nextSeq, rover, out, reboots, made, got>>

(* xQueueSend does not wait: the rest of the frame is given up, what is
   queued of it is sent all the same. *)
QueueFull ==
  /\ cut # NoCut /\ Len(queue) = QueueDepth
  /\ cut' = NoCut
  /\ UNCHANGED <<sent, nextSeq, queue, rover, out, reboots, made, got>>

-----------------------------------------------------------------------------
(* The rover: lora_transport_reassemble_push and the RTCM check. *)

SameFrame(p) == active /\ rxSeq = p.seq /\ rxCount = p.count

AlreadyStale(p) == received   \* mutant: a reset does not clear received[]
Already(p) == IF SameFrame(p) THEN received ELSE {}

(* rtcm_filter_get_frame_info on the reassembled bytes. *)
ValidFrameUnchecked(p) == TRUE   \* mutant: the CRC-24 is not looked at
ValidFrame(p) == \A i \in 0..(p.count - 1) : buffer'[i] = p.frame

Reassemble(p) ==
  LET all == Already(p) \cup {p.index} IN
  IF p.index \in Already(p)
  THEN UNCHANGED <<rover, out>>
  ELSE /\ rxSeq' = p.seq /\ rxCount' = p.count
       /\ received' = all
       /\ buffer' = [buffer EXCEPT ![p.index] = p.frame]
       /\ active' = (all # 0..(p.count - 1))
       /\ out' = IF all = 0..(p.count - 1) /\ ValidFrame(p)
                 THEN Append(out, IF \A i \in 0..(p.count - 1) :
                                       buffer'[i] = p.frame
                                  THEN p.frame ELSE Mixed)
                 ELSE out

(* One round of the transmit task, with the packet arriving ... *)
PacketArrives ==
  /\ queue # <<>>
  /\ queue' = Tail(queue)
  /\ Reassemble(Head(queue))
  /\ got' = [got EXCEPT ![Head(queue).frame] = @ \cup {Head(queue).index}]
  /\ UNCHANGED <<sent, nextSeq, cut, reboots, made>>

(* ... or not: no airtime left, a radio error, noise. *)
PacketLost ==
  /\ queue # <<>>
  /\ queue' = Tail(queue)
  /\ UNCHANGED <<sent, nextSeq, cut, rover, out, reboots, made, got>>

-----------------------------------------------------------------------------
BaseReboots ==
  /\ reboots < MaxReboots /\ reboots' = reboots + 1
  /\ nextSeq' = 0 /\ cut' = NoCut /\ queue' = <<>>
  /\ UNCHANGED <<sent, rover, out, made, got>>

RoverReboots ==
  /\ reboots < MaxReboots /\ reboots' = reboots + 1
  /\ active' = FALSE /\ rxSeq' = 0 /\ rxCount' = 0 /\ received' = {}
  /\ buffer' = [i \in Indices |-> 0]
  /\ got' = [f \in Frames |-> {}]
  /\ UNCHANGED <<sent, base, out, made>>

Next ==
  \/ \E n \in 1..MaxFragments : BeginFrame(n)
  \/ EnqueueFragment \/ QueueFull
  \/ PacketArrives \/ PacketLost
  \/ BaseReboots \/ RoverReboots

Spec == Init /\ [][Next]_vars

-----------------------------------------------------------------------------
(* The GNSS receiver of the rover gets whole frames of the base only, each
   at most once and in the order the base sent them, although the sequence
   number starts again with every reboot of the base and wraps around. *)
Stream == INSTANCE LossyStream WITH delivered <- out
ImplementsLossyStream == Stream!Spec

(* A frame whose fragments all arrived was written to the receiver, however
   many others got lost, with one exception: the frame the rover heard of
   before it never made it to the receiver and had the same number of
   fragments and, after a reboot of the base or a full turn of frame_seq,
   the same sequence number, so that the two were mixed. *)
Whole(f) == got[f] = 0..(made[f][2] - 1)
Written(f) == \E i \in 1..Len(out) : out[i] = f
Shadowed(f) ==
  \E g \in 1..(f - 1) :
    /\ made[g] = made[f] /\ got[g] # {} /\ ~Written(g)
    /\ \A h \in (g + 1)..(f - 1) : got[h] = {}
DeliversWhole ==
  \A f \in 1..sent : Whole(f) => Written(f) \/ Shadowed(f)

(* What the order rests on: fragments are queued, and so arrive, by frame
   and index; what is still to come is behind everything the rover keeps,
   and of frames behind those it wrote. *)
Before(f, i, p) == f < p.frame \/ (f = p.frame /\ i < p.index)
Follows(q, p) ==
  /\ Before(p.frame, p.index, q)
  /\ q.frame = p.frame => q.count = p.count
Pending(p) ==
  /\ p.frame <= sent /\ p.index < p.count
  /\ \A k \in Indices : Before(buffer[k], k, p)
  /\ \A k \in 1..Len(out) : out[k] < p.frame
OrderInv ==
  /\ \A i \in 1..Len(queue) :
       /\ Pending(queue[i])
       /\ \A j \in (i + 1)..Len(queue) : Follows(queue[j], queue[i])
  /\ cut # NoCut =>
       /\ Pending(cut) /\ cut.frame = sent
       /\ \A i \in 1..Len(queue) : Follows(cut, queue[i])
  /\ \A k \in Indices : buffer[k] <= sent
  /\ \A k \in 1..Len(out) : out[k] <= sent

(* What complete delivery rests on.  The fragments still to come are of      *)
(* frames not yet heard of, or behind what was heard of theirs; and the      *)
(* rover holds of the frame m it heard of last just what arrived, or has     *)
(* written it, or holds bytes of a frame that shadows it.                    *)
Heard(f) == got[f] # {}
LastHeard(m) ==
  /\ m = 0 \/ Heard(m)
  /\ \A h \in Frames : h > m => ~Heard(h)
Due == {queue[i] : i \in 1..Len(queue)} \cup ({cut} \ {NoCut})
Collects(m) ==
  /\ active /\ received = got[m] /\ \A i \in received : buffer[i] = m
  /\ ~Whole(m) /\ ~Written(m)
Finished(m) == ~active /\ Whole(m) /\ Written(m)
Mixes(m) ==
  /\ Shadowed(m) /\ ~Written(m)
  /\ active => 0 \notin received \/ \E i \in received : buffer[i] # m
Holds(m) ==
  /\ active => received # {} /\ <<rxSeq, rxCount>> = made[m] /\ ~Written(m)
  /\ Collects(m) \/ Finished(m) \/ Mixes(m)
HeardInOrder ==
  /\ \A f \in 1..sent : made[f][2] > 0
  /\ \A f \in Frames : Heard(f) => f <= sent
  /\ \A p \in Due :
       /\ made[p.frame] = <<p.seq, p.count>>
       /\ \A f \in Frames : \A i \in got[f] : Before(f, i, p)
HoldsLast ==
  /\ \A k \in Indices : buffer[k] # 0 => k \in got[buffer[k]]
  /\ \E m \in 0..sent :
       LastHeard(m) /\ IF m = 0 THEN ~active ELSE Holds(m)
DeliveryInv == HeardInOrder /\ HoldsLast /\ DeliversWhole

=============================================================================
