------------------------------ MODULE RtcmParser ------------------------------
(***************************************************************************)
(* From the UART to the LoRa transport of the base: the stream buffer that *)
(* drops what does not fit, rtcm3_stream_push_byte, the filter             *)
(* (rtcm_filter.c, rtcm_profiles.c) and what rtk_lora_parse_task does with *)
(* its decision.                                                           *)
(*                                                                         *)
(* Abstractions: a byte is its place <<n, i>> in the n-th frame; its value *)
(* is a number up to Preamble (0xD3), or the negated number of the frame:  *)
(* its checksum, which nothing else matches, and which may look like the   *)
(* preamble or any length.  The header is two bytes, a length is a byte, a *)
(* message type the first byte of a payload.                               *)
(***************************************************************************)
EXTENDS Integers, Sequences, SequencesExt

CONSTANTS
  Preamble,    \* 0xD3; lengths and message types are smaller or equal
  Payloads,    \* payloads of the receiver's frames
  StreamRoom,  \* RTK_LORA_UART_STREAM_SIZE
  MinInterval, \* min_interval of each message type with a rule
  MaxFrames,   \* bound on frames
  MaxTime      \* bound on time

Types == DOMAIN MinInterval   \* those with a rule

ParserAssumption ==
  /\ Preamble \in Nat /\ StreamRoom \in Nat /\ MaxFrames \in Nat /\ MaxTime \in Nat \ {0}
  /\ \A p \in Payloads : p \in Seq(0..Preamble) /\ Len(p) <= Preamble
  /\ 0 \notin Types

VARIABLES
  sent,      \* payloads of the frames the receiver wrote to the UART
  stream,    \* uart_stream
  frame,     \* parser->frame, empty while it is not synced
  expected,  \* parser->expected_len, 0 before the header is complete
  found,     \* number of the frame to filter, 0 if none
  cut,       \* history: frames of which not all went into the stream
  misled,    \* history: it began a false frame since it last found one
  swallowed, \* history: whole frames whose first byte the parser has gone
             \* past since it last found a frame or began a false one
  now,
  last,      \* last_sent_us of each rule, 0 if never
  queued     \* history: when a frame of the type last went to the transport

parser == <<frame, expected>>
lost   == <<misled, swallowed>>
vars == <<sent, stream, parser, found, cut, lost, now, last, queued>>

Size(n)    == Len(sent[n]) + 3
Encoded(n) == [i \in 1..Size(n) |-> <<n, i>>]

Value(b) ==
  LET n == b[1]
      i == b[2] IN
  IF i = 1 THEN Preamble ELSE IF i = 2 THEN Len(sent[n])
  ELSE IF i = Size(n) THEN -n ELSE sent[n][i - 2]

Never == [t \in Types |-> 0]

Init ==
  /\ sent = <<>> /\ stream = <<>> /\ frame = <<>> /\ expected = 0 /\ found = 0
  /\ cut = {} /\ misled = FALSE /\ swallowed = 0
  /\ now = 1 /\ last = Never /\ queued = Never
-----------------------------------------------------------------------------
(* Seconds pass between messages, not while one is parsed. *)
Tick ==
  /\ stream = <<>> /\ found = 0
  /\ now < MaxTime /\ now' = now + 1
  /\ UNCHANGED <<sent, stream, parser, found, cut, lost, last, queued>>

(* rtk_lora_pipeline_push_uart_bytes: what does not fit is lost. *)
Fits(bytes)   == Len(bytes) <= StreamRoom - Len(stream)
Pushed(bytes) == IF Fits(bytes) THEN bytes ELSE SubSeq(bytes, 1, StreamRoom - Len(stream))

ReceiverWrites ==
  LET n     == Len(sent) + 1
      bytes == [i \in 1..(Len(sent'[n]) + 3) |-> <<n, i>>] IN
  /\ Len(sent) < MaxFrames
  /\ \E p \in Payloads : sent' = Append(sent, p)
  /\ stream' = stream \o Pushed(bytes)
  /\ cut' = IF Fits(bytes) THEN cut ELSE cut \cup {n}
  /\ UNCHANGED <<parser, found, lost, now, last, queued>>
-----------------------------------------------------------------------------
(* rtcm3_stream_push_byte.  Any byte will do as a length; that of a         *)
(* checksum is not known.                                                    *)
LengthOf(b) == IF Value(b) < 0 THEN 0..Preamble ELSE {Value(b)}

Read(bytes)    == [i \in DOMAIN bytes |-> Value(bytes[i])]
IsFrame(bytes) == \E n \in 1..Len(sent) : Read(bytes) = Read(Encoded(n))

Take(b) == stream # <<>> /\ found = 0 /\ b = Head(stream) /\ stream' = Tail(stream)

(* The first byte of a frame of which all is there; what begins with any     *)
(* other byte, or was cut, is a false frame.                                 *)
Whole(b) == b[2] = 1 /\ b[1] \notin cut

GoesPast(b) ==
  /\ swallowed' = IF Whole(b) THEN swallowed + 1 ELSE swallowed
  /\ UNCHANGED misled

Begins(b) ==
  IF Whole(b) THEN GoesPast(b) ELSE swallowed' = 0 /\ misled' = TRUE

Hunt ==
  \E b \in ToSet(stream) :
    /\ Take(b) /\ frame = <<>>
    /\ \/ Value(b) \notin 0..(Preamble - 1) /\ frame' = <<b>> /\ Begins(b)
       \/ Value(b) # Preamble /\ frame' = <<>> /\ UNCHANGED lost
    /\ UNCHANGED <<sent, expected, found, cut, now, last, queued>>

Header ==
  \E b \in ToSet(stream) :
    /\ Take(b) /\ Len(frame) = 1
    /\ frame' = Append(frame, b)
    /\ \E l \in LengthOf(b) : expected' = l + 3
    /\ GoesPast(b)
    /\ UNCHANGED <<sent, found, cut, now, last, queued>>

Body ==
  \E b \in ToSet(stream) :
    /\ Take(b) /\ Len(frame) > 1 /\ Len(frame) + 1 < expected
    /\ frame' = Append(frame, b)
    /\ GoesPast(b)
    /\ UNCHANGED <<sent, expected, found, cut, now, last, queued>>

KeepOnMismatch == UNCHANGED parser   \* mutant: no resync after a bad checksum
Resync == frame' = <<>> /\ expected' = 0

CrcMismatch ==
  \E b \in ToSet(stream) :
    /\ Take(b) /\ Len(frame) + 1 = expected /\ ~IsFrame(Append(frame, b))
    /\ Resync
    /\ GoesPast(b)
    /\ UNCHANGED <<sent, found, cut, now, last, queued>>

Found ==
  \E b \in ToSet(stream) :
    /\ Take(b) /\ Len(frame) + 1 = expected /\ IsFrame(Append(frame, b))
    /\ found' = b[1] /\ swallowed' = 0 /\ misled' = FALSE
    /\ frame' = <<>> /\ expected' = 0
    /\ UNCHANGED <<sent, cut, now, last, queued>>
-----------------------------------------------------------------------------
(* rtcm_filter_evaluate and what rtk_lora_parse_task makes of it *)

TypeOf(n) == IF sent[n] = <<>> THEN 0 ELSE sent[n][1]

Done == found' = 0 /\ UNCHANGED <<sent, stream, parser, cut, lost, now>>

(* Too short, of type 0, or of a type without a rule *)
Unwanted ==
  /\ found # 0 /\ TypeOf(found) \notin Types
  /\ Done /\ UNCHANGED <<last, queued>>

TooSoon(t) == last[t] > 0 /\ now - last[t] < MinInterval[t]

(* The decision DELAY, which drops the frame, too *)
Delayed ==
  /\ found # 0 /\ TypeOf(found) \in Types /\ TooSoon(TypeOf(found))
  /\ Done /\ UNCHANGED <<last, queued>>

MarkAlways(t) == last' = [last EXCEPT ![t] = now]   \* mutant: before the result
MarkFailed(t) == UNCHANGED last

(* No estimate, dropped for its priority, or the transport's queue is full *)
NotQueued ==
  /\ found # 0 /\ TypeOf(found) \in Types /\ ~TooSoon(TypeOf(found))
  /\ Done /\ MarkFailed(TypeOf(found)) /\ UNCHANGED queued

MarkSent(t) == last' = [last EXCEPT ![t] = now]

Queued ==
  /\ found # 0 /\ TypeOf(found) \in Types /\ ~TooSoon(TypeOf(found))
  /\ Done /\ MarkSent(TypeOf(found))
  /\ queued' = [queued EXCEPT ![TypeOf(found)] = now]

Parse == Hunt \/ Header \/ Body \/ CrcMismatch \/ Found
Filter == Unwanted \/ Delayed \/ NotQueued \/ Queued

Next == Tick \/ ReceiverWrites \/ Parse \/ Filter

Spec == Init /\ [][Next]_vars
-----------------------------------------------------------------------------
TypeOK ==
  /\ Len(sent) <= MaxFrames /\ Len(stream) <= StreamRoom
  /\ Len(frame) < Preamble + 3 /\ expected \in 0..(Preamble + 3)
  /\ found \in 0..Len(sent) /\ misled \in BOOLEAN /\ swallowed \in Nat /\ now \in 1..MaxTime
  /\ last \in [Types -> 0..MaxTime] /\ queued \in [Types -> 0..MaxTime]

(* Frames that can begin behind the first byte of the longest false frame *)
Most == (Preamble + 4) \div 3

(* Whatever the bytes, a false frame costs no whole frame but those that      *)
(* begin among the bytes taken for it: the parser hunts again behind it, and  *)
(* a whole frame whose first byte it meets while it hunts is not lost.  (How  *)
(* many false frames follow each other is a matter of the data.)              *)
AtHand == IF frame # <<>> /\ Whole(frame[1]) THEN 1 ELSE 0

FewSwallowed == swallowed <= (IF misled THEN Most ELSE 0) + AtHand

HeldBackRightly ==
  \A t \in Types :
    Delayed /\ TypeOf(found) = t => queued[t] > 0 /\ now - queued[t] < MinInterval[t]

(* A frame the transport did not take does not silence its type: a frame is   *)
(* held back only behind one that was queued less than the interval ago.      *)
FailureDoesNotSilence == [][HeldBackRightly]_vars
=============================================================================
