----------------------------- MODULE MCLoraLink -----------------------------
(***************************************************************************)
(* The data path of the LoRa link for TLC: LoraLink, whose frame_seq has    *)
(* two values so that it wraps around and comes back after a reboot within  *)
(* four frames; beside it the parser and filter before it and the duty      *)
(* cycle behind it.  part says which of the three a behaviour is of.        *)
(***************************************************************************)
EXTENDS LoraLink, TLC

CONSTANTS
  Window, Budget, Airtimes, MaxSeconds,           \* of DutyCycle
  Preamble, Payloads, StreamRoom, MinInterval,    \* of RtcmParser
  ParserFrames, ParserTime                        \* its bounds

VARIABLES
  part,
  now, buckets, claimed, total,
  written, stream, frame, expected, found, cut_off, misled, swallowed, clock,
  last, queued

(* A type with a rule and a byte that looks like a preamble behind it, and a  *)
(* frame too short to have a type                                            *)
MCPayloads  == {<<2, Preamble>>, <<>>}
MCIntervals == 2 :> 1

Duty == INSTANCE DutyCycle WITH MaxTime <- MaxSeconds

Parser == INSTANCE RtcmParser WITH
  MaxFrames <- ParserFrames, MaxTime <- ParserTime,
  sent <- written, cut <- cut_off, now <- clock

dutyVars   == <<now, buckets, claimed, total>>
parserVars == <<written, stream, frame, expected, found, cut_off, misled,
                swallowed, clock, last, queued>>

ASSUME PathAssumption == Duty!DutyAssumption /\ Parser!ParserAssumption

MCInit ==
  /\ Init /\ Duty!Init /\ Parser!Init
  /\ part \in {"link", "duty", "parser"}

MCNext ==
  \/ part = "link" /\ Next /\ UNCHANGED <<part, dutyVars, parserVars>>
  \/ part = "duty" /\ Duty!Next /\ UNCHANGED <<part, vars, parserVars>>
  \/ part = "parser" /\ Parser!Next /\ UNCHANGED <<part, vars, dutyVars>>

MCSpec == MCInit /\ [][MCNext]_<<part, vars, dutyVars, parserVars>>

(* The ring of buckets never lets more through than the budget of a window.  *)
BudgetKept == Duty!TypeOK /\ Duty!BudgetKept

(* A cut frame or a false preamble costs the frames that begin in it, no more. *)
FewSwallowed == Parser!TypeOK /\ Parser!FewSwallowed

(* A frame the transmit queue refused does not hold back the next of its type. *)
FailureDoesNotSilence == Parser!FailureDoesNotSilence
=============================================================================
