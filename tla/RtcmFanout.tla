----------------------------- MODULE RtcmFanout -----------------------------
(***************************************************************************)
(* How correction data reaches the casters (main/ntrip_runtime.c): the     *)
(* event task and the generator of fake RTCM copy a message into the       *)
(* stream buffer of every running slot; each slot's task takes what is     *)
(* there and writes it to its caster.                                      *)
(*                                                                         *)
(* Abstractions: a message is two pieces, <<n, 1>> and <<n, 2>>, and every  *)
(* read of the UART is a message; of a slot's life only what touches its   *)
(* buffer (NtripRuntime models the rest); mocks are left out.              *)
(***************************************************************************)
EXTENDS Naturals, Sequences, SequencesExt, FiniteSets

CONSTANTS
  Slots,
  Room,       \* pieces a stream buffer holds
  MaxFed,     \* bound on messages
  MaxUser     \* bound on calls of the user

FanoutAssumption == {Room, MaxFed, MaxUser} \subseteq Nat /\ Room > 0

VARIABLES
  enabled, stopReq,  \* s_fake_rtcm_enabled, s_fake_rtcm_stop_requested
  looping, leaving,  \* generator tasks in their loop, and behind it
  fed,               \* messages so far
  run,               \* slot's task: "off", "wait" (to connect), "stream",
                     \* "closed" (its socket was closed by another task)
  buf,               \* rtcm_buffer
  dropped,           \* dropped_rtcm_packets
  held,              \* pieces the task has received and not written
  wire,              \* pieces written on the connection at hand
  clean,             \* history: the connection began with nothing left over,
                     \* and no write was cut
  user

generator == <<enabled, stopReq, looping, leaving>>
slots     == <<run, buf, dropped, held, wire, clean>>
vars == <<generator, fed, slots, user>>

Pieces(n) == <<<<n, 1>>, <<n, 2>>>>

Init ==
  /\ enabled = FALSE /\ stopReq = FALSE /\ looping = 0 /\ leaving = 0
  /\ fed = 0
  /\ run = [s \in Slots |-> "off"] /\ buf = [s \in Slots |-> <<>>]
  /\ dropped = [s \in Slots |-> 0] /\ held = [s \in Slots |-> <<>>]
  /\ wire = [s \in Slots |-> <<>>] /\ clean = [s \in Slots |-> TRUE]
  /\ user = 0
-----------------------------------------------------------------------------
(* ntrip_runtime_fanout_rtcm: what fits is taken; a message cut is counted.  *)

CountNever(taken) == 0   \* mutant: the result of the send is ignored
CountDrop(taken) == IF taken < 2 THEN 1 ELSE 0

Taken(s) == IF Room - Len(buf[s]) >= 2 THEN 2 ELSE Room - Len(buf[s])

Fanout ==
  LET fits(s) == SubSeq(Pieces(fed'), 1, Taken(s)) IN
  /\ fed < MaxFed /\ fed' = fed + 1
  /\ buf' = [s \in Slots |-> IF run[s] = "off" THEN buf[s] ELSE buf[s] \o fits(s)]
  /\ dropped' = [s \in Slots |->
                   IF run[s] = "off" THEN dropped[s]
                                     ELSE dropped[s] + CountDrop(Taken(s))]
  /\ UNCHANGED <<run, held, wire, clean, user>>

UartData == Fanout /\ UNCHANGED generator
-----------------------------------------------------------------------------
(* The generator: start and stop by the user or the self test, its task *)

StartUnlessEnabled ==
  IF enabled THEN UNCHANGED <<enabled, looping>>
             ELSE enabled' = TRUE /\ looping' = looping + 1

FakeStart ==
  /\ user < MaxUser /\ user' = user + 1
  /\ stopReq' = FALSE
  /\ StartUnlessEnabled
  /\ UNCHANGED <<leaving, fed, slots>>

(* xTaskCreate finds no memory. *)
FakeStartFails ==
  /\ user < MaxUser /\ user' = user + 1
  /\ ~enabled /\ stopReq' = FALSE
  /\ UNCHANGED <<enabled, looping, leaving, fed, slots>>

FakeStop ==
  /\ user < MaxUser /\ user' = user + 1
  /\ stopReq' = TRUE
  /\ UNCHANGED <<enabled, looping, leaving, fed, slots>>

FakeSends == looping > 0 /\ ~stopReq /\ Fanout /\ UNCHANGED generator

StopSeen == stopReq

(* The loop's condition is read without the lock ... *)
FakeLeaves ==
  /\ looping > 0 /\ StopSeen
  /\ looping' = looping - 1 /\ leaving' = leaving + 1
  /\ UNCHANGED <<enabled, stopReq, fed, slots, user>>

(* ... which is taken to clear the flags. *)
FakeEnds ==
  /\ leaving > 0
  /\ leaving' = leaving - 1
  /\ enabled' = FALSE /\ stopReq' = FALSE
  /\ UNCHANGED <<looping, fed, slots, user>>
-----------------------------------------------------------------------------
(* Slots *)

Set(f, s, v) == [f EXCEPT ![s] = v]

SlotStarts(s) ==
  /\ user < MaxUser /\ user' = user + 1
  /\ run[s] = "off"
  /\ run' = Set(run, s, "wait")
  /\ buf' = Set(buf, s, <<>>) /\ dropped' = Set(dropped, s, 0)
  /\ UNCHANGED <<generator, fed, held, wire, clean>>

(* What came while the slot was not connected is still in the buffer. *)
SlotConnects(s) ==
  /\ run[s] = "wait"
  /\ run' = Set(run, s, "stream")
  /\ wire' = Set(wire, s, <<>>)
  /\ clean' = Set(clean, s, buf[s] = <<>> /\ dropped[s] = 0)
  /\ UNCHANGED <<generator, fed, buf, dropped, held, user>>

TakeFromBuffer(s) == <<>>

SlotReceives(s) ==
  /\ run[s] \in {"stream", "closed"} /\ held[s] = <<>> /\ buf[s] # <<>>
  /\ held' = Set(held, s, buf[s]) /\ buf' = Set(buf, s, TakeFromBuffer(s))
  /\ UNCHANGED <<generator, fed, run, dropped, wire, clean, user>>

(* write may take less than it was given; the rest is forgotten. *)
SlotWrites(s) ==
  /\ run[s] = "stream" /\ held[s] # <<>>
  /\ \E k \in 1..Len(held[s]) :
       /\ wire' = Set(wire, s, wire[s] \o SubSeq(held[s], 1, k))
       /\ clean' = Set(clean, s, clean[s] /\ k = Len(held[s]))
  /\ held' = Set(held, s, <<>>)
  /\ UNCHANGED <<generator, fed, run, buf, dropped, user>>

SlotFails(s) ==
  /\ run[s] \in {"stream", "closed"}
  /\ run' = Set(run, s, "wait")
  /\ held' = Set(held, s, <<>>) /\ wire' = Set(wire, s, <<>>)
  /\ UNCHANGED <<generator, fed, buf, dropped, clean, user>>

(* ntrip_runtime_restart_all empties the buffers and closes the sockets      *)
(* under the tasks' feet.                                                     *)
RestartAll ==
  /\ user < MaxUser /\ user' = user + 1
  /\ buf' = [s \in Slots |-> <<>>]
  /\ run' = [s \in Slots |-> IF run[s] = "stream" THEN "closed" ELSE run[s]]
  /\ UNCHANGED <<generator, fed, dropped, held, wire, clean>>

SlotStops(s) ==
  /\ run[s] # "off"
  /\ run' = Set(run, s, "off")
  /\ held' = Set(held, s, <<>>) /\ wire' = Set(wire, s, <<>>)
  /\ UNCHANGED <<generator, fed, buf, dropped, clean, user>>

Slot(s) == SlotStarts(s) \/ SlotConnects(s) \/ SlotReceives(s) \/ SlotWrites(s)
           \/ SlotFails(s) \/ SlotStops(s)

Generator == FakeLeaves \/ FakeEnds

Next == UartData \/ FakeStart \/ FakeStartFails \/ FakeStop \/ FakeSends \/ Generator \/ RestartAll
        \/ \E s \in Slots : Slot(s)

Spec == Init /\ [][Next]_vars

(* The generator's task runs. *)
Fairness == WF_vars(Generator)

FairSpec == Spec /\ Fairness
-----------------------------------------------------------------------------
TypeOK ==
  /\ {enabled, stopReq} \subseteq BOOLEAN
  /\ {looping, leaving} \subseteq 0..MaxUser /\ fed \in 0..MaxFed
  /\ \A s \in Slots :
       /\ run[s] \in {"off", "wait", "stream", "closed"} /\ Len(buf[s]) <= Room
       /\ dropped[s] \in 0..MaxFed /\ clean[s] \in BOOLEAN
  /\ user \in 0..MaxUser

(* Two generators would interleave their packets. *)
OneGenerator == looping + leaving <= 1

(* The two producers and the reader share a buffer: a caster gets no piece   *)
(* twice and none before an older one.                                       *)
Before(p, q) == p[1] < q[1] \/ (p[1] = q[1] /\ p[2] < q[2])
CasterInOrder ==
  \A s \in Slots : \A i \in 1..(Len(wire[s]) - 1) : Before(wire[s][i], wire[s][i + 1])

(* On a connection that began with an empty buffer a caster gets whole       *)
(* messages without gap; when it does not, the slot's counter of dropped      *)
(* messages says so.                                                          *)
Follows(p, q) == IF p[2] = 1 THEN q = <<p[1], 2>> ELSE q = <<p[1] + 1, 1>>
CutsAreCounted ==
  \A s \in Slots :
    clean[s] /\ dropped[s] = 0 =>
      /\ wire[s] = <<>> \/ wire[s][1][2] = 1
      /\ \A i \in 1..(Len(wire[s]) - 1) : Follows(wire[s][i], wire[s][i + 1])

(* A stop that no start follows ends the generator. *)
StopEnds == []<>(stopReq => looping + leaving = 0)
=============================================================================
