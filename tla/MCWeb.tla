-------------------------------- MODULE MCWeb --------------------------------
(***************************************************************************)
(* What the HTTP server drives, for TLC: the command side of the receiver   *)
(* (MCReceiver), and beside it the settings of the device (ConfigStore) and *)
(* what is heard from the receiver (ReceiverStatus).  They share no state;  *)
(* a behaviour is one of the three, chosen by part at the start.            *)
(***************************************************************************)
EXTENDS MCReceiver, TLC

CONSTANTS Items, Posts, ByteValues, MaxPosts, MaxResets, MaxFaults   \* of ConfigStore

VARIABLES
  part,
  c_stored, committed, running, page, job, answer, restarting, adrift, legit, posts,
  resets, faults,
  clock, coming, unit, ubx, line, type, s_detected, fix, rtk, lastMessage, table,
  todo, s_web, polledAt, units, reported, synced, missed, lost

Item(t, default, s, l) == [type |-> t, def |-> default, secret |-> s, legacy |-> l]

(* A small number, a wide signed one, a secret text of a legacy key, a colour *)
MCItems ==
  <<Item("uint8", 1, FALSE, FALSE), Item("int32", 0, FALSE, FALSE),
    Item("string", 0, TRUE, TRUE), Item("color", 1, FALSE, FALSE)>>

MCPosts ==
  {(1 :> <<"number", 3>>) @@ (2 :> <<"number", -3>>),
   (1 :> <<"number", 2>>) @@ (3 :> <<"word", 1>>) @@ (4 :> <<"color", 5>>),
   (2 :> <<"number", 7>>) @@ (4 :> <<"word", 1>>)}

Config == INSTANCE ConfigStore WITH stored <- c_stored

configVars == <<c_stored, committed, running, page, job, answer, restarting,
                adrift, legit, posts, resets, faults>>

(* A plain fix, a position log with a word, satellites of GPS and of none *)
MCSentences ==
  (20 :> [of |-> "GGA", quality |-> 1])
  @@ (21 :> [of |-> "BESTNAVA", word |-> "FIXED"])
  @@ (22 :> [of |-> "GSV", talker |-> "GPS", numbers |-> <<7, 8>>])
  @@ (23 :> [of |-> "GSA", talker |-> "unknown", numbers |-> <<7>>])

Unit(kind, bytes) == [kind |-> kind, bytes |-> bytes]
UbxPacket(class, a, b, c) ==
  Unit("packet", <<11, 12, class, 3, a, b, c, (class + 3 + a + b + c) % 5>>)

(* NAV-PVT without a fix and NAV-SAT; noise: a sync alone, letters that fill   *)
(* the line, a packet that breaks off                                          *)
MCUnits ==
  {Unit("sentence", <<s, 13>>) : s \in DOMAIN MCSentences}
    \cup {UbxPacket(5, 0, 0, 0), UbxPacket(6, 0, 7, 1)}
    \cup {Unit("noise", <<11, 12>>), Unit("noise", <<5, 14, 14>>),
          Unit("noise", <<11, 12, 14, 9>>)}

Status == INSTANCE ReceiverStatus WITH
  Sentences <- MCSentences, Units <- MCUnits,
  TableSize <- 2, Room <- 3, MaxPayload <- 3, LengthMod <- 5, Stale <- 0, AgeMod <- 2,
  Configured <- "unicore", MaxUnits <- 3, MaxTime <- 3,
  detected <- s_detected, web <- s_web

statusVars == <<clock, coming, unit, ubx, line, type, s_detected, fix, rtk,
                lastMessage, table, todo, s_web, polledAt, units, reported,
                synced, missed, lost>>

ASSUME WebAssumption == Config!ConfigAssumption /\ Status!StatusAssumption

(* Where the others run, one initial state of the receiver is enough. *)
MCInit ==
  /\ Init /\ Config!Init /\ Status!Init
  /\ \/ part = "receiver"
     \/ part \in {"config", "status"} /\ stored = NoProfile /\ ~longMask

MCNext ==
  \/ part = "receiver" /\ Next /\ UNCHANGED <<part, configVars, statusVars>>
  \/ part = "config" /\ Config!Next /\ UNCHANGED <<part, vars, statusVars>>
  \/ part = "status" /\ Status!Next /\ UNCHANGED <<part, vars, configVars>>

(* The fairness of each module, where it is the one that runs *)
MCFairness ==
  /\ WF_vars(part = "receiver" /\ Applying) /\ WF_vars(part = "receiver" /\ Commanding)
  /\ WF_vars(part = "receiver" /\ Poll) /\ WF_vars(part = "receiver" /\ DetectDevice)
  /\ WF_configVars(part = "config" /\ Config!Handler)
  /\ WF_configVars(part = "config" /\ Config!Restart)

MCSpec == MCInit /\ [][MCNext]_<<part, vars, configVars, statusVars>> /\ MCFairness

(* NVS holds what posts meant. *)
StoreIsMeant == Config!TypeOK /\ Config!StoreIsMeant

(* A post changes what it names, and the services come to run with it. *)
PostTakesEffect == Config!PageKeeps /\ Config!TakesEffect

(* The table of satellites keeps the newest, and answers say what was heard. *)
AnswersSound ==
  Status!TypeOK /\ Status!TableKeepsNewest /\ Status!AnswersFresh /\ Status!FixAgrees

(* Noise and false starts of packets cost the sentence they end in, no more. *)
SoonHeard == Status!SoonHeard
=============================================================================
