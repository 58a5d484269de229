--------------------------- MODULE ReceiverStatus ---------------------------
(***************************************************************************)
(* The listening side of the GNSS receiver (main/receiver.c): every byte   *)
(* of the UART goes to the parser of UBX packets and to a buffer of lines; *)
(* what they make out changes a status and a table of satellites, which    *)
(* the HTTP task reads after it has worked out the ages.                   *)
(*                                                                         *)
(* A byte is a number.  The text of a whole sentence is one byte of        *)
(* DOMAIN Sentences; class and id, the length and the checksum of a packet *)
(* are a byte each, and so is every field of its payload that is used.     *)
(* The UART handler holds the mutex for all the updates of the table that  *)
(* a message asks for (todo), but time may pass between two.  Counters,    *)
(* positions and texts that are only copied are left out, and what a poll  *)
(* does with profiles is in Receiver.                                      *)
(***************************************************************************)
EXTENDS Integers, Sequences

CONSTANTS
  Sentences,     \* Sentences[b]: the sentence with text b, a record
  Units,         \* what the receiver sends in one go: [kind, bytes]
  TableSize,     \* RECEIVER_MAX_SATELLITES
  Room,          \* RECEIVER_LINE_BUFFER_SIZE
  MaxPayload,    \* RECEIVER_UBX_MAX_PAYLOAD
  LengthMod,     \* lengths of packets are below it
  Stale,         \* RECEIVER_MESSAGE_STALE_MS
  AgeMod,        \* ages are below it: 2^32 milliseconds, 49.7 days
  Configured,    \* the type in the configuration
  MaxUnits, MaxTime

VARIABLES
  clock,
  coming,        \* bytes the UART has and has not handed on
  unit,          \* the unit they are of
  ubx,           \* ubx_state, ubx_class, ubx_length, ubx_ck, ubx_payload
  line,          \* line_buffer
  type, detected, fix, rtk,   \* receiver_type, detected, fix_type, rtk_status
  lastMessage,   \* last_message_us
  table,         \* satellites
  todo,          \* updates the handler has still to make; it has the mutex
  web, polledAt, \* the HTTP task: its place, when it polled
  units,         \* counter
  reported,      \* history: when each satellite reported so far was, last
  synced,        \* history: when sync bytes were seen last, or 0
  missed,        \* history: sentences in a row that were not parsed
  lost           \* history: bytes of packets since one was accepted, or noise

parser  == <<ubx, line, coming, unit>>
status  == <<type, detected, fix, rtk, lastMessage>>
history == <<synced, missed, lost>>
vars    == <<clock, parser, status, table, todo, web, polledAt, units,
             reported, history>>

Sync1   == 11   \* 0xB5
Sync2   == 12   \* 0x62, a printable character
NewLine == 13
Letter  == 14

Printable(b) == b \in {Sync2, Letter} \cup DOMAIN Sentences

Constellations == {"GPS", "GLO", "GAL", "BDS", "QZSS", "unknown"}
NoSat == <<"none", 0>>
Free  == [sat |-> NoSat, used |-> FALSE, seen |-> 0, old |-> FALSE]
Slots == 1..TableSize

Hunting  == [at |-> "sync1", class |-> 0, length |-> 0, sum |-> 0, payload |-> <<>>]

StatusAssumption ==
  /\ TableSize \in Nat \ {0} /\ Room \in Nat \ {0} /\ LengthMod \in Nat \ {0}
  /\ MaxPayload \in Nat /\ Stale \in Nat /\ MaxTime \in Nat \ {0}
  /\ AgeMod \in Nat /\ Stale < AgeMod
  /\ Configured \in {"unknown", "unicore", "ublox"}
  /\ \A u \in Units : u.bytes \in Seq(Nat)
  /\ \A b \in DOMAIN Sentences : LET s == Sentences[b] IN
       /\ s.of \in {"GSV", "GSA", "BESTSATA"} => s.numbers \in Seq(Nat)
       /\ s.of \in {"GSV", "GSA"} => s.talker \in Constellations

Init ==
  /\ clock = 1 /\ coming = <<>> /\ unit = "none" /\ ubx = Hunting /\ line = <<>>
  /\ type = "unknown" /\ detected = FALSE /\ fix = "unknown" /\ rtk = "unknown"
  /\ lastMessage = 0
  /\ table = [i \in Slots |-> Free] /\ todo = <<>>
  /\ web = "idle" /\ polledAt = 0 /\ units = 0
  /\ reported = [s \in {} |-> 0]
  /\ synced = 0 /\ missed = 0 /\ lost = 0

(* The handler has the mutex while it works through what it was given. *)
Unlocked == coming = <<>> /\ todo = <<>>

Tick ==
  /\ coming = <<>> /\ clock < MaxTime /\ clock' = clock + 1
  /\ UNCHANGED <<parser, status, table, todo, web, polledAt, units,
                 reported, history>>

Send(u) ==
  /\ Unlocked /\ units < MaxUnits
  /\ coming' = u.bytes /\ unit' = u.kind /\ units' = units + 1
  /\ missed' = IF u.kind = "sentence" THEN missed ELSE 0
  /\ lost'   = IF u.kind = "noise" THEN 0 ELSE lost
  /\ UNCHANGED <<clock, ubx, line, status, table, todo, web, polledAt,
                 reported, synced>>
-----------------------------------------------------------------------------
(* receiver_ubx_feed_byte_locked *)

Summed(b) == [ubx EXCEPT !.sum = (@ + b) % LengthMod]

(* mutant: a wrong checksum does not start over *)
AfterSumWaits(b) == IF b % LengthMod = ubx.sum THEN Hunting ELSE ubx
AfterSum(b) == Hunting

Fed(b) ==
  CASE ubx.at = "sync1" -> IF b = Sync1 THEN [ubx EXCEPT !.at = "sync2"] ELSE ubx
    [] ubx.at = "sync2" -> IF b = Sync2 THEN [Hunting EXCEPT !.at = "class"]
                           ELSE IF b = Sync1 THEN ubx ELSE [ubx EXCEPT !.at = "sync1"]
    [] ubx.at = "class" -> [Summed(b) EXCEPT !.at = "length", !.class = b]
    [] ubx.at = "length" ->
         [Summed(b) EXCEPT !.at = IF b % LengthMod = 0 THEN "sum" ELSE "payload",
                           !.length = b % LengthMod]
    [] ubx.at = "payload" ->
         [Summed(b) EXCEPT !.at = IF Len(ubx.payload) + 1 >= ubx.length THEN "sum" ELSE @,
                           !.payload = Append(@, b)]
    [] ubx.at = "sum" -> AfterSum(b)

SeesSync(b) == ubx.at = "sync2" /\ b = Sync2

(* A packet is looked at if its checksum is right and it was stored. *)
Accepts(b) == ubx.at = "sum" /\ b % LengthMod = ubx.sum /\ ubx.length <= MaxPayload

(* receiver_uart_handler: other bytes of packets get into the lines, too. *)
LineEnds(b) == b = NewLine /\ line # <<>>

LineRoom(l) == Len(l) + 1 < Room

Buffered(b) ==
  IF b = NewLine THEN <<>>
  ELSE IF ~Printable(b) THEN line
  ELSE IF LineRoom(line) THEN Append(line, b) ELSE <<>>

-----------------------------------------------------------------------------
(* What messages say: the type, fix_type, rtk_status, and updates of the table *)

Says(t, f, k, sats) == [type |-> t, fix |-> f, rtk |-> k, sats |-> sats]
Nothing     == Says("same", "same", "same", <<>>)
Fix(f, k)   == Says("same", f, k, <<>>)
InTable(sats) == Says("same", "same", "same", sats)
Reports(by, used, sats) ==
  [i \in 1..Len(sats) |-> [by |-> by, used |-> used, sat |-> sats[i]]]

(* receiver_parse_gga_locked: a plain fix leaves rtk_status as it was. *)
Gga(quality) ==
  CASE quality = 0 -> Fix("no_fix", "none")
    [] quality = 4 -> Fix("rtk_fixed", "fixed")
    [] quality = 5 -> Fix("rtk_float", "float")
    [] quality = 2 -> Fix("dgps", "dgps")
    [] OTHER       -> Fix("fix", "same")

(* receiver_scan_fix_keywords_locked, the word of a position log *)
Keyword(word) ==
  CASE word = "FIXED"  -> Fix("rtk_fixed", "fixed")
    [] word = "FLOAT"  -> Fix("rtk_float", "float")
    [] word = "SINGLE" -> Fix("single", "same")
    [] word = "DGPS"   -> Fix("dgps", "dgps")
    [] OTHER           -> Nothing

Of(talker, numbers) == [i \in 1..Len(numbers) |-> <<talker, numbers[i]>>]

(* GSV of the talker GN is counted only; its GSA marks satellites of no        *)
(* constellation, which are others than those of GSV.                          *)
Gsv(talker, numbers) ==
  IF talker = "unknown" THEN Nothing
                        ELSE InTable(Reports("gsv", "same", Of(talker, numbers)))
Gsa(talker, numbers) == InTable(Reports("gsa", "yes", Of(talker, numbers)))
BestSat(numbers)     == InTable(Reports("bestsata", "same", Of("unknown", numbers)))

Unicore(m) == [m EXCEPT !.type = "unicore"]

Parsed(s) ==
  CASE s.of = "GGA" -> Gga(s.quality)
    [] s.of = "GSV" -> Gsv(s.talker, s.numbers)
    [] s.of = "GSA" -> Gsa(s.talker, s.numbers)
    [] s.of = "PUBX" -> Says("ublox", "same", "same", <<>>)
    [] s.of = "BESTNAVA" -> Unicore(Keyword(s.word))
    [] s.of = "BESTSATA" -> Unicore(BestSat(s.numbers))
    [] s.of = "log" -> Unicore(Nothing)
    [] OTHER -> Nothing

(* A line that does not begin with $ or # says nothing. *)
LineSays ==
  IF Head(line) \in DOMAIN Sentences THEN Parsed(Sentences[Head(line)]) ELSE Nothing

(* NAV-PVT: fix type, carrier solution, differential solution *)
NavPvt(p) ==
  CASE Len(p) < 3 -> Nothing
    [] Len(p) >= 3 /\ p[2] = 2 -> Fix("rtk_fixed", "fixed")
    [] Len(p) >= 3 /\ p[2] = 1 -> Fix("rtk_float", "float")
    [] Len(p) >= 3 /\ p[2] \notin {1, 2} ->
         IF p[3] = 1 THEN Fix("dgps", "dgps")
         ELSE CASE p[1] = 0 -> Fix("no_fix", "none")
                [] p[1] = 2 -> Fix("2d", "standalone")
                [] p[1] = 3 -> Fix("3d", "standalone")
                [] p[1] = 4 -> Fix("dead_reckoning", "none")
                [] OTHER    -> Fix("fix", "unknown")

UbxConstellation(g) ==
  CASE g = 0 -> "GPS" [] g = 2 -> "GAL" [] g = 3 -> "BDS" [] g = 5 -> "QZSS"
    [] g = 6 -> "GLO" [] OTHER -> "unknown"

(* NAV-SAT with one satellite: constellation, number, used; 0 is no number. *)
NavSat(p) ==
  IF Len(p) < 3 \/ (Len(p) >= 2 /\ p[2] = 0) THEN Nothing
  ELSE InTable(Reports("nav-sat", IF p[3] = 1 THEN "yes" ELSE "no",
                       << <<UbxConstellation(p[1]), p[2]>> >>))

(* NAV-RELPOSNED: valid, carrier solution *)
RelPos(p) ==
  IF Len(p) < 2 \/ (Len(p) >= 1 /\ p[1] = 0) THEN Nothing
  ELSE CASE p[2] = 2 -> Fix("rtk_fixed", "fixed")
         [] p[2] = 1 -> Fix("rtk_float", "float")
         [] OTHER    -> Nothing

(* Classes of the model; others, HPPOSLLH and MON-VER among them, change none *)
(* of this.                                                                   *)
PacketSays(class, p) ==
  CASE class = 5 -> NavPvt(p) [] class = 6 -> NavSat(p) [] class = 7 -> RelPos(p)
    [] OTHER -> Nothing

(* A packet always says whose receiver it is. *)
Packet(b) == [PacketSays(ubx.class, ubx.payload) EXCEPT !.type = "ublox"]
(* The packet a byte completes is looked at first, then the line; the last that *)
(* says anything of a field decides.                                            *)
Later(before, said) == IF said = "same" THEN before ELSE said
Latest(before, first, second) == Later(Later(before, first), second)

FromPacket(b) == IF Accepts(b) THEN Packet(b) ELSE Nothing
FromLine(b)   == IF LineEnds(b) THEN LineSays ELSE Nothing

Byte ==
  LET b == Head(coming)
      p == FromPacket(b)
      l == FromLine(b)
      sync == IF SeesSync(b) THEN "ublox" ELSE "same"
      last == Len(coming) = 1
  IN
  /\ coming # <<>> /\ todo = <<>>
  /\ coming' = Tail(coming)
  /\ ubx' = Fed(b) /\ line' = Buffered(b)
  /\ type' = Latest(Later(type, sync), p.type, l.type)
  /\ detected' = (detected \/ \E t \in {sync, p.type, l.type} : t # "same")
  /\ fix' = Latest(fix, p.fix, l.fix) /\ rtk' = Latest(rtk, p.rtk, l.rtk)
  /\ lastMessage' = IF Accepts(b) \/ LineEnds(b) THEN clock ELSE lastMessage
  /\ todo' = p.sats \o l.sats
  /\ synced' = IF SeesSync(b) THEN clock ELSE synced
  /\ missed' = IF unit = "sentence" /\ last
                 THEN IF Len(line) = 1 THEN 0 ELSE missed + 1 ELSE missed
  /\ lost' = IF unit # "packet" THEN lost
             ELSE IF last /\ Accepts(b) THEN 0 ELSE lost + 1
  /\ UNCHANGED <<clock, unit, table, web, polledAt, units, reported>>
-----------------------------------------------------------------------------
(* The table of satellites *)

Place(s) == CHOOSE i \in Slots : table[i].sat = s

(* mutant: the first slot is given up, not the oldest *)
VictimFirst == 1
Victim == CHOOSE i \in Slots : \A j \in Slots :
            table[i].seen < table[j].seen \/ (table[i].seen = table[j].seen /\ i <= j)

(* receiver_find_satellite_locked: its slot, a free one, or the one not heard of *)
(* for longest.                                                                  *)
SlotOf(s) ==
  IF \E i \in Slots : table[i].sat = s THEN Place(s)
  ELSE IF \E i \in Slots : table[i].sat = NoSat THEN Place(NoSat)
  ELSE Victim

Found(s) == IF table[SlotOf(s)].sat = s THEN table[SlotOf(s)] ELSE [Free EXCEPT !.sat = s]

(* receiver_update_satellite_locked, receiver_set_satellite_used_locked and the *)
(* end of receiver_parse_gsa_locked, which leaves the age of a known satellite. *)
Update ==
  LET u == Head(todo)
      f == Found(u.sat)
  IN
  /\ todo # <<>> /\ todo' = Tail(todo)
  /\ table' = [table EXCEPT ![SlotOf(u.sat)] =
                 [f EXCEPT !.seen = clock,
                           !.used = IF u.used = "same" THEN @ ELSE u.used = "yes",
                           !.old  = IF u.by = "gsa" THEN @ ELSE FALSE]]
  /\ reported' = [s \in DOMAIN reported \cup {u.sat} |->
                    IF s = u.sat THEN clock ELSE reported[s]]
  /\ UNCHANGED <<clock, parser, status, web, polledAt, units, history>>
-----------------------------------------------------------------------------
(* The HTTP task: receiver_poll, then the copy under a lock of its own *)

Age(then) == (clock - then) % AgeMod

Aged(t) == IF t.sat = NoSat THEN t
           ELSE IF Age(t.seen) > Stale
             THEN [t EXCEPT !.used = FALSE, !.old = TRUE]
             ELSE [t EXCEPT !.old = FALSE]

Silent == lastMessage = 0 \/ Age(lastMessage) > Stale

Poll ==
  /\ web = "idle" /\ Unlocked
  /\ web' = "copy" /\ polledAt' = clock
  /\ table' = [i \in Slots |-> Aged(table[i])]
  /\ detected' = IF Silent THEN FALSE ELSE (detected \/ type # "unknown")
  /\ UNCHANGED <<clock, parser, type, fix, rtk, lastMessage, todo, units,
                 reported, history>>

(* receiver_get_satellites copies these, receiver_get_status and the others the *)
(* status as it is.                                                             *)
Listed == {i \in Slots : table[i].sat # NoSat /\ ~table[i].old}

Answers == web = "copy" /\ Unlocked

Answer ==
  /\ Answers /\ web' = "idle"
  /\ UNCHANGED <<clock, parser, status, table, todo, polledAt, units, reported, history>>

(* receiver_detect: until the receiver is heard the configuration is believed. *)
Detect ==
  /\ Unlocked /\ type = "unknown" /\ Configured # "unknown"
  /\ type' = Configured
  /\ UNCHANGED <<clock, parser, detected, fix, rtk, lastMessage, table, todo, web,
                 polledAt, units, reported, history>>

Next ==
  \/ \E u \in Units : Send(u)
  \/ Byte \/ Update \/ Tick \/ Poll \/ Answer \/ Detect

Spec == Init /\ [][Next]_vars
-----------------------------------------------------------------------------
TypeOK ==
  /\ clock \in 1..MaxTime /\ lastMessage \in 0..clock
  /\ type \in {"unknown", "unicore", "ublox"} /\ detected \in BOOLEAN
  /\ \A i \in Slots : table[i].sat \in DOMAIN reported \cup {NoSat} /\ table[i].seen \in 0..clock
  /\ web \in {"idle", "copy"} /\ Len(line) < Room

(* No satellite is in the table twice, and one that had to go had been heard *)
(* of last no later than those that stayed.                                  *)
TableKeepsNewest ==
  /\ \A i, j \in Slots : table[i].sat = table[j].sat /\ i # j => table[i].sat = NoSat
  /\ \A s \in DOMAIN reported :
       \/ \E i \in Slots : table[i].sat = s /\ table[i].seen = reported[s]
       \/ \A i \in Slots : table[i].sat # NoSat /\ table[i].seen >= reported[s]

(* An answer lists satellites reported within Stale of the poll, and says that *)
(* there is a receiver only if a message came in that time, or sync bytes did  *)
(* after the poll.  Ages are kept in 32 bits: for as long, whenever another    *)
(* turn of theirs is over, what is long gone is shown once more.               *)
Within(then) ==
  \/ polledAt - then <= Stale
  \/ polledAt - then >= AgeMod /\ (polledAt - then) % AgeMod <= Stale

AnswersFresh ==
  Answers =>
    /\ \A i \in Listed : Within(reported[table[i].sat])
    /\ detected => Within(lastMessage) \/ synced >= polledAt

(* The two words for the fix agree where the first names a carrier solution. *)
FixAgrees ==
  /\ fix = "rtk_fixed" => rtk = "fixed"
  /\ fix = "rtk_float" => rtk = "float"
  /\ fix = "no_fix"    => rtk = "none"

(* Whatever noise came before: of two sentences in a row the second is parsed, *)
(* and a false start costs what its packet takes and the one it ends in.       *)
LongestUnit == CHOOSE n \in {Len(u.bytes) : u \in Units} :
                 \A u \in Units : Len(u.bytes) <= n
SoonHeard == missed <= 1 /\ (coming = <<>> => lost <= LengthMod + 1 + LongestUnit)
=============================================================================
