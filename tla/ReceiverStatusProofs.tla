------------------------ MODULE ReceiverStatusProofs ------------------------
(***************************************************************************)
(* Proofs about the status and the table of satellites, for any size of    *)
(* the table, any sentences and any bytes: no satellite is in the table    *)
(* twice, one that had to go had been heard of last no later than those    *)
(* that stayed, and answers are neither stale nor at odds with themselves. *)
(***************************************************************************)
EXTENDS ReceiverStatus, WellFoundedInduction, TLAPS

Phases  == {"sync1", "sync2", "class", "length", "payload", "sum"}
Named   == Constellations \X Nat
Sources == {"gsv", "gsa", "bestsata", "nav-sat"}
Marks   == {"same", "yes", "no"}
Updates == [by : Sources, used : Marks, sat : Named]
Entries == [sat : Named \cup {NoSat}, used : BOOLEAN, seen : Nat, old : BOOLEAN]

(* The types the argument needs *)
Typed ==
  /\ clock \in Nat \ {0}
  /\ coming \in Seq(Nat)
  /\ ubx \in [at : Phases, class : Nat, length : Nat, sum : Nat, payload : Seq(Nat)]
  /\ todo \in Seq(Updates)
  /\ table \in [Slots -> Entries]
  /\ reported \in [DOMAIN reported -> Nat] /\ DOMAIN reported \subseteq Named

(* What is in the table, and what was reported of it *)
Recorded ==
  /\ \A i \in Slots : table[i].seen <= clock
  /\ \A i \in Slots : table[i].sat # NoSat =>
       table[i].sat \in DOMAIN reported /\ table[i].seen = reported[table[i].sat]
-----------------------------------------------------------------------------
(* What messages ask of the table *)

LEMMA NoSatUnnamed == NoSat \notin Named
BY DEF Named, NoSat, Constellations

LEMMA OfType ==
  ASSUME NEW t \in Constellations, NEW n \in Seq(Nat)
  PROVE  Of(t, n) \in Seq(Named)
BY DEF Of, Named

LEMMA ReportsType ==
  ASSUME NEW by \in Sources, NEW used \in Marks, NEW sats \in Seq(Named)
  PROVE  Reports(by, used, sats) \in Seq(Updates)
BY DEF Reports, Updates

LEMMA LineUpdates ==
  ASSUME StatusAssumption
  PROVE  LineSays.sats \in Seq(Updates)
<1>1. ASSUME NEW b \in DOMAIN Sentences
      PROVE  Parsed(Sentences[b]).sats \in Seq(Updates)
  <2> DEFINE s == Sentences[b]
  <2>1. CASE s.of = "GSV"
    <3>1. s.numbers \in Seq(Nat) /\ s.talker \in Constellations
      BY <2>1 DEF StatusAssumption
    <3>2. Of(s.talker, s.numbers) \in Seq(Named)
      BY <3>1, OfType
    <3>3. Reports("gsv", "same", Of(s.talker, s.numbers)) \in Seq(Updates)
      BY <3>2, ReportsType DEF Sources, Marks
    <3> QED
      BY <2>1, <3>3 DEF Parsed, Gsv, InTable, Says, Nothing
  <2>2. CASE s.of = "GSA"
    <3>1. s.numbers \in Seq(Nat) /\ s.talker \in Constellations
      BY <2>2 DEF StatusAssumption
    <3>2. Of(s.talker, s.numbers) \in Seq(Named)
      BY <3>1, OfType
    <3>3. Reports("gsa", "yes", Of(s.talker, s.numbers)) \in Seq(Updates)
      BY <3>2, ReportsType DEF Sources, Marks
    <3> QED
      BY <2>2, <3>3 DEF Parsed, Gsa, InTable, Says
  <2>3. CASE s.of = "BESTSATA"
    <3>1. s.numbers \in Seq(Nat)
      BY <2>3 DEF StatusAssumption
    <3>2. Of("unknown", s.numbers) \in Seq(Named)
      BY <3>1, OfType DEF Constellations
    <3>3. Reports("bestsata", "same", Of("unknown", s.numbers)) \in Seq(Updates)
      BY <3>2, ReportsType DEF Sources, Marks
    <3> QED
      BY <2>3, <3>3 DEF Parsed, Unicore, BestSat, InTable, Says
  <2>4. CASE s.of \notin {"GSV", "GSA", "BESTSATA"}
    BY <2>4 DEF Parsed, Gga, Unicore, Keyword, Fix, Nothing, Says
  <2> QED
    BY <2>1, <2>2, <2>3, <2>4
<1> QED
  BY <1>1 DEF LineSays, Nothing, Says

LEMMA PacketUpdates ==
  ASSUME NEW class \in Nat, NEW p \in Seq(Nat)
  PROVE  PacketSays(class, p).sats \in Seq(Updates)
<1>1. NavPvt(p).sats \in Seq(Updates) /\ RelPos(p).sats \in Seq(Updates)
  BY DEF NavPvt, RelPos, Fix, Nothing, Says
<1>2. NavSat(p).sats \in Seq(Updates)
  <2>1. CASE Len(p) < 3 \/ (Len(p) >= 2 /\ p[2] = 0)
    BY <2>1 DEF NavSat, Nothing, Says
  <2>2. CASE ~(Len(p) < 3 \/ (Len(p) >= 2 /\ p[2] = 0))
    <3> DEFINE sat == <<UbxConstellation(p[1]), p[2]>>
               used == IF p[3] = 1 THEN "yes" ELSE "no"
    <3>0. used \in Marks /\ "nav-sat" \in Sources
      BY DEF Marks, Sources
    <3>1. p[1] \in Nat /\ p[2] \in Nat
      BY <2>2
    <3>2. UbxConstellation(p[1]) \in Constellations
      BY <3>1 DEF UbxConstellation, Constellations
    <3>3. sat \in Named
      BY <3>1, <3>2 DEF Named
    <3>4. <<sat>> \in Seq(Named)
      BY <3>3
    <3>5. Reports("nav-sat", used, <<sat>>) \in Seq(Updates)
      <4> HIDE DEF sat, used
      <4> QED
        BY <3>0, <3>4, ReportsType
    <3> QED
      BY <2>2, <3>5 DEF NavSat, InTable, Says
  <2> QED
    BY <2>1, <2>2
<1> QED
  BY <1>1, <1>2 DEF PacketSays, Nothing, Says
-----------------------------------------------------------------------------
(* Types *)

LEMMA FedType ==
  ASSUME StatusAssumption, Typed, NEW b \in Nat
  PROVE  Fed(b) \in [at : Phases, class : Nat, length : Nat, sum : Nat, payload : Seq(Nat)]
<1> DEFINE U == [at : Phases, class : Nat, length : Nat, sum : Nat, payload : Seq(Nat)]
<1>1. LengthMod \in Nat \ {0}
  BY DEF StatusAssumption
<1>2. ubx \in U
  BY DEF Typed
<1>3. b % LengthMod \in Nat /\ (ubx.sum + b) % LengthMod \in Nat
  BY <1>1, <1>2
<1>4. Append(ubx.payload, b) \in Seq(Nat)
  BY <1>2
<1>5. Hunting \in U
  BY DEF Hunting, Phases
<1>6. Summed(b) \in U /\ Summed(b).payload = ubx.payload
  BY <1>2, <1>3 DEF Summed
<1>7. CASE ubx.at = "class"
  BY <1>6, <1>7 DEF Fed, Phases
<1>8. CASE ubx.at = "length"
  BY <1>3, <1>6, <1>8 DEF Fed, Phases
<1>9. CASE ubx.at = "payload"
  BY <1>4, <1>6, <1>9 DEF Fed, Phases
<1>10. CASE ubx.at \notin {"class", "length", "payload"}
  BY <1>2, <1>5, <1>10 DEF Fed, Phases, AfterSum
<1> QED
  BY <1>7, <1>8, <1>9, <1>10

LEMMA ByteTyped ==
  ASSUME StatusAssumption, Typed, Byte
  PROVE  Typed'
<1> DEFINE b == Head(coming)
<1>1. b \in Nat /\ Tail(coming) \in Seq(Nat)
  BY DEF Typed, Byte
<1>2. coming' \in Seq(Nat)
  BY <1>1 DEF Byte
<1>3. ubx' \in [at : Phases, class : Nat, length : Nat, sum : Nat, payload : Seq(Nat)]
  <2>1. ubx' = Fed(b)
    BY DEF Byte
  <2> HIDE DEF b
  <2> QED
    BY <1>1, <2>1, FedType
<1>4. todo' \in Seq(Updates)
  <2>1. todo' = FromPacket(b).sats \o FromLine(b).sats
    BY DEF Byte
  <2>2. FromLine(b).sats \in Seq(Updates)
    BY LineUpdates DEF FromLine, Nothing, Says
  <2>3. FromPacket(b).sats \in Seq(Updates)
    <3>1. PacketSays(ubx.class, ubx.payload).sats \in Seq(Updates)
      BY PacketUpdates DEF Typed
    <3>2. Packet(b).sats = PacketSays(ubx.class, ubx.payload).sats
      BY DEF Packet, PacketSays, NavPvt, NavSat, RelPos, InTable, Fix, Nothing, Says
    <3> QED
      BY <3>1, <3>2 DEF FromPacket, Nothing, Says
  <2> HIDE DEF b
  <2> QED
    BY <2>1, <2>2, <2>3
<1>5. UNCHANGED <<clock, table, reported>>
  BY DEF Byte
<1> QED
  BY <1>2, <1>3, <1>4, <1>5 DEF Typed

LEMMA StaysTyped ==
  ASSUME StatusAssumption, Typed, [Next]_vars
  PROVE  Typed'
<1>1. ASSUME NEW u \in Units, Send(u)
      PROVE  Typed'
  <2>1. u.bytes \in Seq(Nat)
    BY DEF StatusAssumption
  <2> QED
    BY <1>1, <2>1 DEF Send, Typed, status
<1>2. CASE Byte
  BY <1>2, ByteTyped
<1>3. CASE Update
  <2> DEFINE u == Head(todo)
             f == Found(u.sat)
             e == [f EXCEPT !.seen = clock,
                            !.used = IF u.used = "same" THEN @ ELSE u.used = "yes",
                            !.old  = IF u.by = "gsa" THEN @ ELSE FALSE]
  <2>1. u \in Updates /\ Tail(todo) \in Seq(Updates)
    BY <1>3 DEF Typed, Update
  <2>2. u.sat \in Named
    BY <2>1 DEF Updates
  <2>3. [Free EXCEPT !.sat = u.sat] \in Entries
    BY <2>2 DEF Free, Entries
  <2>4. SlotOf(u.sat) \in Slots => f \in Entries
    BY <2>3 DEF Found, Typed
  <2>5. f \in Entries => e \in Entries
    BY DEF Typed, Entries
  <2>6. table' = [table EXCEPT ![SlotOf(u.sat)] = e]
    BY <1>3 DEF Update
  <2>7. table' \in [Slots -> Entries]
    <3> HIDE DEF e, f
    <3>1. CASE SlotOf(u.sat) \in Slots
      BY <2>4, <2>5, <2>6, <3>1 DEF Typed
    <3>2. CASE SlotOf(u.sat) \notin Slots
      BY <2>6, <3>2 DEF Typed
    <3> QED
      BY <3>1, <3>2
  <2>8. reported' \in [DOMAIN reported' -> Nat] /\ DOMAIN reported' \subseteq Named
    <3> HIDE DEF u
    <3>1. reported' = [s \in DOMAIN reported \cup {u.sat} |->
                        IF s = u.sat THEN clock ELSE reported[s]]
      BY <1>3 DEF Update, u
    <3> QED
      BY <2>2, <3>1 DEF Typed
  <2>9. todo' \in Seq(Updates)
    BY <1>3, <2>1 DEF Update
  <2> QED
    BY <1>3, <2>7, <2>8, <2>9 DEF Update, Typed, parser
<1>4. CASE Poll
  <2>1. ASSUME NEW i \in Slots
        PROVE  Aged(table[i]) \in Entries
    BY DEF Aged, Entries, Typed
  <2> QED
    BY <1>4, <2>1 DEF Poll, Typed, parser
<1>5. CASE Tick
  BY <1>5 DEF Tick, Typed, parser
<1>6. CASE Answer \/ Detect
  BY <1>6 DEF Answer, Detect, Typed, parser
<1>7. CASE UNCHANGED vars
  BY <1>7 DEF vars, Typed, parser
<1> QED
  BY <1>1, <1>2, <1>3, <1>4, <1>5, <1>6, <1>7 DEF Next
-----------------------------------------------------------------------------
(* The slot of a satellite *)

LEMMA SmallestNumber ==
  ASSUME NEW T, T \subseteq Nat, T # {}
  PROVE  \E m \in T : \A n \in T : m <= n
<1>1. PICK m \in T : \A n \in T : ~(<<n, m>> \in OpToRel(<, Nat))
  BY WFMin, NatLessThanWellFounded, Zenon
<1>2. ASSUME NEW n \in T
      PROVE  m <= n
  <2>1. m \in Nat /\ n \in Nat
    OBVIOUS
  <2>2. ~(n < m)
    <3>1. <<n, m>> \in Nat \X Nat
      BY <2>1
    <3>2. n < m => <<n, m>> \in OpToRel(<, Nat)
      BY <3>1, Zenon DEF OpToRel
    <3> QED
      BY <1>1, <3>2, Zenon
  <2> QED
    BY <2>1, <2>2, SMT
<1> QED
  BY <1>2

(* There is a slot not heard of for longest. *)
LEMMA VictimIsOldest ==
  ASSUME StatusAssumption, Typed
  PROVE  Victim \in Slots /\ \A j \in Slots : table[Victim].seen <= table[j].seen
<1> DEFINE Seen == {table[i].seen : i \in Slots}
<1>1. Slots # {} /\ Slots \subseteq Nat
  <2>1. TableSize \in Nat /\ TableSize >= 1
    BY DEF StatusAssumption
  <2>2. 1 \in Slots
    BY <2>1 DEF Slots
  <2> QED
    BY <2>1, <2>2 DEF Slots
<1>2. \A i \in Slots : table[i].seen \in Nat
  BY DEF Typed, Entries
<1>3. Seen \subseteq Nat /\ Seen # {}
  BY <1>1, <1>2
<1>4. PICK m \in Seen : \A n \in Seen : m <= n
  <2> HIDE DEF Seen
  <2> QED
    BY <1>3, SmallestNumber
<1>5. \A j \in Slots : m <= table[j].seen
  BY <1>4
<1> DEFINE Oldest == {i \in Slots : table[i].seen = m}
<1>6. Oldest \subseteq Nat /\ Oldest # {}
  BY <1>1
<1>7. PICK i \in Oldest : \A j \in Oldest : i <= j
  <2> HIDE DEF Oldest
  <2> QED
    BY <1>6, SmallestNumber
<1>8. \A j \in Slots :
        table[i].seen < table[j].seen \/ (table[i].seen = table[j].seen /\ i <= j)
  <2>1. table[i].seen = m /\ m \in Nat
    BY <1>2, <1>7
  <2> QED
    BY <1>2, <1>5, <1>7, <2>1
<1>9. i \in Slots
  BY <1>7
<1>10. Victim \in Slots /\ \A j \in Slots :
         table[Victim].seen < table[j].seen
           \/ (table[Victim].seen = table[j].seen /\ Victim <= j)
  <2> HIDE DEF Oldest
  <2> QED
    BY <1>8, <1>9 DEF Victim
<1> QED
  BY <1>2, <1>10

(* It holds the satellite, or nobody holds it and the slot is free or, with none *)
(* free, has not been heard of for longest.                                      *)
LEMMA SlotOfSatellite ==
  ASSUME StatusAssumption, Typed, NEW s
  PROVE  /\ SlotOf(s) \in Slots
         /\ \/ table[SlotOf(s)].sat = s
            \/ /\ \A i \in Slots : table[i].sat # s
               /\ \/ table[SlotOf(s)].sat = NoSat
                  \/ \A i \in Slots : /\ table[i].sat # NoSat
                                      /\ table[SlotOf(s)].seen <= table[i].seen
<1>1. CASE \E i \in Slots : table[i].sat = s
  BY <1>1 DEF SlotOf, Place
<1>2. CASE (\A i \in Slots : table[i].sat # s) /\ \E i \in Slots : table[i].sat = NoSat
  BY <1>2 DEF SlotOf, Place
<1>3. CASE \A i \in Slots : table[i].sat # s /\ table[i].sat # NoSat
  BY <1>3, VictimIsOldest DEF SlotOf
<1> QED
  BY <1>1, <1>2, <1>3
-----------------------------------------------------------------------------
(* The table keeps the newest *)

NewestInv ==
  /\ Typed /\ Recorded /\ TableKeepsNewest
  /\ \A s \in DOMAIN reported : reported[s] <= clock

LEMMA UpdateKeepsNewest ==
  ASSUME StatusAssumption, NewestInv, Update, Typed'
  PROVE  NewestInv'
<1> DEFINE u == Head(todo)
           k == SlotOf(u.sat)
<1>1. u.sat \in Named /\ u.sat # NoSat
  <2>1. u \in Updates
    BY DEF NewestInv, Typed, Update
  <2> QED
    BY <2>1, NoSatUnnamed DEF Updates
<1>2. /\ k \in Slots
      /\ \/ table[k].sat = u.sat
         \/ /\ \A i \in Slots : table[i].sat # u.sat
            /\ \/ table[k].sat = NoSat
               \/ \A i \in Slots : table[i].sat # NoSat /\ table[k].seen <= table[i].seen
  <2> HIDE DEF u
  <2> QED
    BY SlotOfSatellite DEF NewestInv
<1>3. clock' = clock /\ clock \in Nat
  BY DEF Update, NewestInv, Typed
<1>4. /\ table'[k].sat = u.sat /\ table'[k].seen = clock
      /\ \A i \in Slots : i # k => table'[i] = table[i]
  <2>1. Found(u.sat).sat = u.sat /\ Found(u.sat) \in Entries
    BY <1>1, <1>2 DEF Found, Free, Entries, NewestInv, Typed
  <2> DEFINE f == Found(u.sat)
             e == [f EXCEPT !.seen = clock,
                            !.used = IF u.used = "same" THEN @ ELSE u.used = "yes",
                            !.old  = IF u.by = "gsa" THEN @ ELSE FALSE]
  <2>2. e.sat = u.sat /\ e.seen = clock
    BY <2>1 DEF Entries
  <2>3. table' = [table EXCEPT ![k] = e]
    BY DEF Update
  <2> HIDE DEF e, f, k
  <2> QED
    BY <1>2, <2>2, <2>3 DEF NewestInv, Typed
<1>5. /\ DOMAIN reported' = DOMAIN reported \cup {u.sat}
      /\ \A s \in DOMAIN reported' :
           reported'[s] = IF s = u.sat THEN clock ELSE reported[s]
  BY DEF Update
<1>6. \A i \in Slots : i # k => table[i].sat # u.sat
  BY <1>1, <1>2 DEF NewestInv, TableKeepsNewest
<1> HIDE DEF k, u
<1>7. \A i \in Slots : table[i].seen \in Nat
  BY DEF NewestInv, Typed, Entries
<1>8. Recorded'
  <2>1. \A i \in Slots : table'[i].seen <= clock'
    BY <1>3, <1>4, <1>7 DEF NewestInv, Recorded
  <2>2. ASSUME NEW i \in Slots, table'[i].sat # NoSat
        PROVE  /\ table'[i].sat \in DOMAIN reported'
               /\ table'[i].seen = reported'[table'[i].sat]
    <3>1. CASE i = k
      BY <1>4, <1>5, <2>2, <3>1
    <3>2. CASE i # k
      BY <1>4, <1>5, <1>6, <2>2, <3>2 DEF NewestInv, Recorded
    <3> QED
      BY <3>1, <3>2
  <2> QED
    BY <2>1, <2>2 DEF Recorded
<1>9. \A s \in DOMAIN reported' : reported'[s] <= clock'
  BY <1>3, <1>5 DEF NewestInv
<1>10. ASSUME NEW i \in Slots, NEW j \in Slots, table'[i].sat = table'[j].sat, i # j
       PROVE  table'[i].sat = NoSat
  <2>1. CASE i # k /\ j # k
    BY <1>4, <1>10, <2>1 DEF NewestInv, TableKeepsNewest
  <2>2. CASE i = k \/ j = k
    BY <1>4, <1>6, <1>10, <2>2
  <2> QED
    BY <2>1, <2>2
<1>11. ASSUME NEW s \in DOMAIN reported'
       PROVE  \/ \E i \in Slots : table'[i].sat = s /\ table'[i].seen = reported'[s]
              \/ \A i \in Slots : table'[i].sat # NoSat /\ table'[i].seen >= reported'[s]
  <2>1. CASE s = u.sat
    BY <1>2, <1>4, <1>5, <2>1
  <2>2. CASE s # u.sat
    <3>1. reported'[s] = reported[s] /\ s \in DOMAIN reported
      BY <1>5, <1>11, <2>2
    <3>2. reported[s] \in Nat /\ reported[s] <= clock
      BY <3>1 DEF NewestInv, Typed
    <3>3. ASSUME NEW i \in Slots, table[i].sat = s, table[i].seen = reported[s]
          PROVE  \/ \E j \in Slots : table'[j].sat = s /\ table'[j].seen = reported'[s]
                 \/ \A j \in Slots : table'[j].sat # NoSat /\ table'[j].seen >= reported'[s]
      <4>1. CASE i # k
        BY <1>4, <3>1, <3>3, <4>1
      <4>2. CASE i = k
        <5>1. s # NoSat
          BY <3>1, NoSatUnnamed DEF NewestInv, Typed
        <5>2. \A j \in Slots : table[j].sat # NoSat /\ table[j].seen >= reported[s]
          BY <1>2, <1>7, <2>2, <3>2, <3>3, <4>2, <5>1
        <5> QED
          BY <1>1, <1>4, <3>1, <3>2, <5>2
      <4> QED
        BY <4>1, <4>2
    <3>4. CASE \A i \in Slots : table[i].sat # NoSat /\ table[i].seen >= reported[s]
      BY <1>1, <1>4, <3>1, <3>2, <3>4
    <3> QED
      BY <3>1, <3>3, <3>4 DEF NewestInv, TableKeepsNewest
  <2> QED
    BY <2>1, <2>2
<1>12. TableKeepsNewest'
  BY <1>10, <1>11 DEF TableKeepsNewest
<1> QED
  BY <1>8, <1>9, <1>12 DEF NewestInv

LEMMA OthersKeepNewest ==
  ASSUME StatusAssumption, NewestInv, [Next]_vars, ~Update, Typed'
  PROVE  NewestInv'
<1>1. UNCHANGED reported /\ clock' \in Nat /\ clock <= clock'
  <2>0. clock \in Nat
    BY DEF NewestInv, Typed
  <2>1. CASE Tick
    BY <2>0, <2>1 DEF Tick
  <2>2. CASE ~Tick
    <3>1. UNCHANGED <<clock, reported>>
      BY <2>2 DEF Next, Send, Byte, Poll, Answer, Detect, vars
    <3> QED
      BY <2>0, <3>1
  <2> QED
    BY <2>1, <2>2
<1>2. \A i \in Slots : table'[i].sat = table[i].sat /\ table'[i].seen = table[i].seen
  <2>1. CASE Poll
    <3>1. \A i \in Slots : table'[i] = Aged(table[i])
      BY <2>1 DEF Poll
    <3>2. \A i \in Slots : table[i] \in Entries
      BY DEF NewestInv, Typed
    <3> QED
      BY <3>1, <3>2 DEF Aged, Entries
  <2>2. CASE ~Poll
    BY <2>2 DEF Next, Send, Byte, Tick, Answer, Detect, vars
  <2> QED
    BY <2>1, <2>2
<1>3. \A i \in Slots : table[i].seen \in Nat
  BY DEF NewestInv, Typed, Entries
<1>4. clock \in Nat /\ \A s \in DOMAIN reported : reported[s] \in Nat
  BY DEF NewestInv, Typed
<1>5. Recorded' /\ \A s \in DOMAIN reported' : reported'[s] <= clock'
  BY <1>1, <1>2, <1>3, <1>4 DEF NewestInv, Recorded
<1>6. TableKeepsNewest'
  BY <1>1, <1>2 DEF NewestInv, TableKeepsNewest
<1> QED
  BY <1>5, <1>6 DEF NewestInv

LEMMA NewestInit ==
  ASSUME StatusAssumption, Init
  PROVE  NewestInv
<1>1. DOMAIN reported = {} /\ reported \in [DOMAIN reported -> Nat]
  BY DEF Init
<1>2. \A i \in Slots : table[i] = Free
  BY DEF Init
<1>3. Hunting \in [at : Phases, class : Nat, length : Nat, sum : Nat, payload : Seq(Nat)]
  BY DEF Hunting, Phases
<1>4. Free \in Entries
  BY DEF Free, Entries
<1>5. Typed
  BY <1>1, <1>3, <1>4 DEF Init, Typed
<1>6. Recorded
  BY <1>2 DEF Init, Recorded, Free
<1>7. TableKeepsNewest
  BY <1>1, <1>2 DEF TableKeepsNewest, Free
<1> QED
  BY <1>1, <1>5, <1>6, <1>7 DEF NewestInv

LEMMA NewestStep ==
  ASSUME StatusAssumption, NewestInv, [Next]_vars
  PROVE  NewestInv'
<1>1. Typed'
  BY StaysTyped DEF NewestInv
<1> QED
  BY <1>1, UpdateKeepsNewest, OthersKeepNewest
-----------------------------------------------------------------------------
(* What messages say of the fix and of the type *)

Receivers == {"unknown", "unicore", "ublox"}

(* Whoever names a carrier solution, or none, says the same of both words. *)
Agreeing(m) ==
  /\ m.fix = "same"      => m.rtk = "same"
  /\ m.fix = "rtk_fixed" => m.rtk = "fixed"
  /\ m.fix = "rtk_float" => m.rtk = "float"
  /\ m.fix = "no_fix"    => m.rtk = "none"

LEMMA LineAgrees ==
  Agreeing(LineSays) /\ LineSays.type \in Receivers \cup {"same"}
<1>1. \A s : Agreeing(Parsed(s)) /\ Parsed(s).type \in Receivers \cup {"same"}
  BY DEF Agreeing, Receivers, Parsed, Gga, Gsv, Gsa, BestSat, Unicore, Keyword, InTable,
         Fix, Nothing, Says
<1> QED
  BY <1>1 DEF LineSays, Agreeing, Receivers, Nothing, Says

LEMMA PacketAgrees ==
  ASSUME NEW b
  PROVE  Agreeing(Packet(b)) /\ Packet(b).type = "ublox"
<1>1. \A p : Agreeing(NavPvt(p)) /\ Agreeing(NavSat(p)) /\ Agreeing(RelPos(p))
  BY DEF Agreeing, NavPvt, NavSat, RelPos, InTable, Fix, Nothing, Says
<1> QED
  BY DEF Packet, PacketSays, Agreeing, NavPvt, NavSat, RelPos, InTable, Fix, Nothing, Says

LEMMA ByteAgrees ==
  ASSUME FixAgrees, Byte
  PROVE  FixAgrees'
<1> DEFINE p == FromPacket(Head(coming))
           l == FromLine(Head(coming))
<1>1. Agreeing(p) /\ Agreeing(l)
  BY PacketAgrees, LineAgrees DEF FromPacket, FromLine, Agreeing, Nothing, Says
<1>2. fix' = Latest(fix, p.fix, l.fix) /\ rtk' = Latest(rtk, p.rtk, l.rtk)
  BY DEF Byte
<1> HIDE DEF p, l
<1> QED
  BY <1>1, <1>2 DEF FixAgrees, Agreeing, Latest, Later

-----------------------------------------------------------------------------
(* Times, words and the line *)

Times ==
  /\ clock \in 1..MaxTime
  /\ lastMessage \in 0..clock /\ synced \in 0..clock /\ polledAt \in 0..clock

Words ==
  /\ type \in Receivers /\ detected \in BOOLEAN /\ web \in {"idle", "copy"}
  /\ line \in Seq(Nat) /\ Len(line) < Room

LEMMA TimesStep ==
  ASSUME StatusAssumption, Times, [Next]_vars
  PROVE  Times'
<1>1. CASE Tick
  <2>1. clock + 1 \in 1..MaxTime /\ clock' = clock + 1
    BY <1>1 DEF Tick, Times, StatusAssumption
  <2>2. UNCHANGED <<lastMessage, synced, polledAt>>
    BY <1>1 DEF Tick, status, history
  <2> QED
    BY <2>1, <2>2 DEF Times
<1>2. CASE Byte
  <2>1. lastMessage' \in {lastMessage, clock} /\ synced' \in {synced, clock}
    BY <1>2 DEF Byte
  <2>2. UNCHANGED <<clock, polledAt>>
    BY <1>2 DEF Byte
  <2> QED
    BY <2>1, <2>2 DEF Times, StatusAssumption
<1>3. CASE Poll
  BY <1>3 DEF Poll, Times, StatusAssumption, history
<1>4. CASE (\E u \in Units : Send(u)) \/ Update \/ Answer \/ Detect \/ UNCHANGED vars
  BY <1>4 DEF Send, Update, Answer, Detect, Times, status, history, vars
<1> QED
  BY <1>1, <1>2, <1>3, <1>4 DEF Next

LEMMA BufferedFits ==
  ASSUME StatusAssumption, line \in Seq(Nat), Len(line) < Room, NEW b \in Nat
  PROVE  Buffered(b) \in Seq(Nat) /\ Len(Buffered(b)) < Room
<1>1. Room \in Nat /\ Room >= 1
  BY DEF StatusAssumption
<1>2. Append(line, b) \in Seq(Nat) /\ Len(Append(line, b)) = Len(line) + 1
  OBVIOUS
<1> QED
  BY <1>1, <1>2 DEF Buffered, LineRoom

LEMMA WordsStep ==
  ASSUME StatusAssumption, Typed, Words, [Next]_vars
  PROVE  Words'
<1>1. CASE Byte
  <2> DEFINE b == Head(coming)
             p == FromPacket(b)
             l == FromLine(b)
             sync == IF SeesSync(b) THEN "ublox" ELSE "same"
  <2>1. b \in Nat
    BY <1>1 DEF Typed, Byte
  <2>2. line' = Buffered(b)
    BY <1>1 DEF Byte
  <2>3. line' \in Seq(Nat) /\ Len(line') < Room
    <3> HIDE DEF b
    <3> QED
      BY <2>1, <2>2, BufferedFits DEF Words
  <2>4. {p.type, l.type, sync} \subseteq Receivers \cup {"same"}
    BY PacketAgrees, LineAgrees DEF FromPacket, FromLine, Receivers, Nothing, Says
  <2>5. type' = Latest(Later(type, sync), p.type, l.type)
    BY <1>1 DEF Byte
  <2>6. type' \in Receivers
    <3> HIDE DEF p, l, sync
    <3> QED
      BY <2>4, <2>5 DEF Words, Latest, Later
  <2>7. detected' = (detected \/ \E t \in {sync, p.type, l.type} : t # "same")
    BY <1>1 DEF Byte
  <2>8. detected' \in BOOLEAN
    BY <2>7, Zenon DEF Words
  <2> QED
    BY <1>1, <2>3, <2>6, <2>8 DEF Byte, Words
<1>2. CASE Poll
  <2>1. detected' \in BOOLEAN
    <3>1. detected' = IF Silent THEN FALSE ELSE (detected \/ type # "unknown")
      BY <1>2 DEF Poll
    <3> QED
      BY <3>1, Zenon
  <2> QED
    BY <1>2, <2>1 DEF Poll, Words, parser
<1>3. CASE Detect
  BY <1>3 DEF Detect, Words, parser, StatusAssumption, Receivers
<1>4. CASE (\E u \in Units : Send(u)) \/ Update \/ Answer \/ Tick \/ UNCHANGED vars
  BY <1>4 DEF Send, Update, Answer, Tick, Words, status, parser, vars
<1> QED
  BY <1>1, <1>2, <1>3, <1>4 DEF Next
-----------------------------------------------------------------------------
(* Answers *)

Recent ==
  /\ \A i \in Listed : Within(reported[table[i].sat])
  /\ detected => Within(lastMessage) \/ synced >= polledAt

(* Between the poll and the copy more may be heard, which makes it no older. *)
AnswersInv == web = "copy" => Recent

StatusInv == NewestInv /\ Times /\ Words /\ FixAgrees /\ AnswersInv

(* What the cast makes of an age below its width *)
LEMMA SmallAge ==
  ASSUME NEW m \in Nat, NEW a \in Nat, a < m
  PROVE  a % m = a
  OBVIOUS

(* What is young by its clock was heard of lately, or a turn or more ago. *)
LEMMA YoungIsWithin ==
  ASSUME StatusAssumption, clock \in Nat, NEW then \in 0..clock, Age(then) <= Stale
  PROVE  \/ clock - then <= Stale
         \/ clock - then >= AgeMod /\ (clock - then) % AgeMod <= Stale
<1>1. AgeMod \in Nat /\ Stale \in Nat /\ clock - then \in Nat
  BY DEF StatusAssumption
<1>2. CASE clock - then < AgeMod
  <2>1. (clock - then) % AgeMod = clock - then
    BY <1>1, <1>2, SmallAge
  <2> QED
    BY <2>1 DEF Age
<1>3. CASE clock - then >= AgeMod
  BY <1>3 DEF Age
<1> QED
  BY <1>1, <1>2, <1>3

LEMMA PollRecent ==
  ASSUME StatusAssumption, StatusInv, Poll
  PROVE  Recent'
<1>1. /\ polledAt' = clock /\ UNCHANGED <<clock, lastMessage, synced, reported>>
      /\ detected' = IF Silent THEN FALSE ELSE (detected \/ type # "unknown")
      /\ \A i \in Slots : table'[i] = Aged(table[i])
  BY DEF Poll, history
<1>2. Stale \in Nat /\ AgeMod \in Nat /\ clock \in Nat /\ lastMessage \in 0..clock
  BY DEF StatusAssumption, StatusInv, Times
<1>3. detected' => Within(lastMessage)'
  <2>1. Silent => ~detected'
    BY <1>1, Zenon
  <2>2. ~Silent => Age(lastMessage) <= Stale
    <3>1. Age(lastMessage) \in Int
      <4>1. AgeMod > 0
        BY DEF StatusAssumption
      <4> QED
        BY <1>2, <4>1 DEF Age
    <3> QED
      BY <1>2, <3>1 DEF Silent
  <2> QED
    BY <1>1, <1>2, <2>1, <2>2, YoungIsWithin DEF Within
<1>4. ASSUME NEW i \in Listed'
      PROVE  Within(reported[table[i].sat])'
  <2>1. i \in Slots /\ table'[i].sat # NoSat /\ ~table'[i].old
    BY DEF Listed
  <2>2. table[i] \in Entries
    BY <2>1 DEF StatusInv, NewestInv, Typed
  <2>3. table'[i].sat = table[i].sat /\ Age(table[i].seen) <= Stale
    <3>1. table'[i] = Aged(table[i]) /\ table[i].seen \in Nat
      BY <1>1, <2>1, <2>2 DEF Entries
    <3>2. Aged(table[i]).sat = table[i].sat
      BY <2>2 DEF Aged, Entries
    <3>3. table[i].sat # NoSat /\ Age(table[i].seen) > Stale => Aged(table[i]).old
      BY <2>2 DEF Aged, Entries
    <3>4. Age(table[i].seen) \in Int
      <4>1. AgeMod > 0
        BY DEF StatusAssumption
      <4> QED
        BY <1>2, <3>1, <4>1 DEF Age
    <3> QED
      BY <1>2, <2>1, <3>1, <3>2, <3>3, <3>4
  <2>4. table[i].seen = reported[table[i].sat] /\ table[i].seen \in 0..clock
    BY <1>2, <2>1, <2>2, <2>3 DEF StatusInv, NewestInv, Recorded, Entries
  <2> QED
    BY <1>1, <1>2, <2>3, <2>4, YoungIsWithin DEF Within
<1> QED
  BY <1>3, <1>4 DEF Recent

LEMMA ByteRecent ==
  ASSUME StatusAssumption, StatusInv, Recent, Byte
  PROVE  Recent'
<1> DEFINE b == Head(coming)
           p == FromPacket(b)
           l == FromLine(b)
           sync == IF SeesSync(b) THEN "ublox" ELSE "same"
<1>1. /\ UNCHANGED <<clock, polledAt, table, reported>>
      /\ lastMessage' = IF Accepts(b) \/ LineEnds(b) THEN clock ELSE lastMessage
      /\ synced' = IF SeesSync(b) THEN clock ELSE synced
      /\ detected' = (detected \/ \E t \in {sync, p.type, l.type} : t # "same")
  BY DEF Byte
<1>2. /\ Stale \in Nat /\ clock \in Nat /\ polledAt \in 0..clock
      /\ lastMessage \in 0..clock /\ synced \in 0..clock
  BY DEF StatusAssumption, StatusInv, Times
<1>3. Accepts(b) \/ LineEnds(b) \/ (p.type = "same" /\ l.type = "same")
  BY DEF FromPacket, FromLine, Nothing, Says
<1>4. SeesSync(b) \/ sync = "same"
  OBVIOUS
<1>5. detected' => Within(lastMessage)' \/ synced' >= polledAt'
  <2> HIDE DEF p, l, sync, b
  <2>1. CASE Accepts(b) \/ LineEnds(b)
    BY <1>1, <1>2, <2>1 DEF Within
  <2>2. CASE SeesSync(b)
    BY <1>1, <1>2, <2>2
  <2>3. CASE ~Accepts(b) /\ ~LineEnds(b) /\ ~SeesSync(b)
    <3>1. detected' => detected
      <4>1. p.type = "same" /\ l.type = "same" /\ sync = "same"
        BY <1>3, <1>4, <2>3
      <4>2. \A t \in {sync, p.type, l.type} : t = "same"
        BY <4>1
      <4> QED
        BY <1>1, <4>2, Zenon
    <3>2. UNCHANGED <<polledAt, lastMessage, synced>>
      BY <1>1, <2>3
    <3> QED
      BY <3>1, <3>2 DEF Recent, Within
  <2> QED
    BY <2>1, <2>2, <2>3
<1>6. \A i \in Listed' : Within(reported[table[i].sat])'
  <2>1. UNCHANGED Listed
    BY <1>1 DEF Listed
  <2> QED
    BY <1>1, <2>1 DEF Recent, Within
<1> QED
  BY <1>5, <1>6 DEF Recent

LEMMA UpdateRecent ==
  ASSUME StatusAssumption, StatusInv, Recent, Update
  PROVE  Recent'
<1> DEFINE u == Head(todo)
           k == SlotOf(u.sat)
<1>1. /\ UNCHANGED <<clock, polledAt, lastMessage, synced, detected>>
      /\ DOMAIN reported' = DOMAIN reported \cup {u.sat}
      /\ \A s \in DOMAIN reported' :
           reported'[s] = IF s = u.sat THEN clock ELSE reported[s]
  BY DEF Update, status, history
<1>2. Stale \in Nat /\ clock \in Nat /\ polledAt \in 0..clock
  BY DEF StatusAssumption, StatusInv, Times
<1>3. u.sat \in Named
  <2>1. u \in Updates
    BY DEF StatusInv, NewestInv, Typed, Update
  <2> QED
    BY <2>1 DEF Updates
<1>4. /\ k \in Slots
      /\ \A i \in Slots : i # k => table'[i] = table[i]
      /\ table'[k].sat = u.sat
  <2>1. k \in Slots
    <3> HIDE DEF u
    <3> QED
      BY SlotOfSatellite DEF StatusInv, NewestInv
  <2> DEFINE f == Found(u.sat)
             e == [f EXCEPT !.seen = clock,
                            !.used = IF u.used = "same" THEN @ ELSE u.used = "yes",
                            !.old  = IF u.by = "gsa" THEN @ ELSE FALSE]
  <2>2. f.sat = u.sat /\ f \in Entries
    BY <1>3, <2>1 DEF Found, Free, Entries, StatusInv, NewestInv, Typed
  <2>3. e.sat = u.sat
    BY <2>2 DEF Entries
  <2>4. table' = [table EXCEPT ![k] = e]
    BY DEF Update
  <2> HIDE DEF e, f, k
  <2> QED
    BY <2>1, <2>3, <2>4 DEF StatusInv, NewestInv, Typed
<1>5. ASSUME NEW i \in Listed'
      PROVE  Within(reported[table[i].sat])'
  <2> HIDE DEF k, u
  <2>1. i \in Slots /\ table'[i].sat # NoSat /\ ~table'[i].old
    BY DEF Listed
  <2>2. CASE table'[i].sat = u.sat
    BY <1>1, <1>2, <2>2 DEF Within
  <2>3. CASE table'[i].sat # u.sat
    <3>1. table'[i] = table[i] /\ i \in Listed
      BY <1>4, <2>1, <2>3 DEF Listed
    <3>2. table[i].sat \in DOMAIN reported
      BY <2>1, <3>1 DEF StatusInv, NewestInv, Recorded
    <3>3. reported'[table'[i].sat] = reported[table[i].sat]
      BY <1>1, <2>3, <3>1, <3>2
    <3> QED
      BY <1>1, <3>1, <3>3 DEF Recent, Within
  <2> QED
    BY <2>2, <2>3
<1> QED
  BY <1>1, <1>5 DEF Recent, Within

LEMMA AnswersStep ==
  ASSUME StatusAssumption, StatusInv, [Next]_vars
  PROVE  AnswersInv'
<1>1. CASE Poll
  BY <1>1, PollRecent DEF AnswersInv
<1>2. CASE Byte
  <2>1. web' = web
    BY <1>2 DEF Byte
  <2> QED
    BY <1>2, <2>1, ByteRecent DEF StatusInv, AnswersInv
<1>3. CASE Update
  <2>1. web' = web
    BY <1>3 DEF Update
  <2> QED
    BY <1>3, <2>1, UpdateRecent DEF StatusInv, AnswersInv
<1>4. CASE Answer
  BY <1>4 DEF Answer, AnswersInv
<1>5. CASE (\E u \in Units : Send(u)) \/ Tick \/ Detect \/ UNCHANGED vars
  <2>1. UNCHANGED <<web, polledAt, table, reported, detected, lastMessage, synced>>
    BY <1>5 DEF Send, Tick, Detect, status, history, vars
  <2>2. UNCHANGED Listed
    BY <2>1 DEF Listed
  <2> QED
    BY <2>1, <2>2 DEF StatusInv, AnswersInv, Recent, Within
<1> QED
  BY <1>1, <1>2, <1>3, <1>4, <1>5 DEF Next
-----------------------------------------------------------------------------
StatusSound == TypeOK /\ TableKeepsNewest /\ AnswersFresh /\ FixAgrees

LEMMA StatusInit ==
  ASSUME StatusAssumption, Init
  PROVE  StatusInv
<1>1. 1 \in 1..MaxTime /\ Room > 0
  BY DEF StatusAssumption
<1>2. Times
  BY <1>1 DEF Init, Times
<1>3. Words
  <2>1. line \in Seq(Nat) /\ Len(line) = 0
    BY DEF Init
  <2> QED
    BY <1>1, <2>1 DEF Init, Words, Receivers, StatusAssumption
<1>4. FixAgrees /\ AnswersInv
  BY DEF Init, FixAgrees, AnswersInv
<1> QED
  BY <1>2, <1>3, <1>4, NewestInit DEF StatusInv

LEMMA StatusStep ==
  ASSUME StatusAssumption, StatusInv, [Next]_vars
  PROVE  StatusInv'
<1>1. FixAgrees'
  <2>1. CASE Byte
    BY <2>1, ByteAgrees DEF StatusInv
  <2>2. CASE ~Byte
    <3>1. UNCHANGED <<fix, rtk>>
      BY <2>2 DEF Next, Send, Update, Tick, Poll, Answer, Detect, status, vars
    <3> QED
      BY <3>1 DEF StatusInv, FixAgrees
  <2> QED
    BY <2>1, <2>2
<1>2. Times' /\ Words'
  BY TimesStep, WordsStep DEF StatusInv, NewestInv
<1> QED
  BY <1>1, <1>2, NewestStep, AnswersStep DEF StatusInv

LEMMA StatusImplies ==
  ASSUME StatusAssumption, StatusInv
  PROVE  StatusSound
<1>1. ASSUME NEW i \in Slots
      PROVE  table[i].sat \in DOMAIN reported \cup {NoSat} /\ table[i].seen \in 0..clock
  <2>1. table[i].seen \in Nat /\ table[i].seen <= clock /\ clock \in Nat
    BY DEF StatusInv, NewestInv, Typed, Recorded, Entries
  <2>2. table[i].sat \in DOMAIN reported \cup {NoSat}
    BY DEF StatusInv, NewestInv, Recorded
  <2> QED
    BY <2>1, <2>2
<1>2. TypeOK
  BY <1>1 DEF StatusInv, Times, Words, Receivers, TypeOK
<1>3. TableKeepsNewest /\ FixAgrees
  BY DEF StatusInv, NewestInv
<1>4. AnswersFresh
  BY DEF StatusInv, AnswersInv, Recent, AnswersFresh, Answers
<1> QED
  BY <1>2, <1>3, <1>4 DEF StatusSound

(* The table of satellites (receiver_find_satellite_locked) never holds a       *)
(* satellite twice, and one that was reported is in it with its last report, or *)
(* the table is full of satellites reported since then.  What receiver_poll     *)
(* leaves for the answers is no older than RECEIVER_MESSAGE_STALE_MS, whatever  *)
(* the handler of the UART does before they are copied, or is shown because the *)
(* 32 bits of its age in milliseconds have turned over (receiver.c:1211, 1237); *)
(* and fix_type and rtk_status never contradict each other.                     *)
THEOREM StatusIsSound ==
  ASSUME StatusAssumption
  PROVE  Spec => []StatusSound
<1>1. Init => StatusInv
  BY StatusInit
<1>2. StatusInv /\ [Next]_vars => StatusInv'
  BY StatusStep
<1>3. StatusInv => StatusSound
  BY StatusImplies
<1> QED
  BY <1>1, <1>2, <1>3, PTL DEF Spec
=============================================================================
