---------------------------- MODULE LoraRxProofs ----------------------------
(***************************************************************************)
(* Proofs about the rover's radio, for any builds and any number of        *)
(* packets and faults: types, that the chip comes into use only inside its *)
(* region, the two ways in which alone the receiver can go deaf, and what  *)
(* of the packets on the air the pipeline is given, in which order.        *)
(***************************************************************************)
EXTENDS LoraRx, TLAPS

(* Conjuncts of the actions of the interrupt task and of app_main *)
LEMMA ChipStep ==
  ASSUME RxAssumption, TypeOK, BeginPacket \/ EndPacket \/ LosePacket
  PROVE  TypeOK'
<1> USE DEF RxAssumption, TypeOK, Packets, Flags
<1>1. CASE BeginPacket
  BY <1>1 DEF BeginPacket, app, task
<1>2. CASE EndPacket
  BY <1>2 DEF EndPacket, Raise, app, task
<1>3. CASE LosePacket
  BY <1>3 DEF LosePacket, Raise, app, task
<1> QED
  BY <1>1, <1>2, <1>3

LEMMA AppStep ==
  ASSUME RxAssumption, TypeOK, AppMain
  PROVE  TypeOK'
<1> USE DEF RxAssumption, TypeOK, Packets, Flags, Advance, chip, task, Fails
<1>1. CASE Build
  BY <1>1 DEF Build
<1>2. CASE Check
  BY <1>2 DEF Check
<1>3. CASE Prepare \/ Apply \/ StartPipeline
  <2>1. boot' \in {"apply", "spawn", "up", "off"}
    BY <1>3 DEF Prepare, Apply, StartPipeline, Attempt
  <2>2. faults' \in 0..MaxFaults
    BY <1>3 DEF Prepare, Apply, StartPipeline, Attempt
  <2>3. UNCHANGED <<chip, task, due, blind, overrun>>
    BY <1>3 DEF Prepare, Apply, StartPipeline, Attempt
  <2> QED
    BY <2>1, <2>2, <2>3
<1>4. CASE Spawn
  BY <1>4 DEF Spawn
<1>5. CASE StartRx
  <2>1. boot' \in {"pipeline", "off"} /\ listening' \in BOOLEAN
    BY <1>5 DEF StartRx
  <2>2. faults' \in 0..MaxFaults
    BY <1>5 DEF StartRx
  <2>3. UNCHANGED <<task, due, blind, overrun, onAir, hearing, last, sem>> /\ flags' = {}
    BY <1>5 DEF StartRx
  <2> QED
    BY <2>1, <2>2, <2>3
<1> QED
  BY <1>1, <1>2, <1>3, <1>4, <1>5 DEF AppMain

LEMMA AppendType ==
  ASSUME NEW S, NEW s \in Seq(S), NEW e \in S
  PROVE  Append(s, e) \in Seq(S)
OBVIOUS

LEMMA IrqStep ==
  ASSUME RxAssumption, TypeOK, IrqTask
  PROVE  TypeOK'
<1> USE DEF RxAssumption, TypeOK, Packets, Flags, AtIrq, Moves, app, chip, Fails
<1>1. CASE Wake
  BY <1>1 DEF Wake
<1>2. CASE GetFlags
  BY <1>2 DEF GetFlags
<1>3. CASE ClearFlags
  BY <1>3 DEF ClearFlags, Cleared
<1>4. CASE BufferStatus
  BY <1>4 DEF BufferStatus
<1>5. CASE ReadBuffer
  <2>1. payload' \in [packet : Packets, whole : BOOLEAN]
    BY <1>5 DEF ReadBuffer
  <2> QED
    BY <1>5, <2>1 DEF ReadBuffer
<1>6. CASE Emit
  <2>1. delivered' \in {delivered, Append(delivered, payload)}
    BY <1>6 DEF Emit
  <2>2. delivered' \in Seq([packet : Packets, whole : BOOLEAN])
    <3> DEFINE R == [packet : Packets, whole : BOOLEAN]
    <3>1. payload \in R /\ delivered \in Seq(R)
      OBVIOUS
    <3> HIDE DEF R
    <3>2. Append(delivered, payload) \in Seq(R)
      BY ONLY <3>1, AppendType
    <3>3. delivered' \in Seq(R)
      BY ONLY <2>1, <3>1, <3>2
    <3> QED
      BY ONLY <3>3 DEF R
  <2> QED
    BY <1>6, <2>2 DEF Emit
<1>7. CASE GetFails \/ ReadFails
  <2>1. irq' = "error" /\ UNCHANGED <<app, due, overrun, chip, seen, named, payload, delivered>>
    BY <1>7 DEF GetFails, ReadFails
  <2>2. faults < MaxFaults /\ faults' = faults + 1
    BY <1>7 DEF GetFails, ReadFails
  <2>3. faults' \in 0..MaxFaults
    BY <2>2
  <2>4. blind' \in BOOLEAN
    BY <1>7 DEF GetFails, ReadFails
  <2> QED
    BY <2>1, <2>3, <2>4
<1>8. CASE ClearFails
  BY <1>8 DEF ClearFails, Cleared
<1> QED
  BY <1>1, <1>2, <1>3, <1>4, <1>5, <1>6, <1>7, <1>8 DEF IrqTask

LEMMA TypeInit ==
  ASSUME RxAssumption, Init
  PROVE  TypeOK
<1>1. payload \in [packet : Packets, whole : BOOLEAN]
  BY DEF Init, RxAssumption, Packets
<1>2. delivered \in Seq([packet : Packets, whole : BOOLEAN])
  BY DEF Init
<1>3. due \in SUBSET Packets /\ flags \in SUBSET Flags /\ seen \in SUBSET Flags
  BY DEF Init
<1>4. 0 \in Packets /\ 0 \in 0..MaxFaults
  BY DEF RxAssumption, Packets
<1> QED
  BY <1>1, <1>2, <1>3, <1>4 DEF Init, TypeOK

LEMMA TypeStep ==
  ASSUME RxAssumption, TypeOK, [Next]_vars
  PROVE  TypeOK'
<1>1. CASE Next
  BY <1>1, ChipStep, AppStep, IrqStep DEF Next
<1>2. CASE UNCHANGED vars
  BY <1>2 DEF TypeOK, vars, app, chip, task
<1> QED
  BY <1>1, <1>2

(* Every variable keeps its type. *)
THEOREM TypeCorrect ==
  ASSUME RxAssumption
  PROVE  Spec => []TypeOK
<1>1. Init => TypeOK
  BY TypeInit
<1>2. TypeOK /\ [Next]_vars => TypeOK'
  BY TypeStep
<1> QED
  BY <1>1, <1>2, PTL DEF Spec
-----------------------------------------------------------------------------
(* The receiver goes deaf only when a flag was raised between reading and     *)
(* clearing, or one of these commands failed.                                *)
THEOREM OnlyBlindIsDeaf == Spec => []RoverWakes
<1> DEFINE IInv == RoverWakes /\ EarlyQuiet /\ ReadsAll
<1>1. Init => IInv
  BY DEF Init, RoverWakes, EarlyQuiet, ReadsAll
<1>2. IInv /\ [Next]_vars => IInv'
  <2> SUFFICES ASSUME IInv, [Next]_vars PROVE IInv'
    OBVIOUS
  <2> USE DEF RoverWakes, EarlyQuiet, ReadsAll
  <2>1. CASE Build \/ Check
    BY <2>1 DEF Build, Check, Advance, chip, task
  <2>2. CASE Prepare \/ Apply \/ StartPipeline
    BY <2>2 DEF Prepare, Apply, StartPipeline, Attempt, Advance, chip, task
  <2>3. CASE Spawn
    BY <2>3 DEF Spawn, chip
  <2>4. CASE StartRx
    BY <2>4 DEF StartRx, Advance, task
  <2>5. CASE Wake \/ GetFlags \/ BufferStatus \/ ReadBuffer \/ ReadFails \/ Emit
    BY <2>5 DEF Wake, GetFlags, BufferStatus, ReadBuffer, ReadFails, Emit,
                AtIrq, Moves, chip, app
  <2>6. CASE ClearFlags
    BY <2>6 DEF ClearFlags, Cleared, AtIrq, Moves, app
  <2>7. CASE GetFails \/ ClearFails
    BY <2>7 DEF GetFails, ClearFails, Moves, app, chip
  <2>8. CASE BeginPacket
    BY <2>8 DEF BeginPacket, task, app
  <2>9. CASE EndPacket \/ LosePacket
    BY <2>9 DEF EndPacket, LosePacket, Raise, task, app
  <2>10. CASE UNCHANGED vars
    BY <2>10 DEF vars, chip, task, app
  <2> QED
    BY <2>1, <2>2, <2>3, <2>4, <2>5, <2>6, <2>7, <2>8, <2>9, <2>10
    DEF Next, IrqTask, AppMain
<1>3. IInv => RoverWakes
  OBVIOUS
<1> QED
  BY <1>1, <1>2, <1>3, PTL DEF Spec
-----------------------------------------------------------------------------
(* What lora_validate_region_config leaves is within the region's limits. *)
LEMMA ClampIsLawful ==
  ASSUME NEW c \in Builds, Allowed(c)
  PROVE  Clamp(c) \in Builds /\ Lawful(Clamp(c))
<1> DEFINE p == Regions[c.region].power
           f == Resolve(c.region, c.freq)
           d == Clamp(c)
<1>1. p \in Int /\ Regions[c.region].freq \in Nat
  BY DEF Builds, Regions, Profile
<1>2. f \in Nat /\ f # 0
  BY <1>1 DEF Allowed, Resolve, Builds
<1>3. d.region = c.region /\ d.chip = c.chip /\ d.freq = f
      /\ d.power = (IF c.power > p THEN p ELSE c.power)
      /\ d \in Builds
  BY <1>1, <1>2 DEF Clamp, Builds
<1>4. d.power <= p
  BY <1>1, <1>3 DEF Builds
<1>5. Resolve(d.region, d.freq) = f
  BY <1>2, <1>3 DEF Resolve
<1>6. Allowed(d)
  BY <1>2, <1>3, <1>5 DEF Allowed
<1> QED
  BY <1>2, <1>3, <1>4, <1>6 DEF Lawful

(* The chip comes into use only inside what the profile of its region allows. *)
THEOREM RadioIsLawful ==
  ASSUME RxAssumption
  PROVE  Spec => []RadioLawful
<1> DEFINE Begun == {"prepare", "apply", "spawn", "listen", "pipeline", "up"}
           IInv ==
             /\ cfg \in Builds
             /\ boot \in Begun \/ listening => Lawful(cfg)
             /\ boot \in {"pipeline", "up"} => listening
             /\ boot \in {"build", "check"} => ~listening
<1>1. Init => IInv
  BY DEF Init, RxAssumption
<1>2. IInv /\ [Next]_vars => IInv'
  <2> SUFFICES ASSUME IInv, [Next]_vars PROVE IInv'
    OBVIOUS
  <2>1. CASE Build
    <3>1. Resolve(cfg.region, cfg.freq) # 0 =>
            [cfg EXCEPT !.freq = Resolve(cfg.region, cfg.freq)] \in Builds
      <4>1. CASE cfg.freq # 0
        BY <4>1 DEF Resolve, Builds
      <4>2. CASE cfg.freq = 0
        BY <4>2 DEF Resolve, Builds, Regions, Profile
      <4> QED
        BY <4>1, <4>2 DEF Builds
    <3> QED
      BY <2>1, <3>1 DEF Build, Advance, chip
  <2>2. CASE Check
    BY <2>2, ClampIsLawful DEF Check, Advance, chip
  <2>3. CASE Prepare \/ Apply \/ StartPipeline
    BY <2>3 DEF Prepare, Apply, StartPipeline, Attempt, Advance, chip
  <2>4. CASE Spawn
    BY <2>4 DEF Spawn, chip
  <2>5. CASE StartRx
    BY <2>5 DEF StartRx, Advance
  <2>6. CASE IrqTask
    BY <2>6 DEF IrqTask, Wake, GetFlags, ClearFlags, BufferStatus, ReadBuffer,
                ReadFails, Emit, GetFails, ClearFails, AtIrq, Moves, chip, app
  <2>7. CASE BeginPacket \/ EndPacket \/ LosePacket
    BY <2>7 DEF BeginPacket, EndPacket, LosePacket, app
  <2>8. CASE UNCHANGED vars
    BY <2>8 DEF vars, chip, app
  <2> QED
    BY <2>1, <2>2, <2>3, <2>4, <2>5, <2>6, <2>7, <2>8 DEF Next, AppMain
<1>3. IInv => RadioLawful
  BY DEF RadioLawful
<1> QED
  BY <1>1, <1>2, <1>3, PTL DEF Spec

-----------------------------------------------------------------------------
(* What the pipeline is given.  A packet is due once more as long as its flag *)
(* is set, and is on its way from the reading of the flags to the callback;   *)
(* the invariant relates these to how often it was delivered.                 *)

RxDone  == "rx_done" \in flags
Holding == irq \in {"read", "emit"}
OnItsWay == RxDone \/ irq = "status" \/ Holding

(* Of what was delivered, all but the last m come before packet p. *)
Before(p, m) == \A i \in 1..(Len(delivered) - m) : delivered[i].packet < p

Early ==
  boot \in {"build", "check", "prepare", "apply", "spawn", "listen"} =>
    /\ irq \in {"none", "idle"} /\ flags = {} /\ ~sem
    /\ ~listening /\ ~hearing

Placed ==
  /\ named <= last /\ last <= onAir /\ (hearing => last < onAir)
  /\ irq = "emit" => payload.packet = named
  /\ irq = "clear" => seen \subseteq flags
  /\ \A i \in 1..Len(delivered) : delivered[i].packet <= named

AtMostTwice ==
  /\ RxDone => Before(last, 1)
  /\ RxDone /\ (irq = "status" \/ (Holding /\ named = last)) => Before(last, 0)
  /\ irq = "status" => Before(last, 1)
  /\ Holding => Before(named, 1)

AtMostOnce ==
  ~overrun =>
    /\ hearing => ~Busy
    /\ irq = "clear" => flags \subseteq seen
    /\ irq = "status" \/ Holding => flags = {}
    /\ Holding => named = last
    /\ OnItsWay => Before(last, 0)
    /\ irq = "emit" => payload.whole

AtLeastOnce ==
  /\ due # {} => Ready
  /\ ~overrun /\ faults = 0 =>
       \A k \in due : \/ \E i \in 1..Len(delivered) : delivered[i].packet = k
                      \/ (k = last /\ OnItsWay)

DeliveryInv ==
  /\ TypeOK /\ Early /\ Placed /\ AtMostTwice /\ AtMostOnce /\ AtLeastOnce /\ InOrder

LEMMA DeliveredType ==
  ASSUME TypeOK
  PROVE  /\ Len(delivered) \in Nat
         /\ \A i \in 1..Len(delivered) :
              delivered[i].packet \in Int /\ delivered[i].whole \in BOOLEAN
<1> DEFINE R == [packet : Packets, whole : BOOLEAN]
<1>1. delivered \in Seq(R)
  BY DEF TypeOK
<1>2. \A r \in R : r.packet \in Int /\ r.whole \in BOOLEAN
  BY DEF Packets
<1> HIDE DEF R
<1>3. Len(delivered) \in Nat /\ \A i \in 1..Len(delivered) : delivered[i] \in R
  BY <1>1
<1> QED BY <1>2, <1>3

(* Until the pipeline runs nothing is due, and until the chip listens nothing *)
(* is on its way.                                                            *)
LEMMA DeliveryApp ==
  ASSUME DeliveryInv, AppMain, TypeOK'
  PROVE  DeliveryInv'
<1> USE DEF DeliveryInv
<1>1. /\ UNCHANGED <<onAir, hearing, last, sem, seen, named, payload, delivered>>
      /\ UNCHANGED <<due, blind, overrun>> /\ flags' = flags
      /\ irq' = irq \/ (irq = "none" /\ irq' = "idle")
      /\ faults = 0 \/ faults' # 0
  <2>1. CASE Build \/ Check
    BY <2>1 DEF Build, Check, Advance, chip, task
  <2>2. CASE Prepare \/ Apply \/ StartPipeline
    <3>1. UNCHANGED <<chip, task, due, blind, overrun>>
      BY <2>2 DEF Prepare, Apply, StartPipeline, Attempt, Advance
    <3>2. faults' = faults \/ faults' = faults + 1
      BY <2>2 DEF Prepare, Apply, StartPipeline, Attempt, Fails
    <3> QED BY <3>1, <3>2 DEF chip, task, TypeOK
  <2>3. CASE Spawn
    BY <2>3 DEF Spawn, chip, Early, Fails, TypeOK
  <2>4. CASE StartRx
    BY <2>4 DEF StartRx, Advance, task, Early, Fails, TypeOK
  <2> QED BY <2>1, <2>2, <2>3, <2>4 DEF AppMain
<1>2. boot # "up"
  BY DEF AppMain, Build, Check, Prepare, Apply, Spawn, StartRx, StartPipeline, Attempt
<1>3. Early'
  <2>1. CASE boot \in {"build", "check"}
    BY <2>1, <1>1 DEF Early, AppMain, Build, Check, Prepare, Apply, Spawn, StartRx,
                      StartPipeline, Attempt, chip
  <2>2. CASE boot \in {"prepare", "apply", "spawn"}
    BY <2>2, <1>1 DEF Early, AppMain, Build, Check, Prepare, Apply, Spawn, StartRx,
                      StartPipeline, Attempt, chip
  <2>3. CASE boot \in {"listen", "pipeline"}
    <3>1. boot' \in {"pipeline", "up", "off"}
      BY <2>3 DEF AppMain, Build, Check, Prepare, Apply, Spawn, StartRx,
                  StartPipeline, Attempt, Advance
    <3> QED BY <3>1 DEF Early
  <2> QED BY <2>1, <2>2, <2>3, <1>2 DEF AppMain, Build, Check, Prepare, Apply, Spawn,
                                        StartRx, StartPipeline, Attempt
<1>4. Placed'
  BY <1>1 DEF Placed
<1>5. AtMostTwice' /\ AtMostOnce'
  BY <1>1 DEF AtMostTwice, AtMostOnce, RxDone, Holding, OnItsWay, Before, Busy
<1>6. AtLeastOnce'
  BY <1>1, <1>2 DEF AtLeastOnce, Ready
<1>7. InOrder'
  BY <1>1 DEF InOrder
<1> QED BY <1>3, <1>4, <1>5, <1>6, <1>7

(* The steps of the interrupt task before the callback deliver nothing.     *)
LEMMA DeliveryIrq ==
  ASSUME DeliveryInv, TypeOK',
         Wake \/ GetFlags \/ ClearFlags \/ BufferStatus \/ ReadBuffer
           \/ GetFails \/ ClearFails \/ ReadFails
  PROVE  DeliveryInv'
<1> USE DEF DeliveryInv
<1>1. /\ UNCHANGED <<boot, cfg, listening, onAir, hearing, last, delivered, due, overrun>>
      /\ irq # "none" /\ irq' # "none"
      /\ irq = "idle" => sem
  BY DEF Wake, GetFlags, ClearFlags, BufferStatus, ReadBuffer, GetFails, ClearFails,
         ReadFails, AtIrq, Moves, app, chip
<1>3. Early'
  BY <1>1 DEF Early
<1>4. InOrder'
  BY <1>1 DEF InOrder
<1>5. Busy
  BY <1>1 DEF Busy
<1>6. ~overrun => ~hearing
  BY <1>5 DEF AtMostOnce
<1>7. due' # {} => Ready'
  BY <1>1 DEF AtLeastOnce, Ready
<1>8. CASE Wake
  <2>1. /\ UNCHANGED <<flags, seen, named, payload, faults>>
        /\ irq = "idle" /\ irq' = "get"
    BY <1>8 DEF Wake, AtIrq, Moves
  <2>2. Placed'
    BY <1>1, <2>1 DEF Placed
  <2>3. AtMostTwice' /\ AtMostOnce'
    BY <1>1, <1>6, <2>1 DEF AtMostTwice, AtMostOnce, RxDone, Holding, OnItsWay, Before
  <2>4. AtLeastOnce'
    BY <1>1, <1>7, <2>1 DEF AtLeastOnce, RxDone, Holding, OnItsWay
  <2> QED BY <1>3, <1>4, <2>2, <2>3, <2>4
<1>9. CASE GetFlags
  <2>1. /\ UNCHANGED <<flags, named, payload, faults>> /\ seen' = flags
        /\ irq = "get" /\ irq' \in {"idle", "clear"}
    BY <1>9 DEF GetFlags, AtIrq, Moves, chip
  <2>2. Placed'
    BY <1>1, <2>1 DEF Placed
  <2>3. AtMostTwice' /\ AtMostOnce'
    BY <1>1, <1>6, <2>1 DEF AtMostTwice, AtMostOnce, RxDone, Holding, OnItsWay, Before
  <2>4. AtLeastOnce'
    BY <1>1, <1>7, <2>1 DEF AtLeastOnce, RxDone, Holding, OnItsWay
  <2> QED BY <1>3, <1>4, <2>2, <2>3, <2>4
<1>10. CASE ClearFlags
  <2>1. /\ UNCHANGED <<named, payload, faults, seen>> /\ flags' = flags \ seen
        /\ irq = "clear"
        /\ irq' = IF "rx_done" \in seen THEN "status" ELSE "error"
    BY <1>10 DEF ClearFlags, Cleared, AtIrq, Moves
  <2>2. Placed'
    BY <1>1, <2>1 DEF Placed
  <2>3. AtMostTwice'
    BY <1>1, <2>1 DEF Placed, AtMostTwice, RxDone, Holding, Before
  <2>4. AtMostOnce'
    BY <1>1, <1>6, <2>1 DEF Placed, AtMostOnce, RxDone, Holding, OnItsWay, Before
  <2>5. AtLeastOnce'
    BY <1>1, <1>7, <2>1 DEF AtMostOnce, AtLeastOnce, RxDone, Holding, OnItsWay
  <2> QED BY <1>3, <1>4, <2>2, <2>3, <2>4, <2>5
<1>11. CASE BufferStatus
  <2>1. /\ UNCHANGED <<flags, payload, faults, seen>> /\ named' = last
        /\ irq = "status" /\ irq' = "read"
    BY <1>11 DEF BufferStatus, AtIrq, Moves, chip
  <2>2. Placed'
    <3>1. \A i \in 1..Len(delivered) : delivered[i].packet \in Int
      BY DeliveredType
    <3>2. named \in Int /\ last \in Int
      BY DEF TypeOK, Packets
    <3> QED BY <1>1, <2>1, <3>1, <3>2 DEF Placed
  <2>3. AtMostTwice'
    BY <1>1, <2>1 DEF AtMostTwice, RxDone, Holding, Before
  <2>4. AtMostOnce'
    BY <1>1, <1>6, <2>1 DEF AtMostOnce, RxDone, Holding, OnItsWay, Before
  <2>5. AtLeastOnce'
    BY <1>1, <1>7, <2>1 DEF AtLeastOnce, RxDone, Holding, OnItsWay
  <2> QED BY <1>3, <1>4, <2>2, <2>3, <2>4, <2>5
<1>12. CASE ReadBuffer
  <2>1. /\ UNCHANGED <<flags, named, faults, seen>> /\ irq = "read" /\ irq' = "emit"
        /\ payload'.packet = named
        /\ payload'.whole \/ hearing \/ named # last
    BY <1>12 DEF ReadBuffer, AtIrq, Moves, chip
  <2>2. Placed'
    BY <1>1, <2>1 DEF Placed
  <2>3. AtMostTwice'
    BY <1>1, <2>1 DEF AtMostTwice, RxDone, Holding, Before
  <2>4. AtMostOnce'
    BY <1>1, <1>6, <2>1 DEF AtMostOnce, RxDone, Holding, OnItsWay, Before, TypeOK
  <2>5. AtLeastOnce'
    BY <1>1, <1>7, <2>1 DEF AtLeastOnce, RxDone, Holding, OnItsWay
  <2> QED BY <1>3, <1>4, <2>2, <2>3, <2>4, <2>5
<1>13. CASE GetFails \/ ClearFails \/ ReadFails
  <2>1. /\ UNCHANGED <<named, payload, seen>> /\ irq' = "error" /\ flags' \subseteq flags
        /\ irq \in {"get", "clear", "status", "read"}
        /\ irq \in {"status", "read"} => flags' = flags
    BY <1>13 DEF GetFails, ClearFails, ReadFails, AtIrq, Moves, chip, Cleared
  <2>2. faults' # 0
    BY <1>13 DEF GetFails, ClearFails, ReadFails, Fails, TypeOK
  <2>3. Placed'
    BY <1>1, <2>1 DEF Placed
  <2>4. AtMostTwice' /\ AtMostOnce'
    BY <1>1, <1>6, <2>1 DEF AtMostTwice, AtMostOnce, RxDone, Holding, OnItsWay, Before
  <2>5. AtLeastOnce'
    BY <1>1, <1>7, <2>2 DEF AtLeastOnce
  <2> QED BY <1>3, <1>4, <2>3, <2>4, <2>5
<1> QED BY <1>8, <1>9, <1>10, <1>11, <1>12, <1>13

(* The callback; what it hands to the running pipeline comes after all that   *)
(* was handed on before, unless it is the packet delivered last once more.    *)
LEMMA DeliveryEmit ==
  ASSUME DeliveryInv, Emit, TypeOK'
  PROVE  DeliveryInv'
<1> USE DEF DeliveryInv
<1>1. /\ UNCHANGED <<boot, cfg, listening, onAir, hearing, last, flags, sem, seen,
                     named, payload, due, blind, overrun, faults>>
      /\ irq \in {"emit", "error"} /\ irq' = "idle"
  BY DEF Emit, AtIrq, Moves, app, chip
<1>2. Early'
  BY <1>1 DEF Early
<1>3. Busy /\ (~overrun => ~hearing)
  BY <1>1 DEF Busy, AtMostOnce
<1>4. CASE delivered' = delivered /\ (irq = "error" \/ ~Ready)
  <2>1. Placed' /\ InOrder'
    BY <1>1, <1>4 DEF Placed, InOrder
  <2>2. AtMostTwice' /\ AtMostOnce'
    BY <1>1, <1>3, <1>4 DEF AtMostTwice, AtMostOnce, RxDone, Holding, OnItsWay, Before
  <2>3. AtLeastOnce'
    BY <1>1, <1>4 DEF AtLeastOnce, RxDone, Holding, OnItsWay, Ready
  <2> QED BY <1>2, <2>1, <2>2, <2>3
<1>5. CASE delivered' = Append(delivered, payload) /\ irq = "emit"
  <2> DEFINE n == Len(delivered)
             D == delivered'
  <2>1. n \in Nat /\ \A i \in 1..n : delivered[i].packet \in Int
    BY DeliveredType
  <2>2. Len(D) = n + 1 /\ D[n + 1] = payload /\ \A i \in 1..n : D[i] = delivered[i]
    BY <1>5 DEF TypeOK
  <2>3. /\ payload.packet = named /\ named \in Int /\ last \in Int /\ named <= last
        /\ \A i \in 1..n : delivered[i].packet <= named
        /\ \A i \in 1..(n - 1) : delivered[i].packet < named
    BY <1>5 DEF Placed, AtMostTwice, Holding, Before, TypeOK, Packets
  <2>4. \A i \in 1..(n + 1) : D[i].packet \in Int /\ D[i].packet <= named
    BY <2>1, <2>2, <2>3
  <2>5. Placed'
    BY <1>1, <2>2, <2>4 DEF Placed
  <2>6. \A i \in 1..n : RxDone => D[i].packet < last
    <3>1. CASE named = last
      BY <3>1, <1>5, <2>2 DEF AtMostTwice, Holding, Before
    <3>2. CASE named # last
      BY <3>2, <2>1, <2>2, <2>3
    <3> QED BY <3>1, <3>2
  <2>7. AtMostTwice'
    BY <1>1, <2>1, <2>2, <2>6 DEF AtMostTwice, RxDone, Holding, Before
  <2>8. ~overrun => /\ flags = {} /\ named = last /\ payload.whole
                    /\ \A i \in 1..n : delivered[i].packet < last
    BY <1>5, <2>1 DEF AtMostOnce, Holding, OnItsWay, Before
  <2>9. AtMostOnce'
    BY <1>1, <1>3, <2>8 DEF AtMostOnce, RxDone, Holding, OnItsWay
  <2>10. AtLeastOnce'
    <3>1. due' # {} => Ready'
      BY <1>1 DEF AtLeastOnce, Ready
    <3>2. ASSUME ~overrun, faults = 0, NEW k \in due
          PROVE  \E i \in 1..(n + 1) : D[i].packet = k
      <4>1. (\E i \in 1..n : delivered[i].packet = k) \/ k = last
        BY <3>2 DEF AtLeastOnce
      <4>2. CASE \E i \in 1..n : delivered[i].packet = k
        BY <4>2, <2>1, <2>2
      <4>3. CASE k = last
        <5>1. n + 1 \in 1..(n + 1)
          BY <2>1
        <5> QED BY <4>3, <5>1, <3>2, <2>2, <2>3, <2>8
      <4> QED BY <4>1, <4>2, <4>3
    <3> QED BY <1>1, <3>1, <3>2, <2>2 DEF AtLeastOnce
  <2>11. \A i \in 1..(n + 1), j \in 1..(n + 1) : i < j => D[i].packet <= D[j].packet
    <3>1. ASSUME NEW i \in 1..(n + 1), NEW j \in 1..(n + 1), i < j
          PROVE  D[i].packet <= D[j].packet
      <4>1. CASE j = n + 1
        BY <3>1, <4>1, <2>2, <2>3, <2>4
      <4>2. CASE j # n + 1
        <5>1. i \in 1..n /\ j \in 1..n
          BY <3>1, <4>2, <2>1
        <5>2. delivered[i].packet <= delivered[j].packet
          BY <5>1, <3>1 DEF InOrder
        <5> QED BY <5>1, <5>2, <2>2
      <4> QED BY <4>1, <4>2
    <3> QED BY <3>1
  <2>12. \A i \in 1..(n - 1) : D[i].packet # D[i + 2].packet
    <3>1. ASSUME NEW i \in 1..(n - 1) PROVE D[i].packet # D[i + 2].packet
      <4>1. CASE i = n - 1
        <5>1. i + 2 = n + 1 /\ i \in 1..n
          BY <4>1, <3>1, <2>1
        <5> QED BY <5>1, <3>1, <2>1, <2>2, <2>3
      <4>2. CASE i # n - 1
        <5>1. i \in 1..(n - 2) /\ i \in 1..n /\ i + 2 \in 1..n
          BY <4>2, <3>1, <2>1
        <5>2. delivered[i].packet # delivered[i + 2].packet
          BY <5>1 DEF InOrder
        <5> QED BY <5>1, <5>2, <2>2
      <4> QED BY <4>1, <4>2
    <3> QED BY <3>1
  <2>13. ~overrun => /\ \A i \in 1..n : D[i].packet # D[i + 1].packet
                     /\ \A i \in 1..(n + 1) : D[i].whole
    <3> SUFFICES ASSUME ~overrun
                 PROVE  /\ \A i \in 1..n : D[i].packet # D[i + 1].packet
                        /\ \A i \in 1..(n + 1) : D[i].whole
      OBVIOUS
    <3>1. ASSUME NEW i \in 1..n PROVE D[i].packet # D[i + 1].packet
      <4>1. CASE i = n
        BY <3>1, <4>1, <2>1, <2>2, <2>3, <2>8
      <4>2. CASE i # n
        <5>1. i \in 1..(n - 1) /\ i + 1 \in 1..n
          BY <4>2, <3>1, <2>1
        <5>2. delivered[i].packet # delivered[i + 1].packet
          BY <5>1 DEF InOrder
        <5> QED BY <5>1, <5>2, <3>1, <2>2
      <4> QED BY <4>1, <4>2
    <3>2. ASSUME NEW i \in 1..(n + 1) PROVE D[i].whole
      <4>1. CASE i = n + 1
        BY <4>1, <2>2, <2>8
      <4>2. CASE i # n + 1
        <5>1. i \in 1..n
          BY <4>2, <3>2, <2>1
        <5>2. delivered[i].whole
          BY <5>1 DEF InOrder
        <5> QED BY <5>1, <5>2, <2>2
      <4> QED BY <4>1, <4>2
    <3> QED BY <3>1, <3>2
  <2>14. InOrder'
    <3>1. Len(D) - 2 = n - 1 /\ Len(D) - 1 = n
      BY <2>1, <2>2
    <3> QED BY <1>1, <2>2, <2>11, <2>12, <2>13, <3>1 DEF InOrder
  <2> QED BY <1>2, <2>5, <2>7, <2>9, <2>10, <2>14
<1> QED BY <1>4, <1>5, <1>1 DEF Emit, AtIrq, Moves

(* The chip.  A packet that ends while nothing is on its way is the only one. *)
LEMMA DeliveryChip ==
  ASSUME RxAssumption, DeliveryInv, BeginPacket \/ EndPacket \/ LosePacket, TypeOK'
  PROVE  DeliveryInv'
<1> USE DEF DeliveryInv
<1>1. /\ UNCHANGED <<boot, cfg, listening, seen, named, payload, irq, delivered, faults>>
      /\ listening \/ hearing
  BY DEF BeginPacket, EndPacket, LosePacket, app, task
<1>2. Early'
  BY <1>1 DEF Early
<1>3. \A i \in 1..Len(delivered) : delivered[i].packet \in Int
  BY DeliveredType
<1>4. named \in Int /\ last \in Int /\ onAir \in Int
  BY DEF TypeOK, Packets
<1>5. overrun => overrun'
  BY DEF BeginPacket, EndPacket, LosePacket
<1>6. InOrder'
  BY <1>1, <1>5 DEF InOrder
<1>7. CASE BeginPacket
  <2>1. /\ UNCHANGED <<last, flags, sem, due>> /\ onAir' = onAir + 1
        /\ overrun' = (overrun \/ Busy) /\ hearing'
    BY <1>7 DEF BeginPacket
  <2>2. Placed'
    BY <1>1, <1>4, <2>1 DEF Placed
  <2>3. AtMostTwice'
    BY <1>1, <2>1 DEF AtMostTwice, RxDone, Holding, Before
  <2>4. AtMostOnce'
    BY <1>1, <2>1 DEF AtMostOnce, RxDone, Holding, OnItsWay, Before, Busy
  <2>5. AtLeastOnce'
    BY <1>1, <2>1 DEF AtLeastOnce, RxDone, Holding, OnItsWay, Ready
  <2> QED BY <1>2, <1>6, <2>2, <2>3, <2>4, <2>5
<1>8. CASE LosePacket
  <2>1. /\ UNCHANGED <<last, due, onAir, overrun>> /\ hearing /\ hearing' = FALSE
        /\ flags' = flags \cup {"header_error"}
    BY <1>8 DEF LosePacket, Raise
  <2>2. Placed'
    BY <1>1, <2>1 DEF Placed
  <2>3. RxDone' = RxDone
    BY <2>1 DEF RxDone
  <2>4. AtMostTwice'
    BY <1>1, <2>1, <2>3 DEF AtMostTwice, Holding, Before
  <2>5. AtMostOnce'
    BY <1>1, <2>1, <2>3 DEF AtMostOnce, Holding, OnItsWay, Before, Busy
  <2>6. AtLeastOnce'
    BY <1>1, <2>1, <2>3 DEF AtLeastOnce, Holding, OnItsWay, Ready
  <2> QED BY <1>2, <1>6, <2>2, <2>4, <2>5, <2>6
<1>9. CASE EndPacket
  <2>1. /\ UNCHANGED <<onAir, overrun>> /\ hearing /\ hearing' = FALSE /\ last' = onAir
        /\ "rx_done" \in flags' /\ flags \subseteq flags'
        /\ due' = IF Ready THEN due \cup {onAir} ELSE due
    BY <1>9 DEF EndPacket, Raise
  <2>2. named < last' /\ last < last'
    BY <1>4, <2>1 DEF Placed
  <2>3. \A i \in 1..Len(delivered) : delivered[i].packet < last'
    BY <1>3, <1>4, <2>1, <2>2 DEF Placed
  <2>4. Before(last, 0)' /\ Before(last, 1)'
    <3>1. Len(delivered) \in Nat
      BY DeliveredType
    <3> QED BY <1>1, <2>3, <3>1 DEF Before
  <2>5. Placed'
    BY <1>1, <1>4, <2>1, <2>2 DEF Placed
  <2>6. AtMostTwice'
    <3>1. Holding' = Holding /\ (Holding => Before(named, 1))
      BY <1>1 DEF AtMostTwice, Holding
    <3>2. (Before(named, 1))' = Before(named, 1)
      BY <1>1 DEF Before
    <3> QED BY <2>4, <3>1, <3>2 DEF AtMostTwice
  <2>7. ~overrun => ~Busy
    BY <2>1 DEF AtMostOnce
  <2>8. ~overrun => irq \in {"none", "idle"}
    BY <2>7 DEF Busy
  <2>9. AtMostOnce'
    BY <1>1, <2>1, <2>4, <2>8 DEF AtMostOnce, Holding
  <2>10. AtLeastOnce'
    <3>1. ~overrun => ~OnItsWay
      BY <2>7, <2>8 DEF OnItsWay, RxDone, Holding, Busy
    <3>2. OnItsWay'
      BY <2>1 DEF OnItsWay, RxDone
    <3> QED BY <1>1, <2>1, <3>1, <3>2 DEF AtLeastOnce, Ready
  <2> QED BY <1>2, <1>6, <2>5, <2>6, <2>9, <2>10
<1> QED BY <1>7, <1>8, <1>9

LEMMA DeliveryStep ==
  ASSUME RxAssumption, DeliveryInv, [Next]_vars
  PROVE  DeliveryInv'
<1>1. TypeOK'
  BY TypeStep DEF DeliveryInv
<1>2. CASE AppMain
  BY <1>1, <1>2, DeliveryApp
<1>3. CASE IrqTask
  BY <1>1, <1>3, DeliveryIrq, DeliveryEmit DEF IrqTask
<1>4. CASE BeginPacket \/ EndPacket \/ LosePacket
  BY <1>1, <1>4, DeliveryChip
<1>5. CASE UNCHANGED vars
  <2>1. UNCHANGED <<boot, cfg, listening, onAir, hearing, last, flags, sem, irq, seen>>
        /\ UNCHANGED <<named, payload, delivered, due, blind, overrun, faults>>
    BY <1>5 DEF vars, app, chip, task
  <2>2. Early' /\ Placed' /\ InOrder'
    BY <2>1 DEF DeliveryInv, Early, Placed, InOrder
  <2>3. AtMostTwice' /\ AtMostOnce'
    BY <2>1 DEF DeliveryInv, AtMostTwice, AtMostOnce, RxDone, Holding, OnItsWay,
                Before, Busy
  <2>4. AtLeastOnce'
    BY <2>1 DEF DeliveryInv, AtLeastOnce, RxDone, Holding, OnItsWay, Ready
  <2> QED BY <1>1, <2>2, <2>3, <2>4 DEF DeliveryInv
<1> QED BY <1>2, <1>3, <1>4, <1>5 DEF Next

LEMMA DeliveryInit ==
  ASSUME RxAssumption, Init, TypeOK
  PROVE  DeliveryInv
<1>1. Len(delivered) = 0
  BY DEF Init
<1>2. \A i \in 1..0 : FALSE
  OBVIOUS
<1>3. Early /\ Placed /\ AtMostTwice
  BY <1>1, <1>2 DEF Init, Early, Placed, AtMostTwice, RxDone, Holding
<1>4. AtMostOnce /\ AtLeastOnce
  BY <1>1 DEF Init, AtMostOnce, AtLeastOnce, RxDone, Holding, OnItsWay
<1>5. InOrder
  <2>1. 1..(Len(delivered) - 2) = {} /\ 1..(Len(delivered) - 1) = {}
        /\ 1..Len(delivered) = {}
    BY <1>1
  <2> QED BY <2>1 DEF InOrder
<1> QED BY <1>3, <1>4, <1>5 DEF DeliveryInv

(* Packets reach the pipeline in the order of the air, none more than twice, *)
(* and none twice or torn unless one began before the last was dealt with.   *)
THEOREM RxInOrder ==
  ASSUME RxAssumption
  PROVE  Spec => []InOrder
<1>1. Init => DeliveryInv
  BY TypeInit, DeliveryInit
<1>2. DeliveryInv /\ [Next]_vars => DeliveryInv'
  BY DeliveryStep
<1>3. DeliveryInv => InOrder
  BY DEF DeliveryInv
<1> QED BY <1>1, <1>2, <1>3, PTL DEF Spec

(* When the task has dealt with all, each packet the running pipeline was due *)
(* has been delivered, if no command failed and none came on the heels of     *)
(* another.                                                                  *)
THEOREM RxDelivers ==
  ASSUME RxAssumption
  PROVE  Spec => []HeardIsDelivered
<1>1. Init => DeliveryInv
  BY TypeInit, DeliveryInit
<1>2. DeliveryInv /\ [Next]_vars => DeliveryInv'
  BY DeliveryStep
<1>3. DeliveryInv => HeardIsDelivered
  BY DEF DeliveryInv, HeardIsDelivered, AtLeastOnce, OnItsWay, RxDone, Holding, Busy
<1> QED BY <1>1, <1>2, <1>3, PTL DEF Spec

=============================================================================
