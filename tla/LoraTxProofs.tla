---------------------------- MODULE LoraTxProofs ----------------------------
(***************************************************************************)
(* For any queue depth and any number of packets and faults: packets go on *)
(* the air in order and at most once, no airtime is counted twice, and     *)
(* without faults every transmission is accounted for.  What LoraRxProofs  *)
(* shows of a rover holds of the one beside the base in MCLoraTx.          *)
(***************************************************************************)
EXTENDS MCLoraTx, TLAPS

LEMMA AppendInSeq ==
  ASSUME NEW S, NEW s \in Seq(S), NEW e \in S
  PROVE  /\ Append(s, e) \in Seq(S)
         /\ Len(Append(s, e)) = Len(s) + 1
         /\ \A i \in 1..Len(s) : Append(s, e)[i] = s[i]
         /\ Append(s, e)[Len(s) + 1] = e
  OBVIOUS

LEMMA SeqElements ==
  ASSUME NEW S, NEW s \in Seq(S)
  PROVE  Len(s) \in Nat /\ \A i \in 1..Len(s) : s[i] \in S
  OBVIOUS

LEMMA TailOfSeq ==
  ASSUME NEW S, NEW s \in Seq(S), s # <<>>
  PROVE  /\ Head(s) \in S /\ Head(s) = s[1] /\ 1 \in 1..Len(s)
         /\ Tail(s) \in Seq(S) /\ Len(Tail(s)) = Len(s) - 1
         /\ \A i \in 1..Len(Tail(s)) : Tail(s)[i] = s[i + 1]
  OBVIOUS

-----------------------------------------------------------------------------
LEMMA TypeInit == Init => TypeOK
<1> SUFFICES ASSUME Init PROVE TypeOK
  OBVIOUS
<1>1. queue \in Seq(Numbers) /\ Len(queue) <= QueueDepth
  BY TxAssumption DEF Init
<1>2. aired \in Seq(Numbers) /\ recorded \in Seq(Numbers)
  BY DEF Init
<1>3. 0 \in 0..MaxPackets /\ 0 \in 0..MaxFaults
  BY TxAssumption
<1> QED BY <1>1, <1>2, <1>3 DEF Init, TypeOK

LEMMA FaultType == TypeOK /\ Fault => faults' \in 0..MaxFaults
  BY TxAssumption DEF TypeOK, Fault

LEMMA TypeStep == TypeOK /\ [Next]_vars => TypeOK'
<1> SUFFICES ASSUME TypeOK, [Next]_vars PROVE TypeOK'
  OBVIOUS
<1> USE TxAssumption
<1>1. ASSUME Enqueue PROVE TypeOK'
  <2>1. enqueued + 1 \in Numbers /\ enqueued' \in 0..MaxPackets
    BY <1>1 DEF Enqueue, TypeOK, Numbers
  <2>2. queue' \in Seq(Numbers) /\ Len(queue') <= QueueDepth
    <3>1. CASE QueueRoom
      BY <1>1, <2>1, <3>1, AppendInSeq DEF Enqueue, TypeOK, QueueRoom
    <3>2. CASE ~QueueRoom
      BY <1>1, <3>2 DEF Enqueue, TypeOK
    <3> QED BY <3>1, <3>2
  <2> QED BY <1>1, <2>1, <2>2 DEF Enqueue, TypeOK, chip
<1>2. ASSUME TxReceive PROVE TypeOK'
  <2>1. cur' \in Numbers /\ queue' \in Seq(Numbers) /\ Len(queue') <= QueueDepth
    BY <1>2, TailOfSeq DEF TxReceive, TypeOK
  <2> QED BY <1>2, <2>1 DEF TxReceive, TypeOK, Numbers, chip
<1>3. CASE TxDrop \/ TxClear
  BY <1>3 DEF TxDrop, TxClear, TypeOK, chip
<1>4. CASE TxSend
  BY <1>4 DEF TxSend, FlagsAtSend, TypeOK
<1>5. CASE TxSendFails
  BY <1>5 DEF TxSendFails, Fault, TypeOK
<1>6. ASSUME TxDone PROVE TypeOK'
  <2>1. cur \in Numbers
    BY <1>6 DEF TxDone, TypeOK, Numbers
  <2>2. recorded' \in Seq(Numbers)
    BY <1>6, <2>1, AppendInSeq DEF TxDone, TypeOK
  <2> QED BY <1>6, <2>2 DEF TxDone, TypeOK, chip
<1>7. CASE TxFailed
  BY <1>7 DEF TxFailed, TypeOK, chip
<1>8. ASSUME TxTimeout \/ TxTimeoutEarly PROVE TypeOK'
  <2>1. CASE TxTimeout
    BY <2>1 DEF TxTimeout, WaitEnds, TypeOK, chip
  <2>2. CASE TxTimeoutEarly
    BY <2>2, FaultType DEF TxTimeoutEarly, TypeOK, chip
  <2> QED BY <1>8, <2>1, <2>2
<1>9. ASSUME IrqTask PROVE TypeOK'
  <2>1. CASE IrqRead
    BY <2>1 DEF IrqRead, TypeOK, task
  <2>2. CASE IrqReadFails
    BY <2>2, FaultType DEF IrqReadFails, TypeOK, task
  <2>3. CASE IrqIgnore
    BY <2>3 DEF IrqIgnore, TypeOK, task
  <2>4. CASE IrqTxDone
    BY <2>4 DEF IrqTxDone, TypeOK, task
  <2>5. CASE IrqHandlerFails
    <3>1. flags' \in SUBSET Flags /\ txActive' \in BOOLEAN
      BY <2>5 DEF IrqHandlerFails, TypeOK
    <3> QED BY <2>5, <3>1, FaultType DEF IrqHandlerFails, TypeOK, task
  <2>6. CASE IrqHeaderError
    BY <2>6 DEF IrqHeaderError, TypeOK, task
  <2>7. CASE IrqTimeout
    BY <2>7 DEF IrqTimeout, TimeoutEvent, TypeOK, task
  <2>8. CASE IrqEmit
    BY <2>8 DEF IrqEmit, TypeOK, task, chip
  <2> QED BY <1>9, <2>1, <2>2, <2>3, <2>4, <2>5, <2>6, <2>7, <2>8 DEF IrqTask
<1>10. ASSUME ChipTxDone PROVE TypeOK'
  <2>1. onAir \in Numbers
    BY <1>10 DEF ChipTxDone, TypeOK, Numbers
  <2>2. aired' \in Seq(Numbers)
    BY <1>10, <2>1, AppendInSeq DEF ChipTxDone, TypeOK
  <2> QED BY <1>10, <2>2 DEF ChipTxDone, Raise, TypeOK, Flags, task
<1>11. ASSUME ChipHears \/ ChipHearsNoise \/ ChipGivesUp PROVE TypeOK'
  <2>1. flags' \in SUBSET Flags /\ sem' \in BOOLEAN
    BY <1>11 DEF ChipHears, ChipHearsNoise, ChipGivesUp, Raise, TypeOK, Flags
  <2>2. faults' \in 0..MaxFaults
    BY <1>11, FaultType DEF ChipHears, ChipHearsNoise, ChipGivesUp, TypeOK
  <2>3. mode' \in {mode, "standby"}
    BY <1>11 DEF ChipHears, ChipHearsNoise, ChipGivesUp
  <2>4. UNCHANGED <<task, bits, irq, seen, txActive, onAir, aired>>
    BY <1>11 DEF ChipHears, ChipHearsNoise, ChipGivesUp
  <2> QED BY <2>1, <2>2, <2>3, <2>4 DEF TypeOK, task
<1>12. CASE UNCHANGED vars
  BY <1>12 DEF vars, task, chip, TypeOK
<1> QED BY <1>1, <1>2, <1>3, <1>4, <1>5, <1>6, <1>7, <1>8, <1>9, <1>10,
           <1>11, <1>12 DEF Next, TxTask

(* The variables of the transmit path keep their types: the queue never
   outgrows its depth, and a task past the queue has a packet. *)
THEOREM TxTypeCorrect == Spec => []TypeOK
  BY TypeInit, TypeStep, PTL DEF Spec

-----------------------------------------------------------------------------
LEMMA AccountInit == Init => AccountInv
  BY DEF Init, AccountInv, Underway

(* The packets go from flag to event to bit to record, one by one. *)
LEMMA AccountStep == TypeOK /\ AccountInv /\ [Next]_vars => AccountInv'
<1> SUFFICES ASSUME TypeOK, AccountInv, [Next]_vars PROVE AccountInv'
  OBVIOUS
<1>a. Len(recorded) \in Nat /\ Len(aired) \in Nat /\ Underway \in Nat
  BY DEF TypeOK, Underway
<1>1. ASSUME TxDone PROVE AccountInv'
  <2>1. Len(recorded') = Len(recorded) + 1
    <3>1. cur \in Numbers
      BY <1>1 DEF TxDone, TypeOK, Numbers
    <3> QED BY <1>1, <3>1, AppendInSeq DEF TxDone, TypeOK
  <2>2. Underway' = Underway - 1
    BY <1>1 DEF TxDone, Underway, chip
  <2>3. aired' = aired
    BY <1>1 DEF TxDone, chip
  <2> QED BY <2>1, <2>2, <2>3, <1>a DEF AccountInv
<1>2. ASSUME ChipTxDone PROVE AccountInv'
  <2>1. Len(aired') = Len(aired) + 1
    <3>1. onAir \in Numbers
      BY <1>2, TxAssumption DEF ChipTxDone, TypeOK, Numbers
    <3> QED BY <1>2, <3>1, AppendInSeq DEF ChipTxDone, TypeOK
  <2>2. Underway' <= Underway + 1 /\ Underway' \in Nat
    BY <1>2 DEF ChipTxDone, Raise, Underway, task
  <2>3. recorded' = recorded
    BY <1>2 DEF ChipTxDone, task
  <2> QED BY <2>1, <2>2, <2>3, <1>a DEF AccountInv
<1>3. ASSUME Underway' <= Underway, Underway' \in Nat, UNCHANGED <<recorded, aired>>
      PROVE  AccountInv'
  BY <1>3, <1>a DEF AccountInv
<1>4. ASSUME Enqueue \/ TxReceive \/ TxDrop \/ TxClear \/ TxSend \/ TxSendFails
             \/ TxFailed \/ TxTimeout \/ TxTimeoutEarly
      PROVE  AccountInv'
  <2>1. UNCHANGED <<recorded, aired, irq, seen>>
    BY <1>4 DEF Enqueue, TxReceive, TxDrop, TxClear, TxSend, TxSendFails,
                TxFailed, TxTimeout, TxTimeoutEarly, chip
  <2>2. flags' \subseteq flags /\ bits' \subseteq bits
    BY <1>4 DEF Enqueue, TxReceive, TxDrop, TxClear, TxSend, TxSendFails,
                TxFailed, TxTimeout, TxTimeoutEarly, FlagsAtSend, chip
  <2>3. Underway' <= Underway /\ Underway' \in Nat
    BY <2>1, <2>2 DEF Underway
  <2> QED BY <1>3, <2>1, <2>3
<1>5. ASSUME IrqTask PROVE AccountInv'
  <2>1. UNCHANGED <<recorded, aired>>
    BY <1>5 DEF IrqTask, IrqRead, IrqReadFails, IrqIgnore, IrqTxDone,
                IrqHandlerFails, IrqHeaderError, IrqTimeout, IrqEmit, task, chip
  <2>2. Underway' <= Underway /\ Underway' \in Nat
    <3>1. CASE IrqRead
      BY <3>1 DEF IrqRead, Underway
    <3>2. CASE IrqReadFails
      BY <3>2 DEF IrqReadFails, Underway
    <3>3. CASE IrqIgnore \/ IrqTxDone
      BY <3>3 DEF IrqIgnore, IrqTxDone, Underway
    <3>4. CASE IrqHandlerFails
      BY <3>4 DEF IrqHandlerFails, Underway
    <3>5. CASE IrqHeaderError \/ IrqTimeout
      BY <3>5 DEF IrqHeaderError, IrqTimeout, TimeoutEvent, Underway
    <3>6. CASE IrqEmit
      BY <3>6 DEF IrqEmit, Underway, chip
    <3> QED BY <1>5, <3>1, <3>2, <3>3, <3>4, <3>5, <3>6 DEF IrqTask
  <2> QED BY <1>3, <2>1, <2>2
<1>6. ASSUME ChipHears \/ ChipHearsNoise \/ ChipGivesUp PROVE AccountInv'
  <2>1. UNCHANGED <<recorded, aired, irq, seen, bits>>
    BY <1>6 DEF ChipHears, ChipHearsNoise, ChipGivesUp, task
  <2>2. "tx_done" \in flags' => "tx_done" \in flags
    BY <1>6 DEF ChipHears, ChipHearsNoise, ChipGivesUp, Raise
  <2>3. Underway' <= Underway /\ Underway' \in Nat
    BY <2>1, <2>2 DEF Underway
  <2> QED BY <1>3, <2>1, <2>3
<1>7. CASE UNCHANGED vars
  BY <1>7 DEF vars, task, chip, AccountInv, Underway
<1> QED BY <1>1, <1>2, <1>4, <1>5, <1>6, <1>7 DEF Next, TxTask

(* No transmission is recorded twice, whatever fails or comes late. *)
THEOREM NoOverAccountingCorrect == Spec => []NoOverAccounting
<1>1. TypeOK /\ AccountInv => NoOverAccounting
  BY DEF TypeOK, AccountInv, Underway, NoOverAccounting
<1> QED BY <1>1, TypeInit, TypeStep, AccountInit, AccountStep, PTL DEF Spec

-----------------------------------------------------------------------------
LEMMA QuietInit == Init => QuietInv
  BY DEF Init, QuietInv, Round, AiredRecorded

(* Without a fault the actions that only a fault brings about are out. *)
LEMMA NoFaultStep ==
  ASSUME TypeOK, QuietInv, [Next]_vars, faults' = 0
  PROVE  /\ Round /\ AiredRecorded
         /\ \/ Enqueue \/ TxReceive \/ TxDrop \/ TxClear \/ TxSend \/ TxDone
            \/ TxFailed \/ TxTimeout \/ IrqRead \/ IrqIgnore \/ IrqTxDone
            \/ IrqHeaderError \/ IrqTimeout \/ IrqEmit \/ ChipTxDone
            \/ ChipHears \/ UNCHANGED vars
<1>1. faults \in Nat
  BY TxAssumption DEF TypeOK
<1>2. ~Fault
  BY <1>1 DEF Fault
<1>3. faults = 0
  BY <1>1, <1>2 DEF Next, TxTask, IrqTask, Enqueue, TxReceive, TxDrop, TxClear,
     TxSend, TxSendFails, TxDone, TxFailed, TxTimeout, WaitEnds, TxTimeoutEarly,
     IrqRead, IrqReadFails, IrqIgnore, IrqTxDone, IrqHandlerFails,
     IrqHeaderError, IrqTimeout, IrqEmit, ChipTxDone, ChipHears,
     ChipHearsNoise, ChipGivesUp, vars
<1>4. ~TxSendFails /\ ~TxTimeoutEarly /\ ~IrqReadFails /\ ~IrqHandlerFails
        /\ ~ChipHearsNoise /\ ~ChipGivesUp
  BY <1>2 DEF TxSendFails, TxTimeoutEarly, IrqReadFails, IrqHandlerFails,
              ChipHearsNoise, ChipGivesUp
<1> QED BY <1>3, <1>4 DEF QuietInv, Next, TxTask, IrqTask

LEMMA RoundStep == TypeOK /\ QuietInv /\ [Next]_vars /\ faults' = 0 => Round'
<1> SUFFICES ASSUME TypeOK, QuietInv, [Next]_vars, faults' = 0 PROVE Round'
  OBVIOUS
<1>a. Round
  BY NoFaultStep
<1>1. CASE Enqueue \/ TxReceive \/ TxDrop
  BY <1>1, <1>a DEF Enqueue, TxReceive, TxDrop, Round, chip
<1>2. CASE TxClear
  BY <1>2, <1>a DEF TxClear, Round, chip
<1>3. CASE TxSend
  BY <1>3, <1>a DEF TxSend, LockFree, FlagsAtSend, Round
<1>4. CASE TxDone \/ TxFailed
  BY <1>4, <1>a DEF TxDone, TxFailed, Round, chip
<1>5. CASE TxTimeout
  BY <1>5, <1>a DEF TxTimeout, WaitEnds, NothingToCome, Round, TypeOK, chip
<1>6. CASE IrqRead
  BY <1>6, <1>a DEF IrqRead, Round, task
<1>7. CASE IrqIgnore
  BY <1>7, <1>a DEF IrqIgnore, Round, task
<1>8. CASE IrqTxDone
  BY <1>8, <1>a DEF IrqTxDone, Round, task
<1>9. CASE IrqHeaderError \/ IrqTimeout
  BY <1>9, <1>a DEF IrqHeaderError, IrqTimeout, Round
<1>10. CASE IrqEmit
  BY <1>10, <1>a DEF IrqEmit, Round, task, chip
<1>11. CASE ChipTxDone
  BY <1>11, <1>a DEF ChipTxDone, Raise, Round, task
<1>12. CASE ChipHears
  BY <1>12, <1>a DEF ChipHears, Raise, Round, task
<1>13. CASE UNCHANGED vars
  BY <1>13, <1>a DEF vars, task, chip, Round
<1> QED BY NoFaultStep, <1>1, <1>2, <1>3, <1>4, <1>5, <1>6, <1>7, <1>8, <1>9,
           <1>10, <1>11, <1>12, <1>13

LEMMA RecordedStep ==
  TypeOK /\ QuietInv /\ [Next]_vars /\ faults' = 0 => AiredRecorded'
<1> SUFFICES ASSUME TypeOK, QuietInv, [Next]_vars, faults' = 0
             PROVE  AiredRecorded'
  OBVIOUS
<1>a. Round /\ AiredRecorded
  BY NoFaultStep
<1>b. /\ aired \in Seq(Numbers) /\ recorded \in Seq(Numbers)
      /\ Len(aired) \in Nat /\ Len(recorded) \in Nat
  BY DEF TypeOK
<1>1. ASSUME UNCHANGED <<aired, recorded>>, Unrecorded \subseteq Unrecorded'
      PROVE  AiredRecorded'
  BY <1>1, <1>a DEF AiredRecorded
<1>2. CASE Enqueue \/ TxReceive \/ TxDrop \/ TxClear \/ TxSend
  <2>1. UNCHANGED <<aired, recorded>> /\ Unrecorded \subseteq Unrecorded'
    BY <1>2 DEF Enqueue, TxReceive, TxDrop, TxClear, TxSend, chip, Unrecorded
  <2> QED BY <2>1, <1>1
<1>3. ASSUME TxDone PROVE AiredRecorded'
  <2>1. cur \in Numbers
    BY <1>3 DEF TxDone, TypeOK, Numbers
  <2>2. /\ recorded' = Append(recorded, cur) /\ aired' = aired
        /\ \A i \in 1..Len(aired) : aired[i] \in Unrecorded => aired[i] = cur
    BY <1>3 DEF TxDone, chip, Unrecorded
  <2>3. /\ Len(recorded') = Len(recorded) + 1
        /\ \A i \in 1..Len(recorded) : recorded'[i] = recorded[i]
        /\ recorded'[Len(recorded) + 1] = cur
    BY <2>1, <2>2, <1>b, AppendInSeq
  <2>4. ASSUME NEW i \in 1..Len(aired)
        PROVE  \E j \in 1..Len(recorded') : recorded'[j] = aired[i]
    <3>1. CASE aired[i] = cur
      <4>1. Len(recorded) + 1 \in 1..Len(recorded')
        BY <2>3, <1>b
      <4> QED BY <4>1, <3>1, <2>3
    <3>2. CASE \E j \in 1..Len(recorded) : recorded[j] = aired[i]
      <4>1. PICK j \in 1..Len(recorded) : recorded[j] = aired[i]
        BY <3>2
      <4>2. j \in 1..Len(recorded')
        BY <2>3, <1>b
      <4> QED BY <4>1, <4>2, <2>3
    <3> QED BY <3>1, <3>2, <2>2, <1>a DEF AiredRecorded
  <2> QED BY <2>2, <2>4 DEF AiredRecorded
<1>4. ASSUME TxFailed \/ TxTimeout PROVE FALSE
  BY <1>4, <1>a DEF TxFailed, TxTimeout, WaitEnds, NothingToCome, Round, TypeOK
<1>5. CASE IrqRead \/ IrqIgnore \/ IrqHeaderError \/ IrqTimeout \/ IrqEmit \/ ChipHears
  <2>1. UNCHANGED <<aired, recorded>> /\ Unrecorded \subseteq Unrecorded'
    BY <1>5 DEF IrqRead, IrqIgnore, IrqHeaderError, IrqTimeout, IrqEmit,
                ChipHears, task, chip, Unrecorded
  <2> QED BY <2>1, <1>1
<1>6. CASE IrqTxDone
  <2>1. UNCHANGED <<aired, recorded>> /\ Unrecorded \subseteq Unrecorded'
    BY <1>6, <1>a DEF IrqTxDone, task, Unrecorded, Round
  <2> QED BY <2>1, <1>1
<1>7. ASSUME ChipTxDone PROVE AiredRecorded'
  <2>1. mode = "tx" /\ place = "wait" /\ onAir = cur /\ onAir \in Numbers
    BY <1>7, <1>a, TxAssumption DEF ChipTxDone, Round, TypeOK, Numbers
  <2>2. /\ aired' = Append(aired, cur) /\ recorded' = recorded
        /\ Unrecorded = {} /\ Unrecorded' = {cur}
    BY <1>7, <2>1 DEF ChipTxDone, task, Unrecorded
  <2>3. /\ Len(aired') = Len(aired) + 1
        /\ \A i \in 1..Len(aired) : aired'[i] = aired[i]
        /\ aired'[Len(aired) + 1] = cur
    BY <2>1, <2>2, <1>b, AppendInSeq
  <2> QED BY <2>2, <2>3, <1>a, <1>b DEF AiredRecorded
<1>8. CASE UNCHANGED vars
  BY <1>8, <1>1 DEF vars, task, chip, Unrecorded
<1> QED BY NoFaultStep, <1>2, <1>3, <1>4, <1>5, <1>6, <1>7, <1>8

(* While nothing outside goes wrong, every transmission is recorded before
   the transmit task looks at another packet. *)
THEOREM AccountedCorrect == Spec => []Accounted
<1>1. TypeOK /\ QuietInv => Accounted
  <2> SUFFICES ASSUME TypeOK, QuietInv, faults = 0
               PROVE  /\ mode = "tx" => place = "wait" /\ onAir = cur
                      /\ \A k \in Numbers : Contains(aired, k) =>
                           Contains(recorded, k) \/ (place = "wait" /\ k = cur)
    BY DEF Accounted
  <2>1. mode = "tx" => place = "wait" /\ onAir = cur
    BY DEF QuietInv, Round
  <2>2. ASSUME NEW k \in Numbers, Contains(aired, k)
        PROVE  Contains(recorded, k) \/ (place = "wait" /\ k = cur)
    <3>1. PICK i \in 1..Len(aired) : aired[i] = k
      BY <2>2 DEF Contains
    <3> QED BY <3>1 DEF QuietInv, AiredRecorded, Unrecorded, Contains
  <2> QED BY <2>1, <2>2
<1>2. TypeOK /\ QuietInv /\ [Next]_vars => QuietInv'
  BY RoundStep, RecordedStep DEF QuietInv
<1> QED BY <1>1, <1>2, TypeInit, TypeStep, QuietInit, PTL DEF Spec

-----------------------------------------------------------------------------
LEMMA OrderInit == Init => OrderInv
  BY TxAssumption DEF Init, OrderInv

LEMMA OrderStep == TypeOK /\ OrderInv /\ [Next]_vars => OrderInv'
<1> SUFFICES ASSUME TypeOK, OrderInv, [Next]_vars PROVE OrderInv'
  OBVIOUS
<1>a. /\ cur \in Nat /\ enqueued \in Nat /\ onAir \in Nat
      /\ Len(queue) \in Nat /\ Len(aired) \in Nat
      /\ queue \in Seq(Numbers) /\ aired \in Seq(Numbers)
  BY TxAssumption DEF TypeOK
<1>b. /\ \A i \in 1..Len(queue) : queue[i] \in Numbers /\ queue[i] \in Nat
      /\ \A i \in 1..Len(aired) : aired[i] \in Numbers /\ aired[i] \in Nat
  BY <1>a, SeqElements, TxAssumption DEF Numbers
<1>1. ASSUME Enqueue PROVE OrderInv'
  <2>1. /\ enqueued' = enqueued + 1 /\ enqueued + 1 \in Numbers
        /\ UNCHANGED <<cur, place, mode, onAir, aired>>
    BY <1>1, TxAssumption DEF Enqueue, chip, TypeOK, Numbers
  <2>2. \A i \in 1..Len(queue') :
          /\ cur < queue'[i] /\ queue'[i] <= enqueued + 1
          /\ \A j \in (i + 1)..Len(queue') : queue'[i] < queue'[j]
    <3>1. CASE QueueRoom
      <4>1. queue' = Append(queue, enqueued + 1)
        BY <1>1, <3>1 DEF Enqueue
      <4>2. /\ Len(queue') = Len(queue) + 1
            /\ \A i \in 1..Len(queue) : queue'[i] = queue[i]
            /\ queue'[Len(queue) + 1] = enqueued + 1
        BY <4>1, <1>a, <2>1, AppendInSeq
      <4>3. /\ cur <= enqueued
            /\ \A i \in 1..Len(queue) :
                 /\ cur < queue[i] /\ queue[i] <= enqueued
                 /\ \A j \in (i + 1)..Len(queue) : queue[i] < queue[j]
        BY DEF OrderInv
      <4>4. ASSUME NEW i \in 1..Len(queue')
            PROVE  cur < queue'[i] /\ queue'[i] <= enqueued + 1
        BY <4>2, <4>3, <1>a, <1>b
      <4>5. ASSUME NEW i \in 1..Len(queue'), NEW j \in (i + 1)..Len(queue')
            PROVE  queue'[i] < queue'[j]
        <5>1. i \in 1..Len(queue)
          BY <4>2, <1>a
        <5>2. CASE j = Len(queue) + 1
          BY <4>2, <4>3, <5>1, <5>2, <1>a, <1>b
        <5>3. CASE j \in (i + 1)..Len(queue)
          <6>1. j \in 1..Len(queue)
            BY <5>1, <5>3, <1>a
          <6> QED BY <4>2, <4>3, <5>1, <5>3, <6>1
        <5> QED BY <4>2, <5>1, <5>2, <5>3, <1>a
      <4> QED BY <4>4, <4>5
    <3>2. CASE ~QueueRoom
      <4>1. queue' = queue
        BY <1>1, <3>2 DEF Enqueue
      <4> QED BY <4>1, <1>a, <1>b DEF OrderInv
    <3> QED BY <3>1, <3>2
  <2> QED BY <2>1, <2>2, <1>a DEF OrderInv
<1>2. ASSUME TxReceive PROVE OrderInv'
  <2>1. /\ cur' = queue[1] /\ Len(queue') = Len(queue) - 1 /\ 1 \in 1..Len(queue)
        /\ \A i \in 1..Len(queue') : queue'[i] = queue[i + 1]
        /\ UNCHANGED <<enqueued, mode, onAir, aired>>
    BY <1>2, <1>a, TailOfSeq DEF TxReceive, chip
  <2>2. cur < cur' /\ cur' <= enqueued /\ cur' \in Nat
    BY <2>1, <1>b DEF OrderInv
  <2>3. ASSUME NEW i \in 1..Len(queue')
        PROVE  /\ cur' < queue'[i] /\ queue'[i] <= enqueued
               /\ \A j \in (i + 1)..Len(queue') : queue'[i] < queue'[j]
    <3>1. i + 1 \in 2..Len(queue) /\ i + 1 \in 1..Len(queue)
      BY <2>1, <1>a
    <3>2. ASSUME NEW j \in (i + 1)..Len(queue') PROVE queue'[i] < queue'[j]
      <4>1. j + 1 \in (i + 2)..Len(queue) /\ j \in 1..Len(queue')
        BY <2>1, <3>1, <1>a
      <4> QED BY <2>1, <3>1, <4>1, <1>a DEF OrderInv
    <3>3. queue[i + 1] <= enqueued /\ 1 + 1 <= i + 1
      BY <2>1, <3>1, <1>a DEF OrderInv
    <3>4. queue[1] < queue[i + 1]
      <4>1. i + 1 \in (1 + 1)..Len(queue)
        BY <3>1
      <4> QED BY <2>1, <4>1 DEF OrderInv
    <3> QED BY <2>1, <3>2, <3>3, <3>4
  <2>4. \A i \in 1..Len(aired) : aired[i] < cur'
    BY <2>2, <1>a, <1>b DEF OrderInv
  <2>5. mode = "tx" => onAir < cur'
    BY <2>2, <1>a DEF OrderInv
  <2> QED BY <2>1, <2>2, <2>3, <2>4, <2>5, <1>a, <1>b DEF OrderInv
<1>3. ASSUME TxSend PROVE OrderInv'
  <2>1. /\ onAir' = cur /\ place' = "wait" /\ place = "send"
        /\ UNCHANGED <<enqueued, queue, cur, aired>>
    BY <1>3 DEF TxSend
  <2> QED BY <2>1, <1>a, <1>b DEF OrderInv
<1>4. ASSUME TxSendFails PROVE OrderInv'
  <2>1. /\ place' = "receive" /\ place = "send"
        /\ UNCHANGED <<enqueued, queue, cur, aired>>
        /\ mode' = "tx" => onAir' = cur \/ (mode = "tx" /\ onAir' = onAir)
    BY <1>4 DEF TxSendFails
  <2> QED BY <2>1, <1>a, <1>b DEF OrderInv
<1>5. ASSUME TxDrop \/ TxClear \/ TxDone \/ TxFailed \/ TxTimeout
             \/ TxTimeoutEarly \/ IrqTask \/ ChipHears \/ ChipHearsNoise
             \/ ChipGivesUp
      PROVE  OrderInv'
  <2>1. /\ UNCHANGED <<enqueued, queue, cur, onAir, aired>>
        /\ mode' = "tx" => mode = "tx"
        /\ place' \in {"check", "send"} => place \in {"check", "send"}
    <3>1. CASE TxDrop \/ TxClear \/ TxDone \/ TxFailed \/ TxTimeout \/ TxTimeoutEarly
      BY <3>1 DEF TxDrop, TxClear, TxDone, TxFailed, TxTimeout,
                  TxTimeoutEarly, chip
    <3>2. CASE IrqTask
      BY <3>2 DEF IrqTask, IrqRead, IrqReadFails, IrqIgnore, IrqTxDone,
                  IrqHandlerFails, IrqHeaderError, IrqTimeout, IrqEmit, task, chip
    <3>3. CASE ChipHears \/ ChipHearsNoise \/ ChipGivesUp
      BY <3>3 DEF ChipHears, ChipHearsNoise, ChipGivesUp, task
    <3> QED BY <1>5, <3>1, <3>2, <3>3
  <2> QED BY <2>1 DEF OrderInv
<1>6. ASSUME ChipTxDone PROVE OrderInv'
  <2>1. /\ mode = "tx" /\ mode' = "standby" /\ aired' = Append(aired, onAir)
        /\ UNCHANGED <<enqueued, queue, cur, place>>
        /\ onAir \in Numbers
    BY <1>6, TxAssumption DEF ChipTxDone, task, TypeOK, Numbers
  <2>2. /\ Len(aired') = Len(aired) + 1
        /\ \A i \in 1..Len(aired) : aired'[i] = aired[i]
        /\ aired'[Len(aired) + 1] = onAir
    BY <2>1, <1>a, AppendInSeq
  <2> QED BY <2>1, <2>2, <1>a, <1>b DEF OrderInv
<1>7. CASE UNCHANGED vars
  BY <1>7 DEF vars, task, chip, OrderInv
<1> QED BY <1>1, <1>2, <1>3, <1>4, <1>5, <1>6, <1>7 DEF Next, TxTask

LEMMA StreamStep == TypeOK /\ OrderInv /\ [Next]_vars => [Stream!Next]_(Stream!vars)
<1> SUFFICES ASSUME TypeOK, OrderInv, [Next]_vars
             PROVE  Stream!Next \/ UNCHANGED Stream!vars
  BY DEF Stream!vars
<1>1. ASSUME Enqueue PROVE Stream!Send
  BY <1>1 DEF Enqueue, chip, Stream!Send
<1>2. ASSUME ChipTxDone PROVE Stream!Next
  <2>1. onAir \in 1..enqueued
    BY <1>2, TxAssumption DEF ChipTxDone, TypeOK, OrderInv
  <2>2. Stream!Deliver(onAir)
    BY <1>2, <2>1 DEF ChipTxDone, OrderInv, task, Stream!Deliver
  <2> QED BY <2>1, <2>2 DEF Stream!Next
<1>3. CASE TxTask
  BY <1>3 DEF TxTask, TxReceive, TxDrop, TxClear, TxSend, TxSendFails, TxDone,
              TxFailed, TxTimeout, TxTimeoutEarly, chip, Stream!vars
<1>4. CASE IrqTask
  BY <1>4 DEF IrqTask, IrqRead, IrqReadFails, IrqIgnore, IrqTxDone,
              IrqHandlerFails, IrqHeaderError, IrqTimeout, IrqEmit, task, chip,
              Stream!vars
<1>5. CASE ChipHears \/ ChipHearsNoise \/ ChipGivesUp \/ UNCHANGED vars
  BY <1>5 DEF ChipHears, ChipHearsNoise, ChipGivesUp, vars, task, chip,
              Stream!vars
<1> QED BY <1>1, <1>2, <1>3, <1>4, <1>5 DEF Next, Stream!Next

(* Packets leave the antenna at most once and in the order the parse task
   queued them, whatever events are lost, late or attributed wrongly. *)
THEOREM TxImplementsStream == Spec => ImplementsLossyStream
<1>1. Init => Stream!Init
  BY DEF Init, Stream!Init
<1>2. Spec => Stream!Spec
  BY <1>1, TypeInit, TypeStep, OrderInit, OrderStep, StreamStep, PTL
     DEF Spec, Stream!Spec
<1> QED BY <1>2 DEF ImplementsLossyStream

-----------------------------------------------------------------------------
(* The rover beside the base *)

RoverProofs == INSTANCE LoraRxProofs WITH
  Requests <- RoverRequests, MaxPackets <- RoverPackets, MaxFaults <- RoverFaults,
  onAir <- heard,
  flags <- r_flags, sem <- r_sem, irq <- r_irq, seen <- r_seen, faults <- r_faults

LEMMA RoverAssumption == RoverProofs!RxAssumption
BY MCAssumption
DEF Rover!RxAssumption, RoverProofs!RxAssumption, Rover!Builds, RoverProofs!Builds,
    Rover!Regions, RoverProofs!Regions, Rover!Profile, RoverProofs!Profile,
    Rover!Common, RoverProofs!Common

(* The two instances of LoraRx have the same steps. *)
LEMMA RoverSame == Rover!Next => RoverProofs!Next
BY DEF
     Rover!Fails, RoverProofs!Fails, Rover!Advance, RoverProofs!Advance,
     Rover!Attempt, RoverProofs!Attempt, Rover!Build, RoverProofs!Build,
     Rover!Resolve, RoverProofs!Resolve, Rover!Check, RoverProofs!Check,
     Rover!Allowed, RoverProofs!Allowed, Rover!Clamp, RoverProofs!Clamp,
     Rover!Regions, RoverProofs!Regions, Rover!Profile, RoverProofs!Profile,
     Rover!Common, RoverProofs!Common, Rover!Prepare, RoverProofs!Prepare,
     Rover!Apply, RoverProofs!Apply, Rover!Spawn, RoverProofs!Spawn,
     Rover!StartRx, RoverProofs!StartRx, Rover!StartPipeline,
     RoverProofs!StartPipeline, Rover!AppMain, RoverProofs!AppMain,
     Rover!Moves, RoverProofs!Moves, Rover!AtIrq, RoverProofs!AtIrq,
     Rover!Wake, RoverProofs!Wake, Rover!GetFlags, RoverProofs!GetFlags,
     Rover!Cleared, RoverProofs!Cleared, Rover!ClearFlags,
     RoverProofs!ClearFlags, Rover!GetFails, RoverProofs!GetFails,
     Rover!ClearFails, RoverProofs!ClearFails, Rover!BufferStatus,
     RoverProofs!BufferStatus, Rover!ReadBuffer, RoverProofs!ReadBuffer,
     Rover!ReadFails, RoverProofs!ReadFails, Rover!Ready, RoverProofs!Ready,
     Rover!Emit, RoverProofs!Emit, Rover!IrqTask, RoverProofs!IrqTask,
     Rover!Busy, RoverProofs!Busy, Rover!Raise, RoverProofs!Raise,
     Rover!BeginPacket, RoverProofs!BeginPacket, Rover!EndPacket,
     RoverProofs!EndPacket, Rover!LosePacket, RoverProofs!LosePacket,
     Rover!Next, RoverProofs!Next, Rover!app, RoverProofs!app, Rover!chip,
     RoverProofs!chip, Rover!task, RoverProofs!task, Rover!vars,
     RoverProofs!vars


LEMMA RoverBehaves == MCSpec => RoverProofs!Spec
<1>1. MCInit => RoverProofs!Init
  BY DEF MCInit, Rover!Init, RoverProofs!Init
<1>2. [MCNext]_<<part, vars, roverVars, mockedVars>>
        => [RoverProofs!Next]_(RoverProofs!vars)
  BY RoverSame
  DEF MCNext, roverVars, RoverProofs!vars, RoverProofs!app, RoverProofs!chip,
      RoverProofs!task
<1> QED BY <1>1, <1>2, PTL DEF MCSpec, RoverProofs!Spec

(* The rover goes deaf only in the gap between reading and clearing flags,   *)
(* or after one of these commands failed.                                    *)
THEOREM RoverWakesCorrect == MCSpec => []RoverWakes
<1>1. RoverProofs!RoverWakes => RoverWakes
  BY DEF RoverWakes, Rover!RoverWakes, RoverProofs!RoverWakes
<1> QED BY <1>1, RoverBehaves, RoverProofs!OnlyBlindIsDeaf, PTL

(* The rover's pipeline is given the packets of the air in order, none more  *)
(* than twice, without overruns once and whole and without faults all of     *)
(* them, from a chip that is in use only inside its region.                  *)
THEOREM RoverSoundCorrect == MCSpec => []RoverSound
<1>1. RoverProofs!TypeOK => Rover!TypeOK
  BY DEF Rover!TypeOK, RoverProofs!TypeOK, Rover!Packets, RoverProofs!Packets,
         Rover!Flags, RoverProofs!Flags
<1>2. RoverProofs!RadioLawful => Rover!RadioLawful
  BY DEF Rover!RadioLawful, RoverProofs!RadioLawful, Rover!Lawful, RoverProofs!Lawful,
         Rover!Allowed, RoverProofs!Allowed, Rover!Resolve, RoverProofs!Resolve,
         Rover!Regions, RoverProofs!Regions, Rover!Profile, RoverProofs!Profile,
         Rover!Common, RoverProofs!Common
<1>3. RoverProofs!InOrder => Rover!InOrder
  BY DEF Rover!InOrder, RoverProofs!InOrder
<1>4. RoverProofs!HeardIsDelivered => Rover!HeardIsDelivered
  BY DEF Rover!HeardIsDelivered, RoverProofs!HeardIsDelivered, Rover!Busy,
         RoverProofs!Busy
<1>5. RoverProofs!Spec => []RoverProofs!TypeOK /\ []RoverProofs!RadioLawful
  BY RoverAssumption, RoverProofs!TypeCorrect, RoverProofs!RadioIsLawful, PTL
<1>6. RoverProofs!Spec => []RoverProofs!InOrder /\ []RoverProofs!HeardIsDelivered
  BY RoverAssumption, RoverProofs!RxInOrder, RoverProofs!RxDelivers, PTL
<1> QED BY <1>1, <1>2, <1>3, <1>4, <1>5, <1>6, RoverBehaves, PTL DEF RoverSound

=============================================================================
