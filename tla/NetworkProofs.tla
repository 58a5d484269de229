---------------------------- MODULE NetworkProofs ----------------------------
(***************************************************************************)
(* Proofs about NetworkBoot, the driver of the W5500, SocketClient and      *)
(* RtcmFanout as MCNetwork runs them, for any bounds, any number of slots,   *)
(* any room of ring and buffers, and any interleaving of the tasks, the      *)
(* drivers and the chip.                                                    *)
(***************************************************************************)
EXTENDS MCNetwork, TLAPS

LEMMA TailInSeq ==
  ASSUME NEW S, NEW s \in Seq(S), s # <<>>
  PROVE  /\ Head(s) \in S /\ Head(s) = s[1] /\ Len(s) \in Nat \ {0}
         /\ Tail(s) \in Seq(S) /\ Len(Tail(s)) = Len(s) - 1
         /\ \A i \in 1..Len(Tail(s)) : Tail(s)[i] = s[i + 1]
  OBVIOUS

LEMMA AppendInSeq ==
  ASSUME NEW S, NEW s \in Seq(S), NEW e \in S
  PROVE  /\ Append(s, e) \in Seq(S)
         /\ Len(Append(s, e)) = Len(s) + 1
         /\ \A i \in 1..Len(s) : Append(s, e)[i] = s[i]
         /\ Append(s, e)[Len(s) + 1] = e
  OBVIOUS

LEMMA ExceptInSeq ==
  ASSUME NEW S, NEW s \in Seq(S), NEW i, NEW e \in S
  PROVE  /\ [s EXCEPT ![i] = e] \in Seq(S)
         /\ Len([s EXCEPT ![i] = e]) = Len(s)
<1>1. CASE i \in 1..Len(s)
  BY <1>1
<1>2. CASE i \notin 1..Len(s)
  <2>1. [s EXCEPT ![i] = e] = s
    BY <1>2
  <2> QED
    BY <2>1
<1> QED
  BY <1>1, <1>2

LEMMA SeqElements ==
  ASSUME NEW S, NEW s \in Seq(S)
  PROVE  Len(s) \in Nat /\ \A i \in 1..Len(s) : s[i] \in S
  OBVIOUS
-----------------------------------------------------------------------------
(* The driver of the W5500 *)

MacFlags ==
  /\ m_link \in BOOLEAN /\ recv \in BOOLEAN /\ note \in BOOLEAN
  /\ more \in BOOLEAN /\ sent \in BOOLEAN /\ failed \in BOOLEAN
  /\ place \in {"take", "status", "clear", "size", "receive", "flush", "loop",
               "astray"}
  /\ txPlace \in {"idle", "poll"}

MacCounts ==
  /\ remain \in 0..RingRoom /\ arrived \in 0..RxFrames
  /\ faults \in 0..MacFaults /\ m_links \in 0..MacLinks

(* The frames in the ring are in order, behind everything that was passed on *)
(* and none later than the last that arrived; a task that is to receive or   *)
(* to flush a frame has one.                                                 *)
RingInv ==
  /\ rx \in Seq(Nat) /\ Len(rx) <= RingRoom
  /\ passed \in Seq(Nat)
  /\ place \in {"receive", "flush"} => rx # <<>>
  /\ \A i \in 1..Len(rx) : rx[i] <= arrived
  /\ \A i \in 1..Len(passed) : passed[i] <= arrived
  /\ \A i, j \in 1..Len(rx) : i < j => rx[i] < rx[j]
  /\ \A i \in 1..Len(passed), j \in 1..Len(rx) : passed[i] < rx[j]
  /\ \A i, j \in 1..Len(passed) : i < j => passed[i] < passed[j]

(* Until a transmission fails, SEND is the answer to the frame at hand, and   *)
(* is never set between two calls of transmit.                               *)
SendInv ==
  /\ sending \in Seq(1..TxFrames) /\ Len(sending) <= tx
  /\ tx \in 0..TxFrames
  /\ txPlace = "poll" => tx >= 1
  /\ wire \subseteq 1..TxFrames /\ reported \subseteq 1..TxFrames
  /\ ~failed => reported \subseteq wire
  /\ ~failed /\ txPlace = "idle" => sending = <<>> /\ ~sent
  /\ ~failed /\ txPlace = "poll" =>
       \/ sending = <<tx>> /\ ~sent
       \/ sending = <<>> /\ sent /\ tx \in wire

MacInv == MacFlags /\ MacCounts /\ RingInv /\ SendInv

LEMMA Bounds ==
  RingRoom \in Nat \ {0} /\ RxFrames \in Nat /\ TxFrames \in Nat /\ MacFaults \in Nat
  /\ MacLinks \in Nat
<1>1. \A n \in {RxFrames, TxFrames, MacFaults, MacLinks} : n \in Nat
  BY MCAssumption DEF Mac!MacAssumption
<1> QED
  BY <1>1, MCAssumption DEF Mac!MacAssumption

LEMMA MacStart == MCInit => MacInv
<1> SUFFICES ASSUME MCInit PROVE MacInv
  OBVIOUS
<1> USE Bounds
<1>1. Mac!Init
  BY DEF MCInit
<1>2. MacFlags /\ MacCounts
  <2>1. MacFlags
    BY <1>1 DEF Mac!Init, MacFlags
  <2>2. MacCounts
    BY <1>1 DEF Mac!Init, MacCounts
  <2> QED
    BY <2>1, <2>2
<1>3. RingInv
  BY <1>1 DEF Mac!Init, RingInv
<1>4. SendInv
  BY <1>1 DEF Mac!Init, SendInv
<1> QED
  BY <1>2, <1>3, <1>4 DEF MacInv

LEMMA MacFlagsStep ==
  ASSUME MacFlags, Mac!Next
  PROVE  MacFlags'
<1> USE DEF MacFlags, Mac!receiver, Mac!transmitter, Mac!Go
<1>1. CASE Mac!Arrive
  BY <1>1 DEF Mac!Arrive
<1>2. CASE Mac!Sent \/ Mac!LinkDown \/ Mac!LinkUp
  BY <1>2 DEF Mac!Sent, Mac!LinkDown, Mac!LinkUp
<1>3. CASE Mac!Take \/ Mac!ReadStatus
  BY <1>3 DEF Mac!Take, Mac!ReadStatus
<1>4. CASE Mac!Clear \/ Mac!Loop
  BY <1>4 DEF Mac!Clear, Mac!Loop, Mac!RecvAfter
<1>5. CASE Mac!Alloc
  BY <1>5 DEF Mac!Alloc
<1>6. CASE Mac!Receive \/ Mac!Flush
  <2>1. place' = "loop"
    BY <1>6 DEF Mac!Receive, Mac!Flush
  <2>2. UNCHANGED <<m_link, recv, note, sent, failed, txPlace>>
    BY <1>6 DEF Mac!Receive, Mac!Flush
  <2>3. more' = (remain > 1) \/ more' = (Len(rx) > 1) \/ more' = FALSE
    BY <1>6 DEF Mac!Receive, Mac!Flush
  <2>4. (remain > 1) \in BOOLEAN /\ (Len(rx) > 1) \in BOOLEAN
    OBVIOUS
  <2>5. more' \in BOOLEAN
    BY ONLY <2>3, <2>4
  <2> QED
    BY <2>1, <2>2, <2>5
<1>7. CASE Mac!TxWrite \/ Mac!TxWriteFails \/ Mac!TxDone \/ Mac!TxFails
  BY <1>7 DEF Mac!TxWrite, Mac!TxWriteFails, Mac!TxDone, Mac!TxFails, Mac!SendFlagCleared
<1> QED
  BY <1>1, <1>2, <1>3, <1>4, <1>5, <1>6, <1>7 DEF Mac!Next, Mac!RxTask

LEMMA MacCountsStep ==
  ASSUME MacCounts, RingInv, Mac!Next
  PROVE  MacCounts'
<1> USE Bounds DEF MacCounts
<1>1. faults' \in {faults, faults + 1} /\ (faults' = faults \/ faults < MacFaults)
  BY DEF Mac!Next, Mac!Arrive, Mac!Sent, Mac!LinkDown, Mac!LinkUp, Mac!RxTask, Mac!Take,
     Mac!ReadStatus, Mac!Clear, Mac!Alloc, Mac!Receive, Mac!Flush, Mac!Loop, Mac!TxWrite,
     Mac!TxWriteFails, Mac!TxDone, Mac!TxFails, Mac!Fault
<1>2. m_links' = m_links \/ (m_links < MacLinks /\ m_links' = m_links + 1)
  BY DEF Mac!Next, Mac!Arrive, Mac!Sent, Mac!LinkDown, Mac!LinkUp, Mac!RxTask, Mac!Take,
     Mac!ReadStatus, Mac!Clear, Mac!Alloc, Mac!Receive, Mac!Flush, Mac!Loop, Mac!TxWrite,
     Mac!TxWriteFails, Mac!TxDone, Mac!TxFails
<1>3. arrived' = arrived \/ (arrived < RxFrames /\ arrived' = arrived + 1)
  BY DEF Mac!Next, Mac!Arrive, Mac!Sent, Mac!LinkDown, Mac!LinkUp, Mac!RxTask, Mac!Take,
     Mac!ReadStatus, Mac!Clear, Mac!Alloc, Mac!Receive, Mac!Flush, Mac!Loop, Mac!TxWrite,
     Mac!TxWriteFails, Mac!TxDone, Mac!TxFails, Mac!receiver
<1>4. remain' = remain \/ remain' = Len(rx)
  BY DEF Mac!Next, Mac!Arrive, Mac!Sent, Mac!LinkDown, Mac!LinkUp, Mac!RxTask, Mac!Take,
     Mac!ReadStatus, Mac!Clear, Mac!Alloc, Mac!Receive, Mac!Flush, Mac!Loop, Mac!TxWrite,
     Mac!TxWriteFails, Mac!TxDone, Mac!TxFails, Mac!receiver, Mac!RemainNow
<1>5. Len(rx) \in 0..RingRoom
  BY SeqElements DEF RingInv
<1> QED
  BY <1>1, <1>2, <1>3, <1>4, <1>5

(* The frame at the head of the ring leaves it. *)
LEMMA RingTail ==
  ASSUME RingInv, arrived \in Nat, rx # <<>>
  PROVE  /\ Tail(rx) \in Seq(Nat) /\ Len(Tail(rx)) <= RingRoom
         /\ \A i \in 1..Len(Tail(rx)) : Tail(rx)[i] <= arrived /\ Head(rx) < Tail(rx)[i]
         /\ \A i, j \in 1..Len(Tail(rx)) : i < j => Tail(rx)[i] < Tail(rx)[j]
         /\ \A i \in 1..Len(passed), j \in 1..Len(Tail(rx)) : passed[i] < Tail(rx)[j]
         /\ Head(rx) \in Nat /\ Head(rx) <= arrived
         /\ \A i \in 1..Len(passed) : passed[i] < Head(rx)
<1> USE DEF RingInv
<1>1. /\ Head(rx) \in Nat /\ Head(rx) = rx[1] /\ Len(rx) \in Nat \ {0}
      /\ Tail(rx) \in Seq(Nat) /\ Len(Tail(rx)) = Len(rx) - 1
      /\ \A i \in 1..Len(Tail(rx)) : Tail(rx)[i] = rx[i + 1]
  BY TailInSeq
<1>2. 1 \in 1..Len(rx) /\ RingRoom \in Nat
  BY <1>1, Bounds
<1>3. \A i \in 1..Len(Tail(rx)) : i + 1 \in 1..Len(rx) /\ 1 < i + 1
  BY <1>1
<1> QED
  BY <1>1, <1>2, <1>3

LEMMA RingStep ==
  ASSUME MacInv, Mac!Next
  PROVE  RingInv'
<1> USE Bounds DEF Mac!receiver, Mac!transmitter, MacInv,
        Mac!Go
<1>0. arrived \in Nat /\ RingInv
  BY Bounds DEF MacInv, MacCounts
<1>1. CASE Mac!Arrive
  <2>1. CASE Len(rx) < RingRoom
    <3>1. /\ rx' = Append(rx, arrived + 1) /\ arrived' = arrived + 1
          /\ passed' = passed /\ place' = place
      BY <1>1, <2>1 DEF Mac!Arrive
    <3>2. /\ rx' \in Seq(Nat) /\ Len(rx') = Len(rx) + 1 /\ Len(rx) \in Nat
          /\ \A i \in 1..Len(rx) : rx'[i] = rx[i] /\ rx[i] \in Nat
          /\ rx'[Len(rx) + 1] = arrived + 1
      BY <1>0, <3>1, AppendInSeq, SeqElements DEF RingInv
    <3>3. \A i \in 1..Len(rx') : i \in 1..Len(rx) \/ i = Len(rx) + 1
      BY <3>2
    <3>4. \A i \in 1..Len(passed) : passed[i] \in Nat
      BY <1>0, SeqElements DEF RingInv
    <3>5. \A i \in 1..Len(rx') : rx'[i] <= arrived'
      BY <1>0, <3>1, <3>2, <3>3 DEF RingInv
    <3>6. \A i, j \in 1..Len(rx') : i < j => rx'[i] < rx'[j]
      BY <1>0, <3>1, <3>2, <3>3 DEF RingInv
    <3>7. \A i \in 1..Len(passed'), j \in 1..Len(rx') : passed'[i] < rx'[j]
      BY <1>0, <3>1, <3>2, <3>3, <3>4 DEF RingInv
    <3>8. \A i \in 1..Len(passed') : passed'[i] <= arrived'
      BY <1>0, <3>1, <3>4 DEF RingInv
    <3>9. Len(rx') <= RingRoom /\ rx' # <<>>
      BY <2>1, <3>2
    <3> QED
      BY <1>0, <3>1, <3>2, <3>5, <3>6, <3>7, <3>8, <3>9 DEF RingInv
  <2>2. CASE ~(Len(rx) < RingRoom)
    <3>1. rx' = rx /\ arrived' = arrived + 1 /\ passed' = passed /\ place' = place
      BY <1>1, <2>2 DEF Mac!Arrive
    <3>2. /\ \A i \in 1..Len(rx) : rx[i] \in Nat
          /\ \A i \in 1..Len(passed) : passed[i] \in Nat
      BY <1>0, SeqElements DEF RingInv
    <3> QED
      BY <1>0, <3>1, <3>2 DEF RingInv
  <2> QED
    BY <2>1, <2>2
<1>2. CASE Mac!Receive /\ rx' = Tail(rx) /\ passed' = Append(passed, Head(rx))
  <2>1. place = "receive" /\ place' = "loop" /\ arrived' = arrived
    BY <1>2 DEF Mac!Receive
  <2>2. rx # <<>>
    BY <1>0, <2>1 DEF RingInv
  <2> DEFINE h == Head(rx)
  <2>3. /\ rx' \in Seq(Nat) /\ Len(rx') <= RingRoom
        /\ \A i \in 1..Len(rx') : rx'[i] <= arrived /\ h < rx'[i]
        /\ \A i, j \in 1..Len(rx') : i < j => rx'[i] < rx'[j]
        /\ \A i \in 1..Len(passed), j \in 1..Len(rx') : passed[i] < rx'[j]
        /\ h \in Nat /\ h <= arrived /\ \A i \in 1..Len(passed) : passed[i] < h
    BY <1>0, <1>2, <2>2, RingTail
  <2>4. /\ passed' \in Seq(Nat) /\ Len(passed') = Len(passed) + 1 /\ Len(passed) \in Nat
        /\ \A i \in 1..Len(passed) : passed'[i] = passed[i] /\ passed[i] \in Nat
        /\ passed'[Len(passed) + 1] = h
    BY <1>0, <1>2, <2>3, AppendInSeq, SeqElements DEF RingInv
  <2> HIDE DEF h
  <2>5. \A i \in 1..Len(passed') : i \in 1..Len(passed) \/ i = Len(passed) + 1
    BY <2>4
  <2>6. \A i \in 1..Len(passed') : passed'[i] <= arrived'
    BY <1>0, <2>1, <2>3, <2>4, <2>5 DEF RingInv
  <2>7. \A i, j \in 1..Len(passed') : i < j => passed'[i] < passed'[j]
    <3>1. \A i, j \in 1..Len(passed) : i < j => passed[i] < passed[j]
      BY <1>0 DEF RingInv
    <3> SUFFICES ASSUME NEW i \in 1..Len(passed'), NEW j \in 1..Len(passed'), i < j
                 PROVE  passed'[i] < passed'[j]
      OBVIOUS
    <3>2. i \in 1..Len(passed)
      BY <2>4
    <3>3. CASE j \in 1..Len(passed)
      BY <2>4, <3>1, <3>2, <3>3
    <3>4. CASE j = Len(passed) + 1
      BY <2>3, <2>4, <3>2, <3>4
    <3> QED
      BY <2>5, <3>3, <3>4
  <2>8. \A i \in 1..Len(passed'), j \in 1..Len(rx') : passed'[i] < rx'[j]
    BY <2>3, <2>4, <2>5
  <2> QED
    BY <2>1, <2>3, <2>4, <2>6, <2>7, <2>8 DEF RingInv
<1>3. ASSUME passed' = passed, arrived' = arrived, rx # <<>>, rx' = Tail(rx),
             place' \notin {"receive", "flush"}
      PROVE  RingInv'
  BY <1>0, <1>3, RingTail DEF RingInv
<1>4. ASSUME passed' = passed, arrived' = arrived, rx' = rx,
             place' \in {"receive", "flush"} => rx # <<>>
      PROVE  RingInv'
  BY <1>0, <1>4 DEF RingInv
<1>5. CASE (Mac!Receive /\ ~(rx' = Tail(rx) /\ passed' = Append(passed, Head(rx))))
           \/ Mac!Flush
  <2>1. /\ passed' = passed /\ arrived' = arrived /\ rx' \in {rx, Tail(rx)}
        /\ place' = "loop" /\ place \in {"receive", "flush"}
    BY <1>5 DEF Mac!Receive, Mac!Flush, Mac!PassOnError
  <2> QED
    BY <1>0, <1>3, <1>4, <2>1 DEF RingInv
<1>6. CASE Mac!LinkUp
  BY <1>0, <1>6 DEF Mac!LinkUp, RingInv
<1>7. CASE Mac!Sent \/ Mac!LinkDown \/ Mac!TxWrite \/ Mac!TxWriteFails \/ Mac!TxDone
           \/ Mac!TxFails
  BY <1>0, <1>4, <1>7 DEF Mac!Sent, Mac!LinkDown, Mac!TxWrite, Mac!TxWriteFails, Mac!TxDone,
     Mac!TxFails, RingInv
<1>8. CASE Mac!Take \/ Mac!ReadStatus \/ Mac!Clear \/ Mac!Alloc \/ Mac!Loop
  BY <1>4, <1>8 DEF Mac!Take, Mac!ReadStatus, Mac!Clear, Mac!Alloc, Mac!Loop
<1> QED
  BY <1>1, <1>2, <1>5, <1>6, <1>7, <1>8 DEF Mac!Next, Mac!RxTask

LEMMA SendStep ==
  ASSUME MacInv, Mac!Next
  PROVE  SendInv'
<1> USE Bounds DEF Mac!receiver, Mac!transmitter
<1>0. SendInv /\ sent \in BOOLEAN /\ failed \in BOOLEAN /\ txPlace \in {"idle", "poll"}
  BY DEF MacInv, MacFlags
<1>1. CASE Mac!Sent
  <2>1. /\ sending # <<>> /\ wire' = wire \cup {Head(sending)} /\ sending' = Tail(sending)
        /\ sent' = TRUE
        /\ UNCHANGED <<tx, txPlace, reported, failed>>
    BY <1>1 DEF Mac!Sent
  <2>2. /\ Head(sending) \in 1..TxFrames /\ Head(sending) = sending[1]
        /\ sending' \in Seq(1..TxFrames) /\ Len(sending') <= tx
    BY <1>0, <2>1, TailInSeq DEF SendInv
  <2>3. CASE failed
    BY <1>0, <2>1, <2>2, <2>3 DEF SendInv
  <2>4. CASE ~failed
    <3>1. txPlace = "poll" /\ sending = <<tx>>
      BY <1>0, <2>1, <2>4 DEF SendInv
    <3>2. Head(sending) = tx /\ sending' = <<>>
      BY <2>1, <3>1
    <3> QED
      BY <1>0, <2>1, <2>2, <2>4, <3>1, <3>2 DEF SendInv
  <2> QED
    BY <2>3, <2>4
<1>2. CASE Mac!TxWrite
  <2>1. /\ txPlace = "idle" /\ tx < TxFrames /\ tx' = tx + 1
        /\ sending' = Append(sending, tx + 1) /\ txPlace' = "poll"
        /\ UNCHANGED <<sent, reported, wire, failed>>
    BY <1>2 DEF Mac!TxWrite
  <2>2. tx + 1 \in 1..TxFrames /\ tx \in Nat
    BY <1>0, <2>1 DEF SendInv
  <2>3. sending' \in Seq(1..TxFrames) /\ Len(sending') = Len(sending) + 1
        /\ Len(sending) \in Nat
    BY <1>0, <2>1, <2>2, AppendInSeq, SeqElements DEF SendInv
  <2>4. ~failed => sending' = <<tx'>> /\ ~sent'
    BY <1>0, <2>1 DEF SendInv
  <2>5. Len(sending') <= tx'
    BY <1>0, <2>1, <2>2, <2>3 DEF SendInv
  <2> QED
    BY <1>0, <2>1, <2>2, <2>3, <2>4, <2>5 DEF SendInv
<1>3. CASE Mac!TxWriteFails
  BY <1>0, <1>3 DEF Mac!TxWriteFails, SendInv
<1>4. CASE Mac!TxDone
  BY <1>0, <1>4 DEF Mac!TxDone, Mac!SendFlagCleared, SendInv
<1>5. CASE Mac!TxFails
  BY <1>0, <1>5 DEF Mac!TxFails, SendInv
<1>6. CASE UNCHANGED Mac!transmitter
  BY <1>0, <1>6 DEF SendInv
<1>7. Mac!Arrive \/ Mac!LinkDown \/ Mac!LinkUp \/ Mac!RxTask => UNCHANGED Mac!transmitter
  BY DEF Mac!Arrive, Mac!LinkDown, Mac!LinkUp, Mac!RxTask, Mac!Take, Mac!ReadStatus, Mac!Clear,
     Mac!Alloc, Mac!Receive, Mac!Flush, Mac!Loop
<1> QED
  BY <1>1, <1>2, <1>3, <1>4, <1>5, <1>6, <1>7 DEF Mac!Next

LEMMA MacStep ==
  ASSUME MacInv, [MCNext]_allVars
  PROVE  MacInv'
<1>1. CASE Mac!Next
  BY <1>1, MacFlagsStep, MacCountsStep, RingStep, SendStep DEF MacInv
<1>2. CASE UNCHANGED macVars
  BY <1>2 DEF macVars, MacInv, MacFlags, MacCounts, RingInv, SendInv
<1> QED
  BY <1>1, <1>2 DEF MCNext, allVars

LEMMA MacSound == MacInv => FramesFaithful
<1> SUFFICES ASSUME MacInv PROVE FramesFaithful
  OBVIOUS
<1> USE DEF MacInv
<1>1. \A b \in {m_link, recv, note, more, sent, failed} : b \in BOOLEAN
  <2>1. MacFlags
    BY DEF MacInv
  <2> QED
    BY <2>1 DEF MacFlags
<1>2. Len(sending) <= TxFrames
  BY Bounds, SeqElements DEF SendInv
<1>3. Mac!TypeOK
  <2>1. {m_link, recv, note, more, sent, failed} \subseteq BOOLEAN
    BY ONLY <1>1
  <2>2. MacFlags /\ MacCounts /\ RingInv /\ SendInv
    BY DEF MacInv
  <2> QED
    BY <1>2, <2>1, <2>2 DEF Mac!TypeOK, MacFlags, MacCounts, RingInv, SendInv
<1>4. Mac!PassedInOrder
  <2>1. RingInv
    BY DEF MacInv
  <2>2. DOMAIN passed = 1..Len(passed)
    BY <2>1 DEF RingInv
  <2> QED
    BY <2>1, <2>2 DEF Mac!PassedInOrder, RingInv
<1>5. Mac!ReportedIsSent
  BY DEF Mac!ReportedIsSent, SendInv
<1> QED
  BY <1>3, <1>4, <1>5 DEF FramesFaithful

(* The stack gets the frames of the wire in order and none twice, whatever    *)
(* transfers fail and wherever a loss of the link falls in the receive task's *)
(* loop; and a frame reported as sent is on the wire until a transmission      *)
(* failed: for a ring of any size and any number of frames and faults          *)
(* (emac_w5500_task, emac_w5500_transmit).                                    *)
THEOREM FramesFaithfulCorrect == MCSpec => []FramesFaithful
<1>1. MCInit => MacInv
  BY MacStart
<1>2. MacInv /\ [MCNext]_allVars => MacInv'
  BY MacStep
<1>3. MacInv => FramesFaithful
  BY MacSound
<1> QED
  BY <1>1, <1>2, <1>3, PTL DEF MCSpec

-----------------------------------------------------------------------------
(* From reset to an uplink *)

BootFlags ==
  /\ cable \in BOOLEAN /\ lease \in BOOLEAN /\ coverage \in BOOLEAN
  /\ netif \in BOOLEAN /\ link \in BOOLEAN /\ b_up \in BOOLEAN /\ ethIp \in BOOLEAN
  /\ started \in BOOLEAN /\ linkUp \in BOOLEAN /\ hasIp \in BOOLEAN
  /\ group \in BOOLEAN /\ staUp \in BOOLEAN /\ portal \in BOOLEAN
  /\ saved \in BOOLEAN /\ posted \in BOOLEAN /\ b_lost \in BOOLEAN

BootTags ==
  /\ pc \in Boot!Places
  /\ bits \subseteq Boot!Bits
  /\ mode \in {"null", "sta", "ap"}
  /\ sta \in {"off", "joining", "joined", "ip"}
  /\ slot \in {"off", "waiting", "online"}

BootCounts == changes \in 0..BootChanges /\ resets \in 0..BootResets

LinkEvents == {"ETH_CONNECTED", "ETH_DISCONNECTED"}

(* The last event about the link that waits in the queue tells its state;     *)
(* where none waits, linkUp does.                                            *)
LinkTold ==
  /\ (\A i \in 1..Len(b_events) : b_events[i] \notin LinkEvents) => linkUp = link
  /\ \A i \in 1..Len(b_events) :
       /\ b_events[i] \in LinkEvents
       /\ \A j \in 1..Len(b_events) : j > i => b_events[j] \notin LinkEvents
       => (link <=> b_events[i] = "ETH_CONNECTED")

(* The interface is up when linkUp is set; an address is known to hasIp, or   *)
(* its event waits.                                                          *)
AddressTold ==
  /\ b_up = linkUp
  /\ ethIp => b_up
  /\ ethIp => hasIp \/ \E i \in 1..Len(b_events) : b_events[i] = "ETH_GOT_IP"

(* Of a driver nothing is known before it has said that it is started.        *)
StartFirst ==
  /\ pc = "start" => b_events = <<>> /\ ~netif /\ ~started /\ sta = "off"
  /\ ~started => ~linkUp /\ ~hasIp
  /\ ~started /\ ~netif => \A i \in 1..Len(b_events) : b_events[i] \notin LinkEvents \cup {"ETH_GOT_IP"}
  /\ ~started /\ netif => b_events # <<>> /\ b_events[1] = "ETH_START"

(* Whatever way app_main took to the services, it started one of the two.     *)
OneStarted ==
  /\ pc \in {"network", "network_ip", "web", "services", "ip"} => started \/ group
  /\ pc \in {"sta_wait", "fallback", "bits"} => group

Queue == b_events \in Seq(Boot!Events)

BootInv ==
  /\ BootFlags /\ BootTags /\ BootCounts /\ Queue
  /\ LinkTold /\ AddressTold /\ StartFirst /\ OneStarted

WifiEvents == {"STA_CONNECTED", "STA_DISCONNECTED", "STA_GOT_IP", "AP_START"}

(* The steps that leave the driver and its flags alone *)
Posting ==
  /\ UNCHANGED <<netif, link, b_up, ethIp, started, linkUp, hasIp>>
  /\ \E es \in Seq(WifiEvents) : b_events' = b_events \o es

LEMMA ConcatInSeq ==
  ASSUME NEW S, NEW s \in Seq(S), NEW e \in Seq(S)
  PROVE  /\ s \o e \in Seq(S)
         /\ Len(s \o e) = Len(s) + Len(e) /\ Len(s) \in Nat /\ Len(e) \in Nat
         /\ \A i \in 1..Len(s) : (s \o e)[i] = s[i]
         /\ \A i \in 1..Len(e) : (s \o e)[Len(s) + i] = e[i]
  OBVIOUS

LEMMA ResetsAreResets ==
  Boot!PostStation \/ Boot!WifiScan => Boot!Reset /\ posted' \in {posted, TRUE}
BY DEF Boot!PostStation, Boot!WifiScan

LEMMA BootShapes ==
  ASSUME Queue, Boot!Next
  PROVE  \/ Posting
         \/ Boot!NetworkInit /\ pc' = "link_wait"
         \/ Boot!LinkCheck \/ Boot!EthLease \/ Boot!HandleEvent
         \/ Boot!Reset
<1> USE DEF Boot!world, Boot!ethernet, Boot!state, Boot!wifi, Boot!flash
<1>0. \A e \in WifiEvents : <<e>> \in Seq(WifiEvents)
  OBVIOUS
<1>1. b_events = b_events \o <<>> /\ <<>> \in Seq(WifiEvents)
  BY DEF Queue
<1>2. ASSUME UNCHANGED <<netif, link, b_up, ethIp, started, linkUp, hasIp>>,
             b_events' = b_events
      PROVE  Posting
  BY <1>1, <1>2 DEF Posting
<1>3. ASSUME UNCHANGED <<netif, link, b_up, ethIp, started, linkUp, hasIp>>,
             NEW e \in WifiEvents, b_events' = b_events \o <<e>>
      PROVE  Posting
  BY <1>0, <1>3 DEF Posting
<1>4. CASE Boot!NetworkInit
  <2>1. CASE pc' = "link_wait"
    BY <1>4, <2>1
  <2>2. CASE pc' # "link_wait"
    <3>1. UNCHANGED <<netif, link, b_up, ethIp, started, linkUp, hasIp>> /\ b_events' = b_events
      BY <1>4, <2>2 DEF Boot!NetworkInit, Boot!Goto
    <3> QED
      BY <1>2, <3>1
  <2> QED
    BY <2>1, <2>2
<1>5. CASE Boot!EthernetWait \/ Boot!StationWait \/ Boot!FallbackBits \/ Boot!WaitForNetwork
           \/ Boot!NetworkIp \/ Boot!StartServices \/ Boot!WaitForIp
  BY <1>2, <1>5 DEF Boot!EthernetWait, Boot!StationWait, Boot!FallbackBits,
     Boot!WaitForNetwork, Boot!NetworkIp, Boot!StartServices, Boot!WaitForIp
<1>6. CASE Boot!SlotOnline \/ Boot!SlotRetries \/ Boot!Change
  BY <1>2, <1>6 DEF Boot!SlotOnline, Boot!SlotRetries, Boot!Change
<1>7. CASE Boot!WifiInit
  <2>1. UNCHANGED <<netif, link, b_up, ethIp, started, linkUp, hasIp>>
    BY <1>7 DEF Boot!WifiInit
  <2>2. b_events' = b_events \/ b_events' = b_events \o <<"AP_START">>
    BY <1>7 DEF Boot!WifiInit, Boot!Post
  <2>3. "AP_START" \in WifiEvents
    BY DEF WifiEvents
  <2> QED
    BY <1>2, <1>3, <2>1, <2>2, <2>3
<1>8. CASE Boot!FallbackMode
  <2>1. UNCHANGED <<netif, link, b_up, ethIp, started, linkUp, hasIp>>
    BY <1>8 DEF Boot!FallbackMode
  <2> DEFINE es == (IF sta = "off" THEN <<>> ELSE <<"STA_DISCONNECTED">>) \o <<"AP_START">>
  <2>2. b_events' = b_events \o es
    BY <1>8 DEF Boot!FallbackMode, Boot!Post
  <2>3. es \in Seq(WifiEvents)
    <3>1. <<"STA_DISCONNECTED">> \in Seq(WifiEvents) /\ <<"AP_START">> \in Seq(WifiEvents)
      BY <1>0 DEF WifiEvents
    <3> QED
      BY <1>1, <3>1, ConcatInSeq
  <2> QED
    BY <2>1, <2>2, <2>3 DEF Posting
<1>9. CASE Boot!StaJoins \/ Boot!StaLease \/ Boot!StaLoses
  <2>1. UNCHANGED <<netif, link, b_up, ethIp, started, linkUp, hasIp>>
    BY <1>9 DEF Boot!StaJoins, Boot!StaLease, Boot!StaLoses
  <2>2. PICK e \in WifiEvents : b_events' = b_events \o <<e>>
    BY <1>9 DEF Boot!StaJoins, Boot!StaLease, Boot!StaLoses, Boot!Post, WifiEvents
  <2> QED
    BY <1>3, <2>1, <2>2
<1> QED
  BY <1>4, <1>5, <1>6, <1>7, <1>8, <1>9, ResetsAreResets DEF Boot!Next, Boot!Main, Boot!Stack

LEMMA QueueStep ==
  ASSUME Queue, Boot!Next
  PROVE  Queue'
<1> USE DEF Queue
<1>0. \A e \in Boot!Events : <<e>> \in Seq(Boot!Events)
  OBVIOUS
<1>1. CASE Posting
  <2>1. PICK es \in Seq(WifiEvents) : b_events' = b_events \o es
    BY <1>1 DEF Posting
  <2>2. es \in Seq(Boot!Events)
    BY DEF WifiEvents, Boot!Events
  <2> QED
    BY <2>1, <2>2, ConcatInSeq
<1>2. CASE \E e \in Boot!Events : b_events' = b_events \o <<e>>
  BY <1>0, <1>2, ConcatInSeq
<1>3. Boot!NetworkInit /\ pc' = "link_wait" => b_events' = b_events \o <<"ETH_START">>
  BY DEF Boot!NetworkInit, Boot!Goto, Boot!Post
<1>4. Boot!LinkCheck => b_events' = b_events \o <<"ETH_CONNECTED">>
                        \/ b_events' = b_events \o <<"ETH_DISCONNECTED">>
  BY DEF Boot!LinkCheck, Boot!Post
<1>5. Boot!EthLease => b_events' = b_events \o <<"ETH_GOT_IP">>
  BY DEF Boot!EthLease, Boot!Post
<1>6. Boot!HandleEvent => b_events' \in Seq(Boot!Events)
  <2>1. Boot!HandleEvent => b_events # <<>> /\ b_events' = Tail(b_events)
    BY DEF Boot!HandleEvent, Boot!EthStart, Boot!EthConnected, Boot!EthDisconnected,
       Boot!EthGotIp, Boot!StaConnected, Boot!StaDisconnected, Boot!StaGotIp,
       Boot!ApStart, Boot!Take
  <2> QED
    BY <2>1, TailInSeq
<1>7. Boot!Reset => b_events' = <<>>
  BY DEF Boot!Reset
<1>8. {"ETH_START", "ETH_CONNECTED", "ETH_DISCONNECTED", "ETH_GOT_IP"} \subseteq Boot!Events
  BY DEF Boot!Events
<1>9. (Boot!NetworkInit /\ pc' = "link_wait") \/ Boot!LinkCheck \/ Boot!EthLease => Queue'
  BY <1>2, <1>3, <1>4, <1>5, <1>8
<1>10. <<>> \in Seq(Boot!Events)
  OBVIOUS
<1> QED
  BY <1>1, <1>6, <1>7, <1>9, <1>10, BootShapes

(* What a handler does depends on the event at the head. *)
LEMMA Handling ==
  ASSUME Queue, Boot!HandleEvent
  PROVE  /\ b_events # <<>> /\ b_events' = Tail(b_events)
         /\ UNCHANGED <<pc, netif, link, group, sta>>
         /\ linkUp' = IF b_events[1] = "ETH_CONNECTED" THEN TRUE
                      ELSE IF b_events[1] = "ETH_DISCONNECTED" THEN FALSE ELSE linkUp
         /\ b_up' = IF b_events[1] = "ETH_CONNECTED" THEN TRUE
                    ELSE IF b_events[1] = "ETH_DISCONNECTED" THEN FALSE ELSE b_up
         /\ ethIp' = IF b_events[1] = "ETH_DISCONNECTED" THEN FALSE ELSE ethIp
         /\ hasIp' = IF b_events[1] = "ETH_GOT_IP" THEN TRUE
                     ELSE IF b_events[1] = "ETH_DISCONNECTED" THEN FALSE ELSE hasIp
         /\ started' = IF b_events[1] = "ETH_START" THEN TRUE ELSE started
<1> USE DEF Boot!Take, Boot!state, Boot!FlagsOfLoss
<1>0. b_events # <<>> => Head(b_events) = b_events[1]
  BY TailInSeq DEF Queue
<1>1. CASE Boot!EthStart
  BY <1>0, <1>1 DEF Boot!EthStart
<1>2. CASE Boot!EthConnected
  BY <1>0, <1>2 DEF Boot!EthConnected
<1>3. CASE Boot!EthDisconnected
  BY <1>0, <1>3 DEF Boot!EthDisconnected
<1>4. CASE Boot!EthGotIp
  BY <1>0, <1>4 DEF Boot!EthGotIp
<1>5. CASE Boot!StaConnected \/ Boot!StaDisconnected \/ Boot!StaGotIp \/ Boot!ApStart
  BY <1>0, <1>5 DEF Boot!StaConnected, Boot!StaDisconnected, Boot!StaGotIp, Boot!ApStart
<1> QED
  BY <1>1, <1>2, <1>3, <1>4, <1>5 DEF Boot!HandleEvent

LEMMA LinkToldStep ==
  ASSUME Queue, LinkTold, BootFlags, Boot!Next
  PROVE  LinkTold'
<1> DEFINE n == Len(b_events)
<1>0. Queue' /\ n \in Nat
  BY QueueStep, SeqElements DEF Queue
<1>1. CASE Posting \/ Boot!EthLease \/ (Boot!NetworkInit /\ pc' = "link_wait")
  <2>1. link' = link /\ linkUp' = linkUp
    BY <1>1 DEF Posting, Boot!EthLease, Boot!NetworkInit, Boot!state, Boot!ethernet, Boot!Goto
  <2>2. PICK es \in Seq(WifiEvents \cup {"ETH_GOT_IP", "ETH_START"}) : b_events' = b_events \o es
    <3>1. CASE Posting
      BY <3>1 DEF Posting
    <3>2. CASE ~Posting
      <4>1. b_events' = b_events \o <<"ETH_GOT_IP">> \/ b_events' = b_events \o <<"ETH_START">>
        BY <1>1, <3>2 DEF Boot!EthLease, Boot!NetworkInit, Boot!Post, Boot!Goto
      <4> DEFINE S == WifiEvents \cup {"ETH_GOT_IP", "ETH_START"}
      <4>2. <<"ETH_GOT_IP">> \in Seq(S) /\ <<"ETH_START">> \in Seq(S)
        OBVIOUS
      <4> HIDE DEF S
      <4>3. \E es \in Seq(S) : b_events' = b_events \o es
        BY <4>1, <4>2
      <4> QED
        BY <4>3 DEF S
    <3> QED
      BY <3>1, <3>2
  <2>3. es \in Seq(Boot!Events)
    BY DEF WifiEvents, Boot!Events
  <2>4. /\ Len(b_events') = n + Len(es) /\ Len(es) \in Nat
        /\ \A i \in 1..n : b_events'[i] = b_events[i]
        /\ \A i \in 1..Len(es) : b_events'[n + i] = es[i]
    BY <2>2, <2>3, ConcatInSeq DEF Queue
  <2>5. \A i \in 1..Len(es) : es[i] \notin LinkEvents
    <3>1. \A i \in 1..Len(es) : es[i] \in WifiEvents \cup {"ETH_GOT_IP", "ETH_START"}
      BY SeqElements
    <3> QED
      BY <3>1 DEF WifiEvents, LinkEvents
  <2>6. \A i \in 1..Len(b_events') : i \in 1..n \/ b_events'[i] \notin LinkEvents
    <3> SUFFICES ASSUME NEW i \in 1..Len(b_events'), i \notin 1..n
                 PROVE  b_events'[i] \notin LinkEvents
      OBVIOUS
    <3>1. i - n \in 1..Len(es) /\ n + (i - n) = i
      BY <1>0, <2>4
    <3> QED
      BY <2>4, <2>5, <3>1
  <2>7. 1..n \subseteq 1..Len(b_events')
    BY <1>0, <2>4
  <2> HIDE DEF n
  <2> QED
    BY <2>1, <2>4, <2>6, <2>7 DEF LinkTold, n
<1>2. CASE Boot!LinkCheck
  <2> DEFINE e == IF cable THEN "ETH_CONNECTED" ELSE "ETH_DISCONNECTED"
  <2>1. b_events' = b_events \o <<e>> /\ link' = cable /\ linkUp' = linkUp
    BY <1>2 DEF Boot!LinkCheck, Boot!Post, Boot!state
  <2>2. e \in LinkEvents /\ (cable <=> e = "ETH_CONNECTED") /\ e \in Boot!Events
    BY DEF LinkEvents, Boot!Events
  <2> HIDE DEF e
  <2>3. <<e>> \in Seq(Boot!Events) /\ Len(<<e>>) = 1 /\ <<e>>[1] = e
    BY <2>2
  <2>4. /\ Len(b_events') = n + 1
        /\ \A i \in 1..Len(<<e>>) : b_events'[n + i] = <<e>>[i]
    BY <2>1, <2>3, ConcatInSeq DEF Queue
  <2>5. b_events'[n + 1] = e /\ n + 1 \in 1..Len(b_events')
    BY <1>0, <2>3, <2>4
  <2>6. \A i \in 1..Len(b_events') : i = n + 1 \/ n + 1 > i
    BY <1>0, <2>4
  <2> HIDE DEF n
  <2> QED
    BY <2>1, <2>2, <2>5, <2>6 DEF LinkTold
<1>3. CASE Boot!HandleEvent
  <2> DEFINE h == b_events[1]
  <2>1. /\ b_events # <<>> /\ b_events' = Tail(b_events) /\ link' = link
        /\ linkUp' = IF h = "ETH_CONNECTED" THEN TRUE
                     ELSE IF h = "ETH_DISCONNECTED" THEN FALSE ELSE linkUp
    BY <1>3, Handling
  <2>2. /\ n \in Nat \ {0} /\ Len(b_events') = n - 1
        /\ \A i \in 1..Len(b_events') : b_events'[i] = b_events[i + 1]
    BY <2>1, TailInSeq DEF Queue
  <2>3. \A i \in 1..Len(b_events') : i + 1 \in 1..n
    BY <2>2
  <2>4. \A j \in 1..n : j = 1 \/ (j - 1 \in 1..Len(b_events') /\ b_events'[j - 1] = b_events[j])
    <3> SUFFICES ASSUME NEW j \in 1..n, j # 1
                 PROVE  j - 1 \in 1..Len(b_events') /\ b_events'[j - 1] = b_events[j]
      OBVIOUS
    <3>1. j - 1 \in 1..Len(b_events') /\ (j - 1) + 1 = j
      BY <2>2
    <3> QED
      BY <2>2, <3>1
  <2>5. (\A i \in 1..Len(b_events') : b_events'[i] \notin LinkEvents) => linkUp' = link'
    <3> SUFFICES ASSUME \A i \in 1..Len(b_events') : b_events'[i] \notin LinkEvents
                 PROVE  linkUp' = link'
      OBVIOUS
    <3>1. \A j \in 1..n : j > 1 => b_events[j] \notin LinkEvents
      BY <2>4
    <3>2. 1 \in 1..n
      BY <2>2
    <3>3. CASE h \in LinkEvents
      <4>1. link <=> h = "ETH_CONNECTED"
        BY <3>1, <3>2, <3>3 DEF LinkTold
      <4> QED
        BY <2>1, <3>3, <4>1 DEF LinkEvents, BootFlags
    <3>4. CASE h \notin LinkEvents
      <4>1. \A j \in 1..n : b_events[j] \notin LinkEvents
        <5> SUFFICES ASSUME NEW j \in 1..n PROVE b_events[j] \notin LinkEvents
          OBVIOUS
        <5>1. j = 1 \/ j > 1
          OBVIOUS
        <5> QED
          BY <3>1, <3>4, <5>1
      <4>2. linkUp = link
        BY <4>1 DEF LinkTold
      <4> QED
        BY <2>1, <3>4, <4>2 DEF LinkEvents
    <3> QED
      BY <3>3, <3>4
  <2>6. ASSUME NEW i \in 1..Len(b_events'), b_events'[i] \in LinkEvents,
               \A j \in 1..Len(b_events') : j > i => b_events'[j] \notin LinkEvents
        PROVE  link' <=> b_events'[i] = "ETH_CONNECTED"
    <3>1. i + 1 \in 1..n /\ b_events[i + 1] \in LinkEvents
      BY <2>2, <2>3, <2>6
    <3>2. \A j \in 1..n : j > i + 1 => b_events[j] \notin LinkEvents
      <4> SUFFICES ASSUME NEW j \in 1..n, j > i + 1 PROVE b_events[j] \notin LinkEvents
        OBVIOUS
      <4>1. j # 1 /\ j - 1 > i
        OBVIOUS
      <4> QED
        BY <2>4, <2>6, <4>1
    <3>3. link <=> b_events[i + 1] = "ETH_CONNECTED"
      BY <3>1, <3>2 DEF LinkTold
    <3> QED
      BY <2>1, <2>2, <3>3
  <2> HIDE DEF n, h
  <2> QED
    BY <2>5, <2>6 DEF LinkTold
<1>4. CASE Boot!Reset
  <2>1. b_events' = <<>> /\ link' = FALSE /\ linkUp' = FALSE
    BY <1>4 DEF Boot!Reset
  <2>2. Len(b_events') = 0 /\ \A i \in 1..Len(b_events') : FALSE
    BY <2>1
  <2>3. linkUp' = link'
    BY <2>1
  <2> HIDE <2>1
  <2> QED
    BY <2>2, <2>3 DEF LinkTold
<1> QED
  BY <1>1, <1>2, <1>3, <1>4, BootShapes

LEMMA Prefix ==
  ASSUME Queue,
         Posting \/ (Boot!NetworkInit /\ pc' = "link_wait") \/ Boot!LinkCheck \/ Boot!EthLease
  PROVE  /\ Len(b_events) \in Nat /\ Len(b_events') \in Nat
         /\ 1..Len(b_events) \subseteq 1..Len(b_events')
         /\ \A i \in 1..Len(b_events) : b_events'[i] = b_events[i]
<1>1. PICK es \in Seq(Boot!Events) : b_events' = b_events \o es
  <2>1. CASE Posting
    <3>1. PICK es \in Seq(WifiEvents) : b_events' = b_events \o es
      BY <2>1 DEF Posting
    <3>2. es \in Seq(Boot!Events)
      BY DEF WifiEvents, Boot!Events
    <3> QED
      BY <3>1, <3>2
  <2>2. CASE ~Posting
    <3>1. \E e \in Boot!Events : b_events' = b_events \o <<e>>
      BY <2>2 DEF Boot!NetworkInit, Boot!LinkCheck, Boot!EthLease, Boot!Goto, Boot!Post,
         Boot!Events
    <3>2. \A e \in Boot!Events : <<e>> \in Seq(Boot!Events)
      OBVIOUS
    <3> QED
      BY <3>1, <3>2
  <2> QED
    BY <2>1, <2>2
<1>2. /\ Len(b_events') = Len(b_events) + Len(es)
      /\ Len(b_events) \in Nat /\ Len(es) \in Nat
      /\ \A i \in 1..Len(b_events) : b_events'[i] = b_events[i]
  BY <1>1, ConcatInSeq DEF Queue
<1> QED
  BY <1>2

LEMMA AddressToldStep ==
  ASSUME Queue, AddressTold, BootFlags, Boot!Next
  PROVE  AddressTold'
<1>1. CASE Posting \/ (Boot!NetworkInit /\ pc' = "link_wait") \/ Boot!LinkCheck
  <2>1. UNCHANGED <<b_up, linkUp, ethIp, hasIp>>
    BY <1>1 DEF Posting, Boot!NetworkInit, Boot!LinkCheck, Boot!state
  <2>2. 1..Len(b_events) \subseteq 1..Len(b_events')
        /\ \A i \in 1..Len(b_events) : b_events'[i] = b_events[i]
    BY <1>1, Prefix
  <2> QED
    BY <2>1, <2>2 DEF AddressTold
<1>2. CASE Boot!EthLease
  <2>1. /\ UNCHANGED <<b_up, linkUp, hasIp>> /\ b_up = TRUE /\ ethIp' = TRUE
        /\ b_events' = b_events \o <<"ETH_GOT_IP">>
    BY <1>2 DEF Boot!EthLease, Boot!Post, Boot!state, BootFlags
  <2>2. <<"ETH_GOT_IP">> \in Seq(Boot!Events) /\ Len(<<"ETH_GOT_IP">>) = 1
        /\ <<"ETH_GOT_IP">>[1] = "ETH_GOT_IP" /\ 1 \in 1..1
    BY DEF Boot!Events
  <2>3. /\ Len(b_events) \in Nat /\ Len(b_events') = Len(b_events) + 1
        /\ b_events'[Len(b_events) + 1] = "ETH_GOT_IP"
    BY <2>1, <2>2, ConcatInSeq DEF Queue
  <2>4. Len(b_events) + 1 \in 1..Len(b_events')
    BY <2>3
  <2>5. \E i \in 1..Len(b_events') : b_events'[i] = "ETH_GOT_IP"
    BY <2>3, <2>4
  <2> QED
    BY <2>1, <2>5 DEF AddressTold
<1>3. CASE Boot!HandleEvent
  <2> DEFINE h == b_events[1]
  <2>1. /\ b_events # <<>> /\ b_events' = Tail(b_events)
        /\ linkUp' = IF h = "ETH_CONNECTED" THEN TRUE
                     ELSE IF h = "ETH_DISCONNECTED" THEN FALSE ELSE linkUp
        /\ b_up' = IF h = "ETH_CONNECTED" THEN TRUE
                   ELSE IF h = "ETH_DISCONNECTED" THEN FALSE ELSE b_up
        /\ ethIp' = IF h = "ETH_DISCONNECTED" THEN FALSE ELSE ethIp
        /\ hasIp' = IF h = "ETH_GOT_IP" THEN TRUE
                    ELSE IF h = "ETH_DISCONNECTED" THEN FALSE ELSE hasIp
    BY <1>3, Handling
  <2>2. /\ Len(b_events) \in Nat \ {0} /\ Len(b_events') = Len(b_events) - 1
        /\ \A i \in 1..Len(b_events') : b_events'[i] = b_events[i + 1]
    BY <2>1, TailInSeq DEF Queue
  <2>3. b_up' = linkUp'
    BY <2>1 DEF AddressTold
  <2>4. ethIp' => b_up'
    BY <2>1 DEF AddressTold
  <2>5. ASSUME ethIp', ~hasIp' PROVE \E i \in 1..Len(b_events') : b_events'[i] = "ETH_GOT_IP"
    <3>1. ethIp /\ ~hasIp /\ h # "ETH_GOT_IP"
      BY <2>1, <2>5
    <3>2. PICK i \in 1..Len(b_events) : b_events[i] = "ETH_GOT_IP"
      BY <3>1 DEF AddressTold
    <3>3. i # 1
      BY <3>1, <3>2
    <3>4. i - 1 \in 1..Len(b_events') /\ (i - 1) + 1 = i
      BY <2>2, <3>3
    <3>5. b_events'[i - 1] = "ETH_GOT_IP"
      BY <2>2, <3>2, <3>4
    <3> QED
      BY <3>4, <3>5
  <2> QED
    BY <2>3, <2>4, <2>5 DEF AddressTold
<1>4. CASE Boot!Reset
  BY <1>4 DEF Boot!Reset, AddressTold
<1> QED
  BY <1>1, <1>2, <1>3, <1>4, BootShapes

LEMMA AtStart ==
  ASSUME Queue, AddressTold, StartFirst, Boot!Next, ~Boot!Reset, pc' = "start"
  PROVE  pc = "start" /\ UNCHANGED <<b_events, netif, started, sta>>
<1> USE DEF Boot!Goto, Boot!ethernet, Boot!state, Boot!wifi
<1>1. ~Boot!Main
  BY DEF Boot!Main, Boot!NetworkInit, Boot!EthernetWait, Boot!WifiInit, Boot!StationWait,
     Boot!FallbackMode, Boot!FallbackBits, Boot!WaitForNetwork, Boot!NetworkIp,
     Boot!StartServices, Boot!WaitForIp
<1>2. CASE Boot!SlotOnline \/ Boot!SlotRetries \/ Boot!Change
  <2>1. UNCHANGED <<pc, b_events, netif, started, sta>>
    BY <1>2 DEF Boot!SlotOnline, Boot!SlotRetries, Boot!Change
  <2> QED
    BY <2>1
<1>3. ~Boot!HandleEvent
  BY Handling DEF StartFirst
<1>4. ~Boot!Stack
  <2>1. Boot!Stack => pc = "start"
    BY DEF Boot!Stack, Boot!LinkCheck, Boot!EthLease, Boot!StaJoins, Boot!StaLease, Boot!StaLoses
  <2>2. pc = "start" => ~netif /\ ~b_up /\ sta = "off"
    BY DEF StartFirst, AddressTold
  <2> QED
    BY <2>1, <2>2 DEF Boot!Stack, Boot!LinkCheck, Boot!EthLease, Boot!StaJoins, Boot!StaLease,
       Boot!StaLoses
<1> QED
  BY <1>1, <1>2, <1>3, <1>4, ResetsAreResets DEF Boot!Next

LEMMA StartFirstStep ==
  ASSUME Queue, AddressTold, BootFlags, StartFirst, Boot!Next
  PROVE  StartFirst'
<1>0. ~Boot!Reset /\ pc' = "start" =>
        b_events' = <<>> /\ ~netif' /\ ~started' /\ sta' = "off"
  BY AtStart DEF StartFirst
<1>1. CASE Boot!Reset
  BY <1>1 DEF Boot!Reset, StartFirst
<1>2. CASE Boot!HandleEvent
  <2>1. /\ b_events # <<>> /\ b_events' = Tail(b_events)
        /\ UNCHANGED <<pc, netif, link, group, sta>>
        /\ linkUp' = IF b_events[1] = "ETH_CONNECTED" THEN TRUE
                     ELSE IF b_events[1] = "ETH_DISCONNECTED" THEN FALSE ELSE linkUp
        /\ hasIp' = IF b_events[1] = "ETH_GOT_IP" THEN TRUE
                    ELSE IF b_events[1] = "ETH_DISCONNECTED" THEN FALSE ELSE hasIp
        /\ started' = IF b_events[1] = "ETH_START" THEN TRUE ELSE started
    BY <1>2, Handling
  <2>2. /\ Len(b_events) \in Nat \ {0} /\ Len(b_events') = Len(b_events) - 1
        /\ \A i \in 1..Len(b_events') : b_events'[i] = b_events[i + 1]
    BY <2>1, TailInSeq DEF Queue
  <2>3. pc' # "start"
    BY <2>1 DEF StartFirst
  <2>4. CASE started'
    BY <2>3, <2>4 DEF StartFirst
  <2>5. CASE ~started'
    <3>1. ~started /\ ~netif
      BY <2>1, <2>5 DEF StartFirst
    <3>2. \A i \in 1..Len(b_events) : b_events[i] \notin LinkEvents \cup {"ETH_GOT_IP"}
      BY <3>1 DEF StartFirst
    <3>3. 1 \in 1..Len(b_events) /\ \A i \in 1..Len(b_events') : i + 1 \in 1..Len(b_events)
      BY <2>2
    <3>4. \A i \in 1..Len(b_events') : b_events'[i] \notin LinkEvents \cup {"ETH_GOT_IP"}
      BY <2>2, <3>2, <3>3
    <3>5. ~linkUp' /\ ~hasIp'
      BY <2>1, <3>1, <3>2, <3>3 DEF StartFirst, LinkEvents
    <3> QED
      BY <2>1, <2>3, <3>1, <3>4, <3>5 DEF StartFirst
  <2> QED
    BY <2>4, <2>5
<1>3. CASE Posting /\ ~Boot!Reset
  <2>1. PICK es \in Seq(WifiEvents) : b_events' = b_events \o es
    BY <1>3 DEF Posting
  <2>2. es \in Seq(Boot!Events)
    BY DEF WifiEvents, Boot!Events
  <2>3. /\ Len(b_events') = Len(b_events) + Len(es) /\ Len(es) \in Nat /\ Len(b_events) \in Nat
        /\ \A i \in 1..Len(b_events) : b_events'[i] = b_events[i]
        /\ \A i \in 1..Len(es) : b_events'[Len(b_events) + i] = es[i]
    BY <2>1, <2>2, ConcatInSeq DEF Queue
  <2>4. \A i \in 1..Len(es) : es[i] \notin LinkEvents \cup {"ETH_GOT_IP"}
    <3>1. \A i \in 1..Len(es) : es[i] \in WifiEvents
      BY SeqElements
    <3> QED
      BY <3>1 DEF WifiEvents, LinkEvents
  <2>5. (\A i \in 1..Len(b_events) : b_events[i] \notin LinkEvents \cup {"ETH_GOT_IP"})
        => \A i \in 1..Len(b_events') : b_events'[i] \notin LinkEvents \cup {"ETH_GOT_IP"}
    <3> SUFFICES ASSUME \A i \in 1..Len(b_events) : b_events[i] \notin LinkEvents \cup {"ETH_GOT_IP"},
                        NEW i \in 1..Len(b_events')
                 PROVE  b_events'[i] \notin LinkEvents \cup {"ETH_GOT_IP"}
      OBVIOUS
    <3>1. CASE i \in 1..Len(b_events)
      BY <2>3, <3>1
    <3>2. CASE i \notin 1..Len(b_events)
      <4>1. i - Len(b_events) \in 1..Len(es) /\ Len(b_events) + (i - Len(b_events)) = i
        BY <2>3, <3>2
      <4> QED
        BY <2>3, <2>4, <4>1
    <3> QED
      BY <3>1, <3>2
  <2>6. b_events # <<>> => b_events' # <<>> /\ b_events'[1] = b_events[1]
    <3> SUFFICES ASSUME b_events # <<>> PROVE b_events' # <<>> /\ b_events'[1] = b_events[1]
      OBVIOUS
    <3>1. 1 \in 1..Len(b_events) /\ Len(b_events') # 0
      BY <2>3, TailInSeq DEF Queue
    <3> QED
      BY <2>3, <3>1
  <2>7. UNCHANGED <<netif, started, linkUp, hasIp>>
    BY <1>3 DEF Posting
  <2>8. pc' = "start" => b_events' = <<>> /\ ~netif' /\ ~started' /\ sta' = "off"
    BY <1>0, <1>3
  <2> QED
    BY <2>5, <2>6, <2>7, <2>8 DEF StartFirst
<1>4. CASE Boot!NetworkInit /\ pc' = "link_wait"
  <2>1. /\ b_events' = <<>> \o <<"ETH_START">> /\ UNCHANGED <<started, linkUp, hasIp>>
        /\ ~started /\ netif'
    BY <1>4 DEF Boot!NetworkInit, Boot!Goto, Boot!Post, Boot!state, StartFirst
  <2>2. b_events' # <<>> /\ b_events'[1] = "ETH_START"
    BY <2>1
  <2> QED
    BY <1>4, <2>1, <2>2 DEF StartFirst
<1>5. CASE (Boot!LinkCheck \/ Boot!EthLease) /\ ~Boot!Reset
  <2>1. /\ UNCHANGED <<netif, started, linkUp, hasIp>>
        /\ ~started => netif
    BY <1>5 DEF Boot!LinkCheck, Boot!EthLease, Boot!state, Boot!ethernet, StartFirst, AddressTold
  <2>2. b_events # <<>> => b_events' # <<>> /\ b_events'[1] = b_events[1]
    <3> SUFFICES ASSUME b_events # <<>> PROVE b_events' # <<>> /\ b_events'[1] = b_events[1]
      OBVIOUS
    <3>1. 1 \in 1..Len(b_events)
      BY TailInSeq DEF Queue
    <3>2. 1 \in 1..Len(b_events') /\ b_events'[1] = b_events[1]
      BY <1>5, <3>1, Prefix
    <3> QED
      BY <3>2
  <2>3. pc' = "start" => b_events' = <<>> /\ ~netif' /\ ~started' /\ sta' = "off"
    BY <1>0, <1>5
  <2> QED
    BY <2>1, <2>2, <2>3 DEF StartFirst
<1> QED
  BY <1>1, <1>2, <1>3, <1>4, <1>5, BootShapes

LEMMA OneStartedStep ==
  ASSUME OneStarted, StartFirst, BootFlags, Queue, Boot!Next
  PROVE  OneStarted'
<1> USE DEF OneStarted, Boot!Goto, Boot!state, Boot!wifi
<1>1. CASE UNCHANGED <<pc, group>> /\ (started => started')
  BY <1>1
<1>2. CASE Boot!NetworkInit \/ Boot!StationWait
  BY <1>2 DEF Boot!NetworkInit, Boot!StationWait
<1>3. CASE Boot!EthernetWait
  <2>1. hasIp => started
    BY DEF StartFirst
  <2> QED
    BY <1>3, <2>1 DEF Boot!EthernetWait
<1>4. CASE Boot!WifiInit
  BY <1>4 DEF Boot!WifiInit
<1>5. CASE Boot!FallbackMode \/ Boot!FallbackBits
  BY <1>5 DEF Boot!FallbackMode, Boot!FallbackBits
<1>6. CASE Boot!WaitForNetwork \/ Boot!NetworkIp
  BY <1>6 DEF Boot!WaitForNetwork, Boot!NetworkIp
<1>7. CASE Boot!StartServices \/ Boot!WaitForIp
  BY <1>7 DEF Boot!StartServices, Boot!WaitForIp
<1>8. CASE Boot!HandleEvent
  BY <1>1, <1>8, Handling
<1>9. CASE Boot!SlotOnline \/ Boot!SlotRetries \/ Boot!Change \/ Boot!Stack
  <2>1. UNCHANGED <<pc, group, started>>
    BY <1>9 DEF Boot!SlotOnline, Boot!SlotRetries, Boot!Change, Boot!Stack, Boot!LinkCheck,
       Boot!EthLease, Boot!StaJoins, Boot!StaLease, Boot!StaLoses
  <2> QED
    BY <1>1, <2>1
<1>10. CASE Boot!Reset
  BY <1>10 DEF Boot!Reset
<1> QED
  BY <1>2, <1>3, <1>4, <1>5, <1>6, <1>7, <1>8, <1>9, <1>10, ResetsAreResets
  DEF Boot!Next, Boot!Main

LEMMA BootFlagsStep ==
  ASSUME BootFlags, Boot!Next
  PROVE  BootFlags'
<1> DEFINE
      World == <<cable, lease, coverage, saved, posted>>
      Eth   == <<netif, link, b_up, ethIp>>
      State == <<started, linkUp, hasIp>>
      Wifi  == <<group, staUp, portal, b_lost>>
<1> USE DEF Boot!Goto, Boot!world, Boot!ethernet, Boot!state, Boot!wifi, Boot!flash
<1>1. CASE UNCHANGED <<World, Eth, State, Wifi>>
  BY <1>1 DEF BootFlags
<1>2. Boot!EthernetWait \/ Boot!StationWait \/ Boot!FallbackBits \/ Boot!WaitForNetwork
      \/ Boot!NetworkIp \/ Boot!StartServices \/ Boot!WaitForIp \/ Boot!SlotOnline
      \/ Boot!SlotRetries \/ Boot!StaLease => UNCHANGED <<World, Eth, State, Wifi>>
  BY DEF Boot!EthernetWait, Boot!StationWait, Boot!FallbackBits, Boot!WaitForNetwork,
     Boot!NetworkIp, Boot!StartServices, Boot!WaitForIp, Boot!SlotOnline, Boot!SlotRetries,
     Boot!StaLease
<1>3. CASE Boot!NetworkInit
  <2>1. UNCHANGED <<World, link, b_up, ethIp, State, Wifi>>
    BY <1>3 DEF Boot!NetworkInit
  <2>2. netif' = netif \/ netif' = TRUE
    BY <1>3 DEF Boot!NetworkInit
  <2>3. netif' \in BOOLEAN
    BY <2>2 DEF BootFlags
  <2> QED
    BY <2>1, <2>3 DEF BootFlags
<1>4. CASE Boot!WifiInit
  <2>1. UNCHANGED <<World, Eth, State, staUp, b_lost>>
    BY <1>4 DEF Boot!WifiInit
  <2>2. group' = TRUE /\ (portal' = portal \/ portal' = TRUE)
    BY <1>4 DEF Boot!WifiInit
  <2>3. group' \in BOOLEAN /\ portal' \in BOOLEAN
    BY <2>2 DEF BootFlags
  <2> QED
    BY <2>1, <2>3 DEF BootFlags
<1>5. CASE Boot!FallbackMode
  <2>1. UNCHANGED <<World, Eth, State, group, portal, b_lost>>
    BY <1>5 DEF Boot!FallbackMode
  <2>2. staUp' = FALSE
    BY <1>5 DEF Boot!FallbackMode
  <2>3. staUp' \in BOOLEAN
    BY <2>2 DEF BootFlags
  <2> QED
    BY <2>1, <2>3 DEF BootFlags
<1>6. CASE Boot!HandleEvent
  <2> USE DEF Boot!Take
  <2>1. UNCHANGED <<World, netif, link, group, portal, b_lost>>
    BY <1>6 DEF Boot!HandleEvent, Boot!EthStart, Boot!EthConnected, Boot!EthDisconnected,
       Boot!EthGotIp, Boot!StaConnected, Boot!StaDisconnected, Boot!StaGotIp, Boot!ApStart
  <2>2. /\ b_up' \in {b_up, TRUE, FALSE} /\ ethIp' \in {ethIp, FALSE}
        /\ started' \in {started, TRUE} /\ linkUp' \in {linkUp, TRUE, FALSE}
        /\ hasIp' \in {hasIp, TRUE, FALSE} /\ staUp' \in {staUp, TRUE, FALSE}
    <3>1. CASE Boot!EthStart \/ Boot!EthConnected
      BY <3>1 DEF Boot!EthStart, Boot!EthConnected
    <3>2. CASE Boot!EthDisconnected \/ Boot!EthGotIp
      BY <3>2 DEF Boot!EthDisconnected, Boot!FlagsOfLoss, Boot!EthGotIp
    <3>3. CASE Boot!StaConnected \/ Boot!StaDisconnected
      BY <3>3 DEF Boot!StaConnected, Boot!StaDisconnected
    <3>4. CASE Boot!StaGotIp \/ Boot!ApStart
      BY <3>4 DEF Boot!StaGotIp, Boot!ApStart
    <3> QED
      BY <1>6, <3>1, <3>2, <3>3, <3>4 DEF Boot!HandleEvent
  <2>3. b_up' \in BOOLEAN /\ ethIp' \in BOOLEAN /\ started' \in BOOLEAN
        /\ linkUp' \in BOOLEAN /\ hasIp' \in BOOLEAN /\ staUp' \in BOOLEAN
    BY <2>2 DEF BootFlags
  <2> QED
    BY <2>1, <2>3 DEF BootFlags
<1>7. CASE Boot!LinkCheck
  <2>1. UNCHANGED <<World, netif, b_up, ethIp, State, Wifi>> /\ link' = cable
    BY <1>7 DEF Boot!LinkCheck
  <2> QED
    BY <2>1 DEF BootFlags
<1>8. CASE Boot!EthLease
  <2>1. UNCHANGED <<World, netif, link, b_up, State, Wifi>> /\ ethIp' = TRUE
    BY <1>8 DEF Boot!EthLease
  <2> QED
    BY <2>1 DEF BootFlags
<1>9. CASE Boot!StaJoins \/ Boot!StaLoses
  <2>1. UNCHANGED <<World, Eth, State, group, staUp, portal>>
    BY <1>9 DEF Boot!StaJoins, Boot!StaLoses
  <2>2. b_lost' = b_lost \/ b_lost' = TRUE
    BY <1>9 DEF Boot!StaJoins, Boot!StaLoses
  <2>3. b_lost' \in BOOLEAN
    BY <2>2 DEF BootFlags
  <2> QED
    BY <2>1, <2>3 DEF BootFlags
<1>10. CASE Boot!Change
  <2>1. UNCHANGED <<lease, saved, posted, Eth, State, Wifi>>
    BY <1>10 DEF Boot!Change
  <2>2. cable' \in {cable, ~cable} /\ coverage' \in {coverage, ~coverage}
    BY <1>10 DEF Boot!Change
  <2>3. cable' \in BOOLEAN /\ coverage' \in BOOLEAN
    BY <2>2 DEF BootFlags
  <2> QED
    BY <2>1, <2>3 DEF BootFlags
<1>11. CASE Boot!Reset /\ posted' \in {posted, TRUE}
  <2>1. UNCHANGED <<cable, lease, coverage, saved>> /\ posted' \in {posted, TRUE}
    BY <1>11 DEF Boot!Reset
  <2>2. /\ netif' = FALSE /\ link' = FALSE /\ b_up' = FALSE /\ ethIp' = FALSE
        /\ started' = FALSE /\ linkUp' = FALSE /\ hasIp' = FALSE
        /\ group' = FALSE /\ staUp' = FALSE /\ portal' = FALSE /\ b_lost' = FALSE
    BY <1>11 DEF Boot!Reset
  <2> QED
    BY <2>1, <2>2 DEF BootFlags
<1> QED
  BY <1>1, <1>2, <1>3, <1>4, <1>5, <1>6, <1>7, <1>8, <1>9, <1>10, <1>11, ResetsAreResets
  DEF Boot!Next, Boot!Main, Boot!Stack

LEMMA BootTagsStep ==
  ASSUME BootTags, Boot!Next
  PROVE  BootTags'
<1> USE DEF BootTags, Boot!Goto, Boot!wifi, Boot!Places, Boot!Bits
<1>1. CASE Boot!NetworkInit \/ Boot!EthernetWait
  BY <1>1 DEF Boot!NetworkInit, Boot!EthernetWait
<1>2. CASE Boot!WifiInit \/ Boot!StationWait
  BY <1>2 DEF Boot!WifiInit, Boot!StationWait
<1>3. CASE Boot!FallbackMode \/ Boot!FallbackBits
  BY <1>3 DEF Boot!FallbackMode, Boot!FallbackBits, Boot!FallbackSetsMode
<1>4. CASE Boot!WaitForNetwork \/ Boot!NetworkIp
  BY <1>4 DEF Boot!WaitForNetwork, Boot!NetworkIp
<1>5. CASE Boot!StartServices \/ Boot!WaitForIp
  BY <1>5 DEF Boot!StartServices, Boot!WaitForIp
<1>6. CASE Boot!SlotOnline \/ Boot!SlotRetries
  BY <1>6 DEF Boot!SlotOnline, Boot!SlotRetries
<1>7. CASE Boot!HandleEvent
  <2> USE DEF Boot!Take
  <2>1. CASE Boot!EthStart \/ Boot!EthConnected \/ Boot!EthGotIp
    BY <2>1 DEF Boot!EthStart, Boot!EthConnected, Boot!EthGotIp
  <2>2. CASE Boot!EthDisconnected
    BY <2>2 DEF Boot!EthDisconnected, Boot!FlagsOfLoss
  <2>3. CASE Boot!StaConnected \/ Boot!StaDisconnected
    BY <2>3 DEF Boot!StaConnected, Boot!StaDisconnected
  <2>4. CASE Boot!StaGotIp \/ Boot!ApStart
    BY <2>4 DEF Boot!StaGotIp, Boot!ApStart
  <2> QED
    BY <1>7, <2>1, <2>2, <2>3, <2>4 DEF Boot!HandleEvent
<1>8. CASE Boot!LinkCheck \/ Boot!EthLease
  BY <1>8 DEF Boot!LinkCheck, Boot!EthLease
<1>9. CASE Boot!StaJoins \/ Boot!StaLease \/ Boot!StaLoses
  BY <1>9 DEF Boot!StaJoins, Boot!StaLease, Boot!StaLoses
<1>10. CASE Boot!Change
  BY <1>10 DEF Boot!Change
<1>11. CASE Boot!Reset /\ posted' \in {posted, TRUE}
  BY <1>11 DEF Boot!Reset
<1> QED
  BY <1>1, <1>2, <1>3, <1>4, <1>5, <1>6, <1>7, <1>8, <1>9, <1>10, <1>11, ResetsAreResets
  DEF Boot!Next, Boot!Main, Boot!Stack

LEMMA BootCountsStep ==
  ASSUME BootCounts, Boot!Next
  PROVE  BootCounts'
<1> USE DEF BootCounts, Boot!world
<1>1. BootChanges \in Nat /\ BootResets \in Nat
  BY MCAssumption DEF Boot!BootAssumption
<1>2. CASE UNCHANGED <<changes, resets>>
  BY <1>2
<1>3. Boot!Main => UNCHANGED <<changes, resets>>
  BY DEF Boot!Main, Boot!NetworkInit, Boot!EthernetWait, Boot!WifiInit, Boot!StationWait,
     Boot!FallbackMode, Boot!FallbackBits, Boot!WaitForNetwork, Boot!NetworkIp,
     Boot!StartServices, Boot!WaitForIp
<1>4. Boot!SlotOnline \/ Boot!SlotRetries \/ Boot!Stack => UNCHANGED <<changes, resets>>
  BY DEF Boot!SlotOnline, Boot!SlotRetries, Boot!Stack, Boot!LinkCheck, Boot!EthLease,
     Boot!StaJoins, Boot!StaLease, Boot!StaLoses
<1>5. Boot!HandleEvent => UNCHANGED <<changes, resets>>
  BY DEF Boot!HandleEvent, Boot!EthStart, Boot!EthConnected, Boot!EthDisconnected,
     Boot!EthGotIp, Boot!StaConnected, Boot!StaDisconnected, Boot!StaGotIp,
     Boot!ApStart, Boot!Take
<1>6. CASE Boot!Change
  BY <1>1, <1>6 DEF Boot!Change
<1>7. CASE Boot!Reset
  BY <1>1, <1>7 DEF Boot!Reset
<1> QED
  BY <1>2, <1>3, <1>4, <1>5, <1>6, <1>7, ResetsAreResets DEF Boot!Next

LEMMA BootStart == MCInit => BootInv
<1> SUFFICES ASSUME MCInit PROVE BootInv
  OBVIOUS
<1>1. Boot!Init
  BY DEF MCInit
<1>2. BootFlags /\ BootTags
  <2>1. BootFlags
    BY <1>1 DEF Boot!Init, BootFlags
  <2>2. BootTags
    BY <1>1 DEF Boot!Init, BootTags, Boot!Places, Boot!Bits
  <2> QED
    BY <2>1, <2>2
<1>3. BootCounts
  BY <1>1, MCAssumption DEF Boot!Init, BootCounts, Boot!BootAssumption
<1>4. Queue /\ b_events = <<>>
  BY <1>1 DEF Boot!Init, Queue
<1>5. \A i \in 1..Len(b_events) : FALSE
  BY <1>4
<1>6. LinkTold
  BY <1>1, <1>5 DEF Boot!Init, LinkTold
<1>7. AddressTold /\ StartFirst /\ OneStarted
  BY <1>1, <1>5 DEF Boot!Init, AddressTold, StartFirst, OneStarted
<1> QED
  BY <1>2, <1>3, <1>4, <1>6, <1>7 DEF BootInv

LEMMA BootStep ==
  ASSUME BootInv, [MCNext]_allVars
  PROVE  BootInv'
<1>1. CASE Boot!Next
  BY <1>1, BootFlagsStep, BootTagsStep, BootCountsStep, QueueStep, LinkToldStep, AddressToldStep,
     StartFirstStep, OneStartedStep DEF BootInv
<1>2. CASE UNCHANGED bootVars
  BY <1>2 DEF bootVars, BootInv, BootFlags, BootTags, BootCounts, Queue, LinkTold, AddressTold,
     StartFirst, OneStarted
<1> QED
  BY <1>1, <1>2 DEF MCNext, allVars

LEMMA BootIsSound == BootInv => BootSound
<1> SUFFICES ASSUME BootInv PROVE BootSound
  OBVIOUS
<1> USE DEF BootInv
<1>1. Boot!TypeOK
  <2>1. BootFlags /\ BootTags
    OBVIOUS
  <2>2. \A b \in {cable, lease, coverage, netif, link, b_up, ethIp, started, linkUp, hasIp,
                  group, staUp, portal, saved, posted, b_lost} : b \in BOOLEAN
    BY <2>1 DEF BootFlags
  <2>3. {cable, lease, coverage, netif, link, b_up, ethIp, started, linkUp, hasIp,
         group, staUp, portal, saved, posted, b_lost} \subseteq BOOLEAN
    BY ONLY <2>2
  <2> QED
    BY <2>1, <2>3 DEF Boot!TypeOK, BootFlags, BootTags, BootCounts, Queue
<1>2. Boot!FlagsCatchUp
  <2> SUFFICES ASSUME b_events = <<>> PROVE linkUp = link /\ (ethIp => Boot!EthernetReady)
    BY DEF Boot!FlagsCatchUp
  <2>1. \A i \in 1..Len(b_events) : FALSE
    OBVIOUS
  <2> QED
    BY <2>1 DEF LinkTold, AddressTold, StartFirst, Boot!EthernetReady
<1>3. Boot!NeverBlindWait
  BY DEF Boot!NeverBlindWait, OneStarted
<1> QED
  BY <1>1, <1>2, <1>3 DEF BootSound

(* Wherever cable, coverage and resets change and however the events queue up, *)
(* app_main never waits for an address nothing was started for, and a handled  *)
(* queue leaves network_state.c with the driver's link and address             *)
(* (network_init, wifi_init, wait_for_ip; the handlers in ethernet_events).     *)
THEOREM BootSoundCorrect == MCSpec => []BootSound
<1>1. MCInit => BootInv
  BY BootStart
<1>2. BootInv /\ [MCNext]_allVars => BootInv'
  BY BootStep
<1>3. BootInv => BootSound
  BY BootIsSound
<1> QED
  BY <1>1, <1>2, <1>3, PTL DEF MCSpec

-----------------------------------------------------------------------------
(* The socket client *)

ClientTags ==
  /\ c_place \in {"delay", "connect", "message", "read", "error", "shutdown", "close",
                 "clear"}
  /\ handler \in {"idle", "write", "destroy", "shutdown", "close", "clear"}

(* The message is freed once for each send and once for each error, of which *)
(* there is one at most before the next allocation.                          *)
ClientCounts ==
  /\ attempts \in 0..ClientAttempts /\ waited \in Nat
  /\ frees \in 0..2
  /\ c_place \in {"connect", "message"} => frees = 0
  /\ c_place = "read" => frees = 1
  /\ c_place \in {"error", "shutdown", "close", "clear"} => frees \in 0..1

(* What is open is in sock, or was put there while the event task had closed  *)
(* another connection and not cleared sock yet.  Where a task has closed what *)
(* is in sock, only such a connection is open, and so it is before the next   *)
(* attempt.                                                                  *)
ClientSockets ==
  /\ conns \in 0..ClientConns /\ sock \in -3..ClientConns
  /\ open \subseteq {sock} \union late /\ open \subseteq 1..conns
  /\ Len(peer) = conns /\ Len(first) = conns
  /\ peer \in Seq({"up", "eof", "rst"}) /\ first \in Seq({"none", "message", "data"})
  /\ c_place \in {"delay", "connect", "clear"} \/ handler = "clear" => open \subseteq late

ClientInv == ClientTags /\ ClientCounts /\ ClientSockets

LEMMA ClientBounds == ClientConns \in Nat /\ ClientAttempts \in Nat
  BY MCAssumption DEF Client!ClientAssumption

(* retry.c's table is never indexed outside of it: a delay is a number. *)
LEMMA DelayIsNat == \A n \in Nat : Client!Delay(n) \in Nat
<1>1. Len(Client!delays) = 16 /\ \A i \in 1..16 : Client!delays[i] \in Nat
  BY DEF Client!delays
<1>2. /\ \A i \in 1..1 : Client!delays[i] < Client!ShortDelay
      /\ 1 < Len(Client!delays) => Client!delays[2] >= Client!ShortDelay
  BY DEF Client!delays, Client!ShortDelay
<1>3. \E k \in 0..Len(Client!delays) :
        /\ \A i \in 1..k : Client!delays[i] < Client!ShortDelay
        /\ k < Len(Client!delays) => Client!delays[k + 1] >= Client!ShortDelay
  <2>1. 1 \in 0..Len(Client!delays)
    BY <1>1
  <2> QED
    BY <1>2, <2>1
<1>4. Client!Offset \in 0..16
  BY <1>1, <1>3 DEF Client!Offset
<1> HIDE DEF Client!delays
<1> SUFFICES ASSUME NEW n \in Nat PROVE Client!Delay(n) \in Nat
  OBVIOUS
<1>5. CASE n >= Client!ShortCount /\ n - Client!ShortCount + Client!Offset < Len(Client!delays)
  <2>1. n - Client!ShortCount + Client!Offset + 1 \in 1..16
    BY <1>1, <1>4, <1>5 DEF Client!ShortCount
  <2> QED
    BY <1>1, <1>5, <2>1 DEF Client!Delay, Client!ShortCount, Client!ShortDelay
<1>6. CASE ~(n >= Client!ShortCount /\ n - Client!ShortCount + Client!Offset < Len(Client!delays))
  BY <1>1, <1>4, <1>6 DEF Client!Delay, Client!ShortCount, Client!ShortDelay
<1> QED
  BY <1>5, <1>6

LEMMA NoSocket == {-1, -2, -3} \subseteq -3..ClientConns
<1>1. -1 \in -3..ClientConns /\ -2 \in -3..ClientConns
  BY ClientBounds
<1>2. -3 \in -3..ClientConns
  BY ClientBounds
<1> QED
  BY <1>1, <1>2

LEMMA ClientTagsStep ==
  ASSUME ClientTags, Client!Next
  PROVE  ClientTags'
<1> USE DEF ClientTags, Client!Goto
<1>1. CASE Client!RetryDelay \/ Client!Connect \/ Client!ConnectFails
  BY <1>1 DEF Client!RetryDelay, Client!Connect, Client!ConnectFails
<1>2. CASE Client!SendMessage \/ Client!OnError
  BY <1>2 DEF Client!SendMessage, Client!OnError, Client!TaskDestroys,
     Client!TaskShutsDown, Client!TaskCloses, Client!TaskEnds
<1>3. CASE Client!ReadFails \/ Client!Abort \/ Client!PeerCloses
  BY <1>3 DEF Client!ReadFails, Client!Abort, Client!PeerCloses
<1>4. CASE Client!Handler
  BY <1>4 DEF Client!Handler, Client!HandlerChecks, Client!HandlerWrites,
     Client!HandlerDestroys, Client!HandlerShutsDown, Client!HandlerCloses,
     Client!HandlerClears
<1> QED
  BY <1>1, <1>2, <1>3, <1>4 DEF Client!Next, Client!Task

LEMMA ClientCountsStep ==
  ASSUME ClientTags, ClientCounts, Client!Next
  PROVE  ClientCounts'
<1> USE ClientBounds DEF ClientTags, ClientCounts, Client!Goto
<1>1. CASE Client!RetryDelay
  <2>1. waited' \in Nat
    BY <1>1, DelayIsNat DEF Client!RetryDelay
  <2> QED
    BY <1>1, <2>1 DEF Client!RetryDelay
<1>2. CASE Client!Connect \/ Client!ConnectFails \/ Client!ReadFails
  BY <1>2 DEF Client!Connect, Client!ConnectFails, Client!ReadFails
<1>3. CASE Client!SendMessage \/ Client!OnError
  BY <1>3 DEF Client!SendMessage, Client!OnError, Client!TaskDestroys,
     Client!TaskShutsDown, Client!TaskCloses, Client!TaskEnds
<1>4. CASE Client!Abort \/ Client!PeerCloses
  BY <1>4 DEF Client!Abort, Client!PeerCloses
<1>5. CASE Client!Handler
  BY <1>5 DEF Client!Handler, Client!HandlerChecks, Client!HandlerWrites,
     Client!HandlerDestroys, Client!HandlerShutsDown, Client!HandlerCloses,
     Client!HandlerClears
<1> QED
  BY <1>1, <1>2, <1>3, <1>4, <1>5 DEF Client!Next, Client!Task

LEMMA ClientSocketsStep ==
  ASSUME ClientTags, ClientSockets, Client!Next
  PROVE  ClientSockets'
<1> USE ClientBounds DEF ClientTags, Client!Goto, Client!network
<1>0. ClientSockets
  OBVIOUS
<1>1. CASE Client!RetryDelay \/ Client!ReadFails
  BY <1>0, <1>1 DEF Client!RetryDelay, Client!ReadFails, ClientSockets
<1>2. CASE Client!Connect
  <2>1. /\ conns < ClientConns /\ conns' = conns + 1 /\ sock' = conns' /\ c_place = "connect"
        /\ open' = open \union {conns'} /\ c_place' = "message" /\ handler' = handler
        /\ peer' = Append(peer, "up") /\ first' = Append(first, "none")
        /\ late \subseteq late' /\ (handler = "clear" => conns' \in late')
    BY <1>2 DEF Client!Connect
  <2>2. Len(peer') = conns' /\ Len(first') = conns'
        /\ peer' \in Seq({"up", "eof", "rst"}) /\ first' \in Seq({"none", "message", "data"})
    BY <1>0, <2>1, AppendInSeq DEF ClientSockets
  <2>3. open \subseteq late /\ open \subseteq 1..conns
    BY <1>0, <2>1 DEF ClientSockets
  <2>4. conns \in Nat /\ conns' \in 0..ClientConns /\ conns' \in 1..conns'
    BY <1>0, <2>1 DEF ClientSockets
  <2> QED
    BY <2>1, <2>2, <2>3, <2>4 DEF ClientSockets
<1>3. CASE Client!ConnectFails
  <2>1. /\ sock' \in {-1, -2, -3} /\ UNCHANGED <<conns, open, peer, first, handler, late>>
        /\ open \subseteq late
    BY <1>0, <1>3 DEF Client!ConnectFails, ClientSockets
  <2>2. sock' \in -3..ClientConns
    BY <2>1, NoSocket
  <2> QED
    BY <1>0, <2>1, <2>2 DEF ClientSockets
<1>4. ASSUME NEW w \in {"none", "message", "data"}, Client!Write(w)
      PROVE  first' \in Seq({"none", "message", "data"}) /\ Len(first') = Len(first)
  <2>1. first \in Seq({"none", "message", "data"})
    BY <1>0 DEF ClientSockets
  <2>2. PICK e \in {"none", "message", "data"} : first' = [first EXCEPT ![sock] = e]
    <3>1. CASE first[sock] = "none"
      BY <1>4, <3>1 DEF Client!Write
    <3>2. CASE first[sock] # "none"
      <4>1. first' = [first EXCEPT ![sock] = first[sock]]
        BY <1>4, <3>2 DEF Client!Write
      <4>2. CASE sock \in 1..Len(first)
        <5>1. first[sock] \in {"none", "message", "data"}
          BY <2>1, <4>2, SeqElements
        <5> QED
          BY <4>1, <5>1
      <4>3. CASE sock \notin 1..Len(first)
        <5>1. first' = first /\ first = [first EXCEPT ![sock] = "none"]
          BY <2>1, <4>1, <4>3
        <5> QED
          BY <5>1
      <4> QED
        BY <4>2, <4>3
    <3> QED
      BY <3>1, <3>2
  <2> QED
    BY <2>1, <2>2, ExceptInSeq
<1>5. CASE Client!SendMessage
  <2>1. /\ UNCHANGED <<sock, conns, open, peer, handler, late>> /\ c_place' \in {"read", "error"}
        /\ first' = first \/ Client!Write("message")
    BY <1>5 DEF Client!SendMessage
  <2>2. first' \in Seq({"none", "message", "data"}) /\ Len(first') = Len(first)
    BY <1>0, <1>4, <2>1 DEF ClientSockets
  <2> QED
    BY <1>0, <2>1, <2>2 DEF ClientSockets
<1>16. ASSUME Client!ShutDown
      PROVE  peer' \in Seq({"up", "eof", "rst"}) /\ Len(peer') = Len(peer)
  <2>1. peer \in Seq({"up", "eof", "rst"})
    BY <1>0 DEF ClientSockets
  <2>2. peer' = peer \/ peer' = [peer EXCEPT ![sock] = "rst"]
    BY <1>16 DEF Client!ShutDown
  <2>3. "rst" \in {"up", "eof", "rst"}
    OBVIOUS
  <2> QED
    BY <2>1, <2>2, <2>3, ExceptInSeq
<1>6. CASE Client!OnError
  <2>1. CASE Client!TaskDestroys
    BY <1>0, <2>1 DEF Client!TaskDestroys, ClientSockets
  <2>2. CASE Client!TaskShutsDown
    <3>1. UNCHANGED <<sock, conns, open, first, handler, late>> /\ c_place' = "close"
      BY <2>2 DEF Client!TaskShutsDown
    <3>2. peer' \in Seq({"up", "eof", "rst"}) /\ Len(peer') = Len(peer)
      BY <1>16, <2>2 DEF Client!TaskShutsDown
    <3> QED
      BY <1>0, <3>1, <3>2 DEF ClientSockets
  <2>3. CASE Client!TaskCloses
    BY <1>0, <2>3 DEF Client!TaskCloses, Client!Close, ClientSockets
  <2>4. CASE Client!TaskEnds
    <3>1. UNCHANGED <<conns, open, peer, first, handler, late>>
      BY <2>4 DEF Client!TaskEnds
    <3>2. open \subseteq late
      BY <1>0, <2>4 DEF Client!TaskEnds, ClientSockets
    <3>3. sock' \in -3..ClientConns
      BY <1>0, <2>4, NoSocket DEF Client!TaskEnds, ClientSockets
    <3> QED
      BY <1>0, <3>1, <3>2, <3>3 DEF ClientSockets
  <2> QED
    BY <1>6, <2>1, <2>2, <2>3, <2>4 DEF Client!OnError
<1>7. CASE Client!Abort
  BY <1>0, <1>7 DEF Client!Abort, ClientSockets
<1>8. CASE Client!HandlerChecks
  BY <1>0, <1>8 DEF Client!HandlerChecks, ClientSockets
<1>9. CASE Client!HandlerWrites
  <2>1. /\ UNCHANGED <<c_place, sock, conns, open, late>> /\ handler' # "clear"
        /\ first' = first \/ Client!Write("data")
        /\ peer' = peer \/ peer' = [peer EXCEPT ![sock] = IF @ = "eof" THEN "rst" ELSE @]
    BY <1>9 DEF Client!HandlerWrites
  <2>2. first' \in Seq({"none", "message", "data"}) /\ Len(first') = Len(first)
    BY <1>0, <1>4, <2>1 DEF ClientSockets
  <2>3. peer' \in Seq({"up", "eof", "rst"}) /\ Len(peer') = Len(peer)
    BY <1>0, <2>1 DEF ClientSockets
  <2> QED
    BY <1>0, <2>1, <2>2, <2>3 DEF ClientSockets
<1>10. CASE Client!HandlerDestroys
  BY <1>0, <1>10 DEF Client!HandlerDestroys, ClientSockets
<1>13. CASE Client!HandlerShutsDown
  <2>1. UNCHANGED <<c_place, sock, conns, open, first, late>> /\ handler' = "close"
    BY <1>13 DEF Client!HandlerShutsDown
  <2>2. peer' \in Seq({"up", "eof", "rst"}) /\ Len(peer') = Len(peer)
    BY <1>16, <1>13 DEF Client!HandlerShutsDown
  <2> QED
    BY <1>0, <2>1, <2>2 DEF ClientSockets
<1>14. CASE Client!HandlerCloses
  BY <1>0, <1>14 DEF Client!HandlerCloses, Client!Close, ClientSockets
<1>15. CASE Client!HandlerClears
  <2>1. /\ UNCHANGED <<c_place, conns, open, peer, first, late>> /\ sock' = -1
        /\ handler = "clear"
    BY <1>15 DEF Client!HandlerClears
  <2>2. open \subseteq late /\ sock' \in -3..ClientConns
    BY <1>0, <2>1, NoSocket DEF ClientSockets
  <2> QED
    BY <1>0, <2>1, <2>2 DEF ClientSockets
<1>11. CASE Client!PeerCloses
  <2>1. PICK c \in open, how \in {"eof", "rst"} : peer' = [peer EXCEPT ![c] = how]
    BY <1>11 DEF Client!PeerCloses
  <2>2. peer' \in Seq({"up", "eof", "rst"}) /\ Len(peer') = Len(peer)
    BY <1>0, <2>1 DEF ClientSockets
  <2>3. UNCHANGED <<c_place, sock, conns, open, first, handler, late>>
    BY <1>11 DEF Client!PeerCloses
  <2> QED
    BY <1>0, <2>2, <2>3 DEF ClientSockets
<1> QED
  BY <1>1, <1>2, <1>3, <1>5, <1>6, <1>7, <1>8, <1>9, <1>10, <1>11, <1>13, <1>14, <1>15
  DEF Client!Next, Client!Task, Client!Handler

LEMMA ClientStart == MCInit => ClientInv
<1> SUFFICES ASSUME MCInit PROVE ClientInv
  OBVIOUS
<1>1. Client!Init
  BY DEF MCInit
<1> QED
  BY <1>1, ClientBounds DEF Client!Init, ClientInv, ClientTags, ClientCounts, ClientSockets

LEMMA ClientStep ==
  ASSUME ClientInv, [MCNext]_allVars
  PROVE  ClientInv'
<1>1. CASE Client!Next
  BY <1>1, ClientTagsStep, ClientCountsStep, ClientSocketsStep DEF ClientInv
<1>2. CASE UNCHANGED clientVars
  BY <1>2 DEF clientVars, ClientInv, ClientTags, ClientCounts, ClientSockets
<1> QED
  BY <1>1, <1>2 DEF MCNext, allVars

LEMMA ClientSound == ClientInv => Client!TypeOK /\ Client!NoSocketLeft
  BY DEF ClientInv, ClientTags, ClientCounts, ClientSockets, Client!TypeOK, Client!NoSocketLeft

-----------------------------------------------------------------------------
(* The fan-out of correction data *)

FanoutFlags == enabled \in BOOLEAN /\ stopReq \in BOOLEAN

(* The flag enabled stands for one task, from its start until it has left its *)
(* loop and cleared it.                                                      *)
OneTask ==
  /\ looping \in Nat /\ leaving \in Nat
  /\ looping + leaving = IF enabled THEN 1 ELSE 0
  /\ enabled => user >= 1

FanoutCounts == user \in 0..FanoutCalls /\ fed \in 0..FedMessages

Piece == Nat \X {1, 2}

SlotTypes ==
  /\ run \in [FanoutSlots -> {"off", "wait", "stream", "closed"}]
  /\ buf \in [FanoutSlots -> Seq(Piece)] /\ held \in [FanoutSlots -> Seq(Piece)]
  /\ c_wire \in [FanoutSlots -> Seq(Piece)]
  /\ dropped \in [FanoutSlots -> Nat] /\ clean \in [FanoutSlots -> BOOLEAN]

(* The place of a piece in the order of all *)
Nth(p) == 2 * p[1] + p[2]
Mark == 2 * fed + 2

(* The pieces of q are in order, behind lo and up to hi. *)
Span(q, lo, hi) ==
  /\ lo <= hi
  /\ \A i \in 1..Len(q) : lo < Nth(q[i]) /\ Nth(q[i]) <= hi
  /\ \A i, j \in 1..Len(q) : i < j => Nth(q[i]) < Nth(q[j])

(* q is the messages a + 1 to b, whole. *)
Chain(q, a, b) ==
  \/ q = <<>> /\ a = b
  \/ /\ q # <<>> /\ q[1] = <<a + 1, 1>> /\ q[Len(q)] = <<b, 2>>
     /\ \A i \in 1..(Len(q) - 1) : Fanout!Follows(q[i], q[i + 1])

(* What the caster has, what the task holds and what the buffer holds follow  *)
(* upon each other; as long as nothing was left over, cut or dropped, without *)
(* a gap.                                                                    *)
Ordered(s) == \E a, b \in 0..Mark :
  Span(c_wire[s], 0, a) /\ Span(held[s], a, b) /\ Span(buf[s], b, Mark)

Unbroken(s) ==
  clean[s] /\ dropped[s] = 0 =>
    /\ run[s] = "stream" => \E a, b, c \in 0..fed :
         Chain(c_wire[s], a, b) /\ Chain(held[s], b, c) /\ Chain(buf[s], c, fed)
    /\ run[s] = "closed" => \E a, b \in 0..fed : Chain(c_wire[s], a, b)

SlotInv(s) ==
  /\ Len(buf[s]) <= BufferRoom /\ dropped[s] <= fed
  /\ run[s] \in {"off", "wait"} => held[s] = <<>> /\ c_wire[s] = <<>>
  /\ Ordered(s) /\ Unbroken(s)

FanoutInv ==
  FanoutFlags /\ OneTask /\ FanoutCounts /\ SlotTypes /\ \A s \in FanoutSlots : SlotInv(s)

LEMMA FanoutBounds ==
  /\ BufferRoom \in Nat \ {0} /\ FedMessages \in Nat /\ FanoutCalls \in Nat
<1>1. \A n \in {BufferRoom, FedMessages, FanoutCalls} : n \in Nat
  BY MCAssumption DEF Fanout!FanoutAssumption
<1> QED
  BY <1>1, MCAssumption DEF Fanout!FanoutAssumption

LEMMA NthIsNat == \A p \in Piece : Nth(p) \in Nat
  BY DEF Piece, Nth

LEMMA NthOfPiece == \A p, q \in Piece : Nth(p) < Nth(q) => Fanout!Before(p, q)
  BY DEF Piece, Nth, Fanout!Before

LEMMA ConcatOfSeq ==
  ASSUME NEW S, NEW q \in Seq(S), NEW r \in Seq(S)
  PROVE  /\ q \o r \in Seq(S) /\ Len(q \o r) = Len(q) + Len(r)
         /\ Len(q) \in Nat /\ Len(r) \in Nat
         /\ \A i \in 1..Len(q) : (q \o r)[i] = q[i]
         /\ \A i \in 1..Len(r) : (q \o r)[Len(q) + i] = r[i]
         /\ \A i \in 1..Len(q \o r) : i \in 1..Len(q) \/ i - Len(q) \in 1..Len(r)
         /\ \A i \in 1..Len(q \o r) : i - Len(q) \in 1..Len(r) =>
              (q \o r)[i] = r[i - Len(q)]
<1>1. /\ q \o r \in Seq(S) /\ Len(q \o r) = Len(q) + Len(r)
      /\ Len(q) \in Nat /\ Len(r) \in Nat
      /\ \A i \in 1..Len(q) : (q \o r)[i] = q[i]
      /\ \A i \in 1..Len(r) : (q \o r)[Len(q) + i] = r[i]
  OBVIOUS
<1> QED
  BY <1>1

LEMMA SpanEmpty ==
  ASSUME NEW a \in Nat, NEW b \in Nat, a <= b
  PROVE  Span(<<>>, a, b)
<1>1. \A i \in 1..Len(<<>>) : FALSE
  OBVIOUS
<1> QED
  BY <1>1 DEF Span

LEMMA SpanWiden ==
  ASSUME NEW q \in Seq(Piece), NEW a \in Nat, NEW b \in Nat, NEW c \in Nat, NEW d \in Nat,
         Span(q, b, c), a <= b, c <= d
  PROVE  Span(q, a, d)
<1>1. \A i \in 1..Len(q) : Nth(q[i]) \in Nat
  BY NthIsNat, SeqElements
<1> QED
  BY <1>1 DEF Span

LEMMA SpanConcat ==
  ASSUME NEW q \in Seq(Piece), NEW r \in Seq(Piece),
         NEW a \in Nat, NEW b \in Nat, NEW c \in Nat, Span(q, a, b), Span(r, b, c)
  PROVE  Span(q \o r, a, c)
<1> DEFINE t == q \o r
<1>1. /\ t \in Seq(Piece) /\ Len(t) = Len(q) + Len(r) /\ Len(q) \in Nat /\ Len(r) \in Nat
      /\ \A i \in 1..Len(q) : t[i] = q[i]
      /\ \A i \in 1..Len(t) : i \in 1..Len(q) \/ i - Len(q) \in 1..Len(r)
      /\ \A i \in 1..Len(t) : i - Len(q) \in 1..Len(r) => t[i] = r[i - Len(q)]
  BY ConcatOfSeq
<1>2. /\ \A i \in 1..Len(q) : Nth(q[i]) \in Nat
      /\ \A i \in 1..Len(r) : Nth(r[i]) \in Nat
      /\ \A i \in 1..Len(t) : Nth(t[i]) \in Nat
  BY <1>1, NthIsNat, SeqElements
<1> HIDE DEF t
<1>3. ASSUME NEW i \in 1..Len(t)
      PROVE  a < Nth(t[i]) /\ Nth(t[i]) <= c
  <2>1. CASE i \in 1..Len(q)
    <3>1. a < Nth(q[i]) /\ Nth(q[i]) <= b /\ b <= c /\ t[i] = q[i]
      BY <1>1, <2>1 DEF Span
    <3>2. Nth(q[i]) \in Nat
      BY <1>2, <2>1
    <3> QED
      BY <3>1, <3>2
  <2>2. CASE i - Len(q) \in 1..Len(r)
    <3>1. b < Nth(r[i - Len(q)]) /\ Nth(r[i - Len(q)]) <= c /\ a <= b
      BY <2>2 DEF Span
    <3>2. Nth(r[i - Len(q)]) \in Nat /\ t[i] = r[i - Len(q)]
      BY <1>1, <1>2, <2>2
    <3> QED
      BY <3>1, <3>2
  <2> QED
    BY <1>1, <2>1, <2>2
<1>4. ASSUME NEW i \in 1..Len(t), NEW j \in 1..Len(t), i < j
      PROVE  Nth(t[i]) < Nth(t[j])
  <2>1. CASE i \in 1..Len(q) /\ j \in 1..Len(q)
    BY <1>1, <1>4, <2>1 DEF Span
  <2>2. CASE i \in 1..Len(q) /\ j - Len(q) \in 1..Len(r)
    <3>1. Nth(q[i]) <= b /\ b < Nth(r[j - Len(q)])
      BY <2>2 DEF Span
    <3>2. Nth(q[i]) \in Nat /\ Nth(r[j - Len(q)]) \in Nat
      BY <1>2, <2>2
    <3>3. t[i] = q[i] /\ t[j] = r[j - Len(q)]
      BY <1>1, <2>2
    <3> QED
      BY <3>1, <3>2, <3>3
  <2>3. CASE i - Len(q) \in 1..Len(r)
    <3>1. j - Len(q) \in 1..Len(r) /\ i - Len(q) < j - Len(q)
      BY <1>1, <1>4, <2>3
    <3>2. t[i] = r[i - Len(q)] /\ t[j] = r[j - Len(q)]
      BY <1>1, <2>3, <3>1
    <3> QED
      BY <2>3, <3>1, <3>2 DEF Span
  <2> QED
    BY <1>1, <2>1, <2>2, <2>3
<1>5. a <= c
  BY DEF Span
<1>6. Span(t, a, c)
  BY <1>3, <1>4, <1>5 DEF Span
<1> QED
  BY <1>6 DEF t

(* A write that takes only k pieces is still in order. *)
LEMMA SpanPart ==
  ASSUME NEW q \in Seq(Piece), NEW k \in 0..Len(q), NEW a \in Nat, NEW b \in Nat,
         Span(q, a, b)
  PROVE  SubSeq(q, 1, k) \in Seq(Piece) /\ Span(SubSeq(q, 1, k), a, b)
<1> DEFINE t == SubSeq(q, 1, k)
<1>1. t \in Seq(Piece) /\ Len(t) = k /\ \A i \in 1..k : t[i] = q[i]
  OBVIOUS
<1>2. k \in Nat /\ \A i \in 1..k : i \in 1..Len(q)
  BY SeqElements
<1> HIDE DEF t
<1>3. Span(t, a, b)
  BY <1>1, <1>2 DEF Span
<1> QED
  BY <1>1, <1>3 DEF t

LEMMA ChainConcat ==
  ASSUME NEW q \in Seq(Piece), NEW r \in Seq(Piece),
         NEW a \in Nat, NEW b \in Nat, NEW c \in Nat, Chain(q, a, b), Chain(r, b, c)
  PROVE  Chain(q \o r, a, c)
<1>1. CASE q = <<>>
  <2>1. q \o r = r /\ a = b
    BY <1>1 DEF Chain
  <2> QED
    BY <2>1
<1>2. CASE r = <<>>
  <2>1. q \o r = q /\ b = c
    BY <1>2 DEF Chain
  <2> QED
    BY <2>1
<1>3. CASE q # <<>> /\ r # <<>>
  <2> DEFINE t == q \o r
  <2>1. /\ t \in Seq(Piece) /\ Len(t) = Len(q) + Len(r)
        /\ \A i \in 1..Len(q) : t[i] = q[i]
        /\ \A i \in 1..Len(t) : i \in 1..Len(q) \/ i - Len(q) \in 1..Len(r)
        /\ \A i \in 1..Len(t) : i - Len(q) \in 1..Len(r) => t[i] = r[i - Len(q)]
    BY ConcatOfSeq
  <2>2. Len(q) \in Nat \ {0} /\ Len(r) \in Nat \ {0}
    BY <1>3, TailInSeq
  <2> HIDE DEF t
  <2>3. /\ q[1] = <<a + 1, 1>> /\ q[Len(q)] = <<b, 2>>
        /\ \A i \in 1..(Len(q) - 1) : Fanout!Follows(q[i], q[i + 1])
    BY <1>3 DEF Chain
  <2>4. /\ r[1] = <<b + 1, 1>> /\ r[Len(r)] = <<c, 2>>
        /\ \A i \in 1..(Len(r) - 1) : Fanout!Follows(r[i], r[i + 1])
    BY <1>3 DEF Chain
  <2>5. t # <<>> /\ t[1] = <<a + 1, 1>>
    <3>1. 1 \in 1..Len(q) /\ Len(t) # 0
      BY <2>1, <2>2
    <3> QED
      BY <2>1, <2>3, <3>1
  <2>6. t[Len(t)] = <<c, 2>>
    <3>1. Len(t) \in 1..Len(t) /\ Len(t) - Len(q) = Len(r) /\ Len(r) \in 1..Len(r)
      BY <2>1, <2>2
    <3> QED
      BY <2>1, <2>4, <3>1
  <2>7. ASSUME NEW i \in 1..(Len(t) - 1) PROVE Fanout!Follows(t[i], t[i + 1])
    <3>1. CASE i < Len(q)
      <4>1. i \in 1..Len(q) /\ i + 1 \in 1..Len(q) /\ i \in 1..(Len(q) - 1)
        BY <2>1, <2>2, <3>1
      <4> QED
        BY <2>1, <2>3, <4>1
    <3>2. CASE i = Len(q)
      <4>1. i \in 1..Len(q) /\ i + 1 \in 1..Len(t) /\ i + 1 - Len(q) = 1 /\ 1 \in 1..Len(r)
        BY <2>1, <2>2, <3>2
      <4>2. t[i] = q[Len(q)] /\ t[i + 1] = r[i + 1 - Len(q)]
        BY <2>1, <3>2, <4>1
      <4>3. t[i] = <<b, 2>> /\ t[i + 1] = <<b + 1, 1>>
        BY <2>3, <2>4, <4>1, <4>2
      <4> QED
        BY <4>3 DEF Fanout!Follows
    <3>3. CASE i > Len(q)
      <4>1. /\ i \in 1..Len(t) /\ i + 1 \in 1..Len(t)
            /\ i - Len(q) \in 1..(Len(r) - 1) /\ i - Len(q) \in 1..Len(r)
            /\ i + 1 - Len(q) \in 1..Len(r) /\ i + 1 - Len(q) = (i - Len(q)) + 1
        BY <2>1, <2>2, <3>3
      <4>2. t[i] = r[i - Len(q)] /\ t[i + 1] = r[(i - Len(q)) + 1]
        BY <2>1, <4>1
      <4> QED
        BY <2>4, <4>1, <4>2
    <3> QED
      BY <2>2, <3>1, <3>2, <3>3
  <2>8. Chain(t, a, c)
    BY <2>5, <2>6, <2>7 DEF Chain
  <2> QED
    BY <2>8 DEF t
<1> QED
  BY <1>1, <1>2, <1>3

(* What is fed: message n, the pieces of it that fit *)
LEMMA Fed ==
  ASSUME NEW n \in Nat, NEW k \in 0..2
  PROVE  LET p == SubSeq(Fanout!Pieces(n + 1), 1, k) IN
         /\ p \in Seq(Piece) /\ Len(p) = k
         /\ Span(p, 2 * n + 2, 2 * (n + 1) + 2)
         /\ k = 2 => Chain(p, n, n + 1)
<1> DEFINE m == Fanout!Pieces(n + 1)
<1>1. /\ m \in Seq(Piece) /\ Len(m) = 2 /\ m[1] = <<n + 1, 1>> /\ m[2] = <<n + 1, 2>>
  BY DEF Fanout!Pieces, Piece
<1>2. Nth(m[1]) = 2 * n + 3 /\ Nth(m[2]) = 2 * n + 4
  BY <1>1 DEF Nth
<1> HIDE DEF m
<1>3. \A i \in 1..Len(m) : i = 1 \/ i = 2
  BY <1>1
<1>4. Span(m, 2 * n + 2, 2 * (n + 1) + 2)
  <2> DEFINE lo == 2 * n + 2
  <2>1. /\ lo \in Nat /\ 2 * (n + 1) + 2 = lo + 2
        /\ Nth(m[1]) = lo + 1 /\ Nth(m[2]) = lo + 2
    BY <1>2
  <2> HIDE DEF lo
  <2>2. \A i \in 1..Len(m) : lo < Nth(m[i]) /\ Nth(m[i]) <= lo + 2
    BY <1>3, <2>1
  <2>3. \A i, j \in 1..Len(m) : i < j => i = 1 /\ j = 2
    BY <1>3
  <2>4. Span(m, lo, lo + 2)
    BY <2>1, <2>2, <2>3 DEF Span
  <2> QED
    BY <2>1, <2>4 DEF lo
<1>5. SubSeq(m, 1, k) \in Seq(Piece) /\ Len(SubSeq(m, 1, k)) = k
  BY <1>1
<1>6. Span(SubSeq(m, 1, k), 2 * n + 2, 2 * (n + 1) + 2)
  BY <1>1, <1>4, SpanPart
<1>7. ASSUME k = 2 PROVE Chain(SubSeq(m, 1, k), n, n + 1)
  <2>1. SubSeq(m, 1, 2) = m
    BY <1>1
  <2>2. \A i \in 1..(Len(m) - 1) : Fanout!Follows(m[i], m[i + 1])
    BY <1>1 DEF Fanout!Follows
  <2>3. m # <<>> /\ m[Len(m)] = <<n + 1, 2>>
    BY <1>1
  <2> QED
    BY <1>1, <1>7, <2>1, <2>2, <2>3 DEF Chain
<1> QED
  BY <1>5, <1>6, <1>7 DEF m

LEMMA FanoutFlagsStep ==
  ASSUME FanoutFlags, Fanout!Next
  PROVE  FanoutFlags'
<1> USE DEF FanoutFlags, Fanout!generator
<1>1. CASE Fanout!FakeStart \/ Fanout!FakeStartFails \/ Fanout!FakeStop
  BY <1>1 DEF Fanout!FakeStart, Fanout!FakeStartFails, Fanout!FakeStop, Fanout!StartUnlessEnabled
<1>2. CASE Fanout!Generator
  BY <1>2 DEF Fanout!Generator, Fanout!FakeLeaves, Fanout!FakeEnds
<1>3. CASE Fanout!UartData \/ Fanout!FakeSends \/ Fanout!RestartAll
  BY <1>3 DEF Fanout!UartData, Fanout!FakeSends, Fanout!RestartAll
<1>4. ASSUME NEW s \in FanoutSlots, Fanout!Slot(s) PROVE FanoutFlags'
  BY <1>4 DEF Fanout!Slot, Fanout!SlotStarts, Fanout!SlotConnects, Fanout!SlotReceives,
     Fanout!SlotWrites, Fanout!SlotFails, Fanout!SlotStops
<1> QED
  BY <1>1, <1>2, <1>3, <1>4 DEF Fanout!Next

LEMMA OneTaskStep ==
  ASSUME OneTask, FanoutFlags, FanoutCounts, Fanout!Next
  PROVE  OneTask' /\ FanoutCounts'
<1> USE FanoutBounds DEF OneTask, FanoutFlags, FanoutCounts, Fanout!generator
<1>1. CASE Fanout!FakeStart
  BY <1>1 DEF Fanout!FakeStart, Fanout!StartUnlessEnabled
<1>2. CASE Fanout!FakeStartFails \/ Fanout!FakeStop
  BY <1>2 DEF Fanout!FakeStartFails, Fanout!FakeStop
<1>3. CASE Fanout!FakeLeaves
  BY <1>3 DEF Fanout!FakeLeaves
<1>4. CASE Fanout!FakeEnds
  BY <1>4 DEF Fanout!FakeEnds
<1>5. CASE Fanout!UartData \/ Fanout!FakeSends
  BY <1>5 DEF Fanout!UartData, Fanout!FakeSends, Fanout!Fanout
<1>6. CASE Fanout!RestartAll
  BY <1>6 DEF Fanout!RestartAll
<1>7. ASSUME NEW s \in FanoutSlots, Fanout!Slot(s) PROVE OneTask' /\ FanoutCounts'
  BY <1>7 DEF Fanout!Slot, Fanout!SlotStarts, Fanout!SlotConnects, Fanout!SlotReceives,
     Fanout!SlotWrites, Fanout!SlotFails, Fanout!SlotStops
<1> QED
  BY <1>1, <1>2, <1>3, <1>4, <1>5, <1>6, <1>7 DEF Fanout!Next, Fanout!Generator

(* What a message adds to the buffer of a slot *)
LEMMA FanoutAdds ==
  ASSUME FanoutCounts, SlotTypes, NEW s \in FanoutSlots, Len(buf[s]) <= BufferRoom,
         Fanout!Fanout, run[s] # "off"
  PROVE  /\ Fanout!Taken(s) \in 0..2
         /\ dropped'[s] = dropped[s] + (IF Fanout!Taken(s) < 2 THEN 1 ELSE 0)
         /\ \E p \in Seq(Piece) :
              /\ buf'[s] = buf[s] \o p /\ Len(p) = Fanout!Taken(s)
              /\ Len(buf[s]) + Len(p) <= BufferRoom
              /\ Span(p, 2 * fed + 2, 2 * (fed + 1) + 2)
              /\ Fanout!Taken(s) = 2 => Chain(p, fed, fed + 1)
<1> DEFINE k == Fanout!Taken(s)
<1>1. Len(buf[s]) \in Nat
  BY DEF SlotTypes
<1>2. k \in 0..2 /\ Len(buf[s]) + k <= BufferRoom
  <2>1. Len(buf[s]) \in 0..BufferRoom /\ BufferRoom \in Nat
    BY <1>1, FanoutBounds
  <2>2. k = IF BufferRoom - Len(buf[s]) >= 2 THEN 2 ELSE BufferRoom - Len(buf[s])
    BY DEF Fanout!Taken
  <2>3. \A j : \A n \in 0..BufferRoom :
          j = (IF BufferRoom - n >= 2 THEN 2 ELSE BufferRoom - n)
            => j \in 0..2 /\ n + j <= BufferRoom
    BY <2>1
  <2> QED
    BY <2>1, <2>2, <2>3
<1> DEFINE p == SubSeq(Fanout!Pieces(fed + 1), 1, k)
<1>3. fed \in Nat /\ fed' = fed + 1
  BY DEF FanoutCounts, Fanout!Fanout
<1>4. buf'[s] = buf[s] \o p /\ dropped'[s] = dropped[s] + (IF k < 2 THEN 1 ELSE 0)
  <2>1. buf' = [r \in FanoutSlots |->
                  IF run[r] = "off" THEN buf[r]
                  ELSE buf[r] \o SubSeq(Fanout!Pieces(fed'), 1, Fanout!Taken(r))]
    BY DEF Fanout!Fanout
  <2>2. dropped' = [r \in FanoutSlots |->
                      IF run[r] = "off" THEN dropped[r]
                      ELSE dropped[r] + Fanout!CountDrop(Fanout!Taken(r))]
    BY DEF Fanout!Fanout
  <2> QED
    BY <1>3, <2>1, <2>2 DEF Fanout!CountDrop
<1>5. /\ p \in Seq(Piece) /\ Len(p) = k /\ Span(p, 2 * fed + 2, 2 * (fed + 1) + 2)
      /\ k = 2 => Chain(p, fed, fed + 1)
  BY <1>2, <1>3, Fed
<1> HIDE DEF k, p
<1>6. \E q \in Seq(Piece) :
        /\ buf'[s] = buf[s] \o q /\ Len(q) = k /\ Len(buf[s]) + Len(q) <= BufferRoom
        /\ Span(q, 2 * fed + 2, 2 * (fed + 1) + 2) /\ (k = 2 => Chain(q, fed, fed + 1))
  BY <1>2, <1>4, <1>5
<1> QED
  BY <1>2, <1>4, <1>6 DEF k

LEMMA SlotTypesStep ==
  ASSUME FanoutInv, Fanout!Next
  PROVE  SlotTypes'
<1> USE DEF Fanout!slots
<1>0. SlotTypes /\ FanoutCounts /\ \A s \in FanoutSlots : Len(buf[s]) <= BufferRoom
  BY DEF FanoutInv, SlotInv
<1>1. CASE Fanout!Fanout
  <2>1. UNCHANGED <<run, held, c_wire, clean>>
    BY <1>1 DEF Fanout!Fanout
  <2>2. ASSUME NEW s \in FanoutSlots
        PROVE  buf'[s] \in Seq(Piece) /\ dropped'[s] \in Nat
    <3>1. CASE run[s] = "off"
      <4>1. buf'[s] = buf[s] /\ dropped'[s] = dropped[s]
        BY <1>1, <3>1 DEF Fanout!Fanout
      <4> QED
        BY <1>0, <4>1 DEF SlotTypes
    <3>2. CASE run[s] # "off"
      <4>1. /\ dropped'[s] \in {dropped[s], dropped[s] + 1}
            /\ \E p \in Seq(Piece) : buf'[s] = buf[s] \o p
        <5>1. dropped[s] \in Nat
          BY <1>0 DEF SlotTypes
        <5>2. dropped'[s] = dropped[s] + (IF Fanout!Taken(s) < 2 THEN 1 ELSE 0)
          BY <1>0, <1>1, <3>2, FanoutAdds
        <5>3. \E p \in Seq(Piece) : buf'[s] = buf[s] \o p
          BY <1>0, <1>1, <3>2, FanoutAdds
        <5> QED
          BY <5>1, <5>2, <5>3
      <4>2. PICK p \in Seq(Piece) : buf'[s] = buf[s] \o p
        BY <4>1
      <4>3. buf[s] \in Seq(Piece) /\ dropped[s] \in Nat
        BY <1>0 DEF SlotTypes
      <4> QED
        BY <4>1, <4>2, <4>3, ConcatOfSeq
    <3> QED
      BY <3>1, <3>2
  <2>3. dropped' = [s \in FanoutSlots |-> dropped'[s]]
    BY <1>1 DEF Fanout!Fanout
  <2>4. buf' = [s \in FanoutSlots |-> buf'[s]]
    BY <1>1 DEF Fanout!Fanout
  <2>5. buf' \in [FanoutSlots -> Seq(Piece)] /\ dropped' \in [FanoutSlots -> Nat]
    BY <2>2, <2>3, <2>4
  <2> QED
    BY <1>0, <2>1, <2>5 DEF SlotTypes
<1>2. CASE UNCHANGED Fanout!slots
  BY <1>0, <1>2 DEF SlotTypes
<1>3. Fanout!FakeStart \/ Fanout!FakeStartFails \/ Fanout!FakeStop \/ Fanout!Generator
      => UNCHANGED Fanout!slots
  BY DEF Fanout!FakeStart, Fanout!FakeStartFails, Fanout!FakeStop, Fanout!Generator,
     Fanout!FakeLeaves, Fanout!FakeEnds
<1>4. CASE Fanout!RestartAll
  <2>1. /\ buf' = [s \in FanoutSlots |-> <<>>] /\ UNCHANGED <<dropped, held, c_wire, clean>>
        /\ run' = [s \in FanoutSlots |-> IF run[s] = "stream" THEN "closed" ELSE run[s]]
    BY <1>4 DEF Fanout!RestartAll
  <2>2. run' \in [FanoutSlots -> {"off", "wait", "stream", "closed"}]
    BY <1>0, <2>1 DEF SlotTypes
  <2>3. buf' \in [FanoutSlots -> Seq(Piece)]
    BY <2>1
  <2> QED
    BY <1>0, <2>1, <2>2, <2>3 DEF SlotTypes
<1>5. ASSUME NEW s \in FanoutSlots, Fanout!Slot(s) PROVE SlotTypes'
  <2> USE DEF Fanout!Set
  <2>0. <<>> \in Seq(Piece) /\ 0 \in Nat
    OBVIOUS
  <2>1. CASE Fanout!SlotStarts(s)
    BY <1>0, <2>0, <2>1 DEF Fanout!SlotStarts, SlotTypes
  <2>2. CASE Fanout!SlotConnects(s)
    <3>1. /\ run' = [run EXCEPT ![s] = "stream"] /\ c_wire' = [c_wire EXCEPT ![s] = <<>>]
          /\ UNCHANGED <<buf, dropped, held>>
          /\ clean' = [clean EXCEPT ![s] = (buf[s] = <<>> /\ dropped[s] = 0)]
      BY <2>2 DEF Fanout!SlotConnects
    <3>2. (buf[s] = <<>> /\ dropped[s] = 0) \in BOOLEAN
      OBVIOUS
    <3>3. clean' \in [FanoutSlots -> BOOLEAN]
      BY <1>0, <3>1, <3>2 DEF SlotTypes
    <3> QED
      BY <1>0, <2>0, <3>1, <3>3 DEF SlotTypes
  <2>3. CASE Fanout!SlotReceives(s)
    BY <1>0, <2>0, <2>3 DEF Fanout!SlotReceives, Fanout!TakeFromBuffer, SlotTypes
  <2>4. CASE Fanout!SlotWrites(s)
    <3>1. PICK k \in 1..Len(held[s]) :
            /\ c_wire' = [c_wire EXCEPT ![s] = c_wire[s] \o SubSeq(held[s], 1, k)]
            /\ clean' = [clean EXCEPT ![s] = (clean[s] /\ k = Len(held[s]))]
      BY <2>4 DEF Fanout!SlotWrites
    <3>2. UNCHANGED <<run, buf, dropped>> /\ held' = [held EXCEPT ![s] = <<>>]
      BY <2>4 DEF Fanout!SlotWrites
    <3>3. held[s] \in Seq(Piece) /\ c_wire[s] \in Seq(Piece)
      BY <1>0 DEF SlotTypes
    <3>4. SubSeq(held[s], 1, k) \in Seq(Piece)
      BY <3>3
    <3>5. c_wire[s] \o SubSeq(held[s], 1, k) \in Seq(Piece)
      BY <3>3, <3>4, ConcatOfSeq
    <3>6. c_wire' \in [FanoutSlots -> Seq(Piece)]
      BY <1>0, <3>1, <3>5 DEF SlotTypes
    <3>7. (clean[s] /\ k = Len(held[s])) \in BOOLEAN
      OBVIOUS
    <3>8. clean' \in [FanoutSlots -> BOOLEAN]
      BY <1>0, <3>1, <3>7 DEF SlotTypes
    <3>9. held' \in [FanoutSlots -> Seq(Piece)]
      BY <1>0, <2>0, <3>2 DEF SlotTypes
    <3> QED
      BY <1>0, <3>2, <3>6, <3>8, <3>9 DEF SlotTypes
  <2>5. CASE Fanout!SlotFails(s)
    BY <1>0, <2>0, <2>5 DEF Fanout!SlotFails, SlotTypes
  <2>6. CASE Fanout!SlotStops(s)
    BY <1>0, <2>0, <2>6 DEF Fanout!SlotStops, SlotTypes
  <2> QED
    BY <1>5, <2>1, <2>2, <2>3, <2>4, <2>5, <2>6 DEF Fanout!Slot
<1> QED
  BY <1>1, <1>2, <1>3, <1>4, <1>5 DEF Fanout!Next, Fanout!UartData, Fanout!FakeSends

(* A slot that a step leaves alone *)
LEMMA SlotKept ==
  ASSUME NEW s \in FanoutSlots, SlotInv(s), fed' = fed,
         run'[s] = run[s], buf'[s] = buf[s], dropped'[s] = dropped[s], held'[s] = held[s],
         c_wire'[s] = c_wire[s], clean'[s] = clean[s]
  PROVE  SlotInv(s)'
  BY DEF SlotInv, Ordered, Unbroken, Mark

LEMMA SlotFed ==
  ASSUME FanoutInv, Fanout!Fanout, NEW s \in FanoutSlots
  PROVE  SlotInv(s)'
<1>0. /\ SlotInv(s) /\ FanoutCounts /\ SlotTypes
      /\ buf[s] \in Seq(Piece) /\ held[s] \in Seq(Piece) /\ c_wire[s] \in Seq(Piece)
      /\ dropped[s] \in Nat /\ fed \in Nat /\ Len(buf[s]) <= BufferRoom
  BY DEF FanoutInv, SlotTypes, FanoutCounts, SlotInv
<1>1. fed' = fed + 1 /\ UNCHANGED <<run, held, c_wire, clean>>
  BY DEF Fanout!Fanout
<1>2. Mark \in Nat /\ Mark' = Mark + 2 /\ Mark = 2 * fed + 2 /\ Mark' = 2 * (fed + 1) + 2
  BY <1>0, <1>1 DEF Mark
<1>3. PICK a \in 0..Mark, b \in 0..Mark :
        Span(c_wire[s], 0, a) /\ Span(held[s], a, b) /\ Span(buf[s], b, Mark)
  BY <1>0 DEF SlotInv, Ordered
<1>4. a \in 0..Mark' /\ b \in 0..Mark' /\ b \in Nat
  BY <1>2
<1>5. CASE run[s] = "off"
  <2>1. buf'[s] = buf[s] /\ dropped'[s] = dropped[s]
    BY <1>5 DEF Fanout!Fanout
  <2>2. Span(buf[s], b, Mark')
    BY <1>0, <1>2, <1>3, <1>4, SpanWiden
  <2>3. Ordered(s)'
    BY <1>1, <1>3, <1>4, <2>1, <2>2 DEF Ordered
  <2>4. Unbroken(s)'
    BY <1>1, <1>5 DEF Unbroken
  <2>5. dropped'[s] <= fed'
    BY <1>0, <1>1, <2>1 DEF SlotInv
  <2> QED
    BY <1>0, <1>1, <2>1, <2>3, <2>4, <2>5 DEF SlotInv
<1>6. CASE run[s] # "off"
  <2>1. /\ Fanout!Taken(s) \in 0..2
        /\ dropped'[s] = dropped[s] + (IF Fanout!Taken(s) < 2 THEN 1 ELSE 0)
    BY <1>0, <1>6, FanoutAdds
  <2>2. PICK p \in Seq(Piece) :
          /\ buf'[s] = buf[s] \o p /\ Len(p) = Fanout!Taken(s)
          /\ Len(buf[s]) + Len(p) <= BufferRoom
          /\ Span(p, 2 * fed + 2, 2 * (fed + 1) + 2)
          /\ Fanout!Taken(s) = 2 => Chain(p, fed, fed + 1)
    BY <1>0, <1>6, FanoutAdds
  <2>3. Span(buf'[s], b, Mark')
    <3>1. Span(p, Mark, Mark')
      BY <1>2, <2>2
    <3>2. Mark' \in Nat
      BY <1>2
    <3> QED
      BY <1>0, <1>2, <1>3, <1>4, <2>2, <3>1, <3>2, SpanConcat
  <2>4. Ordered(s)'
    <3>1. Span(c_wire'[s], 0, a) /\ Span(held'[s], a, b) /\ Span(buf'[s], b, Mark')
      BY <1>1, <1>3, <2>3
    <3> QED
      BY <1>4, <3>1 DEF Ordered
  <2>5. Len(buf'[s]) <= BufferRoom
    <3>1. Len(buf[s] \o p) = Len(buf[s]) + Len(p)
      BY <1>0, ConcatOfSeq
    <3> QED
      BY <2>2, <3>1
  <2>6. dropped'[s] <= fed' /\ (dropped'[s] = 0 => dropped[s] = 0 /\ Fanout!Taken(s) = 2)
    <3>1. dropped[s] <= fed
      BY <1>0 DEF SlotInv
    <3> QED
      BY <1>0, <1>1, <2>1, <3>1
  <2>7. Unbroken(s)'
    <3> SUFFICES ASSUME clean'[s], dropped'[s] = 0
                 PROVE  /\ run'[s] = "stream" => \E i, j, k \in 0..fed' :
                             Chain(c_wire'[s], i, j) /\ Chain(held'[s], j, k)
                             /\ Chain(buf'[s], k, fed')
                        /\ run'[s] = "closed" => \E i, j \in 0..fed' : Chain(c_wire'[s], i, j)
      BY DEF Unbroken
    <3>1. clean[s] /\ dropped[s] = 0 /\ Fanout!Taken(s) = 2
      BY <1>1, <2>6
    <3>2. ASSUME run[s] = "stream"
          PROVE  \E i, j, k \in 0..fed' :
                   Chain(c_wire'[s], i, j) /\ Chain(held'[s], j, k) /\ Chain(buf'[s], k, fed')
      <4>1. PICK i \in 0..fed, j \in 0..fed, k \in 0..fed :
              Chain(c_wire[s], i, j) /\ Chain(held[s], j, k) /\ Chain(buf[s], k, fed)
        BY <1>0, <3>1, <3>2 DEF SlotInv, Unbroken
      <4>2. Chain(p, fed, fed + 1) /\ k \in Nat /\ fed + 1 \in Nat
        BY <1>0, <2>2, <3>1
      <4>3. Chain(buf'[s], k, fed')
        BY <1>0, <1>1, <2>2, <4>1, <4>2, ChainConcat
      <4>4. i \in 0..fed' /\ j \in 0..fed' /\ k \in 0..fed'
        BY <1>0, <1>1
      <4> QED
        BY <1>1, <4>1, <4>3, <4>4
    <3>3. ASSUME run[s] = "closed" PROVE \E i, j \in 0..fed' : Chain(c_wire'[s], i, j)
      <4>1. PICK i \in 0..fed, j \in 0..fed : Chain(c_wire[s], i, j)
        BY <1>0, <3>1, <3>3 DEF SlotInv, Unbroken
      <4>2. i \in 0..fed' /\ j \in 0..fed'
        BY <1>0, <1>1
      <4> QED
        BY <1>1, <4>1, <4>2
    <3> QED
      BY <1>1, <3>2, <3>3
  <2>8. run'[s] \in {"off", "wait"} => held'[s] = <<>> /\ c_wire'[s] = <<>>
    BY <1>0, <1>1 DEF SlotInv
  <2> QED
    BY <2>4, <2>5, <2>6, <2>7, <2>8 DEF SlotInv
<1> QED
  BY <1>5, <1>6

(* ntrip_runtime_restart_all, for one slot *)
LEMMA SlotRestarted ==
  ASSUME FanoutInv, Fanout!RestartAll, NEW s \in FanoutSlots
  PROVE  SlotInv(s)'
<1>0. SlotInv(s) /\ fed \in Nat /\ run[s] \in {"off", "wait", "stream", "closed"}
  BY DEF FanoutInv, SlotTypes, FanoutCounts
<1>1. /\ buf'[s] = <<>> /\ run'[s] = IF run[s] = "stream" THEN "closed" ELSE run[s]
      /\ UNCHANGED <<fed, dropped, held, c_wire, clean>>
  BY DEF Fanout!RestartAll
<1>2. Mark' = Mark /\ Mark \in Nat
  BY <1>0, <1>1 DEF Mark
<1>3. PICK a \in 0..Mark, b \in 0..Mark :
        Span(c_wire[s], 0, a) /\ Span(held[s], a, b) /\ Span(buf[s], b, Mark)
  BY <1>0 DEF SlotInv, Ordered
<1>4. Span(buf'[s], b, Mark)
  <2>1. b \in Nat /\ b <= Mark
    BY <1>2, <1>3
  <2>2. Span(<<>>, b, Mark)
    BY <1>2, <2>1, SpanEmpty
  <2> QED
    BY <1>1, <2>2
<1>5. Ordered(s)'
  BY <1>1, <1>2, <1>3, <1>4 DEF Ordered
<1>6. Unbroken(s)'
  BY <1>0, <1>1 DEF SlotInv, Unbroken
<1>7. Len(buf'[s]) <= BufferRoom
  <2>1. Len(<<>>) = 0
    OBVIOUS
  <2> QED
    BY <1>1, <2>1, FanoutBounds
<1>8. dropped'[s] <= fed' /\ (run'[s] \in {"off", "wait"} => held'[s] = <<>> /\ c_wire'[s] = <<>>)
  BY <1>0, <1>1 DEF SlotInv
<1> QED
  BY <1>5, <1>6, <1>7, <1>8 DEF SlotInv

(* What the slot's own task does *)
LEMMA SlotActs ==
  ASSUME FanoutInv, NEW s \in FanoutSlots, Fanout!Slot(s)
  PROVE  SlotInv(s)'
<1> USE DEF Fanout!Set
<1>0. /\ SlotInv(s) /\ SlotTypes /\ Len(buf[s]) <= BufferRoom /\ dropped[s] <= fed
      /\ buf[s] \in Seq(Piece) /\ held[s] \in Seq(Piece) /\ c_wire[s] \in Seq(Piece)
      /\ dropped[s] \in Nat /\ fed \in Nat /\ BufferRoom \in Nat
  BY FanoutBounds DEF FanoutInv, SlotTypes, FanoutCounts, SlotInv
<1>1. Mark \in Nat /\ fed' = fed /\ Mark' = Mark
  <2>1. fed' = fed
    BY DEF Fanout!Slot, Fanout!SlotStarts, Fanout!SlotConnects, Fanout!SlotReceives,
       Fanout!SlotWrites, Fanout!SlotFails, Fanout!SlotStops
  <2> QED
    BY <1>0, <2>1 DEF Mark
<1>2. PICK a \in 0..Mark, b \in 0..Mark :
        Span(c_wire[s], 0, a) /\ Span(held[s], a, b) /\ Span(buf[s], b, Mark)
  BY <1>0 DEF SlotInv, Ordered
<1>3. /\ 0 \in 0..Mark /\ Mark \in 0..Mark /\ a \in Nat /\ b \in Nat /\ a <= b /\ b <= Mark
      /\ Len(<<>>) = 0
  BY <1>1, <1>2 DEF Span
<1>4. /\ Span(<<>>, 0, 0) /\ Span(<<>>, 0, b) /\ Span(<<>>, b, b) /\ Span(<<>>, 0, Mark)
      /\ Span(<<>>, Mark, Mark)
  BY <1>1, <1>3, SpanEmpty
<1>5. CASE Fanout!SlotStarts(s)
  <2>1. /\ run[s] = "off" /\ run'[s] = "wait" /\ buf'[s] = <<>> /\ dropped'[s] = 0
        /\ UNCHANGED <<held, c_wire, clean>>
    BY <1>0, <1>5 DEF Fanout!SlotStarts, SlotTypes
  <2>2. held[s] = <<>> /\ c_wire[s] = <<>>
    BY <1>0, <2>1 DEF SlotInv
  <2>3. Ordered(s)'
    BY <1>1, <1>3, <1>4, <2>1, <2>2 DEF Ordered
  <2>4. Unbroken(s)'
    BY <2>1 DEF Unbroken
  <2> QED
    BY <1>0, <1>1, <1>3, <2>1, <2>2, <2>3, <2>4 DEF SlotInv
<1>6. CASE Fanout!SlotConnects(s)
  <2>1. /\ run[s] = "wait" /\ run'[s] = "stream" /\ c_wire'[s] = <<>>
        /\ clean'[s] = (buf[s] = <<>> /\ dropped[s] = 0)
        /\ UNCHANGED <<buf, dropped, held>>
    BY <1>0, <1>6 DEF Fanout!SlotConnects, SlotTypes
  <2>2. held[s] = <<>> /\ c_wire[s] = <<>>
    BY <1>0, <2>1 DEF SlotInv
  <2>3. Ordered(s)'
    BY <1>1, <1>2, <2>1, <2>2 DEF Ordered
  <2>4. Unbroken(s)'
    <3>1. fed \in 0..fed' /\ Chain(<<>>, fed, fed')
      BY <1>0, <1>1 DEF Chain
    <3> QED
      BY <1>1, <2>1, <2>2, <3>1 DEF Unbroken
  <2> QED
    BY <1>0, <1>1, <2>1, <2>3, <2>4 DEF SlotInv
<1>7. CASE Fanout!SlotReceives(s)
  <2>1. /\ run[s] \in {"stream", "closed"} /\ held[s] = <<>>
        /\ held'[s] = buf[s] /\ buf'[s] = <<>>
        /\ UNCHANGED <<run, dropped, c_wire, clean>>
    BY <1>0, <1>7 DEF Fanout!SlotReceives, Fanout!TakeFromBuffer, SlotTypes
  <2>2. Span(c_wire[s], 0, b)
    BY <1>0, <1>2, <1>3, SpanWiden
  <2>3. Ordered(s)'
    BY <1>1, <1>2, <1>3, <1>4, <2>1, <2>2 DEF Ordered
  <2>4. Unbroken(s)'
    <3> SUFFICES ASSUME clean[s], dropped[s] = 0
                 PROVE  /\ run[s] = "stream" => \E i, j, k \in 0..fed :
                             Chain(c_wire[s], i, j) /\ Chain(buf[s], j, k) /\ Chain(<<>>, k, fed)
                        /\ run[s] = "closed" => \E i, j \in 0..fed : Chain(c_wire[s], i, j)
      BY <1>1, <2>1 DEF Unbroken
    <3>1. ASSUME run[s] = "stream"
          PROVE  \E i, j, k \in 0..fed :
                   Chain(c_wire[s], i, j) /\ Chain(buf[s], j, k) /\ Chain(<<>>, k, fed)
      <4>1. PICK i \in 0..fed, j \in 0..fed, k \in 0..fed :
              Chain(c_wire[s], i, j) /\ Chain(<<>>, j, k) /\ Chain(buf[s], k, fed)
        BY <1>0, <2>1, <3>1 DEF SlotInv, Unbroken
      <4>2. j = k /\ Chain(<<>>, fed, fed) /\ fed \in 0..fed
        BY <1>0, <4>1 DEF Chain
      <4> QED
        BY <4>1, <4>2
    <3> QED
      BY <1>0, <3>1 DEF SlotInv, Unbroken
  <2> QED
    BY <1>0, <1>1, <1>3, <2>1, <2>3, <2>4 DEF SlotInv
<1>8. CASE Fanout!SlotWrites(s)
  <2>1. PICK n \in 1..Len(held[s]) :
          /\ c_wire'[s] = c_wire[s] \o SubSeq(held[s], 1, n)
          /\ clean'[s] = (clean[s] /\ n = Len(held[s]))
    BY <1>0, <1>8 DEF Fanout!SlotWrites, SlotTypes
  <2>2. run[s] = "stream" /\ held'[s] = <<>> /\ UNCHANGED <<run, buf, dropped>>
    BY <1>0, <1>8 DEF Fanout!SlotWrites, SlotTypes
  <2>3. SubSeq(held[s], 1, n) \in Seq(Piece) /\ Span(SubSeq(held[s], 1, n), a, b)
    <3>1. n \in 0..Len(held[s])
      BY <1>0
    <3> QED
      BY <1>0, <1>2, <1>3, <3>1, SpanPart
  <2>4. Span(c_wire'[s], 0, b)
    <3>1. 0 \in Nat
      OBVIOUS
    <3> QED
      BY <1>0, <1>2, <1>3, <2>1, <2>3, <3>1, SpanConcat
  <2>5. Ordered(s)'
    BY <1>1, <1>2, <1>4, <2>2, <2>4 DEF Ordered
  <2>6. Unbroken(s)'
    <3> SUFFICES ASSUME clean'[s], dropped[s] = 0
                 PROVE  \E i, j, k \in 0..fed :
                             Chain(c_wire'[s], i, j) /\ Chain(<<>>, j, k) /\ Chain(buf[s], k, fed)
      BY <1>1, <2>2 DEF Unbroken
    <3>1. clean[s] /\ SubSeq(held[s], 1, n) = held[s]
      <4>1. clean[s] /\ n = Len(held[s])
        BY <2>1
      <4>2. SubSeq(held[s], 1, Len(held[s])) = held[s]
        BY <1>0
      <4> QED
        BY <4>1, <4>2
    <3>2. PICK i \in 0..fed, j \in 0..fed, k \in 0..fed :
            Chain(c_wire[s], i, j) /\ Chain(held[s], j, k) /\ Chain(buf[s], k, fed)
      BY <1>0, <2>2, <3>1 DEF SlotInv, Unbroken
    <3>3. i \in Nat /\ j \in Nat /\ k \in Nat
      BY <3>2
    <3>4. Chain(c_wire[s] \o held[s], i, k)
      BY <1>0, <3>2, <3>3, ChainConcat
    <3>5. Chain(<<>>, k, k)
      BY DEF Chain
    <3> QED
      BY <2>1, <3>1, <3>2, <3>4, <3>5
  <2> QED
    BY <1>0, <1>1, <2>2, <2>5, <2>6 DEF SlotInv
<1>9. CASE Fanout!SlotFails(s) \/ Fanout!SlotStops(s)
  <2>1. /\ run'[s] \in {"off", "wait"} /\ held'[s] = <<>> /\ c_wire'[s] = <<>>
        /\ UNCHANGED <<buf, dropped, clean>>
    BY <1>0, <1>9 DEF Fanout!SlotFails, Fanout!SlotStops, SlotTypes
  <2>2. Ordered(s)'
    BY <1>1, <1>2, <1>3, <1>4, <2>1 DEF Ordered
  <2>3. Unbroken(s)'
    BY <2>1 DEF Unbroken
  <2> QED
    BY <1>0, <1>1, <2>1, <2>2, <2>3 DEF SlotInv
<1> QED
  BY <1>5, <1>6, <1>7, <1>8, <1>9 DEF Fanout!Slot

LEMMA SlotInvStep ==
  ASSUME FanoutInv, Fanout!Next, NEW s \in FanoutSlots
  PROVE  SlotInv(s)'
<1> USE DEF Fanout!slots, Fanout!generator
<1>0. SlotInv(s) /\ SlotTypes
  BY DEF FanoutInv
<1>1. CASE Fanout!UartData \/ Fanout!FakeSends
  BY <1>1, SlotFed DEF Fanout!UartData, Fanout!FakeSends
<1>2. CASE Fanout!RestartAll
  BY <1>2, SlotRestarted
<1>3. CASE Fanout!Slot(s)
  BY <1>3, SlotActs
<1>4. ASSUME NEW r \in FanoutSlots, r # s, Fanout!Slot(r) PROVE SlotInv(s)'
  <2>1. /\ fed' = fed /\ run'[s] = run[s] /\ buf'[s] = buf[s] /\ dropped'[s] = dropped[s]
        /\ held'[s] = held[s] /\ c_wire'[s] = c_wire[s] /\ clean'[s] = clean[s]
    <3> USE DEF Fanout!Set
    <3>1. CASE Fanout!SlotStarts(r) \/ Fanout!SlotConnects(r)
      BY <1>0, <1>4, <3>1 DEF Fanout!SlotStarts, Fanout!SlotConnects, SlotTypes
    <3>2. CASE Fanout!SlotReceives(r) \/ Fanout!SlotWrites(r)
      BY <1>0, <1>4, <3>2 DEF Fanout!SlotReceives, Fanout!SlotWrites, SlotTypes
    <3>3. CASE Fanout!SlotFails(r) \/ Fanout!SlotStops(r)
      BY <1>0, <1>4, <3>3 DEF Fanout!SlotFails, Fanout!SlotStops, SlotTypes
    <3> QED
      BY <1>4, <3>1, <3>2, <3>3 DEF Fanout!Slot
  <2> QED
    BY <1>0, <2>1, SlotKept
<1>5. CASE UNCHANGED <<fed, Fanout!slots>>
  BY <1>0, <1>5, SlotKept
<1>6. Fanout!FakeStart \/ Fanout!FakeStartFails \/ Fanout!FakeStop \/ Fanout!Generator
      => UNCHANGED <<fed, Fanout!slots>>
  BY DEF Fanout!FakeStart, Fanout!FakeStartFails, Fanout!FakeStop, Fanout!Generator,
     Fanout!FakeLeaves, Fanout!FakeEnds
<1> QED
  BY <1>1, <1>2, <1>3, <1>4, <1>5, <1>6 DEF Fanout!Next

LEMMA FanoutStart == MCInit => FanoutInv
<1> SUFFICES ASSUME MCInit PROVE FanoutInv
  OBVIOUS
<1>1. Fanout!Init
  BY DEF MCInit
<1>2. FanoutFlags
  BY <1>1 DEF Fanout!Init, FanoutFlags
<1>3. OneTask /\ FanoutCounts
  BY <1>1, FanoutBounds DEF Fanout!Init, OneTask, FanoutCounts
<1>4. <<>> \in Seq(Piece) /\ Len(<<>>) = 0
  OBVIOUS
<1>5. SlotTypes
  BY <1>1, <1>4 DEF Fanout!Init, SlotTypes
<1>6. ASSUME NEW s \in FanoutSlots PROVE SlotInv(s)
  <2>1. /\ run[s] = "off" /\ buf[s] = <<>> /\ dropped[s] = 0 /\ held[s] = <<>>
        /\ c_wire[s] = <<>> /\ fed = 0
    BY <1>1 DEF Fanout!Init
  <2>2. Mark = 2 /\ 0 \in 0..Mark
    BY <2>1 DEF Mark
  <2>3. Span(<<>>, 0, 0) /\ Span(<<>>, 0, Mark)
    BY <2>2, SpanEmpty
  <2>4. Ordered(s)
    BY <2>1, <2>2, <2>3 DEF Ordered
  <2>5. Unbroken(s)
    BY <2>1 DEF Unbroken
  <2> QED
    BY <1>4, <2>1, <2>4, <2>5, FanoutBounds DEF SlotInv
<1> QED
  BY <1>2, <1>3, <1>5, <1>6 DEF FanoutInv

LEMMA FanoutStep ==
  ASSUME FanoutInv, [MCNext]_allVars
  PROVE  FanoutInv'
<1>1. CASE Fanout!Next
  <2>1. FanoutFlags' /\ OneTask' /\ FanoutCounts' /\ SlotTypes'
    BY <1>1, FanoutFlagsStep, OneTaskStep, SlotTypesStep DEF FanoutInv
  <2>2. \A s \in FanoutSlots : SlotInv(s)'
    BY <1>1, SlotInvStep
  <2> QED
    BY <2>1, <2>2 DEF FanoutInv
<1>2. CASE UNCHANGED fanoutVars
  <2>1. FanoutFlags' /\ OneTask' /\ FanoutCounts' /\ SlotTypes'
    BY <1>2 DEF FanoutInv, fanoutVars, FanoutFlags, OneTask, FanoutCounts, SlotTypes
  <2>2. \A s \in FanoutSlots : SlotInv(s)'
    BY <1>2, SlotKept DEF FanoutInv, fanoutVars
  <2> QED
    BY <2>1, <2>2 DEF FanoutInv
<1> QED
  BY <1>1, <1>2 DEF MCNext, allVars

LEMMA FanoutSound ==
  FanoutInv => Fanout!TypeOK /\ Fanout!OneGenerator /\ Fanout!CasterInOrder
               /\ Fanout!CutsAreCounted
<1> SUFFICES ASSUME FanoutInv
             PROVE  Fanout!TypeOK /\ Fanout!OneGenerator /\ Fanout!CasterInOrder
                    /\ Fanout!CutsAreCounted
  OBVIOUS
<1>0. /\ FanoutFlags /\ OneTask /\ FanoutCounts /\ SlotTypes
      /\ \A s \in FanoutSlots : SlotInv(s)
  BY DEF FanoutInv
<1>1. Fanout!OneGenerator
  BY <1>0 DEF OneTask, FanoutFlags, Fanout!OneGenerator
<1>2. Fanout!TypeOK
  <2>1. \A b \in {enabled, stopReq} : b \in BOOLEAN
    BY <1>0 DEF FanoutFlags
  <2>2. {enabled, stopReq} \subseteq BOOLEAN
    BY ONLY <2>1
  <2>3. looping \in 0..FanoutCalls /\ leaving \in 0..FanoutCalls
    BY <1>0, FanoutBounds DEF OneTask, FanoutFlags, FanoutCounts
  <2>4. \A s \in FanoutSlots : dropped[s] \in 0..FedMessages
    BY <1>0, FanoutBounds DEF SlotTypes, SlotInv, FanoutCounts
  <2> QED
    BY <1>0, <2>2, <2>3, <2>4 DEF Fanout!TypeOK, FanoutCounts, SlotTypes, SlotInv
<1>3. Fanout!CasterInOrder
  <2> SUFFICES ASSUME NEW s \in FanoutSlots, NEW i \in 1..(Len(c_wire[s]) - 1)
               PROVE  Fanout!Before(c_wire[s][i], c_wire[s][i + 1])
    BY DEF Fanout!CasterInOrder
  <2>1. c_wire[s] \in Seq(Piece)
    BY <1>0 DEF SlotTypes
  <2>2. i \in 1..Len(c_wire[s]) /\ i + 1 \in 1..Len(c_wire[s]) /\ i < i + 1
    BY <2>1
  <2>3. PICK a \in 0..Mark : Span(c_wire[s], 0, a)
    BY <1>0 DEF SlotInv, Ordered
  <2>4. Nth(c_wire[s][i]) < Nth(c_wire[s][i + 1])
    BY <2>2, <2>3 DEF Span
  <2>5. c_wire[s][i] \in Piece /\ c_wire[s][i + 1] \in Piece
    BY <2>1, <2>2, SeqElements
  <2> QED
    BY <2>4, <2>5, NthOfPiece
<1>4. Fanout!CutsAreCounted
  <2> SUFFICES ASSUME NEW s \in FanoutSlots, clean[s], dropped[s] = 0
               PROVE  /\ c_wire[s] = <<>> \/ c_wire[s][1][2] = 1
                      /\ \A i \in 1..(Len(c_wire[s]) - 1) :
                           Fanout!Follows(c_wire[s][i], c_wire[s][i + 1])
    BY DEF Fanout!CutsAreCounted
  <2>1. SlotInv(s) /\ run[s] \in {"off", "wait", "stream", "closed"}
    BY <1>0 DEF SlotTypes
  <2>2. CASE c_wire[s] = <<>>
    <3>1. \A i \in 1..(Len(<<>>) - 1) : FALSE
      OBVIOUS
    <3> QED
      BY <2>2, <3>1
  <2>3. CASE c_wire[s] # <<>>
    <3>1. \E a, b \in 0..fed : Chain(c_wire[s], a, b)
      BY <2>1, <2>3 DEF SlotInv, Unbroken
    <3>2. PICK a \in 0..fed, b \in 0..fed : Chain(c_wire[s], a, b)
      BY <3>1
    <3>3. /\ c_wire[s][1] = <<a + 1, 1>>
          /\ \A i \in 1..(Len(c_wire[s]) - 1) : Fanout!Follows(c_wire[s][i], c_wire[s][i + 1])
      BY <2>3, <3>2 DEF Chain
    <3> QED
      BY <3>3
  <2> QED
    BY <2>2, <2>3
<1> QED
  BY <1>1, <1>2, <1>3, <1>4

(* For any number of slots, any room of their buffers and any interleaving of  *)
(* the UART, the generator, the restarts and the slots' tasks: a caster gets   *)
(* no piece twice and none before an older one, on a connection that began     *)
(* empty whole messages without gap unless dropped_rtcm_packets says so, from   *)
(* one generator at most; and before its next attempt socket_client_task has   *)
(* no socket open, whichever of the two tasks closed the last                   *)
(* (ntrip_runtime_fanout_rtcm, the slots' loop, socket_client.c).               *)
THEOREM CasterSoundCorrect == MCSpec => []CasterSound
<1>1. MCInit => ClientInv /\ FanoutInv
  BY ClientStart, FanoutStart
<1>2. ClientInv /\ FanoutInv /\ [MCNext]_allVars => (ClientInv /\ FanoutInv)'
  BY ClientStep, FanoutStep
<1>3. ClientInv /\ FanoutInv => CasterSound
  BY ClientSound, FanoutSound DEF CasterSound
<1> QED
  BY <1>1, <1>2, <1>3, PTL DEF MCSpec

=============================================================================
