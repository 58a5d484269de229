--------------------------- MODULE LoraLinkProofs ---------------------------
(***************************************************************************)
(* Type correctness of LoraLink, that the path from base to rover is a     *)
(* LossyStream, and that a frame whose fragments all arrived is written,   *)
(* for every queue depth, sequence space and fragment count.               *)
(*                                                                         *)
(* Then the parts that run beside it: the ring of the duty cycle sums the  *)
(* last window and keeps the budget; the parser before the link runs past  *)
(* few frames after a cut, and its filter holds back only what it should.  *)
(***************************************************************************)
EXTENDS MCLoraLink, WellFoundedInduction, TLAPS

LEMMA AppendInSeq ==
  ASSUME NEW S, NEW s \in Seq(S), NEW e \in S
  PROVE  /\ Append(s, e) \in Seq(S)
         /\ Len(Append(s, e)) = Len(s) + 1
         /\ \A i \in 1..Len(s) : Append(s, e)[i] = s[i]
         /\ Append(s, e)[Len(s) + 1] = e
  OBVIOUS

LEMMA PlacesInSeq ==
  ASSUME NEW m \in Nat, NEW n \in Nat
  PROVE  /\ [i \in 1..m |-> <<n, i>>] \in Seq(Nat \X Nat)
         /\ Len([i \in 1..m |-> <<n, i>>]) = m
<1> DEFINE t == [i \in 1..m |-> <<n, i>>]
<1>1. \A i \in 1..m : <<n, i>> \in Nat \X Nat
  OBVIOUS
<1>2. t \in [1..m -> Nat \X Nat]
  BY <1>1
<1> HIDE DEF t
<1>3. t \in Seq(Nat \X Nat)
  BY <1>2
<1>4. DOMAIN t = 1..m
  BY <1>2
<1>5. Len(t) = m
  BY <1>3, <1>4
<1> QED
  BY <1>3, <1>5 DEF t

LEMMA SeqElements ==
  ASSUME NEW S, NEW s \in Seq(S)
  PROVE  Len(s) \in Nat /\ \A i \in 1..Len(s) : s[i] \in S
  OBVIOUS

LEMMA TypeInit == Init => TypeOK
<1> SUFFICES ASSUME Init PROVE TypeOK
  OBVIOUS
<1>1. 0 \in Seqs /\ 0 \in 0..MaxFrames /\ 0 \in 0..MaxFragments /\ 0 \in 0..MaxReboots
  BY LinkAssumption DEF Seqs
<1>2. queue \in Seq(Packets) /\ Len(queue) <= QueueDepth /\ out \in Seq(0..MaxFrames)
  BY LinkAssumption DEF Init, BaseInit
<1>3. buffer \in [Indices -> 0..MaxFrames] /\ got \in [Frames -> SUBSET Indices]
  BY <1>1 DEF Init, RoverInit
<1>4. made \in [Frames -> Seqs \X (0..MaxFragments)]
  BY <1>1 DEF Init
<1> QED BY <1>1, <1>2, <1>3, <1>4 DEF Init, BaseInit, RoverInit, TypeOK

(* A fragment is pushed into the reassembly without leaving the types. *)
LEMMA ReassembleType ==
  ASSUME TypeOK, NEW p \in Packets, Reassemble(p)
  PROVE  /\ active' \in BOOLEAN /\ rxSeq' \in Seqs /\ rxCount' \in 0..MaxFragments
         /\ received' \in SUBSET Indices
         /\ buffer' \in [Indices -> 0..MaxFrames]
         /\ out' \in Seq(0..MaxFrames)
<1>1. CASE p.index \in Already(p)
  BY <1>1 DEF Reassemble, TypeOK, rover
<1>2. CASE p.index \notin Already(p)
  <2>1. /\ p.frame \in 1..MaxFrames /\ p.seq \in Seqs /\ p.index \in Indices
        /\ p.count \in 1..MaxFragments
    BY DEF Packets, Frames
  <2>2. rxSeq' = p.seq /\ rxCount' = p.count
    BY <1>2 DEF Reassemble
  <2>3. received' \in SUBSET Indices
    <3>1. Already(p) \in SUBSET Indices
      BY DEF Already, TypeOK
    <3>2. received' = Already(p) \cup {p.index}
      BY <1>2 DEF Reassemble
    <3> QED BY <2>1, <3>1, <3>2
  <2>4. buffer' \in [Indices -> 0..MaxFrames]
    <3>1. buffer' = [buffer EXCEPT ![p.index] = p.frame]
      BY <1>2 DEF Reassemble
    <3>2. p.frame \in 0..MaxFrames
      BY <2>1, LinkAssumption
    <3> QED BY <2>1, <3>1, <3>2 DEF TypeOK
  <2>5. active' \in BOOLEAN
    BY <1>2 DEF Reassemble
  <2>6. out' \in Seq(0..MaxFrames)
    <3>1. \/ out' = out \/ out' = Append(out, p.frame)
          \/ out' = Append(out, Mixed)
      BY <1>2 DEF Reassemble
    <3>2. p.frame \in 0..MaxFrames /\ Mixed \in 0..MaxFrames
      BY <2>1, LinkAssumption DEF Mixed
    <3>3. out \in Seq(0..MaxFrames)
      BY DEF TypeOK
    <3> QED BY <3>1, <3>2, <3>3, AppendInSeq
  <2> QED BY <2>1, <2>2, <2>3, <2>4, <2>5, <2>6, LinkAssumption
<1> QED BY <1>1, <1>2

(* The first packet of the queue is a packet, and so is every other one. *)
LEMMA QueueHead ==
  ASSUME TypeOK, queue # <<>>
  PROVE  /\ Head(queue) \in Packets /\ Head(queue) = queue[1]
         /\ Len(queue) \in Nat \ {0}
         /\ Tail(queue) \in Seq(Packets) /\ Len(Tail(queue)) = Len(queue) - 1
         /\ \A i \in 1..Len(Tail(queue)) : Tail(queue)[i] = queue[i + 1]
  BY DEF TypeOK

LEMMA TypeStep == TypeOK /\ [Next]_vars => TypeOK'
<1> SUFFICES ASSUME TypeOK, [Next]_vars PROVE TypeOK'
  OBVIOUS
<1>1. ASSUME NEW n \in 1..MaxFragments, BeginFrame(n) PROVE TypeOK'
  <2>1. sent + 1 \in Frames /\ sent' \in 0..MaxFrames
    BY <1>1, LinkAssumption DEF BeginFrame, TypeOK, Frames
  <2>2. (nextSeq + 1) % SeqMod \in Seqs
    BY LinkAssumption DEF TypeOK, Seqs
  <2>3. 0 \in Indices /\ n \in 0..MaxFragments
    BY LinkAssumption DEF Indices
  <2>4. cut' \in Packets
    BY <1>1, <2>1, <2>3 DEF BeginFrame, TypeOK, Packets
  <2>5. made' \in [Frames -> Seqs \X (0..MaxFragments)]
    BY <1>1, <2>1, <2>3 DEF BeginFrame, TypeOK
  <2> QED BY <1>1, <2>1, <2>2, <2>4, <2>5 DEF BeginFrame, TypeOK, rover
<1>2. ASSUME EnqueueFragment PROVE TypeOK'
  <2>1. cut \in Packets
    BY <1>2 DEF EnqueueFragment, TypeOK
  <2>2. cut' \in Packets \cup {NoCut}
    <3>1. CASE MoreFragments(cut)
      <4>1. cut' = [cut EXCEPT !.index = cut.index + 1]
        BY <1>2, <3>1 DEF EnqueueFragment
      <4>2. cut.index + 1 \in Indices
        BY <2>1, <3>1, LinkAssumption DEF MoreFragments, Packets, Indices
      <4> QED BY <2>1, <4>1, <4>2 DEF Packets
    <3>2. CASE ~MoreFragments(cut)
      BY <1>2, <3>2 DEF EnqueueFragment
    <3> QED BY <3>1, <3>2
  <2>3. queue' \in Seq(Packets) /\ Len(queue') <= QueueDepth
    BY <1>2, <2>1, LinkAssumption DEF EnqueueFragment, TypeOK
  <2> QED BY <1>2, <2>2, <2>3 DEF EnqueueFragment, TypeOK, rover
<1>3. ASSUME QueueFull PROVE TypeOK'
  BY <1>3 DEF QueueFull, TypeOK, rover
<1>4. ASSUME PacketArrives PROVE TypeOK'
  <2>1. Head(queue) \in Packets
    BY <1>4, QueueHead DEF PacketArrives
  <2>2. queue' \in Seq(Packets) /\ Len(queue') <= QueueDepth
    BY <1>4, QueueHead, LinkAssumption DEF PacketArrives, TypeOK
  <2>3. got' \in [Frames -> SUBSET Indices]
    BY <1>4, <2>1 DEF PacketArrives, TypeOK, Packets
  <2> QED BY <1>4, <2>1, <2>2, <2>3, ReassembleType DEF PacketArrives, TypeOK
<1>5. ASSUME PacketLost PROVE TypeOK'
  <2>1. queue' \in Seq(Packets) /\ Len(queue') <= QueueDepth
    BY <1>5, QueueHead, LinkAssumption DEF PacketLost, TypeOK
  <2> QED BY <1>5, <2>1 DEF PacketLost, TypeOK, rover
<1>6. ASSUME BaseReboots PROVE TypeOK'
  <2>1. 0 \in Seqs /\ reboots' \in 0..MaxReboots
    BY <1>6, LinkAssumption DEF BaseReboots, TypeOK, Seqs
  <2>2. queue' \in Seq(Packets) /\ Len(queue') <= QueueDepth
    BY <1>6, LinkAssumption DEF BaseReboots
  <2> QED BY <1>6, <2>1, <2>2 DEF BaseReboots, TypeOK, rover
<1>7. ASSUME RoverReboots PROVE TypeOK'
  <2>1. 0 \in Seqs /\ 0 \in 0..MaxFragments /\ 0 \in 0..MaxFrames
    BY LinkAssumption DEF Seqs
  <2>2. reboots' \in 0..MaxReboots
    BY <1>7, LinkAssumption DEF RoverReboots, TypeOK
  <2> QED BY <1>7, <2>1, <2>2 DEF RoverReboots, TypeOK, base
<1>8. CASE UNCHANGED vars
  BY <1>8 DEF vars, base, rover, TypeOK
<1> QED BY <1>1, <1>2, <1>3, <1>4, <1>5, <1>6, <1>7, <1>8 DEF Next

(* The variables of base and rover keep their types and the queue its
   bound, whatever is lost and whoever reboots. *)
THEOREM LinkTypeCorrect == Spec => []TypeOK
  BY TypeInit, TypeStep, PTL DEF Spec

-----------------------------------------------------------------------------
LEMMA OrderInit == Init => OrderInv
<1> SUFFICES ASSUME Init PROVE OrderInv
  OBVIOUS
<1>1. Len(queue) = 0 /\ Len(out) = 0 /\ cut = NoCut /\ sent = 0
  BY DEF Init, BaseInit
<1>2. \A k \in Indices : buffer[k] = 0
  BY DEF Init, RoverInit
<1> QED BY <1>1, <1>2 DEF OrderInv

(* The arithmetic of packets the proofs below need. *)
LEMMA PacketType ==
  ASSUME NEW p \in Packets
  PROVE  /\ p.frame \in Nat \ {0} /\ p.frame \in 1..MaxFrames
         /\ p.index \in Nat /\ p.index \in Indices /\ p.count \in Nat
         /\ p.count - 1 \in Indices
  BY LinkAssumption DEF Packets, Frames, Indices

(* What a packet does to the reassembly, when everything the rover keeps is
   ahead of it: a frame comes out only with its last fragment, so nothing
   that follows the packet belongs to it. *)
LEMMA ReassembleOrder ==
  ASSUME TypeOK, NEW p \in Packets, Pending(p), Reassemble(p),
         \A k \in Indices : buffer[k] <= sent,
         \A k \in 1..Len(out) : out[k] <= sent
  PROVE  /\ \A k \in Indices : buffer'[k] <= sent
         /\ \A k \in 1..Len(out') : out'[k] <= sent
         /\ out' = out \/ out' = Append(out, p.frame)
         /\ \A q \in Packets :
              q.index < q.count /\ Follows(q, p)
                => /\ \A k \in Indices : Before(buffer'[k], k, q)
                   /\ \A k \in 1..Len(out') : out'[k] < q.frame
<1>0. /\ p.frame \in Nat \ {0} /\ p.index \in Nat /\ p.count \in Nat
      /\ p.index \in Indices /\ p.count - 1 \in Indices /\ sent \in Nat
  BY PacketType DEF TypeOK
<1>a. \A k \in Indices : buffer[k] \in Nat /\ k \in Nat
  BY DEF TypeOK, Indices
<1>b. /\ out \in Seq(0..MaxFrames) /\ p.frame \in 0..MaxFrames
      /\ Len(out) \in Nat /\ \A k \in 1..Len(out) : out[k] \in Nat
  <2>1. out \in Seq(0..MaxFrames) /\ p.frame \in 0..MaxFrames
    BY PacketType DEF TypeOK
  <2>2. Len(out) \in Nat /\ \A k \in 1..Len(out) : out[k] \in 0..MaxFrames
    BY <2>1, SeqElements
  <2> QED BY <2>1, <2>2, LinkAssumption
<1>c. /\ \A k \in Indices : buffer'[k] = buffer[k] \/ (k = p.index /\ buffer'[k] = p.frame)
      /\ \/ out' = out
         \/ /\ out' = Append(out, p.frame)
            /\ \A i \in 0..(p.count - 1) : buffer'[i] = p.frame
  <2>1. CASE p.index \in Already(p)
    BY <2>1 DEF Reassemble, rover
  <2>2. CASE p.index \notin Already(p)
    <3>1. buffer' = [buffer EXCEPT ![p.index] = p.frame]
      BY <2>2 DEF Reassemble
    <3>2. \/ out' = out
          \/ /\ out' = Append(out, p.frame)
             /\ \A i \in 0..(p.count - 1) : buffer'[i] = p.frame
      BY <2>2 DEF Reassemble, ValidFrame
    <3> QED BY <3>1, <3>2 DEF TypeOK
  <2> QED BY <2>1, <2>2
<1>1. \A k \in Indices : buffer'[k] <= sent
  BY <1>c DEF Pending
<1>2. out' # out => p.index = p.count - 1
  <2> SUFFICES ASSUME out' # out, p.index # p.count - 1 PROVE FALSE
    OBVIOUS
  <2>1. buffer'[p.count - 1] = p.frame
    BY <1>0, <1>c DEF Indices
  <2>2. buffer[p.count - 1] = p.frame
    BY <1>0, <1>c, <2>1
  <2>3. Before(p.frame, p.count - 1, p)
    BY <1>0, <2>2 DEF Pending
  <2> QED BY <1>0, <2>3 DEF Before, Pending
<1>3. \A k \in 1..Len(out') : out'[k] <= sent
  <2>1. CASE out' = out
    BY <2>1
  <2>2. CASE out' = Append(out, p.frame)
    BY <2>2, <1>0, <1>b, AppendInSeq DEF Pending
  <2> QED BY <2>1, <2>2, <1>c
<1>4. ASSUME NEW q \in Packets, q.index < q.count, Follows(q, p)
      PROVE  /\ \A k \in Indices : Before(buffer'[k], k, q)
             /\ \A k \in 1..Len(out') : out'[k] < q.frame
  <2>0. q.frame \in Nat /\ q.index \in Nat /\ q.count \in Nat
    BY PacketType
  <2>1. p.frame < q.frame \/ (p.frame = q.frame /\ p.index < q.index /\ q.count = p.count)
    BY <1>4 DEF Follows, Before
  <2>2. ASSUME NEW k \in Indices PROVE Before(buffer'[k], k, q)
    <3>1. CASE buffer'[k] = buffer[k]
      <4>1. Before(buffer[k], k, p)
        BY DEF Pending
      <4> QED BY <3>1, <4>1, <2>0, <2>1, <1>0, <1>a DEF Before
    <3>2. CASE k = p.index /\ buffer'[k] = p.frame
      BY <3>2, <2>1 DEF Before
    <3> QED BY <3>1, <3>2, <1>c
  <2>3. ASSUME NEW k \in 1..Len(out') PROVE out'[k] < q.frame
    <3>1. CASE out' = out
      <4>1. out[k] < p.frame /\ out[k] \in Nat
        BY <3>1, <2>3, <1>b DEF Pending
      <4> QED BY <3>1, <4>1, <2>0, <2>1, <1>0
    <3>2. CASE out' # out
      <4>1. p.index = p.count - 1 /\ out' = Append(out, p.frame)
        BY <3>2, <1>2, <1>c
      <4>2. p.frame < q.frame
        BY <4>1, <2>0, <2>1, <1>0, <1>4
      <4>3. out'[k] <= p.frame /\ out'[k] \in Nat
        <5>1. CASE k \in 1..Len(out)
          BY <5>1, <4>1, <1>0, <1>b, AppendInSeq DEF Pending
        <5>2. CASE k = Len(out) + 1
          BY <5>2, <4>1, <1>0, <1>b, AppendInSeq
        <5>3. Len(out') = Len(out) + 1
          BY <4>1, <1>0, <1>b, AppendInSeq
        <5> QED BY <5>1, <5>2, <5>3, <1>b
      <4> QED BY <4>2, <4>3, <2>0, <1>0
    <3> QED BY <3>1, <3>2
  <2> QED BY <2>2, <2>3
<1> QED BY <1>1, <1>3, <1>4, <1>c

-----------------------------------------------------------------------------
(* Pending, as the next state has it. *)
NextPending(p) ==
  /\ p.frame <= sent' /\ p.index < p.count
  /\ \A k \in Indices : Before(buffer'[k], k, p)
  /\ \A k \in 1..Len(out') : out'[k] < p.frame

LEMMA OrderStep == TypeOK /\ OrderInv /\ [Next]_vars => OrderInv'
<1> SUFFICES ASSUME TypeOK, OrderInv, [Next]_vars PROVE OrderInv'
  OBVIOUS
<1>a. /\ sent \in Nat /\ Len(queue) \in Nat /\ queue \in Seq(Packets)
      /\ \A i \in 1..Len(queue) : queue[i] \in Packets
      /\ \A k \in Indices : buffer[k] \in Nat /\ k \in Nat
  <2>1. queue \in Seq(Packets) /\ sent \in Nat
    BY LinkAssumption DEF TypeOK
  <2>2. \A k \in Indices : buffer[k] \in Nat /\ k \in Nat
    BY LinkAssumption DEF TypeOK, Indices
  <2> QED BY <2>1, <2>2
<1>b. cut # NoCut => cut \in Packets
  BY DEF TypeOK
<1>c. \A k \in 1..Len(out) : out[k] \in Nat
  <2>1. \A k \in 1..Len(out) : out[k] \in 0..MaxFrames
    BY SeqElements DEF TypeOK
  <2> QED BY <2>1, LinkAssumption
<1>1. ASSUME NEW n \in 1..MaxFragments, BeginFrame(n) PROVE OrderInv'
  <2>1. /\ cut = NoCut /\ cut'.frame = sent + 1 /\ cut'.index = 0 /\ cut'.count = n
        /\ sent' = sent + 1 /\ queue' = queue /\ buffer' = buffer /\ out' = out
    BY <1>1 DEF BeginFrame, rover
  <2>2. ASSUME NEW i \in 1..Len(queue) PROVE NextPending(queue'[i]) /\ Follows(cut', queue[i])
    <3>1. queue[i].frame \in Nat /\ queue[i].frame <= sent
      BY <1>a, PacketType DEF OrderInv, Pending, NextPending
    <3>2. NextPending(queue'[i])
      BY <2>1, <3>1, <1>a DEF OrderInv, Pending, NextPending
    <3>3. Follows(cut', queue[i])
      BY <2>1, <3>1, <1>a DEF Follows, Before
    <3> QED BY <3>2, <3>3
  <2>3. NextPending(cut')
    <3>1. \A k \in Indices : buffer[k] < sent + 1
      BY <1>a DEF OrderInv
    <3>2. \A k \in 1..Len(out) : out[k] < sent + 1
      BY <1>a, <1>c DEF OrderInv
    <3> QED BY <2>1, <3>1, <3>2, <1>a DEF Pending, NextPending, Before
  <2>4. \A k \in Indices : buffer'[k] <= sent'
    BY <2>1, <1>a DEF OrderInv
  <2>5. \A k \in 1..Len(out') : out'[k] <= sent'
    BY <2>1, <1>a, <1>c DEF OrderInv
  <2> QED BY <2>1, <2>2, <2>3, <2>4, <2>5 DEF OrderInv, Pending, NextPending
<1>2. ASSUME EnqueueFragment PROVE OrderInv'
  <2>0. cut \in Packets /\ cut # NoCut
    BY <1>2, <1>b DEF EnqueueFragment
  <2>1. /\ queue' = Append(queue, cut) /\ sent' = sent
        /\ buffer' = buffer /\ out' = out
    BY <1>2 DEF EnqueueFragment, rover
  <2>2. /\ Len(queue') = Len(queue) + 1 /\ queue'[Len(queue) + 1] = cut
        /\ \A i \in 1..Len(queue) : queue'[i] = queue[i]
    BY <2>0, <2>1, <1>a, AppendInSeq
  <2>3. ASSUME NEW i \in 1..Len(queue') PROVE NextPending(queue'[i])
    <3>1. Pending(queue'[i])
      BY <2>0, <2>2, <1>a DEF OrderInv
    <3> QED BY <2>1, <3>1 DEF Pending, NextPending
  <2>4. ASSUME NEW i \in 1..Len(queue'), NEW j \in (i + 1)..Len(queue')
        PROVE  Follows(queue'[j], queue'[i])
    <3>1. CASE j = Len(queue) + 1
      BY <3>1, <2>0, <2>2, <1>a DEF OrderInv
    <3>2. CASE j \in (i + 1)..Len(queue)
      BY <3>2, <2>2, <1>a DEF OrderInv
    <3> QED BY <3>1, <3>2, <2>2, <1>a
  <2>5. ASSUME cut' # NoCut
        PROVE  /\ NextPending(cut') /\ cut'.frame = sent'
               /\ \A i \in 1..Len(queue') : Follows(cut', queue'[i])
    <3>1. /\ cut'.frame = cut.frame /\ cut'.index = cut.index + 1
          /\ cut'.count = cut.count /\ cut.index + 1 < cut.count
      BY <2>0, <2>5, <1>2 DEF EnqueueFragment, MoreFragments, Packets
    <3>2. cut.frame \in Nat /\ cut.index \in Nat /\ cut.count \in Nat
      BY <2>0, PacketType
    <3>3. Pending(cut) /\ cut.frame = sent
      BY <2>0 DEF OrderInv
    <3>4. NextPending(cut')
      <4>1. \A k \in Indices : Before(buffer[k], k, cut')
        BY <3>1, <3>2, <3>3, <1>a DEF Pending, NextPending, Before
      <4> QED BY <2>1, <3>1, <3>3, <4>1 DEF Pending, NextPending
    <3>5. ASSUME NEW i \in 1..Len(queue') PROVE Follows(cut', queue'[i])
      <4>1. CASE i = Len(queue) + 1
        BY <4>1, <2>2, <3>1, <3>2 DEF Follows, Before
      <4>2. CASE i \in 1..Len(queue)
        <5>1. Follows(cut, queue[i])
          BY <4>2, <2>0 DEF OrderInv
        <5>2. queue[i].frame \in Nat /\ queue[i].index \in Nat
          BY <4>2, <1>a, PacketType
        <5> QED BY <4>2, <5>1, <5>2, <2>2, <3>1, <3>2 DEF Follows, Before
      <4> QED BY <4>1, <4>2, <2>2, <1>a
    <3> QED BY <2>1, <3>1, <3>3, <3>4, <3>5
  <2> QED BY <2>1, <2>3, <2>4, <2>5 DEF OrderInv, Pending, NextPending
<1>3. ASSUME QueueFull PROVE OrderInv'
  BY <1>3 DEF QueueFull, OrderInv, Pending, rover
<1>4. ASSUME queue # <<>>, queue' = Tail(queue), UNCHANGED <<sent, cut>>,
             \A q \in Packets :
               Pending(q) /\ Follows(q, Head(queue)) => NextPending(q),
             \A k \in Indices : buffer'[k] <= sent,
             \A k \in 1..Len(out') : out'[k] <= sent
      PROVE  OrderInv'
  <2>1. /\ Len(queue') = Len(queue) - 1 /\ Head(queue) = queue[1]
        /\ 1 \in 1..Len(queue)
        /\ \A i \in 1..Len(queue') : queue'[i] = queue[i + 1]
    BY <1>4, <1>a, QueueHead
  <2>2. ASSUME NEW i \in 1..Len(queue')
        PROVE  /\ NextPending(queue'[i])
               /\ \A j \in (i + 1)..Len(queue') : Follows(queue'[j], queue'[i])
    <3>1. i + 1 \in 2..Len(queue)
      BY <2>1, <1>a
    <3>2. /\ Pending(queue[i + 1]) /\ Follows(queue[i + 1], Head(queue))
          /\ queue[i + 1] \in Packets
      BY <2>1, <3>1, <1>a DEF OrderInv
    <3>3. NextPending(queue'[i])
      BY <2>1, <3>2, <1>4 DEF Pending, NextPending
    <3>4. ASSUME NEW j \in (i + 1)..Len(queue') PROVE Follows(queue'[j], queue'[i])
      <4>1. j + 1 \in (i + 2)..Len(queue) /\ j \in 1..Len(queue')
        BY <2>1, <3>1, <1>a
      <4>2. Follows(queue[j + 1], queue[i + 1])
        BY <3>1, <4>1, <1>a DEF OrderInv
      <4> QED BY <2>1, <4>1, <4>2
    <3> QED BY <3>3, <3>4
  <2>3. ASSUME cut' # NoCut
        PROVE  /\ NextPending(cut') /\ cut'.frame = sent'
               /\ \A i \in 1..Len(queue') : Follows(cut', queue'[i])
    <3>1. cut # NoCut /\ cut \in Packets /\ Pending(cut) /\ cut.frame = sent
      BY <2>3, <1>4, <1>b DEF OrderInv
    <3>2. \A i \in 1..Len(queue) : Follows(cut, queue[i])
      BY <3>1 DEF OrderInv
    <3>3. NextPending(cut')
      BY <2>1, <3>1, <3>2, <1>4 DEF Pending, NextPending
    <3>4. \A i \in 1..Len(queue') : i + 1 \in 1..Len(queue)
      BY <2>1, <1>a
    <3> QED BY <2>1, <3>1, <3>2, <3>3, <3>4, <1>4
  <2> QED BY <2>2, <2>3, <1>4 DEF OrderInv, Pending, NextPending
<1>5. ASSUME PacketArrives PROVE OrderInv'
  <2>1. /\ queue # <<>> /\ queue' = Tail(queue) /\ UNCHANGED <<sent, cut>>
        /\ Reassemble(Head(queue))
    BY <1>5 DEF PacketArrives
  <2>2. Head(queue) \in Packets /\ Pending(Head(queue))
    BY <2>1, <1>a, QueueHead DEF OrderInv
  <2>3. /\ \A k \in Indices : buffer[k] <= sent
        /\ \A k \in 1..Len(out) : out[k] <= sent
    BY DEF OrderInv
  <2>4. /\ \A k \in Indices : buffer'[k] <= sent
        /\ \A k \in 1..Len(out') : out'[k] <= sent
        /\ \A q \in Packets :
             q.index < q.count /\ Follows(q, Head(queue))
               => /\ \A k \in Indices : Before(buffer'[k], k, q)
                  /\ \A k \in 1..Len(out') : out'[k] < q.frame
    BY <2>1, <2>2, <2>3, ReassembleOrder
  <2>5. \A q \in Packets :
          Pending(q) /\ Follows(q, Head(queue)) => NextPending(q)
    BY <2>1, <2>4 DEF Pending, NextPending
  <2> QED BY <2>1, <2>4, <2>5, <1>4
<1>6. ASSUME PacketLost PROVE OrderInv'
  <2>1. /\ queue # <<>> /\ queue' = Tail(queue) /\ UNCHANGED <<sent, cut, buffer, out>>
    BY <1>6 DEF PacketLost, rover
  <2>2. \A q \in Packets :
          Pending(q) /\ Follows(q, Head(queue)) => NextPending(q)
    BY <2>1 DEF Pending, NextPending
  <2>3. /\ \A k \in Indices : buffer'[k] <= sent
        /\ \A k \in 1..Len(out') : out'[k] <= sent
    BY <2>1 DEF OrderInv
  <2> QED BY <2>1, <2>2, <2>3, <1>4
<1>7. ASSUME BaseReboots PROVE OrderInv'
  <2>1. Len(queue') = 0 /\ cut' = NoCut /\ UNCHANGED <<sent, buffer, out>>
    BY <1>7 DEF BaseReboots, rover
  <2> QED BY <2>1 DEF OrderInv, Pending, NextPending
<1>8. ASSUME RoverReboots PROVE OrderInv'
  <2>1. /\ UNCHANGED <<sent, queue, cut, out>>
        /\ \A k \in Indices : buffer'[k] = 0
    BY <1>8 DEF RoverReboots, base
  <2>2. ASSUME NEW p \in Packets, Pending(p) PROVE NextPending(p)
    <3>1. p.frame \in Nat \ {0}
      BY PacketType
    <3> QED BY <2>1, <2>2, <3>1 DEF Pending, NextPending, Before
  <2>3. \A i \in 1..Len(queue) : NextPending(queue'[i])
    BY <2>1, <2>2, <1>a DEF OrderInv
  <2>4. cut # NoCut => NextPending(cut')
    BY <2>1, <2>2, <1>b DEF OrderInv
  <2>5. \A k \in Indices : buffer'[k] <= sent'
    BY <2>1, <1>a
  <2> QED BY <2>1, <2>3, <2>4, <2>5 DEF OrderInv, Pending, NextPending
<1>9. CASE UNCHANGED vars
  BY <1>9 DEF vars, base, rover, OrderInv, Pending
<1> QED BY <1>1, <1>2, <1>3, <1>5, <1>6, <1>7, <1>8, <1>9 DEF Next

(* Fragments are queued, and so arrive, by frame and index; what is still to
   come follows everything the rover has kept or written. *)
THEOREM LinkOrderCorrect == Spec => []OrderInv
  BY TypeInit, TypeStep, OrderInit, OrderStep, PTL DEF Spec

-----------------------------------------------------------------------------
LEMMA StreamInit == Init => Stream!Init
  BY DEF Init, Stream!Init

(* Cutting a frame sends it; a packet that completes a valid frame delivers
   it; everything else is a stutter. *)
LEMMA StreamStep ==
  TypeOK /\ OrderInv /\ [Next]_vars => [Stream!Next]_(Stream!vars)
<1> SUFFICES ASSUME TypeOK, OrderInv, [Next]_vars
             PROVE  Stream!Next \/ UNCHANGED Stream!vars
  BY DEF Stream!vars
<1>1. ASSUME NEW n \in 1..MaxFragments, BeginFrame(n) PROVE Stream!Send
  BY <1>1 DEF BeginFrame, Stream!Send
<1>2. ASSUME PacketArrives PROVE Stream!Next \/ UNCHANGED Stream!vars
  <2> DEFINE p == Head(queue)
  <2>1. /\ queue # <<>> /\ sent' = sent /\ Reassemble(p)
    BY <1>2 DEF PacketArrives
  <2>2. p \in Packets /\ Pending(p)
    BY <2>1, QueueHead DEF OrderInv
  <2>3. /\ \A k \in Indices : buffer[k] <= sent
        /\ \A k \in 1..Len(out) : out[k] <= sent
    BY DEF OrderInv
  <2>4. out' = out \/ out' = Append(out, p.frame)
    BY <2>1, <2>2, <2>3, ReassembleOrder
  <2>5. ASSUME out' = Append(out, p.frame) PROVE Stream!Deliver(p.frame)
    BY <2>1, <2>2, <2>5 DEF Pending, Stream!Deliver
  <2>6. p.frame \in 1..sent
    <3>1. p.frame \in Nat \ {0} /\ sent \in Nat
      BY <2>2, PacketType DEF TypeOK
    <3> QED BY <2>2, <3>1 DEF Pending
  <2> QED BY <2>1, <2>4, <2>5, <2>6 DEF Stream!Next, Stream!vars
<1>3. ASSUME \/ EnqueueFragment \/ QueueFull \/ PacketLost
             \/ BaseReboots \/ RoverReboots \/ UNCHANGED vars
      PROVE  UNCHANGED Stream!vars
  BY <1>3 DEF EnqueueFragment, QueueFull, PacketLost, BaseReboots,
              RoverReboots, vars, Stream!vars
<1> QED BY <1>1, <1>2, <1>3 DEF Next, Stream!Next

(* The GNSS receiver of the rover gets whole frames of the base only, each
   at most once and in the order of sending, through lost packets, a full
   queue, reboots and any reuse of sequence numbers. *)
THEOREM LinkImplementsStream == Spec => ImplementsLossyStream
<1>1. Spec => Stream!Spec
  BY TypeInit, TypeStep, OrderInit, OrderStep, StreamInit, StreamStep, PTL
     DEF Spec, Stream!Spec
<1> QED BY <1>1 DEF ImplementsLossyStream

-----------------------------------------------------------------------------
LEMMA DueType ==
  ASSUME TypeOK, NEW p \in Due PROVE p \in Packets
  BY SeqElements DEF TypeOK, Due

(* What is left of the queue once its first packet was taken lies behind
   that packet. *)
LEMMA RestFollows ==
  ASSUME TypeOK, OrderInv, queue # <<>>, queue' = Tail(queue), cut' = cut,
         NEW q \in Due'
  PROVE  q \in Due /\ Follows(q, Head(queue))
<1>0. /\ Len(queue) \in Nat \ {0} /\ Head(queue) = queue[1]
      /\ Len(queue') = Len(queue) - 1
      /\ \A i \in 1..Len(queue') : queue'[i] = queue[i + 1]
  BY QueueHead
<1>1. CASE q \in {queue'[i] : i \in 1..Len(queue')}
  <2>1. PICK i \in 1..Len(queue') : q = queue'[i]
    BY <1>1
  <2>2. i + 1 \in 2..Len(queue) /\ q = queue[i + 1]
    BY <1>0, <2>1
  <2>3. i + 1 \in 1..Len(queue) /\ i + 1 \in (1 + 1)..Len(queue) /\ 1 \in 1..Len(queue)
    BY <1>0, <2>2
  <2> QED BY <1>0, <2>2, <2>3 DEF OrderInv, Due
<1>2. CASE q \in {cut'} \ {NoCut}
  <2>1. q = cut /\ cut # NoCut /\ 1 \in 1..Len(queue)
    BY <1>0, <1>2
  <2> QED BY <1>0, <2>1 DEF OrderInv, Due
<1> QED BY <1>1, <1>2 DEF Due

LEMMA DuePending ==
  ASSUME TypeOK, OrderInv, NEW p \in Due PROVE Pending(p)
<1>1. CASE p \in {queue[i] : i \in 1..Len(queue)}
  BY <1>1 DEF OrderInv
<1>2. CASE p \in {cut} \ {NoCut}
  BY <1>2 DEF OrderInv
<1> QED BY <1>1, <1>2 DEF Due

LEMMA HeardStep ==
  TypeOK /\ OrderInv /\ HeardInOrder /\ [Next]_vars => HeardInOrder'
<1> SUFFICES ASSUME TypeOK, OrderInv, HeardInOrder, [Next]_vars
             PROVE  HeardInOrder'
  OBVIOUS
<1>a. sent \in Nat /\ sent <= MaxFrames /\ MaxFrames \in Nat
  BY LinkAssumption DEF TypeOK
<1>b. \A p \in Due : p \in Packets /\ p.frame \in Nat /\ p.frame <= sent
  BY DueType, DuePending, PacketType DEF Pending
<1>1. ASSUME NEW n \in 1..MaxFragments, BeginFrame(n) PROVE HeardInOrder'
  <2>1. /\ cut = NoCut /\ sent' = sent + 1 /\ queue' = queue /\ got' = got
        /\ cut' = [frame |-> sent + 1, seq |-> nextSeq, index |-> 0, count |-> n]
        /\ made' = [made EXCEPT ![sent + 1] = <<nextSeq, n>>]
    BY <1>1 DEF BeginFrame
  <2>2. sent + 1 \in Frames
    BY <1>1, <1>a DEF BeginFrame, Frames
  <2>3. /\ made'[sent + 1] = <<nextSeq, n>>
        /\ \A f \in 1..sent : made'[f] = made[f]
    BY <2>1, <2>2, <1>a DEF TypeOK, Frames
  <2>4. \A f \in 1..sent' : made'[f][2] > 0
    BY <2>1, <2>3, <1>a DEF HeardInOrder
  <2>5. \A f \in Frames : (Heard(f))' => f <= sent'
    BY <2>1, <1>a DEF HeardInOrder, Heard, Frames
  <2>6. ASSUME NEW p \in Due'
        PROVE  /\ made'[p.frame] = <<p.seq, p.count>>
               /\ \A f \in Frames : \A i \in got'[f] : Before(f, i, p)
    <3>1. CASE p = cut'
      <4>1. \A f \in Frames : got[f] # {} => f < sent + 1
        BY <1>a DEF HeardInOrder, Heard, Frames
      <4> QED BY <3>1, <4>1, <2>1, <2>3 DEF Before
    <3>2. CASE p # cut'
      <4>1. p \in Due
        BY <3>2, <2>1 DEF Due
      <4>2. p.frame \in 1..sent
        BY <4>1, <1>a, <1>b, PacketType
      <4> QED BY <4>1, <4>2, <2>1, <2>3 DEF HeardInOrder
    <3> QED BY <3>1, <3>2
  <2> QED BY <2>4, <2>5, <2>6 DEF HeardInOrder
<1>2. ASSUME EnqueueFragment PROVE HeardInOrder'
  <2>0. cut \in Packets /\ cut # NoCut /\ cut \in Due
    BY <1>2 DEF EnqueueFragment, TypeOK, Due
  <2>1. queue' = Append(queue, cut) /\ UNCHANGED <<sent, made, got>>
    BY <1>2 DEF EnqueueFragment
  <2>2. /\ Len(queue') = Len(queue) + 1 /\ queue'[Len(queue) + 1] = cut
        /\ Len(queue) \in Nat
        /\ \A i \in 1..Len(queue) : queue'[i] = queue[i]
    BY <2>0, <2>1, AppendInSeq, SeqElements DEF TypeOK
  <2>3. ASSUME NEW p \in Due', p \notin Due
        PROVE  /\ p.frame = cut.frame /\ p.seq = cut.seq /\ p.count = cut.count
               /\ p.index = cut.index + 1
    <3>1. p \notin {queue'[i] : i \in 1..Len(queue')}
      BY <2>0, <2>2, <2>3 DEF Due
    <3>2. p = cut' /\ cut' # NoCut
      BY <2>3, <3>1 DEF Due
    <3>3. cut' = [cut EXCEPT !.index = cut.index + 1]
      BY <1>2, <3>2 DEF EnqueueFragment
    <3> QED BY <2>0, <3>2, <3>3 DEF Packets
  <2>4. ASSUME NEW p \in Due'
        PROVE  /\ made'[p.frame] = <<p.seq, p.count>>
               /\ \A f \in Frames : \A i \in got'[f] : Before(f, i, p)
    <3>1. CASE p \in Due
      BY <3>1, <2>1 DEF HeardInOrder
    <3>2. CASE p \notin Due
      <4>1. \A f \in Frames : \A i \in got[f] : i \in Nat /\ f \in Nat
        BY DEF TypeOK, Indices, Frames
      <4>2. cut.index \in Nat /\ cut.frame \in Nat
        BY <2>0, PacketType
      <4>3. \A f \in Frames : \A i \in got[f] : Before(f, i, cut)
        BY <2>0 DEF HeardInOrder
      <4>4. \A f \in Frames : \A i \in got[f] : Before(f, i, p)
        BY <3>2, <4>1, <4>2, <4>3, <2>3 DEF Before
      <4> QED BY <3>2, <4>4, <2>0, <2>1, <2>3 DEF HeardInOrder
    <3> QED BY <3>1, <3>2
  <2> QED BY <2>1, <2>4 DEF HeardInOrder, Heard
<1>3. ASSUME QueueFull PROVE HeardInOrder'
  <2>1. UNCHANGED <<sent, made, got>> /\ \A p \in Due' : p \in Due
    BY <1>3 DEF QueueFull, Due
  <2> QED BY <2>1 DEF HeardInOrder, Heard
<1>4. ASSUME PacketArrives PROVE HeardInOrder'
  <2> DEFINE p == Head(queue)
  <2>1. /\ queue # <<>> /\ queue' = Tail(queue) /\ UNCHANGED <<sent, cut, made>>
        /\ got' = [got EXCEPT ![p.frame] = got[p.frame] \cup {p.index}]
    BY <1>4 DEF PacketArrives
  <2>2. p \in Packets /\ p.frame \in Frames /\ Pending(p)
    BY <2>1, QueueHead DEF OrderInv, Packets
  <2>3. /\ \A f \in Frames : f # p.frame => got'[f] = got[f]
        /\ got'[p.frame] = got[p.frame] \cup {p.index}
    BY <2>1, <2>2 DEF TypeOK
  <2>4. \A f \in Frames : (Heard(f))' => f <= sent'
    BY <2>1, <2>2, <2>3 DEF HeardInOrder, Heard, Pending
  <2>5. ASSUME NEW q \in Due'
        PROVE  /\ made'[q.frame] = <<q.seq, q.count>>
               /\ \A f \in Frames : \A i \in got'[f] : Before(f, i, q)
    <3>1. q \in Due /\ Follows(q, p)
      BY <2>1, RestFollows
    <3>2. Before(p.frame, p.index, q)
      BY <3>1 DEF Follows
    <3> QED BY <3>1, <3>2, <2>1, <2>2, <2>3 DEF HeardInOrder
  <2> QED BY <2>1, <2>4, <2>5 DEF HeardInOrder
<1>5. ASSUME PacketLost PROVE HeardInOrder'
  <2>1. /\ queue # <<>> /\ queue' = Tail(queue)
        /\ UNCHANGED <<sent, cut, made, got>>
    BY <1>5 DEF PacketLost
  <2>2. \A q \in Due' : q \in Due
    BY <2>1, RestFollows
  <2> QED BY <2>1, <2>2 DEF HeardInOrder, Heard
<1>6. ASSUME BaseReboots PROVE HeardInOrder'
  <2>1. Len(queue') = 0 /\ cut' = NoCut /\ UNCHANGED <<sent, made, got>>
    BY <1>6 DEF BaseReboots
  <2>2. Due' = {}
    BY <2>1 DEF Due
  <2> QED BY <2>1, <2>2 DEF HeardInOrder, Heard
<1>7. ASSUME RoverReboots PROVE HeardInOrder'
  <2>1. /\ UNCHANGED <<sent, made, queue, cut>>
        /\ \A f \in Frames : got'[f] = {}
    BY <1>7 DEF RoverReboots, base
  <2>2. Due' = Due
    BY <2>1 DEF Due
  <2> QED BY <2>1, <2>2 DEF HeardInOrder, Heard
<1>8. CASE UNCHANGED vars
  BY <1>8 DEF vars, base, rover, HeardInOrder, Heard, Due
<1> QED BY <1>1, <1>2, <1>3, <1>4, <1>5, <1>6, <1>7, <1>8 DEF Next

-----------------------------------------------------------------------------
(* Steps that leave the rover and the frames begun so far alone *)
LEMMA RoverAlone ==
  ASSUME TypeOK, HeardInOrder, HoldsLast, DeliversWhole,
         UNCHANGED <<rover, out, got>>, sent' \in Nat, sent' >= sent,
         \A f \in 1..sent : made'[f] = made[f],
         \A f \in (sent + 1)..sent' : f \in Frames /\ made'[f][2] \in Nat \ {0}
  PROVE  HoldsLast' /\ DeliversWhole'
<1> USE DEF rover
<1>a. sent \in Nat
  BY LinkAssumption DEF TypeOK
<1>1. ASSUME NEW f \in 1..sent
      PROVE  (Whole(f))' = Whole(f) /\ (Written(f))' = Written(f)
  BY DEF Whole, Written
<1>2. ASSUME NEW f \in 1..sent, Shadowed(f) PROVE (Shadowed(f))'
  <2>1. PICK g \in 1..(f - 1) :
          /\ made[g] = made[f] /\ got[g] # {} /\ ~Written(g)
          /\ \A h \in (g + 1)..(f - 1) : got[h] = {}
    BY <1>2 DEF Shadowed
  <2>2. g \in 1..sent
    BY <1>a
  <2> QED BY <2>1, <2>2, <1>1 DEF Shadowed
<1>3. HoldsLast'
  <2>1. PICK m \in 0..sent : LastHeard(m) /\ IF m = 0 THEN ~active ELSE Holds(m)
    BY DEF HoldsLast
  <2>2. (LastHeard(m))'
    BY <2>1 DEF LastHeard, Heard
  <2>3. CASE m = 0
    BY <2>1, <2>2, <2>3, <1>a DEF HoldsLast
  <2>4. CASE m # 0
    <3>1. m \in 1..sent /\ Holds(m)
      BY <2>1, <2>4, <1>a
    <3>2. (Collects(m))' = Collects(m) /\ (Finished(m))' = Finished(m)
      BY <3>1, <1>1 DEF Collects, Finished
    <3>3. Mixes(m) => (Mixes(m))'
      BY <3>1, <1>1, <1>2 DEF Mixes
    <3>4. (Holds(m))'
      BY <3>1, <3>2, <3>3, <1>1 DEF Holds
    <3> QED BY <2>2, <3>1, <3>4, <1>a DEF HoldsLast
  <2> QED BY <2>3, <2>4
<1>4. DeliversWhole'
  <2> SUFFICES ASSUME NEW f \in 1..sent', (Whole(f))'
               PROVE  (Written(f))' \/ (Shadowed(f))'
    BY DEF DeliversWhole
  <2>1. CASE f \in 1..sent
    BY <2>1, <1>1, <1>2 DEF DeliversWhole
  <2>2. CASE f \notin 1..sent
    <3>1. f \in (sent + 1)..sent' /\ f \in Frames
      BY <2>2, <1>a
    <3>2. got[f] = {}
      BY <3>1, <1>a DEF HeardInOrder, Heard
    <3>3. 0 \in 0..(made'[f][2] - 1)
      BY <3>1
    <3> QED BY <3>2, <3>3 DEF Whole
  <2> QED BY <2>1, <2>2
<1> QED BY <1>3, <1>4

(* What one packet does to the rover, case by case: the fragment is known
   already, or it joins those of the frame at hand, or it starts anew. *)
LEMMA ReassembleCases ==
  ASSUME TypeOK, NEW p \in Packets, Reassemble(p)
  PROVE  \/ /\ SameFrame(p) /\ p.index \in received
            /\ UNCHANGED <<active, rxSeq, rxCount, received, buffer, out>>
         \/ /\ p.index \notin Already(p)
            /\ rxSeq' = p.seq /\ rxCount' = p.count
            /\ received' = Already(p) \cup {p.index}
            /\ buffer'[p.index] = p.frame
            /\ \A k \in Indices : k # p.index => buffer'[k] = buffer[k]
            /\ active' = (received' # 0..(p.count - 1))
            /\ out' = IF ~active' /\ \A i \in 0..(p.count - 1) : buffer'[i] = p.frame
                      THEN Append(out, p.frame) ELSE out
<1>1. CASE p.index \in Already(p)
  BY <1>1 DEF Reassemble, Already, rover
<1>2. CASE p.index \notin Already(p)
  <2>1. /\ buffer' = [buffer EXCEPT ![p.index] = p.frame]
        /\ rxSeq' = p.seq /\ rxCount' = p.count
        /\ received' = Already(p) \cup {p.index}
        /\ active' = (Already(p) \cup {p.index} # 0..(p.count - 1))
    BY <1>2 DEF Reassemble
  <2>2. /\ buffer'[p.index] = p.frame
        /\ \A k \in Indices : k # p.index => buffer'[k] = buffer[k]
    BY <2>1, PacketType DEF TypeOK
  <2>3. out' = IF Already(p) \cup {p.index} = 0..(p.count - 1)
                    /\ \A i \in 0..(p.count - 1) : buffer'[i] = p.frame
               THEN Append(out, p.frame) ELSE out
    BY <1>2 DEF Reassemble, ValidFrame
  <2> QED BY <1>2, <2>1, <2>2, <2>3
<1> QED BY <1>1, <1>2

(* What is written is written for good, and a packet writes its frame only. *)
LEMMA WrittenStep ==
  ASSUME TypeOK, NEW F \in Frames, out' = out \/ out' = Append(out, F)
  PROVE  \A f \in Nat : (Written(f))' <=> Written(f) \/ (f = F /\ out' # out)
<1>1. out \in Seq(0..MaxFrames) /\ F \in 0..MaxFrames /\ Len(out) \in Nat
  BY LinkAssumption DEF TypeOK, Frames
<1>2. CASE out' = out
  BY <1>2 DEF Written
<1>3. CASE out' = Append(out, F)
  <2>1. /\ Len(out') = Len(out) + 1 /\ out'[Len(out) + 1] = F
        /\ \A k \in 1..Len(out) : out'[k] = out[k]
    BY <1>1, <1>3, AppendInSeq
  <2>2. out' # out
    BY <2>1, <1>1
  <2>3. ASSUME NEW f \in Nat, Written(f) \/ f = F PROVE (Written(f))'
    <3>1. CASE f = F
      <4>1. Len(out) + 1 \in 1..Len(out')
        BY <2>1, <1>1
      <4> QED BY <4>1, <3>1, <2>1 DEF Written
    <3>2. CASE Written(f)
      <4>1. PICK k \in 1..Len(out) : out[k] = f
        BY <3>2 DEF Written
      <4>2. k \in 1..Len(out')
        BY <2>1, <1>1
      <4> QED BY <4>1, <4>2, <2>1 DEF Written
    <3> QED BY <2>3, <3>1, <3>2
  <2>4. ASSUME NEW f \in Nat, (Written(f))' PROVE Written(f) \/ f = F
    <3>1. PICK k \in 1..Len(out') : out'[k] = f
      BY <2>4 DEF Written
    <3>2. CASE k = Len(out) + 1
      BY <3>1, <3>2, <2>1
    <3>3. CASE k # Len(out) + 1
      <4>1. k \in 1..Len(out)
        BY <3>3, <2>1, <1>1
      <4> QED BY <3>1, <4>1, <2>1 DEF Written
    <3> QED BY <3>2, <3>3
  <2> QED BY <2>2, <2>3, <2>4
<1> QED BY <1>2, <1>3

(* What the rover holds of the frame it last heard of, after a packet *)
LEMMA HoldsArrived ==
  ASSUME TypeOK, HoldsLast, NEW p \in Packets, Reassemble(p),
         made[p.frame] = <<p.seq, p.count>>, made' = made,
         p.frame <= sent, p.index < p.count,
         got' = [got EXCEPT ![p.frame] = got[p.frame] \cup {p.index}],
         \A f \in Frames : \A i \in got[f] : Before(f, i, p),
         \A k \in Indices : Before(buffer[k], k, p),
         ~Written(p.frame),
         (Written(p.frame))' <=> out' # out,
         \A f \in 1..p.frame : Shadowed(f) => (Shadowed(f))',
         \A f \in 1..(p.frame - 1) : (Written(f))' <=> Written(f)
  PROVE  (Holds(p.frame))'
<1> DEFINE F == p.frame
<1>0. /\ F \in Nat \ {0} /\ F \in Frames /\ F \in 1..sent /\ sent \in Nat
      /\ p.index \in Nat /\ p.index \in Indices /\ p.count \in Nat \ {0}
      /\ got[F] \subseteq Indices /\ received \subseteq Indices
      /\ \A f \in Frames : f \in Nat
      /\ MaxFrames \in Nat /\ F <= MaxFrames /\ sent <= MaxFrames
  BY LinkAssumption, PacketType DEF TypeOK, Packets, Frames
<1>1. /\ got'[F] = got[F] \cup {p.index} /\ p.index \notin got[F]
      /\ \A f \in Frames : f # F => got'[f] = got[f]
  <2>1. p.index \notin got[F]
    BY <1>0 DEF Before
  <2>2. /\ got'[F] = got[F] \cup {p.index}
        /\ \A f \in Frames : f # F => got'[f] = got[f]
    BY <1>0 DEF TypeOK
  <2> QED BY <2>1, <2>2
<1>2. (Whole(F))' <=> got'[F] = 0..(p.count - 1)
  BY DEF Whole
<1>3. PICK m \in 0..sent : LastHeard(m) /\ IF m = 0 THEN ~active ELSE Holds(m)
  BY DEF HoldsLast
<1>4. m <= F /\ \A h \in Frames : h > m => got[h] = {}
  <2>1. CASE m = 0
    BY <2>1, <1>0, <1>3 DEF LastHeard, Heard
  <2>2. CASE m # 0
    <3>1. m \in Frames /\ got[m] # {}
      BY <2>2, <1>3, <1>0, LinkAssumption DEF LastHeard, Heard, Frames, TypeOK
    <3> QED BY <3>1, <1>0, <1>3 DEF Before, LastHeard, Heard
  <2> QED BY <2>1, <2>2
<1>5. Append(out, F) # out
  BY <1>0 DEF TypeOK
<1>6. Already(p) \subseteq Indices
  BY <1>0 DEF Already
(* The rover starts the frame anew, and holds what arrived of it. *)
<1>7. ASSUME ~SameFrame(p), got[F] = {} PROVE (Holds(F))'
  <2>1. /\ rxSeq' = p.seq /\ rxCount' = p.count
        /\ received' = {p.index} /\ buffer'[p.index] = F
        /\ active' = (received' # 0..(p.count - 1))
        /\ out' = IF ~active' /\ \A i \in 0..(p.count - 1) : buffer'[i] = F
                  THEN Append(out, F) ELSE out
    BY <1>7, ReassembleCases DEF Already
  <2>2. received' = got'[F]
    BY <1>1, <1>7, <2>1
  <2>3. CASE active'
    <3>1. (Collects(F))'
      BY <2>1, <2>2, <2>3, <1>2 DEF Collects
    <3> QED BY <3>1, <2>1, <2>3 DEF Holds, Collects
  <2>4. CASE ~active'
    <3>1. \A i \in 0..(p.count - 1) : buffer'[i] = F
      BY <2>1, <2>4
    <3>2. (Finished(F))'
      BY <2>1, <2>2, <2>4, <3>1, <1>2, <1>5 DEF Finished
    <3> QED BY <2>4, <3>2 DEF Holds
  <2> QED BY <2>3, <2>4
(* Bytes of a shadowing frame stay, and keep the frame from being valid. *)
<1>8. ASSUME (Shadowed(F))',
             active => /\ SameFrame(p) /\ received # {}
                       /\ \/ 0 \notin received /\ p.index # 0
                          \/ \E i \in received : buffer[i] # F /\ i # p.index
                          \/ p.index \in received /\ buffer[p.index] # F,
             ~active => p.index # 0
      PROVE  (Holds(F))'
  <2>1. CASE /\ SameFrame(p) /\ p.index \in received
             /\ UNCHANGED <<active, rxSeq, rxCount, received, buffer, out>>
    <3>1. active
      BY <2>1 DEF SameFrame
    <3>2. 0 \notin received' \/ \E i \in received' : buffer'[i] # F
      BY <2>1, <3>1, <1>8
    <3>3. ~(Written(F))'
      BY <2>1
    <3>4. (Mixes(F))'
      BY <3>2, <3>3, <1>8 DEF Mixes
    <3> QED BY <2>1, <3>1, <3>3, <3>4, <1>8 DEF Holds, SameFrame
  <2>2. CASE /\ p.index \notin Already(p)
             /\ rxSeq' = p.seq /\ rxCount' = p.count
             /\ received' = Already(p) \cup {p.index}
             /\ buffer'[p.index] = F
             /\ \A k \in Indices : k # p.index => buffer'[k] = buffer[k]
             /\ active' = (received' # 0..(p.count - 1))
             /\ out' = IF ~active' /\ \A i \in 0..(p.count - 1) : buffer'[i] = F
                       THEN Append(out, F) ELSE out
    <3>1. 0 \notin received' \/ \E i \in received' : buffer'[i] # F
      <4>1. CASE active
        <5>1. Already(p) = received
          BY <4>1, <1>8 DEF Already
        <5> QED BY <4>1, <5>1, <2>2, <1>0, <1>8
      <4>2. CASE ~active
        <5>1. Already(p) = {}
          BY <4>2 DEF Already, SameFrame
        <5> QED BY <4>2, <5>1, <2>2, <1>8
      <4> QED BY <4>1, <4>2
    <3>2. 0 \in 0..(p.count - 1)
      BY <1>0
    <3>3. out' = out
      BY <3>1, <3>2, <2>2
    <3>4. (Mixes(F))'
      BY <3>1, <3>3, <1>8 DEF Mixes
    <3> QED BY <3>3, <3>4, <2>2 DEF Holds
  <2> QED BY <2>1, <2>2, ReassembleCases
<1>9. CASE m = F
  <2>0. Holds(F) /\ got[F] # {} /\ p.index # 0
    BY <1>9, <1>0, <1>1, <1>3 DEF LastHeard, Heard, Before, Indices
  <2>1. ~Finished(F)
    BY DEF Finished
  <2>2. active => SameFrame(p) /\ received # {}
    BY <2>0 DEF Holds, SameFrame
  <2>3. CASE Collects(F)
    <3>1. Already(p) = got[F] /\ p.index \notin Already(p) /\ active
      BY <2>2, <2>3, <1>1 DEF Already, Collects
    <3>2. /\ rxSeq' = p.seq /\ rxCount' = p.count /\ received' = got'[F]
          /\ buffer'[p.index] = F
          /\ \A k \in Indices : k # p.index => buffer'[k] = buffer[k]
          /\ active' = (received' # 0..(p.count - 1))
          /\ out' = IF ~active' /\ \A i \in 0..(p.count - 1) : buffer'[i] = F
                    THEN Append(out, F) ELSE out
      BY <3>1, <1>1, ReassembleCases DEF Already
    <3>3. \A i \in received' : buffer'[i] = F
      BY <2>3, <3>2, <1>0, <1>1 DEF Collects
    <3>4. CASE active'
      <4>1. (Collects(F))'
        BY <3>2, <3>3, <3>4, <1>2 DEF Collects
      <4> QED BY <3>2, <3>4, <4>1, <1>1 DEF Holds, Collects
    <3>5. CASE ~active'
      <4>1. \A i \in 0..(p.count - 1) : buffer'[i] = F
        BY <3>2, <3>3, <3>5
      <4>2. (Finished(F))'
        BY <3>2, <3>5, <4>1, <1>2, <1>5 DEF Finished
      <4> QED BY <3>5, <4>2 DEF Holds
    <3> QED BY <3>4, <3>5
  <2>4. CASE Mixes(F)
    <3>1. (Shadowed(F))'
      BY <2>4, <1>0 DEF Mixes
    <3>2. active => \/ 0 \notin received /\ p.index # 0
                    \/ \E i \in received : buffer[i] # F /\ i # p.index
                    \/ p.index \in received /\ buffer[p.index] # F
      BY <2>0, <2>4 DEF Mixes
    <3> QED BY <2>0, <2>2, <3>1, <3>2, <1>8
  <2> QED BY <2>0, <2>1, <2>3, <2>4 DEF Holds
<1>10. CASE m < F
  <2>0. got[F] = {}
    BY <1>10, <1>0, <1>4
  <2>1. CASE ~SameFrame(p)
    BY <2>0, <2>1, <1>7
  <2>2. CASE SameFrame(p)
    <3>0. active /\ m # 0
      BY <2>2, <1>3 DEF SameFrame
    <3>1. /\ m \in 1..(F - 1) /\ m \in Frames
          /\ Holds(m) /\ active /\ got[m] # {}
      <4>1. m \in 1..(F - 1) /\ m \in Frames
        BY <3>0, <1>0, <1>10 DEF Frames
      <4>2. Holds(m) /\ got[m] # {}
        BY <3>0, <1>3 DEF LastHeard, Heard
      <4> QED BY <3>0, <4>1, <4>2
    <3>2. received # {} /\ made[m] = made[F] /\ ~Written(m)
      BY <2>2, <3>1 DEF Holds, SameFrame
    <3>3. (Shadowed(F))'
      <4>1. ASSUME NEW h \in (m + 1)..(F - 1)
            PROVE  h \in Frames /\ h > m /\ h # F
        BY <4>1, <1>0 DEF Frames
      <4>2. \A h \in (m + 1)..(F - 1) : got'[h] = {}
        BY <4>1, <1>1, <1>4
      <4>3. got'[m] # {} /\ made'[m] = made'[F] /\ ~(Written(m))'
        BY <3>1, <3>2, <1>0, <1>1
      <4> QED BY <3>1, <4>2, <4>3 DEF Shadowed
    <3>4. \A i \in received : buffer[i] # F
      <4>1. ASSUME NEW i \in received, buffer[i] = F PROVE FALSE
        BY <4>1, <2>0, <1>0 DEF HoldsLast
      <4> QED BY <4>1
    <3> QED BY <2>2, <3>1, <3>2, <3>3, <3>4, <1>8
  <2> QED BY <2>1, <2>2
<1> QED BY <1>0, <1>4, <1>9, <1>10

LEMMA ArrivalDelivers ==
  ASSUME TypeOK, OrderInv, HeardInOrder, HoldsLast, DeliversWhole,
         PacketArrives, NEW p \in Packets, p = Head(queue)
  PROVE  HoldsLast' /\ DeliversWhole'
<1> DEFINE F == p.frame
<1>1. /\ queue # <<>> /\ Reassemble(p) /\ made' = made /\ sent' = sent
      /\ got' = [got EXCEPT ![F] = got[F] \cup {p.index}]
  BY DEF PacketArrives
<1>2. p \in Packets /\ p \in Due /\ Pending(p) /\ made[F] = <<p.seq, p.count>>
  <2>1. p = queue[1] /\ 1 \in 1..Len(queue)
    BY <1>1, QueueHead
  <2> QED BY <2>1 DEF OrderInv, HeardInOrder, Due
<1>3. /\ F \in Nat \ {0} /\ F \in Frames /\ F \in 1..sent /\ sent \in Nat
      /\ MaxFrames \in Nat /\ p.index \in Nat /\ p.index \in Indices
      /\ p.index < p.count
  <2>1. p.frame <= sent /\ p.index < p.count
    BY <1>2 DEF Pending
  <2>2. sent \in Nat /\ MaxFrames \in Nat
    BY LinkAssumption DEF TypeOK
  <2> QED BY <2>1, <2>2, PacketType DEF Frames
<1>4. /\ got'[F] = got[F] \cup {p.index}
      /\ \A f \in Frames : f # F => got'[f] = got[f]
  BY <1>1, <1>3 DEF TypeOK
<1>5. \A f \in Frames : \A i \in got[f] : Before(f, i, p)
  BY <1>2 DEF HeardInOrder
<1>6. ~Written(F)
  BY <1>2, <1>3 DEF Pending, Written
<1>7. out' = out \/ out' = Append(out, F)
  BY <1>1, <1>2, ReassembleOrder DEF OrderInv
<1>8. \A f \in Nat : (Written(f))' <=> Written(f) \/ (f = F /\ out' # out)
  BY <1>3, <1>7, WrittenStep
<1>9. ASSUME NEW f \in 1..F, Shadowed(f) PROVE (Shadowed(f))'
  <2>1. PICK g \in 1..(f - 1) :
          /\ made[g] = made[f] /\ got[g] # {} /\ ~Written(g)
          /\ \A h \in (g + 1)..(f - 1) : got[h] = {}
    BY <1>9 DEF Shadowed
  <2>2. ASSUME NEW h \in 1..(f - 1) PROVE h \in Frames /\ h # F /\ h \in Nat
    <3>1. F <= MaxFrames /\ f \in Nat
      BY <1>3 DEF Frames
    <3> QED BY <3>1, <1>3 DEF Frames
  <2>3. got'[g] = got[g] /\ ~(Written(g))'
    BY <2>1, <2>2, <1>4, <1>8
  <2>4. ASSUME NEW h \in (g + 1)..(f - 1) PROVE got'[h] = {}
    <3>1. h \in 1..(f - 1)
      BY <1>3
    <3> QED BY <3>1, <2>1, <2>2, <1>4
  <2> QED BY <2>1, <2>3, <2>4, <1>1 DEF Shadowed
<1>10. \A f \in 1..(F - 1) : (Written(f))' <=> Written(f)
  BY <1>3, <1>8
<1>11. (Holds(F))'
  <2>1. \A k \in Indices : Before(buffer[k], k, p)
    BY <1>2 DEF Pending
  <2>2. (Written(F))' <=> out' # out
    BY <1>3, <1>6, <1>8
  <2>3. F <= sent
    BY <1>3
  <2> QED BY <1>1, <1>2, <1>3, <1>5, <1>6, <1>9, <1>10, <2>1, <2>2, <2>3,
             HoldsArrived
<1>12. (LastHeard(F))'
  <2>1. ASSUME NEW h \in Frames, h > F PROVE got'[h] = {}
    <3>1. \A i \in got[h] : ~Before(h, i, p)
      BY <2>1, <1>3 DEF Before, Frames
    <3> QED BY <2>1, <3>1, <1>3, <1>4, <1>5
  <2> QED BY <2>1, <1>4 DEF LastHeard, Heard
<1>13. \A k \in Indices : buffer'[k] # 0 => k \in got'[buffer'[k]]
  <2> SUFFICES ASSUME NEW k \in Indices, buffer'[k] # 0
               PROVE  k \in got'[buffer'[k]]
    OBVIOUS
  <2>1. buffer'[k] = buffer[k] \/ (k = p.index /\ buffer'[k] = F)
    BY <1>1, <1>2, ReassembleCases
  <2>2. CASE buffer'[k] = buffer[k]
    <3>1. k \in got[buffer[k]] /\ buffer[k] \in Frames
      BY <2>2 DEF HoldsLast, TypeOK, Frames
    <3> QED BY <2>2, <3>1, <1>4
  <2> QED BY <2>1, <2>2, <1>4
<1>14. HoldsLast'
  BY <1>1, <1>3, <1>11, <1>12, <1>13 DEF HoldsLast
<1>15. DeliversWhole'
  <2> SUFFICES ASSUME NEW f \in 1..sent, (Whole(f))'
               PROVE  (Written(f))' \/ (Shadowed(f))'
    BY <1>1 DEF DeliversWhole
  <2>0. f \in Frames /\ f \in Nat
    BY <1>3 DEF TypeOK, Frames
  <2>1. CASE f = F
    <3>1. ~(Collects(F))'
      BY <2>1 DEF Collects
    <3> QED BY <2>1, <3>1, <1>11 DEF Holds, Finished, Mixes
  <2>2. CASE f < F
    <3>1. Whole(f) /\ f \in 1..F
      BY <2>0, <2>2, <1>1, <1>3, <1>4 DEF Whole
    <3> QED BY <3>1, <2>0, <1>8, <1>9 DEF DeliversWhole
  <2>3. CASE f > F
    <3>1. got'[f] = {}
      BY <2>0, <2>3, <1>12 DEF LastHeard, Heard
    <3>2. made'[f][2] \in Nat \ {0}
      <4>1. made[f] \in Seqs \X (0..MaxFragments)
        BY <2>0 DEF TypeOK
      <4>2. made[f][2] \in 0..MaxFragments
        BY <4>1
      <4>3. made[f][2] > 0
        BY DEF HeardInOrder
      <4> QED BY <4>2, <4>3, <1>1, LinkAssumption
    <3>3. 0 \in 0..(made'[f][2] - 1)
      BY <3>2
    <3> QED BY <3>1, <3>3 DEF Whole
  <2> QED BY <2>0, <2>1, <2>2, <2>3, <1>3
<1> QED BY <1>14, <1>15

LEMMA DeliveryInit == Init => DeliveryInv
<1> SUFFICES ASSUME Init PROVE DeliveryInv
  OBVIOUS
<1>1. /\ Len(queue) = 0 /\ cut = NoCut /\ sent = 0 /\ active = FALSE
      /\ \A f \in Frames : got[f] = {}
  BY DEF Init, BaseInit, RoverInit
<1>2. \A k \in Indices : buffer[k] = 0
  BY DEF Init, RoverInit
<1>3. Due = {}
  BY <1>1 DEF Due
<1>4. LastHeard(0) /\ 0 \in 0..sent
  BY <1>1 DEF LastHeard, Heard
<1>5. HoldsLast
  BY <1>1, <1>2, <1>4 DEF HoldsLast
<1>6. HeardInOrder /\ DeliversWhole
  BY <1>1, <1>3 DEF HeardInOrder, DeliversWhole, Heard
<1> QED BY <1>5, <1>6 DEF DeliveryInv

LEMMA DeliveryStep ==
  TypeOK /\ OrderInv /\ DeliveryInv /\ [Next]_vars => DeliveryInv'
<1> SUFFICES ASSUME TypeOK, OrderInv, HeardInOrder, HoldsLast, DeliversWhole,
                    [Next]_vars
             PROVE  HoldsLast' /\ DeliversWhole'
  BY HeardStep DEF DeliveryInv
<1>0. sent \in Nat /\ MaxFrames \in Nat
  BY LinkAssumption DEF TypeOK
<1>1. ASSUME NEW n \in 1..MaxFragments, BeginFrame(n)
      PROVE  HoldsLast' /\ DeliversWhole'
  <2>1. /\ UNCHANGED <<rover, out, got>> /\ sent' = sent + 1
        /\ sent + 1 \in Frames /\ made' = [made EXCEPT ![sent + 1] = <<nextSeq, n>>]
    BY <1>0, <1>1 DEF BeginFrame, Frames, TypeOK
  <2>2. made'[sent + 1][2] = n /\ \A f \in 1..sent : made'[f] = made[f]
    BY <1>0, <2>1 DEF TypeOK, Frames
  <2>3. \A f \in (sent + 1)..sent' : f = sent + 1
    BY <1>0, <2>1
  <2> QED BY <1>0, <2>1, <2>2, <2>3, RoverAlone
<1>2. ASSUME UNCHANGED <<rover, out, got, sent, made>>
      PROVE  HoldsLast' /\ DeliversWhole'
  <2>1. (sent + 1)..sent' = {}
    BY <1>0, <1>2
  <2> QED BY <1>0, <1>2, <2>1, RoverAlone
<1>3. ASSUME \/ EnqueueFragment \/ QueueFull \/ PacketLost \/ BaseReboots
             \/ UNCHANGED vars
      PROVE  UNCHANGED <<rover, out, got, sent, made>>
  BY <1>3 DEF EnqueueFragment, QueueFull, PacketLost, BaseReboots, vars
<1>4. ASSUME RoverReboots PROVE HoldsLast' /\ DeliversWhole'
  <2>1. /\ UNCHANGED <<sent, made>> /\ active' = FALSE
        /\ \A k \in Indices : buffer'[k] = 0
        /\ \A f \in Frames : got'[f] = {}
    BY <1>4 DEF RoverReboots
  <2>2. (LastHeard(0))' /\ 0 \in 0..sent'
    BY <1>0, <2>1 DEF LastHeard, Heard
  <2>3. ASSUME NEW f \in 1..sent' PROVE ~(Whole(f))'
    <3>1. f \in Frames /\ f \in 1..sent
      BY <2>1, <1>0 DEF Frames, TypeOK
    <3>2. made[f][2] > 0 /\ made[f][2] \in Nat
      <4>1. made[f] \in Seqs \X (0..MaxFragments)
        BY <3>1 DEF TypeOK
      <4>2. made[f][2] \in 0..MaxFragments
        BY <4>1
      <4> QED BY <3>1, <4>2, LinkAssumption DEF HeardInOrder
    <3>3. 0 \in 0..(made[f][2] - 1)
      BY <3>2
    <3> QED BY <3>1, <3>3, <2>1 DEF Whole
  <2> QED BY <2>1, <2>2, <2>3 DEF HoldsLast, DeliversWhole
<1>5. ASSUME PacketArrives PROVE HoldsLast' /\ DeliversWhole'
  <2>1. Head(queue) \in Packets
    BY <1>5, QueueHead DEF PacketArrives
  <2> QED BY <1>5, <2>1, ArrivalDelivers
<1> QED BY <1>1, <1>2, <1>3, <1>4, <1>5 DEF Next

(* A frame of which all fragments arrived since the rover was switched on is
   written to the GNSS receiver, unless the frame heard of before it was left
   incomplete under the very same key: for any length of queue and frames,
   any space of sequence numbers, any losses and reboots. *)
THEOREM LinkDeliversWhole == Spec => []DeliversWhole
<1>1. DeliveryInv => DeliversWhole
  BY DEF DeliveryInv
<1> QED BY <1>1, TypeInit, TypeStep, OrderInit, OrderStep, DeliveryInit,
           DeliveryStep, PTL DEF Spec

-----------------------------------------------------------------------------
(* Sums *)

(* The least of a set of numbers, in place of an induction *)
LEMMA LeastNumber ==
  ASSUME NEW T, T \subseteq Nat, T # {}
  PROVE  \E x \in T : \A y \in T : x <= y
<1>1. PICK x \in T : \A y \in T : ~(<<y, x>> \in OpToRel(<, Nat))
  BY WFMin, NatLessThanWellFounded, Zenon
<1>2. \A y \in T : x <= y
  <2> SUFFICES ASSUME NEW y \in T, ~(x <= y)
               PROVE  FALSE
    OBVIOUS
  <2>1. y \in Nat /\ x \in Nat /\ y < x
    OBVIOUS
  <2>2. <<y, x>> \in OpToRel(<, Nat)
    BY <2>1 DEF OpToRel
  <2> QED
    BY <1>1, <2>2
<1> QED
  BY <1>2

(* What duty_cycle_sum_used_locked adds up, step by step *)
Adds(f, a, n) ==
  f = [m \in 0..n |-> IF m = 0 THEN 0 ELSE f[m - 1] + a[m - 1]]

LEMMA SumsExist ==
  ASSUME NEW a, NEW N \in Nat
  PROVE  \E f : Adds(f, a, N)
<1> DEFINE T == {n \in Nat : ~(\E f : Adds(f, a, n))}
<1> SUFFICES ASSUME T # {}
             PROVE  FALSE
  OBVIOUS
<1>1. PICK n \in T : \A k \in T : n <= k
  BY LeastNumber
<1>2. n # 0
  <2>1. Adds([m \in 0..0 |-> 0], a, 0)
    BY DEF Adds
  <2> QED
    BY <2>1, <1>1
<1>3. n - 1 \in Nat /\ n - 1 \notin T
  BY <1>1, <1>2
<1>4. PICK f : Adds(f, a, n - 1)
  BY <1>3
<1> DEFINE g == [m \in 0..n |-> IF m < n THEN f[m] ELSE f[n - 1] + a[n - 1]]
<1>5. Adds(g, a, n)
  <2>1. f = [m \in 0..(n - 1) |-> IF m = 0 THEN 0 ELSE f[m - 1] + a[m - 1]]
    BY <1>4 DEF Adds
  <2>2. \A m \in 0..(n - 1) : f[m] = IF m = 0 THEN 0 ELSE f[m - 1] + a[m - 1]
    BY <2>1
  <2>3. ASSUME NEW m \in 0..n
        PROVE  g[m] = IF m = 0 THEN 0 ELSE g[m - 1] + a[m - 1]
    BY <2>2, <2>3, <1>2, <1>3
  <2>4. g = [m \in 0..n |-> g[m]]
    OBVIOUS
  <2> HIDE DEF g
  <2>5. [m \in 0..n |-> g[m]] = [m \in 0..n |-> IF m = 0 THEN 0 ELSE g[m - 1] + a[m - 1]]
    BY <2>3
  <2> QED
    BY <2>4, <2>5 DEF Adds
<1> QED
  BY <1>1, <1>5

LEMMA SumIs ==
  ASSUME NEW a
  PROVE  \E f : Adds(f, a, Window) /\ Duty!Sum(a) = f[Window]
<1>1. \E f : Adds(f, a, Window)
  BY SumsExist, PathAssumption DEF Duty!DutyAssumption
<1>2. Duty!Sum(a) = (CHOOSE f : Adds(f, a, Window))[Window]
  BY DEF Duty!Sum, Adds
<1> QED
  BY <1>1, <1>2

(* Where only one amount changes, the sum changes by as much. *)
LEMMA SumChanges ==
  ASSUME NEW a \in [Duty!Ring -> Int], NEW b \in [Duty!Ring -> Int], NEW k \in Duty!Ring,
         \A i \in Duty!Ring : i # k => b[i] = a[i]
  PROVE  /\ Duty!Sum(a) \in Int /\ Duty!Sum(b) \in Int
         /\ Duty!Sum(b) = Duty!Sum(a) + (b[k] - a[k])
<1>1. PICK f : Adds(f, a, Window) /\ Duty!Sum(a) = f[Window]
  BY SumIs
<1>2. PICK g : Adds(g, b, Window) /\ Duty!Sum(b) = g[Window]
  BY SumIs
<1>3. Window \in Nat \ {0}
  BY PathAssumption DEF Duty!DutyAssumption
<1> DEFINE Wrong(n) == ~(/\ f[n] \in Int /\ g[n] \in Int
                         /\ g[n] = f[n] + (IF n > k THEN b[k] - a[k] ELSE 0))
           T == {n \in 0..Window : Wrong(n)}
<1> HIDE DEF Wrong
<1>4. ASSUME T # {} PROVE FALSE
  <2>0. T \subseteq Nat
    BY <1>3
  <2>1. PICK n \in T : \A m \in T : n <= m
    <3> HIDE DEF T
    <3> QED
      BY LeastNumber, <1>4, <2>0
  <2>2. n \in 0..Window /\ Wrong(n)
    BY <2>1
  <2>3. /\ f[n] = IF n = 0 THEN 0 ELSE f[n - 1] + a[n - 1]
        /\ g[n] = IF n = 0 THEN 0 ELSE g[n - 1] + b[n - 1]
    <3>1. /\ f = [m \in 0..Window |-> IF m = 0 THEN 0 ELSE f[m - 1] + a[m - 1]]
          /\ g = [m \in 0..Window |-> IF m = 0 THEN 0 ELSE g[m - 1] + b[m - 1]]
      BY <1>1, <1>2 DEF Adds
    <3> QED
      BY <3>1, <2>2
  <2>k. k \in 0..(Window - 1)
    BY DEF Duty!Ring
  <2>4. n # 0
    <3> SUFFICES ASSUME n = 0 PROVE ~Wrong(n)
      BY <2>2
    <3> QED
      BY <2>3, <2>k DEF Wrong
  <2>5. n - 1 \in 0..Window /\ n - 1 \in Duty!Ring /\ n - 1 \notin T
    <3>1. n - 1 \in 0..Window /\ n - 1 \in Duty!Ring
      BY <2>2, <2>4, <1>3 DEF Duty!Ring
    <3>2. n - 1 < n
      BY <2>2
    <3> HIDE DEF T
    <3> QED
      BY <3>1, <3>2, <2>1, <2>0
  <2>6. ~Wrong(n - 1)
    BY <2>5
  <2>7. /\ a[n - 1] \in Int /\ b[n - 1] \in Int /\ a[k] \in Int /\ b[k] \in Int
        /\ n - 1 # k => b[n - 1] = a[n - 1]
    BY <2>5
  <2>8. ~Wrong(n)
    <3> DEFINE aa == a[n - 1]
               bb == b[n - 1]
               ff == f[n - 1]
               gg == g[n - 1]
    <3>1. /\ ff \in Int /\ gg \in Int
          /\ gg = ff + (IF n - 1 > k THEN b[k] - a[k] ELSE 0)
      BY <2>6 DEF Wrong
    <3>2. f[n] = ff + aa /\ g[n] = gg + bb
      BY <2>3, <2>4
    <3>3. CASE n - 1 = k
      BY <3>1, <3>2, <3>3, <2>2, <2>k, <2>7 DEF Wrong
    <3>4. CASE n - 1 # k
      <4>1. aa = bb /\ aa \in Int
        BY <2>7, <3>4
      <4>2. (n > k) <=> (n - 1 > k)
        BY <3>4, <2>2, <2>k
      <4>3. f[n] \in Int /\ g[n] \in Int
        BY <3>1, <3>2, <4>1
      <4> HIDE DEF aa, bb, ff, gg
      <4>4. g[n] = f[n] + (IF n > k THEN b[k] - a[k] ELSE 0)
        BY <3>1, <3>2, <4>1, <4>2, <2>7
      <4> QED
        BY <4>3, <4>4 DEF Wrong
    <3> QED
      BY <3>3, <3>4
  <2> QED
    BY <2>2, <2>8
<1>5. ~Wrong(Window)
  BY <1>4, <1>3
<1>6. Window > k
  BY <1>3 DEF Duty!Ring
<1> QED
  BY <1>1, <1>2, <1>5, <1>6 DEF Wrong

-----------------------------------------------------------------------------
(* The duty cycle *)

LEMMA RestIn ==
  ASSUME NEW n \in Int, NEW S \in Nat \ {0}
  PROVE  n % S \in 0..(S - 1)
  OBVIOUS

LEMMA RestBack ==
  ASSUME NEW n \in Int, NEW S \in Nat \ {0}
  PROVE  (n - S) % S = n % S
<1>1. n = ((n \div S) * S) + (n % S) /\ n \div S \in Int /\ n % S \in 0..(S - 1)
  OBVIOUS
<1>2. ASSUME NEW q \in Int, NEW r \in 0..(S - 1)
      PROVE  ((q * S) + r) % S = r
  BY <1>2
<1> DEFINE q == (n \div S) - 1
           r == n % S
<1>3. q \in Int /\ r \in 0..(S - 1) /\ n - S = (q * S) + r
  BY <1>1
<1> HIDE DEF q
<1>4. (n - S) % S = r
  BY <1>2, <1>3
<1> QED
  BY <1>4

(* Of the numbers closer than S to each other no two share a rest. *)
LEMMA SameRest ==
  ASSUME NEW S \in Nat \ {0}, NEW x \in Int, NEW y \in Int,
         x % S = y % S, x - y < S, y - x < S
  PROVE  x = y
<1>1. /\ x = ((x \div S) * S) + (x % S) /\ x \div S \in Int
      /\ y = ((y \div S) * S) + (y % S) /\ y \div S \in Int
      /\ x % S \in Int /\ y % S \in Int
  OBVIOUS
<1>2. ASSUME NEW p \in Int, NEW q \in Int, p * S - q * S < S, q * S - p * S < S
      PROVE  p = q
  <2>1. ASSUME p >= q + 1
        PROVE  FALSE
    <3>1. (p - q - 1) * S >= 0
      BY <2>1
    <3> QED
      BY <3>1, <1>2
  <2>2. ASSUME q >= p + 1
        PROVE  FALSE
    <3>1. (q - p - 1) * S >= 0
      BY <2>2
    <3> QED
      BY <3>1, <1>2
  <2> QED
    BY <2>1, <2>2
<1>3. x - y = (x \div S) * S - (y \div S) * S
  BY <1>1
<1>4. x \div S = y \div S
  BY <1>1, <1>2, <1>3
<1> QED
  BY <1>1, <1>4

(* The airtime recorded until a second does not change any more once it is    *)
(* over, and a bucket holds what was recorded in its second; a second of the  *)
(* window whose bucket is gone had none.                                      *)
Counted ==
  /\ total[0] = 0
  /\ \A s \in now..MaxSeconds : total[s] = total[now]
  /\ \A i \in Duty!Ring : buckets[i].second > 0 =>
       buckets[i].airtime_ms = total[buckets[i].second] - total[buckets[i].second - 1]
  /\ \A s \in 1..now : now - s < Window /\ buckets[s % Window].second # s =>
       total[s] = total[s - 1]

(* What a packet that is being sent was granted is still free. *)
DutyInv ==
  /\ Duty!TypeOK
  /\ Counted
  /\ Duty!Used = Duty!Spent(now)
  /\ claimed # 0 => claimed + Duty!Used <= Budget
  /\ \A s \in 1..now : Duty!Spent(s) <= Budget

LEMMA AmountsAre ==
  ASSUME Duty!TypeOK
  PROVE  [i \in Duty!Ring |-> Duty!Amount(buckets[i])] \in [Duty!Ring -> Int]
<1>1. ASSUME NEW i \in Duty!Ring PROVE Duty!Amount(buckets[i]) \in Int
  BY DEF Duty!Amount, Duty!TypeOK
<1> QED
  BY <1>1

(* A bucket that changes, or ages, alone changes what is in use by as much. *)
LEMMA UsedChanges ==
  ASSUME Duty!TypeOK, Duty!TypeOK', NEW k \in Duty!Ring,
         \A i \in Duty!Ring : i # k => (Duty!Amount(buckets[i]))' = Duty!Amount(buckets[i])
  PROVE  /\ Duty!Used \in Int /\ Duty!Used' \in Int
         /\ Duty!Used' = Duty!Used
                          + ((Duty!Amount(buckets[k]))' - Duty!Amount(buckets[k]))
<1> DEFINE a == [i \in Duty!Ring |-> Duty!Amount(buckets[i])]
           b == [i \in Duty!Ring |-> (Duty!Amount(buckets[i]))']
<1>1. a \in [Duty!Ring -> Int]
  BY AmountsAre
<1>2. b \in [Duty!Ring -> Int]
  <2>1. ASSUME NEW i \in Duty!Ring PROVE (Duty!Amount(buckets[i]))' \in Int
    BY DEF Duty!Amount, Duty!TypeOK
  <2> QED
    BY <2>1
<1>3. \A i \in Duty!Ring : i # k => b[i] = a[i]
  OBVIOUS
<1>4. Duty!Used = Duty!Sum(a) /\ Duty!Used' = Duty!Sum(b)
  BY DEF Duty!Used, Duty!Sum
<1>5. b[k] - a[k] = (Duty!Amount(buckets[k]))' - Duty!Amount(buckets[k])
  OBVIOUS
<1> HIDE DEF a, b
<1> QED
  BY <1>1, <1>2, <1>3, <1>4, <1>5, SumChanges

LEMMA NoneUsed ==
  ASSUME NEW a \in [Duty!Ring -> {0}]
  PROVE  Duty!Sum(a) = 0
<1>1. PICK f : Adds(f, a, Window) /\ Duty!Sum(a) = f[Window]
  BY SumIs
<1>3. Window \in Nat \ {0}
  BY PathAssumption DEF Duty!DutyAssumption
<1> DEFINE T == {n \in 0..Window : f[n] # 0}
<1>4. ASSUME T # {} PROVE FALSE
  <2>0. T \subseteq Nat
    BY <1>3
  <2>1. PICK n \in T : \A m \in T : n <= m
    <3> HIDE DEF T
    <3> QED
      BY LeastNumber, <1>4, <2>0
  <2>2. f[n] = IF n = 0 THEN 0 ELSE f[n - 1] + a[n - 1]
    <3>1. f = [m \in 0..Window |-> IF m = 0 THEN 0 ELSE f[m - 1] + a[m - 1]]
      BY <1>1 DEF Adds
    <3> QED
      BY <3>1, <2>1
  <2>3. n # 0
    BY <2>1, <2>2
  <2>4. n - 1 \in 0..Window /\ n - 1 \in Duty!Ring /\ n - 1 < n
    BY <2>1, <2>3, <1>3 DEF Duty!Ring
  <2>5. n - 1 \notin T
    <3> HIDE DEF T
    <3> QED
      BY <2>1, <2>4, <2>0
  <2> QED
    BY <2>1, <2>2, <2>3, <2>4, <2>5
<1> QED
  BY <1>1, <1>3, <1>4

LEMMA DutyInit == Duty!Init => DutyInv
<1> SUFFICES ASSUME Duty!Init PROVE DutyInv
  OBVIOUS
<1>1. /\ Window \in Nat \ {0} /\ MaxSeconds \in Nat \ {0} /\ Budget \in Nat
  BY PathAssumption DEF Duty!DutyAssumption
<1>2. Duty!TypeOK
  BY <1>1 DEF Duty!Init, Duty!TypeOK, Duty!Seconds
<1>3. Counted
  BY <1>1, <1>2 DEF Duty!Init, Counted, Duty!Ring
<1>4. Duty!Used = 0
  <2>1. \A i \in Duty!Ring : Duty!Amount(buckets[i]) = 0
    BY DEF Duty!Init, Duty!Amount, Duty!InWindow
  <2>2. [i \in Duty!Ring |-> Duty!Amount(buckets[i])] \in [Duty!Ring -> {0}]
    BY <2>1
  <2> QED
    BY <2>2, NoneUsed DEF Duty!Used
<1>5. now = 1 /\ \A s \in 0..1 : total[s] = 0
  BY <1>1 DEF Duty!Init
<1>6. Duty!Spent(1) = 0
  BY <1>1, <1>5 DEF Duty!Spent, Duty!Before
<1>7. \A s \in 1..now : Duty!Spent(s) = 0
  BY <1>5, <1>6
<1> QED
  BY <1>1, <1>2, <1>3, <1>4, <1>5, <1>6, <1>7 DEF DutyInv, Duty!Init

(* A second passes: what was recorded in the second that leaves the window is *)
(* no longer in use, and no other bucket changes.                             *)
LEMMA TickKeeps ==
  ASSUME DutyInv, Duty!Tick
  PROVE  DutyInv'
<1> DEFINE gone == (now + 1) - Window
<1>1. /\ Window \in Nat \ {0} /\ MaxSeconds \in Nat \ {0} /\ Budget \in Nat
      /\ now \in 1..MaxSeconds /\ now' = now + 1 /\ now' \in 1..MaxSeconds
      /\ UNCHANGED <<buckets, claimed, total>>
      /\ total \in [0..MaxSeconds -> Nat]
  BY PathAssumption DEF Duty!DutyAssumption, DutyInv, Duty!TypeOK, Duty!Tick, Duty!Seconds
<1>2. \A i \in Duty!Ring :
        /\ buckets[i].second \in Nat /\ buckets[i].airtime_ms \in Nat
        /\ buckets[i].second = 0
             \/ (buckets[i].second <= now /\ buckets[i].second % Window = i)
  BY DEF DutyInv, Duty!TypeOK
<1>3. Duty!TypeOK /\ Duty!TypeOK'
  <2>1. Duty!TypeOK
    BY DEF DutyInv
  <2>2. \A i \in Duty!Ring : buckets[i].second = 0
          \/ (buckets[i].second <= now + 1 /\ buckets[i].second % Window = i)
    BY <1>1, <1>2
  <2> QED
    BY <1>1, <2>1, <2>2 DEF Duty!TypeOK, Duty!Seconds
<1>a. PICK k \in Duty!Ring : k = (now + 1) % Window
  <2>1. now + 1 \in Int
    BY <1>1
  <2>2. (now + 1) % Window \in Duty!Ring
    BY <2>1, <1>1, RestIn DEF Duty!Ring
  <2> QED
    BY <2>2
<1>k. k \in Duty!Ring /\ k = (now + 1) % Window /\ k = gone % Window
  <2>1. now + 1 \in Int
    BY <1>1
  <2> QED
    BY <2>1, <1>a, <1>1, RestBack
<1>4. \A s \in now..MaxSeconds : total[s] = total[now]
  BY DEF DutyInv, Counted
<1>5. total[now + 1] = total[now]
  BY <1>1, <1>4
<1>6. Counted'
  <2>1. \A s \in (now + 1)..MaxSeconds : total[s] = total[now + 1]
    BY <1>1, <1>4, <1>5
  <2>2. ASSUME NEW s \in 1..(now + 1), (now + 1) - s < Window, buckets[s % Window].second # s
        PROVE  total[s] = total[s - 1]
    <3>1. CASE s = now + 1
      BY <3>1, <1>5, <1>1
    <3>2. CASE s # now + 1
      <4>1. s \in 1..now /\ now - s < Window
        BY <3>2, <2>2, <1>1
      <4> QED
        BY <4>1, <2>2 DEF DutyInv, Counted
    <3> QED
      BY <3>1, <3>2
  <2>3. total[0] = 0 /\ \A i \in Duty!Ring : buckets[i].second > 0 =>
          buckets[i].airtime_ms = total[buckets[i].second] - total[buckets[i].second - 1]
    BY DEF DutyInv, Counted
  <2> QED
    BY <1>1, <2>1, <2>2, <2>3 DEF Counted
<1>7. ASSUME NEW i \in Duty!Ring, i # k
      PROVE  (Duty!Amount(buckets[i]))' = Duty!Amount(buckets[i])
  <2>1. (Duty!InWindow(buckets[i]))' <=> Duty!InWindow(buckets[i])
    <3>1. ASSUME buckets[i].second > 0
          PROVE  (now + 1) - buckets[i].second < Window <=> now - buckets[i].second < Window
      <4>1. buckets[i].second % Window = i /\ buckets[i].second \in Int
        BY <3>1, <1>2
      <4>2. buckets[i].second # gone
        BY <4>1, <1>7, <1>k
      <4>3. buckets[i].second \in Int /\ now \in Int /\ Window \in Int
        BY <4>1, <1>1
      <4> QED
        BY <4>2, <4>3
    <3> QED
      BY <3>1, <1>1 DEF Duty!InWindow
  <2> QED
    BY <2>1, <1>1 DEF Duty!Amount
<1> DEFINE b == buckets[k]
<1>b. /\ b.second \in Nat /\ b.airtime_ms \in Nat
      /\ b.second > 0 => b.second % Window = k /\ b.second <= now
  BY <1>2, <1>k
<1>8. (Duty!Amount(buckets[k]))' = 0
  <2>1. ASSUME b.second > 0, (now + 1) - b.second < Window
        PROVE  FALSE
    <3>1. b.second = now + 1
      <4>0. /\ b.second \in Nat /\ b.second <= now /\ now \in Nat /\ Window \in Nat \ {0}
            /\ b.second % Window = k
        BY <2>1, <1>b, <1>1
      <4>1. /\ b.second \in Int /\ now + 1 \in Int /\ b.second % Window = (now + 1) % Window
            /\ b.second - (now + 1) < Window /\ (now + 1) - b.second < Window
        <5>1. b.second % Window = (now + 1) % Window
          BY <4>0, <1>k
        <5>2. b.second - (now + 1) < Window
          BY <4>0
        <5> QED
          BY <4>0, <5>1, <5>2, <2>1
      <4> HIDE DEF b
      <4> QED
        BY <4>1, <1>1, SameRest
    <3> QED
      BY <3>1, <2>1, <1>b, <1>1
  <2>2. ~(b.second > 0 /\ (now + 1) - b.second < Window)
    BY <2>1
  <2> QED
    BY <2>2, <1>1 DEF Duty!Amount, Duty!InWindow
<1>9. Duty!Amount(buckets[k]) = IF gone > 0 THEN total[gone] - total[gone - 1] ELSE 0
  <2>0. gone \in Int /\ gone <= now
    BY <1>1
  <2>1. ASSUME Duty!InWindow(b) PROVE b.second = gone
    <3>1. b.second > 0 /\ now - b.second < Window
      BY <2>1 DEF Duty!InWindow
    <3>0. /\ b.second \in Nat /\ b.second <= now /\ now \in Nat /\ Window \in Nat \ {0}
          /\ b.second % Window = k
      BY <3>1, <1>b, <1>1
    <3>2. /\ b.second \in Int /\ b.second % Window = gone % Window
          /\ b.second - gone < Window /\ gone - b.second < Window
      <4>1. b.second % Window = gone % Window
        BY <3>0, <1>k
      <4>2. b.second - gone < Window /\ gone - b.second < Window
        BY <3>0, <3>1
      <4> QED
        BY <3>0, <4>1, <4>2
    <3> HIDE DEF b, gone
    <3> QED
      BY <3>2, <2>0, <1>1, SameRest
  <2>2. CASE Duty!InWindow(b)
    <3>1. b.second > 0 /\ b.second = gone
      BY <2>1, <2>2 DEF Duty!InWindow
    <3>2. b.airtime_ms = total[b.second] - total[b.second - 1]
      BY <3>1, <1>k DEF DutyInv, Counted
    <3> QED
      BY <3>1, <3>2, <2>2 DEF Duty!Amount
  <2>3. CASE ~Duty!InWindow(b) /\ gone > 0
    <3>1. gone \in 1..now /\ now - gone < Window
      BY <1>1, <2>3
    <3>2. b.second # gone
      BY <3>1, <2>3, <1>1 DEF Duty!InWindow
    <3>3. total[gone] = total[gone - 1]
      BY <3>1, <3>2, <1>k DEF DutyInv, Counted
    <3>4. gone \in 0..MaxSeconds /\ gone - 1 \in 0..MaxSeconds
      BY <3>1, <1>1
    <3>5. total[gone] \in Nat
      BY <3>4, <1>1
    <3> QED
      BY <3>3, <3>5, <2>3 DEF Duty!Amount
  <2>4. CASE ~Duty!InWindow(b) /\ ~(gone > 0)
    BY <2>4 DEF Duty!Amount
  <2> QED
    BY <2>2, <2>3, <2>4
<1>10. /\ Duty!Used \in Int /\ Duty!Used' \in Int
       /\ Duty!Used' = Duty!Used - (IF gone > 0 THEN total[gone] - total[gone - 1] ELSE 0)
  <2>0. gone > 0 => total[gone] \in Int /\ total[gone - 1] \in Int
    BY <1>1
  <2>1. /\ Duty!Used \in Int /\ Duty!Used' \in Int
        /\ Duty!Used' = Duty!Used
                          + ((Duty!Amount(buckets[k]))' - Duty!Amount(buckets[k]))
    BY <1>3, <1>k, <1>7, UsedChanges
  <2> QED
    BY <2>0, <2>1, <1>8, <1>9
<1>11. Duty!Used = total[now] - total[Duty!Before(now)]
  BY DEF DutyInv, Duty!Spent
<1>12. (Duty!Spent(now))' = total[now] - total[Duty!Before(now + 1)]
  BY <1>1, <1>5 DEF Duty!Spent, Duty!Before
<1>13. Duty!Used' = (Duty!Spent(now))' /\ Duty!Used' <= Duty!Used
  <2>1. CASE gone > 0
    <3>1. Duty!Before(now + 1) = gone /\ Duty!Before(now) = gone - 1
      BY <2>1, <1>1 DEF Duty!Before
    <3>2. gone \in 1..now /\ total[gone] \in Nat /\ total[gone - 1] \in Nat /\ total[now] \in Nat
      BY <2>1, <1>1
    <3>3. total[gone] >= total[gone - 1]
      <4>1. Duty!Amount(buckets[k]) \in Nat
        BY <1>b DEF Duty!Amount
      <4> QED
        BY <4>1, <1>9, <3>2, <2>1
    <3> HIDE DEF gone
    <3> QED
      BY <2>1, <3>1, <3>2, <3>3, <1>10, <1>11, <1>12
  <2>2. CASE ~(gone > 0)
    <3>1. Duty!Before(now + 1) = 0 /\ Duty!Before(now) = 0
      BY <2>2, <1>1 DEF Duty!Before
    <3> HIDE DEF gone
    <3> QED
      BY <2>2, <3>1, <1>10, <1>11, <1>12
  <2> QED
    BY <2>1, <2>2
<1>14. claimed # 0 => claimed + Duty!Used' <= Budget
  <2>1. claimed \in Int
    BY PathAssumption DEF DutyInv, Duty!TypeOK, Duty!DutyAssumption
  <2>2. claimed # 0 => claimed + Duty!Used <= Budget
    BY DEF DutyInv
  <2> QED
    BY <2>1, <2>2, <1>10, <1>13, <1>1
<1>15. ASSUME NEW s \in 1..(now + 1)
       PROVE  (Duty!Spent(s))' <= Budget
  <2>1. (Duty!Spent(s))' = Duty!Spent(s)
    BY <1>1 DEF Duty!Spent, Duty!Before
  <2>2. CASE s \in 1..now
    BY <2>1, <2>2 DEF DutyInv
  <2>3. CASE s = now + 1
    <3>1. (Duty!Spent(s))' = Duty!Used'
      BY <2>3, <1>13, <1>1, <1>12, <2>1 DEF Duty!Spent
    <3>2. Duty!Used <= Budget
      <4>1. now \in 1..now
        BY <1>1
      <4> QED
        BY <4>1 DEF DutyInv
    <3> QED
      BY <3>1, <3>2, <1>10, <1>13, <1>1
  <2> QED
    BY <2>2, <2>3, <1>1
<1> QED
  BY <1>1, <1>3, <1>6, <1>13, <1>14, <1>15 DEF DutyInv

(* What is recorded was granted when it was asked for, and only the bucket of *)
(* the second changes.                                                        *)
LEMMA RecordKeeps ==
  ASSUME DutyInv, Duty!RecordTx
  PROVE  DutyInv'
<1>1. /\ Window \in Nat \ {0} /\ MaxSeconds \in Nat \ {0} /\ Budget \in Nat
      /\ now \in 1..MaxSeconds /\ now' = now
      /\ claimed \in Nat /\ claimed # 0 /\ claimed' = 0
      /\ total \in [0..MaxSeconds -> Nat]
      /\ total' = [s \in 0..MaxSeconds |-> IF s < now THEN total[s] ELSE total[s] + claimed]
  BY PathAssumption DEF Duty!DutyAssumption, DutyInv, Duty!TypeOK, Duty!RecordTx, Duty!Seconds
<1>2. /\ buckets \in [Duty!Ring -> [second : 0..MaxSeconds, airtime_ms : Nat]]
      /\ \A i \in Duty!Ring : buckets[i].second = 0
           \/ (buckets[i].second <= now /\ buckets[i].second % Window = i)
  BY DEF DutyInv, Duty!TypeOK
<1>k. PICK k \in Duty!Ring : k = now % Window
  <2>1. now \in Int
    BY <1>1
  <2>2. now % Window \in Duty!Ring
    BY <2>1, <1>1, RestIn DEF Duty!Ring
  <2> QED
    BY <2>2
<1>3. /\ buckets'[k] = [second |-> now,
                        airtime_ms |-> claimed +
                          (IF buckets[k].second = now THEN buckets[k].airtime_ms ELSE 0)]
      /\ \A i \in Duty!Ring : i # k => buckets'[i] = buckets[i]
      /\ buckets' \in [Duty!Ring -> [second : 0..MaxSeconds, airtime_ms : Nat]]
  <2> DEFINE f == Duty!FreshBucket
             b == buckets[k]
  <2>1. b \in [second : 0..MaxSeconds, airtime_ms : Nat]
    BY <1>2
  <2>2. f = IF b.second = now THEN b ELSE [second |-> now, airtime_ms |-> 0]
    BY <1>k DEF Duty!FreshBucket, Duty!Bucket
  <2>3. /\ f \in [second : 0..MaxSeconds, airtime_ms : Nat] /\ f.second = now
        /\ f.airtime_ms = IF b.second = now THEN b.airtime_ms ELSE 0
    BY <1>1, <2>1, <2>2
  <2>4. buckets' = [buckets EXCEPT ![k] = [f EXCEPT !.airtime_ms = @ + claimed]]
    BY <1>k DEF Duty!RecordTx
  <2> HIDE DEF f, b
  <2>5. [f EXCEPT !.airtime_ms = @ + claimed]
          = [second |-> now, airtime_ms |-> claimed +
               (IF b.second = now THEN b.airtime_ms ELSE 0)]
    BY <2>1, <2>3, <1>1
  <2>6. [f EXCEPT !.airtime_ms = @ + claimed] \in [second : 0..MaxSeconds, airtime_ms : Nat]
    <3>1. /\ now \in 0..MaxSeconds /\ b.airtime_ms \in Nat
          /\ claimed + (IF b.second = now THEN b.airtime_ms ELSE 0) \in Nat
      BY <2>1, <1>1
    <3> QED
      BY <3>1, <2>5
  <2> DEFINE g == [f EXCEPT !.airtime_ms = @ + claimed]
  <2> HIDE DEF g
  <2>7. buckets' = [buckets EXCEPT ![k] = g]
    BY <2>4 DEF g
  <2>8. /\ buckets'[k] = g /\ \A i \in Duty!Ring : i # k => buckets'[i] = buckets[i]
        /\ buckets' \in [Duty!Ring -> [second : 0..MaxSeconds, airtime_ms : Nat]]
    BY <2>6, <2>7, <1>2 DEF g
  <2> QED
    BY <2>5, <2>8 DEF g, b
<1>t. /\ \A s \in 0..MaxSeconds : total[s] \in Nat
      /\ \A s \in 0..MaxSeconds : s < now => total'[s] = total[s]
      /\ \A s \in 0..MaxSeconds : s >= now => total'[s] = total[s] + claimed
  BY <1>1
<1>4. Duty!TypeOK /\ Duty!TypeOK'
  <2>1. Duty!TypeOK
    BY DEF DutyInv
  <2>2. \A i \in Duty!Ring : buckets'[i].second = 0
          \/ (buckets'[i].second <= now /\ buckets'[i].second % Window = i)
    <3>1. ASSUME NEW i \in Duty!Ring, i # k
          PROVE  buckets'[i].second = 0
                   \/ (buckets'[i].second <= now /\ buckets'[i].second % Window = i)
      BY <3>1, <1>2, <1>3
    <3>2. buckets'[k].second <= now /\ buckets'[k].second % Window = k
      BY <1>3, <1>k, <1>1
    <3> QED
      BY <3>1, <3>2
  <2>3. total' \in [0..MaxSeconds -> Nat]
    BY <1>1, <1>t
  <2> QED
    BY <1>1, <1>3, <2>1, <2>2, <2>3 DEF Duty!TypeOK, Duty!Seconds
<1>c. \A s \in now..MaxSeconds : total[s] = total[now]
  BY DEF DutyInv, Counted
<1>b. /\ buckets[k].second \in Nat /\ buckets[k].airtime_ms \in Nat
      /\ buckets[k].second = now \/ total[now] = total[now - 1]
      /\ buckets[k].second = now => buckets[k].airtime_ms = total[now] - total[now - 1]
  <2>1. buckets[k] \in [second : 0..MaxSeconds, airtime_ms : Nat]
    BY <1>2
  <2>2. now \in 1..now /\ now - now < Window
    BY <1>1
  <2>3. buckets[k].second # now => total[now] = total[now - 1]
    BY <2>2, <1>k DEF DutyInv, Counted
  <2>4. buckets[k].second = now => buckets[k].airtime_ms = total[now] - total[now - 1]
    <3>1. buckets[k].second > 0 =>
            buckets[k].airtime_ms = total[buckets[k].second] - total[buckets[k].second - 1]
      BY DEF DutyInv, Counted
    <3>2. now > 0
      BY <1>1
    <3> QED
      BY <3>1, <3>2
  <2> QED
    BY <2>1, <2>3, <2>4
<1>5. Counted'
  <2>1. total'[0] = 0
    BY <1>1, <1>t DEF DutyInv, Counted
  <2>2. \A s \in now..MaxSeconds : total'[s] = total'[now]
    BY <1>1, <1>t, <1>c
  <2>3. ASSUME NEW i \in Duty!Ring, buckets'[i].second > 0
        PROVE  buckets'[i].airtime_ms
                 = total'[buckets'[i].second] - total'[buckets'[i].second - 1]
    <3>1. CASE i = k
      <4>1. buckets'[i].second = now
        BY <3>1, <1>3
      <4>2. total'[now] = total[now] + claimed /\ total'[now - 1] = total[now - 1]
            /\ total[now] \in Nat /\ total[now - 1] \in Nat
        BY <1>1, <1>t
      <4>3. buckets'[i].airtime_ms = claimed + (total[now] - total[now - 1])
        BY <3>1, <1>3, <1>b, <4>2, <1>1
      <4> QED
        BY <4>1, <4>2, <4>3, <1>1
    <3>2. CASE i # k
      <4> DEFINE n == buckets[i].second
      <4>1. buckets'[i] = buckets[i]
        BY <3>2, <1>3
      <4>2. n \in 1..now
        <5>1. buckets[i] \in [second : 0..MaxSeconds, airtime_ms : Nat]
          BY <1>2
        <5>2. n \in Nat /\ n > 0
          BY <5>1, <4>1, <2>3
        <5>3. n <= now
          BY <5>2, <1>2
        <5> HIDE DEF n
        <5> QED
          BY <5>2, <5>3, <1>1
      <4>3. n # now
        <5>1. buckets[i].second % Window = i
          BY <4>2, <1>2
        <5> QED
          BY <5>1, <3>2, <1>k
      <4>4. buckets[i].airtime_ms = total[n] - total[n - 1]
        BY <4>2 DEF DutyInv, Counted
      <4> HIDE DEF n
      <4>5. total'[n] = total[n] /\ total'[n - 1] = total[n - 1]
        BY <4>2, <4>3, <1>1, <1>t
      <4> QED
        BY <4>1, <4>4, <4>5 DEF n
    <3> QED
      BY <3>1, <3>2
  <2>4. ASSUME NEW s \in 1..now, now - s < Window, buckets'[s % Window].second # s
        PROVE  total'[s] = total'[s - 1]
    <3>1. s # now
      BY <2>4, <1>3, <1>k
    <3>2. s % Window # k
      <4>1. s \in Int /\ now \in Int /\ s - now < Window /\ now - s < Window
        BY <1>1, <2>4
      <4> QED
        BY <4>1, <1>1, <1>k, <3>1, SameRest
    <3>3. s % Window \in Duty!Ring
      <4>1. s \in Int
        OBVIOUS
      <4> QED
        BY <4>1, <1>1, RestIn DEF Duty!Ring
    <3>4. total[s] = total[s - 1]
      BY <3>2, <3>3, <1>3, <2>4 DEF DutyInv, Counted
    <3> QED
      BY <3>1, <3>4, <1>1, <1>t
  <2> QED
    BY <1>1, <2>1, <2>2, <2>3, <2>4 DEF Counted
<1>6. ASSUME NEW i \in Duty!Ring, i # k
      PROVE  (Duty!Amount(buckets[i]))' = Duty!Amount(buckets[i])
  BY <1>6, <1>3, <1>1 DEF Duty!Amount, Duty!InWindow
<1>7. (Duty!Amount(buckets[k]))' = Duty!Amount(buckets[k]) + claimed
  <2>1. (Duty!Amount(buckets[k]))' = claimed +
          (IF buckets[k].second = now THEN buckets[k].airtime_ms ELSE 0)
    BY <1>3, <1>1, <1>b DEF Duty!Amount, Duty!InWindow
  <2>2. buckets[k].second # now => Duty!Amount(buckets[k]) = 0
    <3>1. ASSUME buckets[k].second # now, Duty!InWindow(buckets[k])
          PROVE  FALSE
      <4>1. /\ buckets[k].second \in Int /\ buckets[k].second <= now
            /\ buckets[k].second % Window = now % Window /\ now - buckets[k].second < Window
            /\ now \in Int
        BY <3>1, <1>b, <1>2, <1>k, <1>1 DEF Duty!InWindow
      <4>2. buckets[k].second - now < Window
        BY <4>1, <1>1
      <4> QED
        BY <4>1, <4>2, <3>1, <1>1, SameRest
    <3> QED
      BY <3>1 DEF Duty!Amount
  <2>3. buckets[k].second = now => Duty!Amount(buckets[k]) = buckets[k].airtime_ms
    BY <1>1 DEF Duty!Amount, Duty!InWindow
  <2> QED
    BY <2>1, <2>2, <2>3, <1>b, <1>1
<1>8. /\ Duty!Used \in Int /\ Duty!Used' \in Int /\ Duty!Used' = Duty!Used + claimed
  <2>1. /\ Duty!Used \in Int /\ Duty!Used' \in Int
        /\ Duty!Used' = Duty!Used
                          + ((Duty!Amount(buckets[k]))' - Duty!Amount(buckets[k]))
    BY <1>4, <1>6, UsedChanges
  <2>2. Duty!Amount(buckets[k]) \in Nat
    BY <1>b DEF Duty!Amount
  <2> QED
    BY <2>1, <2>2, <1>7, <1>1
<1>9. /\ \A s \in 1..now : s < now => (Duty!Spent(s))' = Duty!Spent(s)
      /\ (Duty!Spent(now))' = Duty!Spent(now) + claimed
  <2>0. ASSUME NEW s \in 1..now
        PROVE  /\ s \in 0..MaxSeconds /\ Duty!Before(s) \in 0..MaxSeconds
               /\ Duty!Before(s) < s /\ Duty!Before(s) < now
    BY <1>1 DEF Duty!Before
  <2>1. ASSUME NEW s \in 1..now
        PROVE  Duty!Before(s) \in 0..MaxSeconds /\ Duty!Before(s) < s
               /\ (Duty!Spent(s))' = total'[s] - total'[Duty!Before(s)]
    BY <1>1 DEF Duty!Before, Duty!Spent
  <2>2. ASSUME NEW s \in 1..now, s < now
        PROVE  (Duty!Spent(s))' = Duty!Spent(s)
    <3>0. /\ s \in 0..MaxSeconds /\ Duty!Before(s) \in 0..MaxSeconds
          /\ Duty!Before(s) < now
      BY <2>0
    <3>1. total'[s] = total[s] /\ total'[Duty!Before(s)] = total[Duty!Before(s)]
      BY <3>0, <2>2, <1>t
    <3> QED
      BY <2>1, <3>1 DEF Duty!Spent
  <2>3. (Duty!Spent(now))' = Duty!Spent(now) + claimed
    <3>0. now \in 1..now
      BY <1>1
    <3>4. /\ now \in 0..MaxSeconds /\ now >= now /\ Duty!Before(now) \in 0..MaxSeconds
          /\ Duty!Before(now) < now
      BY <2>0, <3>0
    <3>1. /\ total'[now] = total[now] + claimed
          /\ total'[Duty!Before(now)] = total[Duty!Before(now)]
          /\ total[now] \in Nat /\ total[Duty!Before(now)] \in Nat
      BY <3>4, <1>t
    <3>2. (Duty!Spent(now))' = total'[now] - total'[Duty!Before(now)]
      BY <1>1 DEF Duty!Spent, Duty!Before
    <3>3. Duty!Spent(now) = total[now] - total[Duty!Before(now)]
      BY DEF Duty!Spent
    <3> QED
      BY <3>1, <3>2, <3>3, <1>1
  <2> QED
    BY <2>2, <2>3
<1>10. Duty!Used = Duty!Spent(now) /\ claimed + Duty!Used <= Budget
  BY <1>1 DEF DutyInv
<1>11. Duty!Used' = (Duty!Spent(now))'
  BY <1>8, <1>9, <1>10
<1>12. ASSUME NEW s \in 1..now
       PROVE  (Duty!Spent(s))' <= Budget
  <2>1. CASE s < now
    <3>1. Duty!Spent(s) <= Budget
      BY DEF DutyInv
    <3> QED
      BY <2>1, <3>1, <1>9
  <2>2. CASE s = now
    <3>1. (Duty!Spent(now))' <= Budget
      BY <1>8, <1>9, <1>10, <1>1
    <3>2. (Duty!Spent(s))' = (Duty!Spent(now))'
      BY <2>2, <1>1 DEF Duty!Spent, Duty!Before
    <3> QED
      BY <3>1, <3>2
  <2> QED
    BY <2>1, <2>2, <1>1
<1> QED
  BY <1>1, <1>4, <1>5, <1>11, <1>12 DEF DutyInv

LEMMA SameDuty ==
  ASSUME DutyInv, UNCHANGED <<now, buckets, total>>,
         claimed' \in Airtimes \cup {0},
         claimed' # 0 => claimed' + Duty!Used <= Budget
  PROVE  DutyInv'
<1>1. Duty!Used' = Duty!Used /\ Counted' /\ Duty!TypeOK'
  BY DEF Duty!Used, Duty!Amount, Duty!InWindow, Counted, DutyInv, Duty!TypeOK
<1>2. \A s : (Duty!Spent(s))' = Duty!Spent(s)
  BY DEF Duty!Spent
<1>3. (Duty!Spent(now))' = Duty!Spent(now)
  BY DEF Duty!Spent, Duty!Before
<1> QED
  BY <1>1, <1>2, <1>3 DEF DutyInv

LEMMA DutyStep == DutyInv /\ [Duty!Next]_dutyVars => DutyInv'
<1> SUFFICES ASSUME DutyInv, [Duty!Next]_dutyVars PROVE DutyInv'
  OBVIOUS
<1>0. /\ Budget \in Nat /\ Airtimes \subseteq Nat \ {0}
      /\ claimed \in Airtimes \cup {0}
      /\ claimed # 0 => claimed + Duty!Used <= Budget
  BY PathAssumption DEF Duty!DutyAssumption, DutyInv, Duty!TypeOK
<1>1. CASE Duty!Tick
  BY <1>1, TickKeeps
<1>2. CASE Duty!RecordTx
  BY <1>2, RecordKeeps
<1>3. CASE Duty!SendFails
  BY <1>3, <1>0, SameDuty DEF Duty!SendFails
<1>4. ASSUME NEW airtime \in Airtimes, Duty!CanSend(airtime) PROVE DutyInv'
  <2>1. claimed' + Duty!Used <= Budget
    <3>1. Duty!Used \in Int
      <4>1. Duty!TypeOK
        BY DEF DutyInv
      <4>2. 0 \in Duty!Ring
        BY PathAssumption DEF Duty!DutyAssumption, Duty!Ring
      <4>3. [i \in Duty!Ring |-> Duty!Amount(buckets[i])] \in [Duty!Ring -> Int]
        BY <4>1, AmountsAre
      <4> QED
        BY <4>2, <4>3, SumChanges DEF Duty!Used
    <3>2. airtime \in Nat \ {0} /\ airtime <= Duty!Remaining /\ claimed' = airtime
      BY <1>4, <1>0 DEF Duty!CanSend, Duty!Fits
    <3> QED
      BY <3>1, <3>2, <1>0 DEF Duty!Remaining
  <2> QED
    BY <1>4, <2>1, SameDuty DEF Duty!CanSend
<1>5. CASE UNCHANGED dutyVars
  BY <1>5, <1>0, SameDuty DEF dutyVars
<1> QED
  BY <1>1, <1>2, <1>3, <1>4, <1>5 DEF Duty!Next

(* No window holds more recorded airtime than the budget, and what is in use   *)
(* is what was recorded in the last Window seconds: for every window, budget  *)
(* and set of airtimes, however ticks, transmissions and failures fall.       *)
THEOREM BudgetKeptCorrect == MCSpec => []BudgetKept
<1>1. MCInit => DutyInv
  BY DutyInit DEF MCInit
<1>2. DutyInv /\ [MCNext]_<<part, vars, dutyVars, parserVars>> => DutyInv'
  <2>1. [MCNext]_<<part, vars, dutyVars, parserVars>> => [Duty!Next]_dutyVars
    BY DEF MCNext
  <2> QED
    BY <2>1, DutyStep
<1>3. DutyInv => BudgetKept
  BY DEF DutyInv, BudgetKept, Duty!BudgetKept
<1> QED
  BY <1>1, <1>2, <1>3, PTL DEF MCSpec

-----------------------------------------------------------------------------
(* The filter *)

LEMMA ParserSteps ==
  [MCNext]_<<part, vars, dutyVars, parserVars>> => [Parser!Next]_parserVars
BY DEF MCNext

(* What a rule remembers as sent was queued then, and nothing has been since.    *)
Marked == last = queued

LEMMA MarkedStep == Marked /\ [Parser!Next]_parserVars => Marked'
<1> SUFFICES ASSUME Marked, [Parser!Next]_parserVars PROVE Marked'
  OBVIOUS
<1>1. CASE Parser!Queued
  BY <1>1 DEF Marked, Parser!Queued, Parser!MarkSent
<1>2. CASE Parser!NotQueued
  BY <1>2 DEF Marked, Parser!NotQueued, Parser!MarkFailed
<1>3. CASE Parser!Unwanted \/ Parser!Delayed
  BY <1>3 DEF Marked, Parser!Unwanted, Parser!Delayed
<1>4. CASE Parser!Parse
  BY <1>4 DEF Marked, Parser!Parse, Parser!Hunt, Parser!Header, Parser!Body, Parser!CrcMismatch,
              Parser!Found
<1>5. CASE Parser!Tick \/ Parser!ReceiverWrites
  BY <1>5 DEF Marked, Parser!Tick, Parser!ReceiverWrites
<1>6. CASE UNCHANGED parserVars
  BY <1>6 DEF Marked, parserVars
<1> QED
  BY <1>1, <1>2, <1>3, <1>4, <1>5, <1>6 DEF Parser!Next, Parser!Filter

(* A frame is held back only behind one of its type that went to the          *)
(* transport's queue less than the interval ago: for any rules and payloads,  *)
(* whatever the queue refused in between.                                     *)
THEOREM FailureDoesNotSilenceCorrect == MCSpec => FailureDoesNotSilence
<1>1. MCInit => Marked
  BY DEF Marked, MCInit, Parser!Init
<1>2. Marked /\ [MCNext]_<<part, vars, dutyVars, parserVars>> => Marked'
  BY ParserSteps, MarkedStep
<1>3. Marked => [Parser!HeldBackRightly]_(Parser!vars)
  BY DEF Marked, Parser!HeldBackRightly, Parser!Delayed, Parser!TooSoon
<1> QED
  BY <1>1, <1>2, <1>3, PTL DEF MCSpec, FailureDoesNotSilence, Parser!FailureDoesNotSilence

-----------------------------------------------------------------------------
(* The parser *)

(* A byte of the stream belongs to a frame; of a cut one the last is missing. *)
Place(x) ==
  /\ x[1] \in 1..Len(written) /\ x[2] \in 1..Parser!Size(x[1])
  /\ x[1] \in cut_off => x[2] < Parser!Size(x[1])

(* After a byte comes the next of its frame, or a frame after it ended or was  *)
(* cut.                                                                      *)
Ends(x) == x[2] = Parser!Size(x[1]) \/ x[1] \in cut_off
ComesAfter(x, y) ==
  \/ y[1] = x[1] /\ y[2] = x[2] + 1
  \/ y[1] > x[1] /\ y[2] = 1 /\ Ends(x)

Newest == frame[Len(frame)]

BytesInOrder ==
  /\ \A k \in 1..Len(stream) : Place(stream[k])
  /\ \A k \in 1..(Len(stream) - 1) : ComesAfter(stream[k], stream[k + 1])
  /\ stream # <<>> => Ends(stream[Len(stream)])
  /\ frame # <<>> => /\ Place(Newest)
                     /\ stream = <<>> => Ends(Newest)
                     /\ stream # <<>> => ComesAfter(Newest, stream[1])

ParserTypes ==
  /\ written \in Seq(Payloads) /\ Len(written) <= ParserFrames
  /\ cut_off \subseteq 1..Len(written)
  /\ stream \in Seq(Nat \X Nat) /\ Len(stream) <= StreamRoom
  /\ frame \in Seq(Nat \X Nat) /\ expected \in 0..(Preamble + 3)
  /\ IF Len(frame) > 1 THEN Len(frame) < expected ELSE expected = 0
  /\ found \in 0..Len(written) /\ misled \in BOOLEAN /\ swallowed \in Nat
  /\ clock \in 1..ParserTime
  /\ last \in [Parser!Types -> 0..ParserTime] /\ queued \in [Parser!Types -> 0..ParserTime]

Bound == IF misled THEN Parser!Most ELSE 0

(* How many of the first three bytes of the whole frame a byte belongs to are  *)
(* still to come                                                              *)
Lag(x) == IF x[1] \in cut_off \/ x[2] >= 3 THEN 0 ELSE 3 - x[2]

InStep(n) ==
  /\ frame = [i \in 1..Len(frame) |-> <<n, i>>]
  /\ Len(frame) > 1 => expected = Parser!Size(n)

(* What the parser holds is the beginning of a whole frame, or is a false one: *)
(* then every frame that began behind its first byte takes three of its bytes, *)
(* the last one as far as it goes.                                            *)
FewGone ==
  IF frame = <<>> THEN swallowed <= Bound
  ELSE /\ Place(frame[1])
       /\ IF Parser!Whole(frame[1])
            THEN swallowed <= Bound + 1 /\ InStep(frame[1][1])
            ELSE misled /\ 3 * swallowed <= Len(frame) - 1 + Lag(Newest)

ParserInv == ParserTypes /\ BytesInOrder /\ FewGone

LEMMA ParserConstants ==
  /\ Preamble \in Nat /\ StreamRoom \in Nat /\ ParserFrames \in Nat /\ ParserTime \in Nat \ {0}
  /\ \A p \in Payloads : p \in Seq(0..Preamble) /\ Len(p) <= Preamble
  /\ Parser!Most \in Nat
  /\ \A x \in Nat : 3 * x <= Preamble + 4 => x <= Parser!Most
<1>1. /\ Preamble \in Nat /\ StreamRoom \in Nat /\ ParserFrames \in Nat /\ ParserTime \in Nat \ {0}
      /\ \A p \in Payloads : p \in Seq(0..Preamble) /\ Len(p) <= Preamble
  BY PathAssumption DEF Parser!ParserAssumption
<1>2. Parser!Most \in Nat
  BY <1>1 DEF Parser!Most
<1>3. \A x \in Nat : 3 * x <= Preamble + 4 => x <= Parser!Most
  BY <1>1 DEF Parser!Most
<1> QED
  BY <1>1, <1>2, <1>3

LEMMA SizeIs ==
  ASSUME ParserTypes, NEW n \in 1..Len(written)
  PROVE  /\ Parser!Size(n) \in Nat /\ Parser!Size(n) >= 3 /\ Parser!Size(n) <= Preamble + 3
         /\ written[n] \in Seq(0..Preamble) /\ Len(written[n]) = Parser!Size(n) - 3
<1>1. written[n] \in Payloads
  BY DEF ParserTypes
<1>2. written[n] \in Seq(0..Preamble) /\ Len(written[n]) <= Preamble
  BY <1>1, ParserConstants
<1>3. Len(written[n]) \in Nat
  BY <1>2
<1> QED
  BY <1>1, <1>2, <1>3, ParserConstants DEF Parser!Size

(* The first byte of a frame is the preamble, the second its length.           *)
LEMMA ValueIs ==
  ASSUME ParserTypes, NEW x \in Nat \X Nat, Place(x)
  PROVE  /\ Parser!Value(x) \in Int /\ Parser!Value(x) <= Preamble
         /\ x[2] = 1 => Parser!Value(x) = Preamble
         /\ x[2] = 2 => Parser!Value(x) = Parser!Size(x[1]) - 3
<1> DEFINE n == x[1]
           i == x[2]
<1>0. /\ n \in 1..Len(written) /\ i \in 1..Parser!Size(n) /\ Preamble \in Nat
  BY ParserConstants DEF Place
<1>1. /\ Parser!Size(n) \in Nat /\ Parser!Size(n) >= 3
      /\ written[n] \in Seq(0..Preamble) /\ Len(written[n]) = Parser!Size(n) - 3
      /\ Len(written[n]) <= Preamble
  <2>1. Parser!Size(n) <= Preamble + 3
    BY <1>0, SizeIs
  <2> HIDE DEF n
  <2> QED
    BY <1>0, <2>1, SizeIs
<1>2. Parser!Value(x) = IF i = 1 THEN Preamble ELSE IF i = 2 THEN Len(written[n])
                        ELSE IF i = Parser!Size(n) THEN -n ELSE written[n][i - 2]
  BY Zenon DEF Parser!Value
<1> HIDE DEF n, i
<1>3. CASE i = 1
  BY <1>0, <1>2, <1>3 DEF i, n
<1>4. CASE i = 2
  BY <1>0, <1>1, <1>2, <1>4 DEF i, n
<1>5. CASE i # 1 /\ i # 2 /\ i = Parser!Size(n)
  BY <1>0, <1>1, <1>2, <1>5 DEF i, n
<1>6. CASE i # 1 /\ i # 2 /\ i # Parser!Size(n)
  <2>1. i - 2 \in 1..Len(written[n])
    BY <1>0, <1>1, <1>6
  <2>2. written[n][i - 2] \in 0..Preamble
    <3>1. written[n] \in Seq(0..Preamble)
      BY <1>1
    <3> QED
      BY <2>1, <3>1, SeqElements
  <2> QED
    BY <1>0, <1>2, <1>6, <2>2 DEF i
<1> QED
  BY <1>3, <1>4, <1>5, <1>6

(* The byte the parser takes, and what is behind it *)
LEMMA TakenByte ==
  ASSUME ParserTypes, BytesInOrder, NEW b, Parser!Take(b)
  PROVE  /\ stream # <<>> /\ b = stream[1] /\ b \in Nat \X Nat /\ Place(b)
         /\ stream' \in Seq(Nat \X Nat) /\ Len(stream') = Len(stream) - 1
         /\ \A k \in 1..Len(stream') : stream'[k] = stream[k + 1]
         /\ stream' = <<>> => Ends(b)
         /\ stream' # <<>> => ComesAfter(b, stream'[1])
         /\ frame # <<>> => ComesAfter(Newest, b)
<1>1. /\ stream \in Seq(Nat \X Nat) /\ stream # <<>> /\ b = Head(stream) /\ stream' = Tail(stream)
  BY DEF ParserTypes, Parser!Take
<1>2. /\ b = stream[1] /\ Len(stream) \in Nat \ {0} /\ b \in Nat \X Nat
      /\ stream' \in Seq(Nat \X Nat) /\ Len(stream') = Len(stream) - 1
      /\ \A k \in 1..Len(stream') : stream'[k] = stream[k + 1]
  BY <1>1
<1>3. Place(b)
  BY <1>1, <1>2 DEF BytesInOrder
<1>4. ASSUME stream' = <<>> PROVE Ends(b)
  <2>1. Len(stream) = 1
    BY <1>2, <1>4
  <2> QED
    BY <2>1, <1>1, <1>2 DEF BytesInOrder
<1>5. ASSUME stream' # <<>> PROVE ComesAfter(b, stream'[1])
  <2>1. Len(stream') > 0
    BY <1>2, <1>5
  <2>2. 1 \in 1..(Len(stream) - 1) /\ stream'[1] = stream[2]
    BY <2>1, <1>2
  <2> QED
    BY <2>2, <1>2 DEF BytesInOrder
<1>6. frame # <<>> => ComesAfter(Newest, b)
  BY <1>1, <1>2 DEF BytesInOrder
<1> QED
  BY <1>1, <1>2, <1>3, <1>4, <1>5, <1>6

LEMMA SamePlaces ==
  ASSUME UNCHANGED <<written, cut_off>>
  PROVE  /\ \A n : Parser!Size(n)' = Parser!Size(n)
         /\ \A x : (Place(x))' <=> Place(x)
         /\ \A x : (Ends(x))' <=> Ends(x)
         /\ \A x, y : (ComesAfter(x, y))' <=> ComesAfter(x, y)
         /\ \A x : (Lag(x))' = Lag(x)
         /\ \A x : (Parser!Whole(x))' <=> Parser!Whole(x)
<1>1. \A n : Parser!Size(n)' = Parser!Size(n)
  BY DEF Parser!Size
<1>2. \A x : (Place(x))' <=> Place(x)
  BY <1>1 DEF Place
<1>3. \A x : (Ends(x))' <=> Ends(x)
  BY <1>1 DEF Ends
<1>4. \A x, y : (ComesAfter(x, y))' <=> ComesAfter(x, y)
  BY <1>3 DEF ComesAfter
<1>5. \A x : (Lag(x))' = Lag(x)
  BY DEF Lag
<1>6. \A x : (Parser!Whole(x))' <=> Parser!Whole(x)
  BY DEF Parser!Whole
<1> QED
  BY <1>1, <1>2, <1>3, <1>4, <1>5, <1>6

LEMMA OrderTaken ==
  ASSUME ParserTypes, BytesInOrder, NEW b, Parser!Take(b), UNCHANGED <<written, cut_off>>,
         frame' = <<>> \/ frame' = Append(frame, b)
  PROVE  /\ BytesInOrder'
         /\ frame' \in Seq(Nat \X Nat)
         /\ stream' \in Seq(Nat \X Nat) /\ Len(stream') <= StreamRoom
<1>1. /\ stream # <<>> /\ b = stream[1] /\ b \in Nat \X Nat /\ Place(b)
      /\ stream' \in Seq(Nat \X Nat) /\ Len(stream') = Len(stream) - 1
      /\ \A k \in 1..Len(stream') : stream'[k] = stream[k + 1]
      /\ stream' = <<>> => Ends(b)
      /\ stream' # <<>> => ComesAfter(b, stream'[1])
  BY TakenByte
<1>2. /\ Len(stream) \in Nat /\ Len(stream') \in Nat /\ Len(stream) <= StreamRoom
      /\ StreamRoom \in Nat
  BY <1>1, ParserConstants DEF ParserTypes
<1>4. \A k \in 1..Len(stream') : (Place(stream[k]))'
  <2>1. \A k \in 1..Len(stream') : Place(stream'[k])
    <3>1. \A k \in 1..Len(stream') : k + 1 \in 1..Len(stream)
      BY <1>1, <1>2
    <3> QED
      BY <1>1, <3>1 DEF BytesInOrder
  <2> QED
    BY <2>1 DEF Place, Parser!Size
<1>5. \A k \in 1..(Len(stream') - 1) : (ComesAfter(stream[k], stream[k + 1]))'
  <2>1. ASSUME NEW k \in 1..(Len(stream') - 1)
        PROVE  ComesAfter(stream'[k], stream'[k + 1])
    <3>1. /\ k + 1 \in 1..(Len(stream) - 1) /\ k + 1 \in 1..Len(stream') /\ k \in 1..Len(stream')
      BY <1>1, <1>2
    <3>2. stream'[k] = stream[k + 1] /\ stream'[k + 1] = stream[(k + 1) + 1]
      BY <1>1, <3>1
    <3> QED
      BY <3>1, <3>2 DEF BytesInOrder
  <2> QED
    BY <2>1 DEF ComesAfter, Ends, Parser!Size
<1>6. ASSUME stream' # <<>>
      PROVE  (Ends(stream[Len(stream)]))'
  <2>1. Len(stream') > 0 /\ Len(stream') \in 1..Len(stream')
    BY <1>1, <1>2, <1>6
  <2>2. stream'[Len(stream')] = stream[Len(stream)]
    BY <1>1, <1>2, <2>1
  <2>3. Ends(stream[Len(stream)])
    BY <1>1 DEF BytesInOrder
  <2> QED
    BY <2>2, <2>3 DEF Ends, Parser!Size
<1>7. /\ frame \in Seq(Nat \X Nat)
      /\ frame' \in Seq(Nat \X Nat)
      /\ frame' # <<>> => Newest' = b
  <2>1. frame \in Seq(Nat \X Nat)
    BY DEF ParserTypes
  <2>2. CASE frame' = <<>>
    BY <2>1, <2>2
  <2>3. CASE frame' = Append(frame, b)
    <3>1. /\ frame' \in Seq(Nat \X Nat) /\ Len(frame') = Len(frame) + 1
          /\ frame'[Len(frame) + 1] = b
      BY <2>1, <2>3, <1>1, AppendInSeq
    <3> QED
      BY <2>1, <3>1 DEF Newest
  <2> QED
    BY <2>2, <2>3
<1>8. frame' # <<>> => /\ (Place(Newest))'
                       /\ stream' = <<>> => (Ends(Newest))'
                       /\ stream' # <<>> => (ComesAfter(Newest, stream[1]))'
  <2>1. frame' # <<>> => /\ Place(Newest')
                         /\ stream' = <<>> => Ends(Newest')
                         /\ stream' # <<>> => ComesAfter(Newest', stream'[1])
    BY <1>1, <1>7
  <2> QED
    BY <2>1 DEF Place, Ends, ComesAfter, Parser!Size
<1>9. BytesInOrder'
  BY <1>4, <1>5, <1>6, <1>8 DEF BytesInOrder
<1> QED
  BY <1>1, <1>2, <1>7, <1>9

LEMMA MisledIsFlag ==
  ASSUME misled \in BOOLEAN, Parser!Parse
  PROVE  misled' \in BOOLEAN
<1>1. misled' = misled \/ misled' = TRUE \/ misled' = FALSE
  BY Zenon DEF Parser!Parse, Parser!Hunt, Parser!Header, Parser!Body, Parser!CrcMismatch,
     Parser!Found, Parser!Begins, Parser!GoesPast, Parser!lost
<1> QED
  BY <1>1, Zenon

(* Every byte taken keeps the stream in order, and what the parser expects is  *)
(* never more than the longest frame.                                         *)
LEMMA ParseTypes ==
  ASSUME ParserTypes, BytesInOrder, Parser!Parse
  PROVE  ParserTypes' /\ BytesInOrder'
<1>0. /\ UNCHANGED <<written, cut_off, clock, last, queued>>
      /\ found' \in 0..Len(written')
      /\ expected' \in 0..(Preamble + 3)
      /\ IF Len(frame') > 1 THEN Len(frame') < expected' ELSE expected' = 0
      /\ swallowed' \in Nat
      /\ \E b : Parser!Take(b) /\ (frame' = <<>> \/ frame' = Append(frame, b))
  <2>0. /\ Preamble \in Nat /\ frame \in Seq(Nat \X Nat) /\ expected \in 0..(Preamble + 3)
        /\ found \in 0..Len(written) /\ Len(<<>>) = 0 /\ (Len(frame) <= 1 => expected = 0)
        /\ swallowed \in Nat
    BY ParserConstants DEF ParserTypes
  <2>a. \A b : Parser!GoesPast(b) => swallowed' \in Nat
    BY <2>0 DEF Parser!GoesPast
  <2>1. CASE Parser!Hunt
    <3>1. PICK b \in Parser!ToSet(stream) :
            /\ Parser!Take(b) /\ frame = <<>>
            /\ \/ frame' = <<b>> /\ Parser!Begins(b)
               \/ frame' = <<>> /\ UNCHANGED <<misled, swallowed>>
            /\ UNCHANGED <<written, expected, found, cut_off, clock, last, queued>>
      BY <2>1 DEF Parser!Hunt, Parser!lost
    <3>2. frame' = <<>> \/ (frame' = Append(frame, b) /\ Len(frame') = 1)
      BY <3>1
    <3>a. swallowed' \in Nat
      <4>1. CASE Parser!Begins(b)
        <5>1. swallowed' = 0 \/ Parser!GoesPast(b)
          BY <4>1, Zenon DEF Parser!Begins
        <5> QED
          BY <5>1, <2>a
      <4>2. CASE UNCHANGED <<misled, swallowed>>
        BY <4>2, <2>0
      <4> QED
        BY <3>1, <4>1, <4>2
    <3>3. Len(frame') \in 0..1 /\ expected = 0
      BY <3>1, <3>2, <2>0
    <3>4. /\ UNCHANGED <<written, cut_off, clock, last, queued>>
          /\ found' = found /\ expected' = expected
          /\ Parser!Take(b) /\ (frame' = <<>> \/ frame' = Append(frame, b))
      BY <3>1, <3>2, Zenon
    <3>5. /\ found' \in 0..Len(written') /\ expected' \in 0..(Preamble + 3)
          /\ IF Len(frame') > 1 THEN Len(frame') < expected' ELSE expected' = 0
      BY <3>3, <3>4, <2>0
    <3> QED
      BY <3>4, <3>5, <3>a, Zenon
  <2>2. CASE Parser!Header
    <3>1. PICK b \in Parser!ToSet(stream) :
            /\ Parser!Take(b) /\ Len(frame) = 1 /\ frame' = Append(frame, b)
            /\ \E l \in Parser!LengthOf(b) : expected' = l + 3
            /\ Parser!GoesPast(b)
            /\ UNCHANGED <<written, found, cut_off, clock, last, queued>>
      BY <2>2 DEF Parser!Header
    <3>2. b \in Nat \X Nat /\ Place(b)
      BY <3>1, TakenByte
    <3>3. Parser!Value(b) \in Int /\ Parser!Value(b) <= Preamble
      BY <3>2, ValueIs
    <3>4. PICK l \in 0..Preamble : expected' = l + 3
      <4>1. PICK l \in Parser!LengthOf(b) : expected' = l + 3
        BY <3>1
      <4>2. l \in 0..Preamble
        <5>1. CASE Parser!Value(b) < 0
          BY <4>1, <5>1 DEF Parser!LengthOf
        <5>2. CASE ~(Parser!Value(b) < 0)
          <6>1. l = Parser!Value(b)
            BY <4>1, <5>2 DEF Parser!LengthOf
          <6> QED
            BY <6>1, <5>2, <3>3, <2>0
        <5> QED
          BY <5>1, <5>2
      <4> QED
        BY <4>1, <4>2
    <3>5. Len(frame') = 2
      <4>1. frame' = Append(frame, b) /\ Len(frame) = 1
        BY <3>1
      <4>2. frame \in Seq(Nat \X Nat) /\ b \in Nat \X Nat
        BY <3>2, <2>0
      <4>3. Len(Append(frame, b)) = Len(frame) + 1
        BY <4>2, AppendInSeq
      <4> QED
        BY <4>1, <4>3
    <3> QED
      BY <3>1, <3>4, <3>5, <2>0, <2>a
  <2>3. CASE Parser!Body
    <3>1. PICK b \in Parser!ToSet(stream) :
            /\ Parser!Take(b) /\ Len(frame) > 1 /\ Len(frame) + 1 < expected
            /\ frame' = Append(frame, b)
            /\ Parser!GoesPast(b)
            /\ UNCHANGED <<written, expected, found, cut_off, clock, last, queued>>
      BY <2>3 DEF Parser!Body
    <3>2. Len(frame') = Len(frame) + 1
      BY <3>1, <2>0, TakenByte, AppendInSeq
    <3> QED
      BY <3>1, <3>2, <2>0, <2>a
  <2>4. CASE Parser!CrcMismatch
    <3>1. PICK b \in Parser!ToSet(stream) :
            /\ Parser!Take(b) /\ frame' = <<>> /\ expected' = 0
            /\ Parser!GoesPast(b)
            /\ UNCHANGED <<written, found, cut_off, clock, last, queued>>
      BY <2>4 DEF Parser!CrcMismatch, Parser!Resync
    <3> QED
      BY <3>1, <2>0, <2>a
  <2>5. CASE Parser!Found
    <3>1. PICK b \in Parser!ToSet(stream) :
            /\ Parser!Take(b) /\ frame' = <<>> /\ expected' = 0
            /\ found' = b[1] /\ swallowed' = 0
            /\ UNCHANGED <<written, cut_off, clock, last, queued>>
      BY <2>5 DEF Parser!Found
    <3>2. b[1] \in 1..Len(written)
      BY <3>1, TakenByte DEF Place
    <3>3. found' \in 0..Len(written')
      BY <3>1, <3>2
    <3> QED
      BY <3>1, <3>3, <2>0
  <2> QED
    BY <2>1, <2>2, <2>3, <2>4, <2>5 DEF Parser!Parse
<1>1. PICK b : Parser!Take(b) /\ (frame' = <<>> \/ frame' = Append(frame, b))
  BY <1>0
<1>2. /\ BytesInOrder' /\ frame' \in Seq(Nat \X Nat)
      /\ stream' \in Seq(Nat \X Nat) /\ Len(stream') <= StreamRoom
  BY <1>0, <1>1, OrderTaken
<1>3. misled' \in BOOLEAN
  BY MisledIsFlag DEF ParserTypes
<1> QED
  BY <1>0, <1>2, <1>3 DEF ParserTypes

(* What the receiver writes joins the stream behind what is there. *)
LEMMA WrittenBytes ==
  ASSUME ParserTypes, Parser!ReceiverWrites
  PROVE  \E m, n, size \in Nat :
           /\ n = Len(written) + 1 /\ size = Len(written'[n]) + 3
           /\ m <= StreamRoom - Len(stream)
           /\ \E p \in Payloads : written' = Append(written, p)
           /\ m <= size /\ size >= 3
           /\ stream' = stream \o [i \in 1..m |-> <<n, i>>]
           /\ \/ m = size /\ cut_off' = cut_off
              \/ m < size /\ cut_off' = cut_off \cup {n}
<1> DEFINE n == Len(written) + 1
           size == Len(written'[n]) + 3
           room == StreamRoom - Len(stream)
           bytes == [i \in 1..size |-> <<n, i>>]
<1>1. PICK p \in Payloads : written' = Append(written, p)
  BY DEF Parser!ReceiverWrites
<1>2. n \in 1..Len(written') /\ written' \in Seq(Payloads) /\ n \in Nat
  <2>1. written \in Seq(Payloads)
    BY DEF ParserTypes
  <2>2. Len(written) \in Nat
    BY <2>1
  <2> QED
    BY <1>1, <2>1, <2>2, AppendInSeq
<1>3. size \in Nat /\ size >= 3
  <2>1. written'[n] \in Payloads
    <3> HIDE DEF n
    <3> QED
      BY <1>2, SeqElements
  <2>2. written'[n] \in Seq(0..Preamble)
    BY <2>1, ParserConstants
  <2>3. size = Len(written'[n]) + 3
    OBVIOUS
  <2> HIDE DEF n, size
  <2> QED
    BY <2>2, <2>3
<1>4. room \in Nat
  BY ParserConstants DEF ParserTypes
<1>5. /\ stream' = stream \o (IF size <= room THEN bytes ELSE SubSeq(bytes, 1, room))
      /\ cut_off' = IF size <= room THEN cut_off ELSE cut_off \cup {n}
  <2>1. bytes = [i \in 1..(Len(written'[n]) + 3) |-> <<n, i>>]
    OBVIOUS
  <2>2. Len(bytes) = size
    <3> HIDE DEF size, n
    <3> QED
      BY <1>3
  <2>3. /\ stream' = stream \o Parser!Pushed(bytes)
        /\ cut_off' = IF Parser!Fits(bytes) THEN cut_off ELSE cut_off \cup {n}
    BY <2>1, Zenon DEF Parser!ReceiverWrites
  <2> HIDE DEF bytes
  <2> QED
    BY <2>2, <2>3 DEF Parser!Pushed, Parser!Fits
<1>6. ASSUME NEW m \in Nat, m <= room, m <= size,
             stream' = stream \o [i \in 1..m |-> <<n, i>>],
             \/ m = size /\ cut_off' = cut_off
             \/ m < size /\ cut_off' = cut_off \cup {n}
      PROVE  \E k, c, l \in Nat :
               /\ c = Len(written) + 1 /\ l = Len(written'[c]) + 3
               /\ k <= StreamRoom - Len(stream)
               /\ \E q \in Payloads : written' = Append(written, q)
               /\ k <= l /\ l >= 3
               /\ stream' = stream \o [i \in 1..k |-> <<c, i>>]
               /\ \/ k = l /\ cut_off' = cut_off
                  \/ k < l /\ cut_off' = cut_off \cup {c}
  <2>1. /\ n \in Nat /\ size \in Nat /\ m \in Nat
    BY <1>2, <1>3
  <2> WITNESS m \in Nat
  <2>2. /\ n = Len(written) + 1 /\ size = Len(written'[n]) + 3
        /\ m <= StreamRoom - Len(stream)
        /\ \E q \in Payloads : written' = Append(written, q)
        /\ m <= size /\ size >= 3
        /\ stream' = stream \o [i \in 1..m |-> <<n, i>>]
        /\ \/ m = size /\ cut_off' = cut_off
           \/ m < size /\ cut_off' = cut_off \cup {n}
    BY <1>1, <1>3, <1>6
  <2> HIDE DEF n, size
  <2> QED
    BY <2>1, <2>2
<1>7. CASE size <= room
  <2> HIDE DEF bytes
  <2>1. stream' = stream \o bytes /\ cut_off' = cut_off
    BY <1>5, <1>7
  <2>2. size <= size
    BY <1>3
  <2>3. stream' = stream \o [i \in 1..size |-> <<n, i>>]
    BY <2>1 DEF bytes
  <2> HIDE DEF size, n
  <2> QED
    BY <2>1, <2>2, <2>3, <1>3, <1>6, <1>7
<1>8. CASE ~(size <= room)
  <2>1. SubSeq(bytes, 1, room) = [i \in 1..room |-> <<n, i>>]
    <3> HIDE DEF size, room, n
    <3> QED
      BY <1>3, <1>4, <1>8
  <2>2. stream' = stream \o SubSeq(bytes, 1, room) /\ cut_off' = cut_off \cup {n}
    <3> HIDE DEF bytes, room, size
    <3> QED
      BY <1>5, <1>8
  <2>3. stream' = stream \o [i \in 1..room |-> <<n, i>>]
    BY <2>1, <2>2
  <2>4. room < size /\ room <= size /\ room <= room
    <3> HIDE DEF size, room
    <3> QED
      BY <1>3, <1>4, <1>8
  <2> HIDE DEF size, room, n
  <2> QED
    BY <2>2, <2>3, <2>4, <1>4, <1>6
<1> QED
  BY <1>7, <1>8

LEMMA JoinedSeq ==
  ASSUME NEW S, NEW s \in Seq(S), NEW t \in Seq(S)
  PROVE  /\ s \o t \in Seq(S) /\ Len(s \o t) = Len(s) + Len(t)
         /\ \A k \in 1..Len(s) : (s \o t)[k] = s[k]
         /\ \A k \in (Len(s) + 1)..(Len(s) + Len(t)) : (s \o t)[k] = t[k - Len(s)]
  OBVIOUS

LEMMA WriteKeeps ==
  ASSUME ParserInv, Parser!ReceiverWrites
  PROVE  ParserInv'
<1>0. /\ ParserTypes /\ BytesInOrder
      /\ UNCHANGED <<frame, expected, found, misled, swallowed, clock, last, queued>>
      /\ Len(written) < ParserFrames /\ Len(written) \in Nat /\ Len(stream) \in Nat
      /\ stream \in Seq(Nat \X Nat) /\ Len(stream) <= StreamRoom /\ StreamRoom \in Nat
      /\ cut_off \subseteq 1..Len(written)
      /\ ParserFrames \in Nat
  <2>1. /\ UNCHANGED <<frame, expected, found, misled, swallowed, clock, last, queued>>
        /\ Len(written) < ParserFrames
    BY DEF Parser!ReceiverWrites, Parser!parser, Parser!lost
  <2>2. ParserTypes /\ BytesInOrder
    BY DEF ParserInv
  <2>3. Len(written) \in Nat /\ Len(stream) \in Nat
    BY <2>2 DEF ParserTypes
  <2> QED
    BY <2>1, <2>2, <2>3, ParserConstants DEF ParserTypes
<1>1. PICK m \in Nat, n \in Nat, size \in Nat :
        /\ n = Len(written) + 1 /\ size = Len(written'[n]) + 3
        /\ m <= StreamRoom - Len(stream)
        /\ \E p \in Payloads : written' = Append(written, p)
        /\ m <= size /\ size >= 3
        /\ stream' = stream \o [i \in 1..m |-> <<n, i>>]
        /\ \/ m = size /\ cut_off' = cut_off
           \/ m < size /\ cut_off' = cut_off \cup {n}
  BY <1>0, WrittenBytes
<1>2. PICK p \in Payloads : written' = Append(written, p)
  BY <1>1
<1>3. /\ written' \in Seq(Payloads) /\ Len(written') = n
      /\ \A k \in 1..Len(written) : written'[k] = written[k]
  <2>1. written \in Seq(Payloads)
    BY <1>0 DEF ParserTypes
  <2> QED
    BY <2>1, <1>1, <1>2, AppendInSeq
<1>4. /\ \A k \in 1..Len(written) : Parser!Size(k)' = Parser!Size(k)
      /\ Parser!Size(n)' = size
      /\ \A k \in 1..Len(written) : k \in cut_off' <=> k \in cut_off
      /\ cut_off' \subseteq 1..Len(written')
      /\ n \in cut_off' => m < size
      /\ m < size => n \in cut_off'
  <2>1. n \notin 1..Len(written)
    BY <1>0, <1>1
  <2>2. n \notin cut_off
    BY <2>1, <1>0
  <2>3. \A k \in 1..Len(written) : Parser!Size(k)' = Parser!Size(k)
    BY <1>3 DEF Parser!Size
  <2>4. Parser!Size(n)' = size
    BY <1>1 DEF Parser!Size
  <2>5. cut_off' \subseteq 1..Len(written')
    <3>1. Len(written) \in Nat /\ n = Len(written) + 1
      BY <1>0, <1>1
    <3>2. 1..Len(written) \subseteq 1..n /\ n \in 1..n
      BY <3>1
    <3>3. cut_off \subseteq 1..Len(written) /\ cut_off' \subseteq cut_off \cup {n}
      BY <1>0, <1>1
    <3> QED
      BY <3>2, <3>3, <1>3
  <2> QED
    BY <2>1, <2>2, <2>3, <2>4, <2>5, <1>1
<1>5. /\ \A x \in Nat \X Nat : Place(x) => (Place(x))'
      /\ \A x \in Nat \X Nat : Place(x) => ((Ends(x))' <=> Ends(x))
      /\ \A x, y \in Nat \X Nat : Place(x) /\ ComesAfter(x, y) => (ComesAfter(x, y))'
      /\ \A x \in Nat \X Nat : Place(x) => (Lag(x))' = Lag(x)
      /\ \A x \in Nat \X Nat : Place(x) => ((Parser!Whole(x))' <=> Parser!Whole(x))
  <2>1. \A k \in 1..Len(written) : k \in 1..Len(written')
    BY <1>0, <1>1, <1>3
  <2>2. \A x \in Nat \X Nat : Place(x) => (Place(x))'
    BY <1>4, <2>1 DEF Place
  <2>3. \A x \in Nat \X Nat : Place(x) => ((Ends(x))' <=> Ends(x))
    BY <1>4 DEF Place, Ends
  <2>4. \A x, y \in Nat \X Nat : Place(x) /\ ComesAfter(x, y) => (ComesAfter(x, y))'
    BY <2>3 DEF ComesAfter
  <2>5. \A x \in Nat \X Nat : Place(x) => (Lag(x))' = Lag(x)
    BY <1>4 DEF Place, Lag
  <2>6. \A x \in Nat \X Nat : Place(x) => ((Parser!Whole(x))' <=> Parser!Whole(x))
    BY <1>4 DEF Place, Parser!Whole
  <2> QED
    BY <2>2, <2>3, <2>4, <2>5, <2>6
<1>6. /\ stream' \in Seq(Nat \X Nat) /\ Len(stream') = Len(stream) + m
      /\ \A k \in 1..Len(stream) : stream'[k] = stream[k]
      /\ \A k \in (Len(stream) + 1)..(Len(stream) + m) : stream'[k] = <<n, k - Len(stream)>>
  <2> DEFINE t == [i \in 1..m |-> <<n, i>>]
  <2>1. t \in Seq(Nat \X Nat) /\ Len(t) = m
    <3>1. m \in Nat /\ n \in Nat
      BY <1>1
    <3> QED
      BY <3>1, PlacesInSeq
  <2>2. \A i \in 1..m : t[i] = <<n, i>>
    OBVIOUS
  <2>3. stream' = stream \o t
    BY <1>1
  <2>4. \A k \in (Len(stream) + 1)..(Len(stream) + m) : k - Len(stream) \in 1..m
    BY <1>0
  <2> HIDE DEF t
  <2>5. /\ stream' \in Seq(Nat \X Nat) /\ Len(stream') = Len(stream) + m
        /\ \A k \in 1..Len(stream) : stream'[k] = stream[k]
        /\ \A k \in (Len(stream) + 1)..(Len(stream) + m) : stream'[k] = t[k - Len(stream)]
    BY <1>0, <2>1, <2>3, JoinedSeq
  <2> QED
    BY <2>2, <2>4, <2>5
<1>7. ParserTypes'
  <2>1. found \in 0..Len(written') /\ misled \in BOOLEAN /\ swallowed \in Nat
    <3>1. found \in 0..Len(written) /\ misled \in BOOLEAN /\ swallowed \in Nat
      BY <1>0 DEF ParserTypes
    <3>2. Len(written') = Len(written) + 1 /\ Len(written) \in Nat
      BY <1>0, <1>1, <1>3
    <3> QED
      BY <3>1, <3>2
  <2>2. Len(written') <= ParserFrames /\ Len(stream') <= StreamRoom
    BY <1>0, <1>1, <1>3, <1>6
  <2>3. written' \in Seq(Payloads)
    BY <1>0, <1>3
  <2>4. cut_off' \subseteq 1..Len(written')
    BY <1>0, <1>3, <1>4
  <2>5. UNCHANGED <<frame, expected, found, misled, swallowed, clock, last, queued>>
    BY <1>0
  <2>6. /\ frame' \in Seq(Nat \X Nat) /\ expected' \in 0..(Preamble + 3)
        /\ IF Len(frame') > 1 THEN Len(frame') < expected' ELSE expected' = 0
    <3>1. ParserTypes
      BY <1>0
    <3> QED
      BY <3>1, <2>5 DEF ParserTypes
  <2>7. /\ clock' \in 1..ParserTime
        /\ last' \in [Parser!Types -> 0..ParserTime]
        /\ queued' \in [Parser!Types -> 0..ParserTime]
    <3>1. ParserTypes
      BY <1>0
    <3> QED
      BY <3>1, <2>5 DEF ParserTypes
  <2>8. stream' \in Seq(Nat \X Nat)
    BY <1>6
  <2>9. found' \in 0..Len(written') /\ misled' \in BOOLEAN /\ swallowed' \in Nat
    BY <2>1, <2>5
  <2> QED
    BY <2>2, <2>3, <2>4, <2>6, <2>7, <2>8, <2>9 DEF ParserTypes, Parser!Types
<1>8. ASSUME NEW i \in 1..m
      PROVE  (Place(<<n, i>>))'
  <2>1. n \in 1..Len(written') /\ i \in 1..size /\ i <= m
    BY <1>1, <1>3, <1>0
  <2>2. n \in cut_off' => i < size
    BY <2>1, <1>1, <1>4
  <2> QED
    BY <2>1, <2>2, <1>4 DEF Place
<1>9. \A k \in 1..Len(stream') : (Place(stream[k]))'
  <2>1. ASSUME NEW k \in 1..Len(stream') PROVE (Place(stream[k]))'
    <3>1. CASE k \in 1..Len(stream)
      <4>1. Place(stream[k]) /\ stream[k] \in Nat \X Nat
        BY <3>1, <1>0 DEF BytesInOrder
      <4>2. PICK x \in Nat \X Nat : x = stream[k]
        BY <4>1
      <4>3. (Place(x))' /\ stream'[k] = x
        BY <4>1, <4>2, <1>5, <1>6, <3>1
      <4> QED
        BY <4>3 DEF Place
    <3>2. CASE k \notin 1..Len(stream)
      <4>1. k \in (Len(stream) + 1)..(Len(stream) + m)
        BY <3>2, <1>0, <1>6
      <4>2. PICK i \in 1..m : i = k - Len(stream)
        <5>1. k - Len(stream) \in 1..m
          BY <4>1, <1>0
        <5> QED
          BY <5>1
      <4>3. stream'[k] = <<n, i>> /\ (Place(<<n, i>>))'
        BY <4>1, <4>2, <1>6, <1>8
      <4> QED
        BY <4>3 DEF Place
    <3> QED
      BY <3>1, <3>2
  <2> QED
    BY <2>1
<1>10. ASSUME NEW x \in Nat \X Nat, Place(x), Ends(x)
       PROVE  \A i \in 1..m : i = 1 => (ComesAfter(x, <<n, i>>))'
  <2>1. (Ends(x))'
    BY <1>5, <1>10
  <2>2. x[1] < n
    BY <1>10, <1>1, <1>0 DEF Place
  <2> QED
    BY <2>1, <2>2 DEF ComesAfter
<1>11. \A k \in 1..(Len(stream') - 1) : (ComesAfter(stream[k], stream[k + 1]))'
  <2>1. ASSUME NEW k \in 1..(Len(stream') - 1) PROVE (ComesAfter(stream[k], stream[k + 1]))'
    <3>0. Len(stream') \in Nat /\ k \in 1..Len(stream') /\ k + 1 \in 1..Len(stream')
      BY <1>0, <1>6
    <3>1. CASE k < Len(stream)
      <4>1. k \in 1..Len(stream) /\ k + 1 \in 1..Len(stream) /\ k \in 1..(Len(stream) - 1)
        <5>1. Len(stream) \in Nat /\ Len(stream') \in Nat
          BY <1>0, <3>0
        <5> QED
          BY <3>1, <5>1
      <4>2. PICK x \in Nat \X Nat, y \in Nat \X Nat : x = stream[k] /\ y = stream[k + 1]
        <5>1. stream[k] \in Nat \X Nat /\ stream[k + 1] \in Nat \X Nat
          BY <4>1, <1>0, SeqElements
        <5> QED
          BY <5>1
      <4>3. Place(x) /\ ComesAfter(x, y)
        BY <4>1, <4>2, <1>0 DEF BytesInOrder
      <4>4. (ComesAfter(x, y))' /\ stream'[k] = x /\ stream'[k + 1] = y
        BY <4>1, <4>2, <4>3, <1>5, <1>6
      <4> QED
        BY <4>4 DEF ComesAfter, Ends
    <3>2. CASE k = Len(stream)
      <4>1. stream # <<>> /\ k \in 1..Len(stream) /\ k + 1 \in (Len(stream) + 1)..(Len(stream) + m)
            /\ 1 \in 1..m /\ (k + 1) - Len(stream) = 1
        BY <3>0, <3>2, <1>0, <1>6
      <4>2. PICK x \in Nat \X Nat : x = stream[k]
        BY <4>1, <1>0
      <4>3. Place(x) /\ Ends(x)
        BY <4>1, <4>2, <3>2, <1>0 DEF BytesInOrder
      <4>4. (ComesAfter(x, <<n, 1>>))' /\ stream'[k] = x /\ stream'[k + 1] = <<n, 1>>
        BY <4>1, <4>2, <4>3, <1>10, <1>6
      <4> QED
        BY <4>4 DEF ComesAfter, Ends
    <3>3. CASE k > Len(stream)
      <4>1. PICK i \in 1..m : i = k - Len(stream)
        <5>1. Len(stream) \in Nat /\ m \in Nat /\ Len(stream') = Len(stream) + m
          BY <1>0, <1>6
        <5>2. k - Len(stream) \in 1..m
          BY <3>0, <3>3, <5>1
        <5> QED
          BY <5>2
      <4>2. /\ k \in (Len(stream) + 1)..(Len(stream) + m)
            /\ k + 1 \in (Len(stream) + 1)..(Len(stream) + m)
            /\ (k + 1) - Len(stream) = i + 1
        BY <3>0, <3>3, <4>1, <1>0, <1>6
      <4>3. stream'[k] = <<n, i>> /\ stream'[k + 1] = <<n, i + 1>>
        BY <4>1, <4>2, <1>6
      <4> QED
        BY <4>3 DEF ComesAfter
    <3> QED
      BY <3>1, <3>2, <3>3, <1>0
  <2> QED
    BY <2>1
<1>12. ASSUME stream' # <<>>
       PROVE  (Ends(stream[Len(stream)]))'
  <2>0. Len(stream') > 0 /\ Len(stream') \in Nat
    BY <1>6, <1>12, <1>0
  <2>1. CASE m = 0
    <3>1. PICK x \in Nat \X Nat : x = stream[Len(stream)] /\ Len(stream) \in 1..Len(stream)
      BY <2>0, <2>1, <1>6, <1>0
    <3>2. Place(x) /\ Ends(x)
      <4>1. stream # <<>>
        BY <3>1
      <4> QED
        BY <3>1, <4>1, <1>0 DEF BytesInOrder
    <3>3. (Ends(x))' /\ stream'[Len(stream')] = x
      BY <2>1, <3>1, <3>2, <1>0, <1>5, <1>6
    <3> QED
      BY <3>3 DEF Ends
  <2>2. CASE m # 0
    <3>1. Len(stream') \in (Len(stream) + 1)..(Len(stream) + m) /\ Len(stream') - Len(stream) = m
      BY <2>0, <2>2, <1>6, <1>0
    <3>2. stream'[Len(stream')] = <<n, m>>
      BY <3>1, <1>6
    <3>3. m = size \/ n \in cut_off'
      BY <1>1, <1>4
    <3> QED
      BY <3>2, <3>3, <1>4 DEF Ends
  <2> QED
    BY <2>1, <2>2
<1>13. ASSUME frame # <<>>
       PROVE  /\ Newest \in Nat \X Nat /\ Place(Newest) /\ Newest' = Newest
              /\ (Place(Newest))'
              /\ stream' = <<>> => (Ends(Newest))'
              /\ stream' # <<>> => (ComesAfter(Newest, stream[1]))'
  <2>0. Newest' = Newest
    BY <1>0 DEF Newest
  <2>1. PICK x \in Nat \X Nat : x = Newest
    <3>1. frame \in Seq(Nat \X Nat)
      BY <1>0 DEF ParserTypes
    <3>2. Len(frame) \in 1..Len(frame)
      BY <3>1, <1>13
    <3> QED
      BY <3>1, <3>2 DEF Newest
  <2>2. Place(x)
    BY <2>1, <1>0, <1>13 DEF BytesInOrder
  <2>3. (Place(x))'
    BY <2>2, <1>5
  <2>4. ASSUME stream' = <<>> PROVE (Ends(x))'
    <3>1. stream = <<>>
      BY <2>4, <1>6, <1>0
    <3> QED
      BY <3>1, <2>1, <2>2, <1>0, <1>5, <1>13 DEF BytesInOrder
  <2>5. ASSUME stream' # <<>> PROVE \E y \in Nat \X Nat : (ComesAfter(x, y))' /\ stream'[1] = y
    <3>1. CASE stream = <<>>
      <4>1. 1 \in 1..m /\ 1 \in (Len(stream) + 1)..(Len(stream) + m) /\ Len(stream) = 0
        BY <3>1, <2>5, <1>6, <1>0
      <4>2. Ends(x)
        BY <3>1, <2>1, <1>0, <1>13 DEF BytesInOrder
      <4> QED
        BY <4>1, <4>2, <2>2, <1>6, <1>10
    <3>2. CASE stream # <<>>
      <4>1. 1 \in 1..Len(stream) /\ stream[1] \in Nat \X Nat
        BY <3>2, <1>0
      <4>2. ComesAfter(x, stream[1])
        BY <3>2, <2>1, <1>0, <1>13 DEF BytesInOrder
      <4>3. PICK y \in Nat \X Nat : y = stream[1]
        BY <4>1
      <4>4. (ComesAfter(x, y))' /\ stream'[1] = y
        BY <4>1, <4>2, <4>3, <2>2, <1>5, <1>6
      <4> QED
        BY <4>4
    <3> QED
      BY <3>1, <3>2
  <2> QED
    BY <2>0, <2>1, <2>2, <2>3, <2>4, <2>5 DEF Place, Ends, ComesAfter
<1>14. BytesInOrder'
  BY <1>0, <1>9, <1>11, <1>12, <1>13 DEF BytesInOrder
<1>15. FewGone'
  <2>0. FewGone /\ Bound' = Bound
    BY <1>0 DEF ParserInv, Bound, Parser!Most
  <2>1. CASE frame = <<>>
    BY <2>0, <2>1, <1>0 DEF FewGone
  <2>2. CASE frame # <<>>
    <3>1. PICK x \in Nat \X Nat : x = frame[1]
      <4>1. frame \in Seq(Nat \X Nat)
        BY <1>0 DEF ParserTypes
      <4>2. 1 \in 1..Len(frame)
        BY <2>2, <4>1
      <4> QED
        BY <4>1, <4>2, SeqElements
    <3>2. PICK y \in Nat \X Nat : y = Newest /\ Place(y) /\ Newest' = y
      BY <1>13, <2>2
    <3>3. /\ Place(x) /\ x[1] \in 1..Len(written)
          /\ IF Parser!Whole(x)
               THEN swallowed <= Bound + 1 /\ InStep(x[1])
               ELSE misled /\ 3 * swallowed <= Len(frame) - 1 + Lag(y)
      BY <2>0, <2>2, <3>1, <3>2 DEF FewGone, Place
    <3>4. /\ (Place(x))' /\ ((Parser!Whole(x))' <=> Parser!Whole(x))
          /\ (Lag(y))' = Lag(y)
      BY <3>2, <3>3, <1>5
    <3>5. InStep(x[1]) => (InStep(x[1]))'
      BY <3>3, <1>0, <1>4 DEF InStep
    <3>6. (Lag(Newest))' = Lag(y)
      BY <3>2, <3>4 DEF Lag
    <3>7. frame' = frame /\ frame'[1] = x /\ misled' = misled /\ swallowed' = swallowed
      BY <3>1, <1>0
    <3>8. (Place(frame[1]))' /\ ((Parser!Whole(frame[1]))' <=> Parser!Whole(x))
      BY <3>4, <3>7 DEF Place, Parser!Whole
    <3>9. InStep(x[1]) => (InStep(frame[1][1]))'
      BY <3>5, <3>7 DEF InStep
    <3> QED
      BY <2>0, <2>2, <3>3, <3>6, <3>7, <3>8, <3>9 DEF FewGone
  <2> QED
    BY <2>1, <2>2
<1> QED
  BY <1>7, <1>14, <1>15 DEF ParserInv

LEMMA ParserStarts == Parser!Init => ParserInv
<1> SUFFICES ASSUME Parser!Init PROVE ParserInv
  OBVIOUS
<1>1. /\ written = <<>> /\ stream = <<>> /\ frame = <<>> /\ expected = 0 /\ found = 0
      /\ cut_off = {} /\ misled = FALSE /\ swallowed = 0 /\ clock = 1
      /\ last = [t \in Parser!Types |-> 0] /\ queued = [t \in Parser!Types |-> 0]
  BY DEF Parser!Init, Parser!Never
<1>2. ParserTypes
  <2>1. misled \in BOOLEAN
    BY <1>1, Zenon
  <2>2. last \in [Parser!Types -> 0..ParserTime] /\ queued \in [Parser!Types -> 0..ParserTime]
    BY <1>1, ParserConstants
  <2>3. /\ written \in Seq(Payloads) /\ Len(written) <= ParserFrames /\ cut_off \subseteq 1..Len(written)
        /\ stream \in Seq(Nat \X Nat) /\ Len(stream) <= StreamRoom /\ frame \in Seq(Nat \X Nat)
        /\ expected \in 0..(Preamble + 3) /\ Len(frame) = 0 /\ found \in 0..Len(written)
        /\ swallowed \in Nat /\ clock \in 1..ParserTime
    BY <1>1, ParserConstants
  <2> QED
    BY <1>1, <2>1, <2>2, <2>3 DEF ParserTypes
<1>3. BytesInOrder
  BY <1>1 DEF BytesInOrder
<1>4. FewGone
  BY <1>1 DEF FewGone, Bound
<1> QED
  BY <1>2, <1>3, <1>4 DEF ParserInv

LEMMA ElsewhereKeeps ==
  ASSUME ParserInv, Parser!Tick \/ Parser!Filter \/ UNCHANGED parserVars
  PROVE  ParserInv'
<1>0. ParserTypes /\ ParserTime \in Nat \ {0}
  BY ParserConstants DEF ParserInv
<1>1. /\ UNCHANGED <<written, stream, frame, expected, cut_off, misled, swallowed>>
      /\ found' \in 0..Len(written) /\ clock' \in 1..ParserTime
      /\ last' \in [Parser!Types -> 0..ParserTime]
      /\ queued' \in [Parser!Types -> 0..ParserTime]
  <2>1. /\ found \in 0..Len(written) /\ clock \in 1..ParserTime /\ clock \in 0..ParserTime
        /\ 0 \in 0..Len(written)
        /\ last \in [Parser!Types -> 0..ParserTime]
        /\ queued \in [Parser!Types -> 0..ParserTime]
    BY <1>0 DEF ParserTypes
  <2>2. CASE Parser!Tick
    BY <2>1, <2>2, <1>0 DEF Parser!Tick, Parser!parser, Parser!lost
  <2>3. CASE Parser!Filter
    <3>1. Parser!Done
      BY <2>3 DEF Parser!Filter, Parser!Unwanted, Parser!Delayed, Parser!NotQueued, Parser!Queued
    <3>2. \/ UNCHANGED <<last, queued>>
          \/ \E t : last' = [last EXCEPT ![t] = clock] /\ queued' = [queued EXCEPT ![t] = clock]
      BY <2>3 DEF Parser!Filter, Parser!Unwanted, Parser!Delayed, Parser!NotQueued, Parser!Queued,
                  Parser!MarkFailed, Parser!MarkSent
    <3>3. /\ last' \in [Parser!Types -> 0..ParserTime]
          /\ queued' \in [Parser!Types -> 0..ParserTime]
      BY <2>1, <3>2
    <3> QED
      BY <2>1, <3>1, <3>3 DEF Parser!Done, Parser!parser, Parser!lost
  <2>4. CASE UNCHANGED parserVars
    BY <2>1, <2>4 DEF parserVars
  <2> QED
    BY <2>2, <2>3, <2>4
<1>2. ParserTypes'
  BY <1>0, <1>1 DEF ParserTypes
<1>3. BytesInOrder'
  BY <1>1 DEF ParserInv, BytesInOrder, Newest, Place, Ends, ComesAfter, Parser!Size
<1>4. FewGone'
  BY <1>1 DEF ParserInv, FewGone, Newest, Place, InStep, Bound, Lag, Parser!Most, Parser!Whole,
              Parser!Size
<1> QED
  BY <1>2, <1>3, <1>4 DEF ParserInv

(* The parser hunts for a preamble, and holds the byte it takes for one.       *)
LEMMA HuntGone ==
  ASSUME ParserTypes, BytesInOrder, FewGone, Parser!Hunt
  PROVE  FewGone'
<1>1. PICK b \in Parser!ToSet(stream) :
        /\ Parser!Take(b) /\ frame = <<>>
        /\ \/ frame' = <<b>> /\ Parser!Begins(b)
           \/ frame' = <<>> /\ UNCHANGED <<misled, swallowed>>
        /\ UNCHANGED <<written, expected, found, cut_off, clock, last, queued>>
  BY DEF Parser!Hunt, Parser!lost
<1>2. b \in Nat \X Nat /\ Place(b)
  BY <1>1, TakenByte
<1>3. swallowed \in Nat /\ swallowed <= Bound /\ Bound \in Nat
  BY <1>1, ParserConstants DEF FewGone, ParserTypes, Bound
<1>4. CASE frame' = <<>> /\ UNCHANGED <<misled, swallowed>>
  BY <1>3, <1>4 DEF FewGone, Bound, Parser!Most
<1>5. CASE frame' = <<b>> /\ Parser!Begins(b)
  <2>1. /\ frame' # <<>> /\ Len(frame') = 1 /\ frame'[1] = b /\ Newest' = b
    BY <1>5 DEF Newest
  <2>2. /\ (Place(frame[1]))' /\ ((Parser!Whole(frame[1]))' <=> Parser!Whole(b))
        /\ (Lag(Newest))' = Lag(b)
    BY <1>1, <1>2, <2>1 DEF Place, Parser!Whole, Lag, Parser!Size
  <2>3. CASE Parser!Whole(b)
    <3>1. swallowed' = swallowed + 1 /\ Bound' = Bound
      BY <1>5, <2>3 DEF Parser!Begins, Parser!GoesPast, Bound, Parser!Most
    <3>2. (InStep(frame[1][1]))'
      <4>1. b = <<b[1], 1>>
        BY <1>2, <2>3 DEF Parser!Whole
      <4>2. frame' = [i \in 1..Len(frame') |-> <<b[1], i>>]
        BY <1>5, <2>1, <4>1
      <4> QED
        BY <2>1, <4>2 DEF InStep
    <3> QED
      BY <1>3, <2>1, <2>2, <2>3, <3>1, <3>2 DEF FewGone
  <2>4. CASE ~Parser!Whole(b)
    <3>1. swallowed' = 0 /\ misled'
      BY <1>5, <2>4 DEF Parser!Begins
    <3>2. Lag(b) \in Nat
      BY <1>2 DEF Lag
    <3> QED
      BY <2>1, <2>2, <2>4, <3>1, <3>2 DEF FewGone
  <2> QED
    BY <2>3, <2>4
<1> QED
  BY <1>1, <1>4, <1>5

LEMMA SeqIsItsItems ==
  ASSUME NEW S, NEW s \in Seq(S)
  PROVE  s = [i \in 1..Len(s) |-> s[i]]
  OBVIOUS

(* The parser holds the beginning of a frame of which nothing was cut: it gets *)
(* the next byte of that frame.                                               *)
LEMMA NextInStep ==
  ASSUME ParserTypes, BytesInOrder, FewGone, frame # <<>>, Parser!Whole(frame[1]),
         NEW b, Parser!Take(b)
  PROVE  LET n == frame[1][1]
             l == Len(frame) + 1 IN
         /\ n \in 1..Len(written) /\ b = <<n, l>> /\ l <= Parser!Size(n)
         /\ Append(frame, b) = [i \in 1..l |-> <<n, i>>] /\ Len(Append(frame, b)) = l
         /\ Append(frame, b)[1] = frame[1]
<1> DEFINE n == frame[1][1]
           L == Len(frame)
<1>1. /\ frame \in Seq(Nat \X Nat) /\ L \in Nat \ {0} /\ frame[1] \in Nat \X Nat
      /\ Place(frame[1]) /\ InStep(n)
      /\ L > 1 => L < expected
  <2>1. frame \in Seq(Nat \X Nat)
    BY DEF ParserTypes
  <2>2. L \in Nat \ {0} /\ frame[1] \in Nat \X Nat
    BY <2>1
  <2> QED
    BY <2>1, <2>2 DEF FewGone, ParserTypes
<1>2. n \in 1..Len(written) /\ n \in Nat /\ n \notin cut_off
  BY <1>1 DEF Place, Parser!Whole
<1>3. Parser!Size(n) \in Nat /\ Parser!Size(n) >= 3
  BY <1>2, SizeIs
<1>4. frame = [i \in 1..L |-> <<n, i>>] /\ (L > 1 => L < Parser!Size(n))
  BY <1>1 DEF InStep
<1>5. Newest = <<n, L>>
  <2>1. L \in 1..L
    BY <1>1
  <2> QED
    BY <2>1, <1>4 DEF Newest
<1>6. b \in Nat \X Nat /\ ComesAfter(Newest, b)
  BY TakenByte
<1>7. ~Ends(Newest)
  BY <1>1, <1>2, <1>3, <1>4, <1>5 DEF Ends
<1>8. b = <<n, L + 1>>
  BY <1>5, <1>6, <1>7 DEF ComesAfter
<1>9. L + 1 <= Parser!Size(n)
  BY <1>1, <1>3, <1>4
<1>10. /\ Append(frame, b) \in Seq(Nat \X Nat) /\ Len(Append(frame, b)) = L + 1
       /\ \A i \in 1..L : Append(frame, b)[i] = frame[i]
       /\ Append(frame, b)[L + 1] = b
  BY <1>1, <1>6, AppendInSeq
<1>11. \A i \in 1..(L + 1) : Append(frame, b)[i] = <<n, i>>
  <2>1. ASSUME NEW i \in 1..(L + 1) PROVE Append(frame, b)[i] = <<n, i>>
    <3>1. i \in 1..L \/ i = L + 1
      BY <1>1
    <3>2. \A j \in 1..L : frame[j] = <<n, j>>
      BY <1>4
    <3> QED
      BY <3>1, <3>2, <1>8, <1>10
  <2> QED
    BY <2>1
<1>12. Append(frame, b) = [i \in 1..(L + 1) |-> <<n, i>>]
  <2> DEFINE s == Append(frame, b)
  <2>1. s = [i \in 1..(L + 1) |-> s[i]]
    <3>1. s \in Seq(Nat \X Nat) /\ Len(s) = L + 1
      BY <1>10
    <3> HIDE DEF s, L
    <3>2. s = [i \in 1..Len(s) |-> s[i]]
      BY <3>1, SeqIsItsItems
    <3> QED
      BY <3>1, <3>2
  <2>2. \A i \in 1..(L + 1) : s[i] = <<n, i>>
    BY <1>11
  <2> HIDE DEF s, n, L
  <2> QED
    BY <2>1, <2>2 DEF s
<1>13. Append(frame, b)[1] = frame[1]
  BY <1>1, <1>10
<1> QED
  BY <1>2, <1>8, <1>9, <1>10, <1>12, <1>13

LEMMA LagOfNewest ==
  ASSUME ParserTypes, BytesInOrder, frame # <<>>
  PROVE  Newest \in Nat \X Nat /\ Place(Newest) /\ Lag(Newest) \in 0..2
<1>1. frame \in Seq(Nat \X Nat)
  BY DEF ParserTypes
<1>2. Len(frame) \in 1..Len(frame)
  BY <1>1
<1>3. PICK x \in Nat \X Nat : x = Newest
  BY <1>1, <1>2, SeqElements DEF Newest
<1>4. Place(x)
  BY <1>3 DEF BytesInOrder
<1>5. x[2] \in Nat /\ x[2] >= 1
  BY <1>4 DEF Place
<1> QED
  BY <1>3, <1>4, <1>5 DEF Lag

(* The parser holds a false frame and takes a byte more: a frame that begins   *)
(* with it comes behind the three bytes of the one before.                      *)
LEMMA FalseGrows ==
  ASSUME ParserTypes, BytesInOrder, FewGone, frame # <<>>, ~Parser!Whole(frame[1]),
         NEW b, Parser!Take(b), Parser!GoesPast(b)
  PROVE  /\ Len(frame) \in Nat \ {0} /\ swallowed' \in Nat /\ Lag(b) \in 0..2
         /\ misled' /\ 3 * swallowed' <= Len(frame) + Lag(b)
<1> DEFINE x == Newest
<1>1. /\ Len(frame) \in Nat \ {0} /\ swallowed \in Nat /\ misled
      /\ 3 * swallowed <= Len(frame) - 1 + Lag(x)
  <2>1. frame \in Seq(Nat \X Nat)
    BY DEF ParserTypes
  <2>2. Len(frame) \in Nat \ {0}
    BY <2>1
  <2> QED
    BY <2>2 DEF FewGone, ParserTypes
<1>2. /\ b \in Nat \X Nat /\ Place(b) /\ x \in Nat \X Nat /\ Place(x) /\ ComesAfter(x, b)
      /\ Lag(x) \in 0..2
  BY TakenByte, LagOfNewest
<1>3. /\ x[2] \in Nat /\ x[2] >= 1 /\ b[2] \in Nat /\ b[2] >= 1
      /\ Parser!Size(x[1]) \in Nat /\ Parser!Size(x[1]) >= 3
  <2>1. x[1] \in 1..Len(written)
    BY <1>2 DEF Place
  <2> QED
    BY <2>1, <1>2, SizeIs DEF Place
<1>4. Lag(b) \in 0..2
  BY <1>3 DEF Lag
<1> HIDE DEF x
<1>5. CASE Parser!Whole(b)
  <2>1. b[2] = 1 /\ b[1] \notin cut_off /\ swallowed' = swallowed + 1
    BY <1>5 DEF Parser!Whole, Parser!GoesPast
  <2>2. Ends(x)
    BY <1>2, <1>3, <2>1 DEF ComesAfter
  <2>3. Lag(x) = 0
    BY <1>3, <2>2 DEF Ends, Lag
  <2>4. Lag(b) = 2
    BY <2>1 DEF Lag
  <2> QED
    BY <1>1, <1>4, <2>1, <2>3, <2>4 DEF Parser!GoesPast
<1>6. CASE ~Parser!Whole(b)
  <2>1. swallowed' = swallowed /\ misled' = misled
    BY <1>6 DEF Parser!GoesPast
  <2>2. Lag(x) <= Lag(b) + 1
    <3>1. CASE b[1] = x[1] /\ b[2] = x[2] + 1
      BY <1>3, <3>1 DEF Lag
    <3>2. CASE b[2] = 1 /\ Ends(x)
      BY <1>3, <1>4, <3>2 DEF Ends, Lag
    <3> QED
      BY <1>2, <3>1, <3>2 DEF ComesAfter
  <2> QED
    BY <1>1, <1>2, <1>4, <2>1, <2>2
<1> QED
  BY <1>5, <1>6

(* What the parser holds grows by a byte. *)
LEMMA GrowGone ==
  ASSUME ParserTypes, BytesInOrder, FewGone, Parser!Header \/ Parser!Body
  PROVE  FewGone'
<1>0. /\ frame \in Seq(Nat \X Nat) /\ Len(frame) \in Nat /\ expected \in Nat
      /\ Preamble \in Nat /\ swallowed \in Nat
  <2>1. frame \in Seq(Nat \X Nat)
    BY DEF ParserTypes
  <2> QED
    BY <2>1, ParserConstants DEF ParserTypes
<1>1. PICK b : /\ Parser!Take(b) /\ frame # <<>> /\ frame' = Append(frame, b)
               /\ Parser!GoesPast(b)
               /\ UNCHANGED <<written, cut_off>>
               /\ \/ Len(frame) = 1 /\ (\E l \in Parser!LengthOf(b) : expected' = l + 3)
                  \/ Len(frame) > 1 /\ Len(frame) + 1 < expected /\ expected' = expected
  <2>1. CASE Parser!Header
    <3>1. PICK b \in Parser!ToSet(stream) :
            /\ Parser!Take(b) /\ Len(frame) = 1 /\ frame' = Append(frame, b)
            /\ \E l \in Parser!LengthOf(b) : expected' = l + 3
            /\ Parser!GoesPast(b)
            /\ UNCHANGED <<written, found, cut_off, clock, last, queued>>
      BY <2>1 DEF Parser!Header
    <3>2. frame # <<>>
      BY <3>1
    <3> QED
      BY <3>1, <3>2
  <2>2. CASE Parser!Body
    <3>1. PICK b \in Parser!ToSet(stream) :
            /\ Parser!Take(b) /\ Len(frame) > 1 /\ Len(frame) + 1 < expected
            /\ frame' = Append(frame, b)
            /\ Parser!GoesPast(b)
            /\ UNCHANGED <<written, expected, found, cut_off, clock, last, queued>>
      BY <2>2 DEF Parser!Body
    <3>2. frame # <<>>
      BY <3>1
    <3> QED
      BY <3>1, <3>2
  <2> QED
    BY <2>1, <2>2
<1>2. PICK x \in Nat \X Nat : x = frame[1]
  <2>1. 1 \in 1..Len(frame)
    BY <1>0, <1>1
  <2> QED
    BY <2>1, <1>0, SeqElements
<1>3. /\ b \in Nat \X Nat /\ Place(b)
      /\ frame' \in Seq(Nat \X Nat) /\ Len(frame') = Len(frame) + 1 /\ frame'[1] = x
      /\ Newest' = b /\ frame' # <<>>
  <2>1. b \in Nat \X Nat /\ Place(b)
    BY <1>1, TakenByte
  <2>2. /\ Append(frame, b) \in Seq(Nat \X Nat) /\ Len(Append(frame, b)) = Len(frame) + 1
        /\ \A i \in 1..Len(frame) : Append(frame, b)[i] = frame[i]
        /\ Append(frame, b)[Len(frame) + 1] = b
    BY <1>0, <2>1, AppendInSeq
  <2>3. 1 \in 1..Len(frame)
    BY <1>0, <1>1
  <2> QED
    BY <1>1, <1>2, <2>1, <2>2, <2>3 DEF Newest
<1>4. /\ Place(x) /\ (Place(frame[1]))'
      /\ ((Parser!Whole(frame[1]))' <=> Parser!Whole(x))
      /\ (Lag(Newest))' = Lag(b)
  <2>1. Place(x)
    BY <1>1, <1>2 DEF FewGone
  <2> QED
    BY <2>1, <1>1, <1>3 DEF Place, Parser!Whole, Lag, Parser!Size
<1>5. CASE Parser!Whole(x)
  <2>1. /\ x[1] \in 1..Len(written) /\ b = <<x[1], Len(frame) + 1>>
        /\ Append(frame, b) = [i \in 1..(Len(frame) + 1) |-> <<x[1], i>>]
    BY <1>1, <1>2, <1>5, NextInStep
  <2>2. Parser!Size(x[1]) \in Nat /\ Parser!Size(x[1]) >= 3
    BY <2>1, SizeIs
  <2>3. InStep(x[1]) /\ swallowed <= Bound + 1
    BY <1>1, <1>2, <1>5 DEF FewGone
  <2>4. expected' = Parser!Size(x[1])
    <3>1. CASE Len(frame) = 1
      <4>1. b[1] = x[1] /\ b[2] = 2
        BY <2>1, <3>1
      <4>2. Parser!Value(b) = Parser!Size(x[1]) - 3
        BY <4>1, <1>3, ValueIs
      <4>3. Parser!LengthOf(b) = {Parser!Size(x[1]) - 3}
        BY <4>2, <2>2 DEF Parser!LengthOf
      <4> QED
        BY <3>1, <4>1, <4>3, <1>1, <2>2
    <3>2. CASE Len(frame) > 1
      <4>1. expected = Parser!Size(x[1])
        BY <3>2, <2>3 DEF InStep
      <4>2. expected' = expected
        <5>0. Len(frame) \in Nat
          BY <1>0
        <5>1. Len(frame) # 1
          BY ONLY <3>2, <5>0
        <5>2. Len(frame) = 1 \/ expected' = expected
          BY <1>1, Zenon
        <5> QED
          BY ONLY <5>1, <5>2
      <4> QED
        BY <4>1, <4>2
    <3> QED
      BY <3>1, <3>2, <1>1
  <2>5. swallowed' = swallowed /\ Bound' = Bound
    <3>1. b[2] # 1
      BY <2>1, <1>0, <1>1
    <3> QED
      BY <3>1, <1>1 DEF Parser!GoesPast, Parser!Whole, Bound, Parser!Most
  <2>6. (InStep(frame[1][1]))'
    <3>1. frame' = [i \in 1..Len(frame') |-> <<x[1], i>>]
      BY <1>1, <1>3, <2>1
    <3> QED
      BY <3>1, <1>1, <1>3, <2>4 DEF InStep, Parser!Size
  <2> QED
    BY <1>3, <1>4, <1>5, <2>3, <2>5, <2>6 DEF FewGone
<1>6. CASE ~Parser!Whole(x)
  <2>1. /\ swallowed' \in Nat /\ Lag(b) \in 0..2
        /\ misled' /\ 3 * swallowed' <= Len(frame) + Lag(b)
    BY <1>1, <1>2, <1>6, FalseGrows
  <2>2. 3 * swallowed' <= Len(frame') - 1 + (Lag(Newest))'
    BY <2>1, <1>0, <1>3, <1>4
  <2> QED
    BY <1>3, <1>4, <1>6, <2>1, <2>2 DEF FewGone
<1> QED
  BY <1>5, <1>6

(* A frame is complete.  A whole one is found; a false one took at most         *)
(* Preamble + 3 bytes.                                                         *)
LEMMA CompleteGone ==
  ASSUME ParserTypes, BytesInOrder, FewGone, Parser!CrcMismatch \/ Parser!Found
  PROVE  FewGone'
<1>0. /\ frame \in Seq(Nat \X Nat) /\ Len(frame) \in Nat /\ expected \in 0..(Preamble + 3)
      /\ Preamble \in Nat /\ Parser!Most \in Nat /\ (Parser!Most)' = Parser!Most
  <2>1. frame \in Seq(Nat \X Nat)
    BY DEF ParserTypes
  <2> QED
    BY <2>1, ParserConstants DEF ParserTypes, Parser!Most
<1>1. frame' = <<>> /\ UNCHANGED <<written, cut_off>>
  BY DEF Parser!CrcMismatch, Parser!Found, Parser!Resync
<1>2. CASE Parser!Found
  <2>1. swallowed' = 0 /\ misled' = FALSE
    BY <1>2 DEF Parser!Found
  <2> QED
    BY <1>1, <2>1 DEF FewGone, Bound
<1>3. CASE Parser!CrcMismatch
  <2>1. PICK b : /\ Parser!Take(b) /\ Len(frame) + 1 = expected
                 /\ ~Parser!IsFrame(Append(frame, b)) /\ Parser!GoesPast(b)
    BY <1>3 DEF Parser!CrcMismatch
  <2>2. frame # <<>>
    BY <2>1, <1>0 DEF ParserTypes
  <2>3. PICK x \in Nat \X Nat : x = frame[1] /\ Place(x)
    <3>1. 1 \in 1..Len(frame)
      BY <2>2, <1>0
    <3> QED
      BY <2>2, <3>1, <1>0, SeqElements DEF FewGone
  <2>4. ~Parser!Whole(x)
    <3> SUFFICES ASSUME Parser!Whole(x) PROVE FALSE
      OBVIOUS
    <3>1. /\ x[1] \in 1..Len(written)
          /\ Append(frame, b) = [i \in 1..(Len(frame) + 1) |-> <<x[1], i>>]
      BY <2>1, <2>2, <2>3, NextInStep
    <3>2. Len(frame) + 1 = Parser!Size(x[1])
      BY <2>1, <2>2, <2>3, <1>0 DEF FewGone, InStep, ParserTypes
    <3>3. Append(frame, b) = Parser!Encoded(x[1])
      BY <3>1, <3>2 DEF Parser!Encoded
    <3> QED
      BY <2>1, <3>1, <3>3 DEF Parser!IsFrame
  <2>5. /\ swallowed' \in Nat /\ misled'
        /\ 3 * swallowed' <= Len(frame) + Lag(b) /\ Lag(b) \in 0..2
    BY <2>1, <2>2, <2>3, <2>4, FalseGrows
  <2>6. Len(frame) <= Preamble + 2
    BY <2>1, <1>0
  <2>7. 3 * swallowed' <= Preamble + 4
    <3>1. \A w, l, g, c \in Int : 3 * w <= l + g /\ g <= 2 /\ l <= c + 2 => 3 * w <= c + 4
      OBVIOUS
    <3>2. /\ swallowed' \in Int /\ Len(frame) \in Int /\ Lag(b) \in Int /\ Preamble \in Int
          /\ Lag(b) <= 2
      BY <2>5, <1>0
    <3> QED
      BY ONLY <3>1, <3>2, <2>5, <2>6
  <2>8. swallowed' <= Parser!Most
    BY <2>5, <2>7, ParserConstants
  <2> QED
    BY <1>0, <1>1, <2>5, <2>8 DEF FewGone, Bound
<1> QED
  BY <1>2, <1>3

LEMMA ParserStep == ParserInv /\ [Parser!Next]_parserVars => ParserInv'
<1> SUFFICES ASSUME ParserInv, [Parser!Next]_parserVars PROVE ParserInv'
  OBVIOUS
<1>1. CASE Parser!Parse
  <2>1. ParserTypes /\ BytesInOrder
    BY DEF ParserInv
  <2>2. ParserTypes' /\ BytesInOrder'
    BY <1>1, <2>1, ParseTypes
  <2>3. FewGone'
    <3>1. FewGone
      BY DEF ParserInv
    <3> QED
      BY <1>1, <2>1, <3>1, HuntGone, GrowGone, CompleteGone DEF Parser!Parse
  <2> QED
    BY <2>2, <2>3 DEF ParserInv
<1>2. CASE Parser!ReceiverWrites
  BY <1>2, WriteKeeps
<1>3. CASE Parser!Tick \/ Parser!Filter \/ UNCHANGED parserVars
  BY <1>3, ElsewhereKeeps
<1> QED
  BY <1>1, <1>2, <1>3 DEF Parser!Next

(* Whatever bytes the payloads and checksums hold and wherever the stream cuts *)
(* a frame, a false frame costs only the whole frames that begin among the     *)
(* bytes taken for it, and a whole frame met while hunting is found: for any    *)
(* payloads, room of the stream, and number of frames.                         *)
THEOREM FewSwallowedCorrect == MCSpec => []FewSwallowed
<1>1. MCInit => ParserInv
  BY ParserStarts DEF MCInit
<1>2. ParserInv /\ [MCNext]_<<part, vars, dutyVars, parserVars>> => ParserInv'
  BY ParserSteps, ParserStep
<1>3. ParserInv => FewSwallowed
  <2> SUFFICES ASSUME ParserInv PROVE FewSwallowed
    OBVIOUS
  <2>0. /\ frame \in Seq(Nat \X Nat) /\ expected \in 0..(Preamble + 3) /\ Preamble \in Nat
        /\ IF Len(frame) > 1 THEN Len(frame) < expected ELSE expected = 0
        /\ swallowed \in Nat /\ Parser!Most \in Nat
    BY ParserConstants DEF ParserInv, ParserTypes
  <2>1. Parser!FewSwallowed
    <3>1. CASE frame = <<>> \/ Parser!Whole(frame[1])
      BY <2>0, <3>1 DEF ParserInv, FewGone, Bound, Parser!FewSwallowed, Parser!AtHand
    <3>2. CASE frame # <<>> /\ ~Parser!Whole(frame[1])
      <4>1. misled /\ 3 * swallowed <= Len(frame) - 1 + Lag(Newest)
        BY <3>2 DEF ParserInv, FewGone
      <4>2. Lag(Newest) \in 0..2
        BY <2>0, <3>2, LagOfNewest DEF ParserInv
      <4>3. swallowed <= Parser!Most
        BY <2>0, <4>1, <4>2, ParserConstants
      <4>4. Parser!AtHand = 0
        BY <3>2 DEF Parser!AtHand
      <4>5. (IF misled THEN Parser!Most ELSE 0) = Parser!Most
        BY <4>1
      <4> QED
        BY <2>0, <4>3, <4>4, <4>5 DEF Parser!FewSwallowed
    <3> QED
      BY <3>1, <3>2
  <2>2. Parser!TypeOK
    <3>1. Len(frame) < Preamble + 3
      BY <2>0
    <3> QED
      BY <3>1 DEF ParserInv, ParserTypes, Parser!TypeOK
  <2> QED
    BY <2>1, <2>2 DEF FewSwallowed
<1> QED
  BY <1>1, <1>2, <1>3, PTL DEF MCSpec

=============================================================================
