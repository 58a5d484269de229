---------------------------- MODULE MdnsResponder ----------------------------
(***************************************************************************)
(* The mDNS responder (managed_components/espressif__mdns/mdns.c) on the   *)
(* devices of one link: each probes for its names on every interface,      *)
(* announces them, defends them, and gives way by taking the next name     *)
(* ("rtk", "rtk-2", ...) when somebody with a greater address or a greater *)
(* record has the same one.  Two interfaces of a device on the same link   *)
(* hear each other; one of them then stands back (PCB_DUP).                *)
(*                                                                         *)
(* Each device has two tasks: the timer, which posts the packets that are  *)
(* due to the action queue, one by one under the service lock, and the     *)
(* service task, which takes an action off the queue before it waits for   *)
(* the lock.  Received packets and events come over the same queue, which  *)
(* drops what does not fit.                                                *)
(*                                                                         *)
(* A name is its number, 0 where it is not set.  Time is in ticks of about *)
(* 120 ms, within which the link delivers and the tasks handle whatever    *)
(* there is.  IPv6, PTR and TXT records, subtypes and delegated hosts are  *)
(* left out: none takes part in the choice of a name.                      *)
(***************************************************************************)
EXTENDS Integers, Sequences, FiniteSets, SequencesExt

CONSTANTS
  Ifs,        \* for each device its interfaces, of "eth" and "sta"
  Addr,       \* for each device and interface its address
  QueueLen,   \* MDNS_ACTION_QUEUE_LEN
  MaxEvents   \* bound on links that change, calls of the application,
              \* packets that are lost, and packets of others

Devices == DOMAIN Ifs
All == {x \in Devices \X {"eth", "sta"} : x[2] \in Ifs[x[1]]}

ResponderAssumption ==
  /\ \A h \in Devices : Ifs[h] \subseteq {"eth", "sta"}
  /\ \A x \in All : Addr[x[1]][x[2]] \in Nat \ {0}
  /\ \A x, y \in All : Addr[x[1]][x[2]] = Addr[y[1]][y[2]] => x = y
  /\ QueueLen \in Nat \ {0} /\ MaxEvents \in Nat

VARIABLES
  dev,       \* for each device its names, its services and interfaces' states
  actions,   \* for each device the action queue
  timer,     \* for each device the place of the timer task in the queue, or 0
  up,        \* the interfaces with a link and an address
  air,       \* packets on the link, each with the interface it goes to
  events,    \* counter of the bound
  lost,      \* a packet was lost
  overflow   \* a full queue refused an action

vars == <<dev, actions, timer, up, air, events, lost, overflow>>

Order == <<"off", "dup", "probe1", "probe2", "probe3",
           "announce1", "announce2", "announce3", "running">>
Place(s) == CHOOSE n \in DOMAIN Order : Order[n] = s
After(s) == Order[Place(s) + 1]

Probing == {"dup", "probe1", "probe2", "probe3"}
Announcing == {"announce1", "announce2", "announce3"}

Pcb == [state : Range(Order), ready : BOOLEAN, running : BOOLEAN,
        ip : BOOLEAN, svc : BOOLEAN]

Idle == [state |-> "off", ready |-> FALSE, running |-> FALSE, ip |-> FALSE, svc |-> FALSE]

(* ----------------------------- the names ------------------------------- *)

HostName(d) == <<"host", d.name>>

(* The service is called after its instance, or after the host. *)
InstanceName(d) == IF d.inst > 0 THEN <<"inst", d.inst>> ELSE HostName(d)

IsOurs(d, name) ==
  \/ d.name > 0 /\ name = HostName(d)
  \/ d.svc /\ name = InstanceName(d)

Mangled(n) == n + 1

Other(h, i) == Ifs[h] \ {i}

(* ------------------------ the transmission queue ----------------------- *)

(* Sorted by the time of sending, behind what is due at the same time *)
Scheduled(d, packet, ticks) ==
  LET p == [packet EXCEPT !.in = ticks]
      before == Cardinality({n \in DOMAIN d.txq : d.txq[n].in <= ticks})
  IN [d EXCEPT !.txq = InsertAt(@, before + 1, p)]

(* malloc gives the address of a packet that was freed again *)
FreshId(d) ==
  CHOOSE n \in 1 .. Len(d.txq) + 1 : \A k \in DOMAIN d.txq : d.txq[k].id # n

Packet(d, i, kind, svc, ip) ==
  [id |-> FreshId(d), if |-> i, kind |-> kind, svc |-> svc, ip |-> ip, in |-> 0,
   queued |-> FALSE]

(* mutant: forgets what the other interface has to send *)
MCClearedAll(d, i) == [d EXCEPT !.txq = <<>>]
Cleared(d, i) ==
  [d EXCEPT !.txq = SelectSeq(@, LAMBDA p : p.if # i)]

(* -------------------------- what is sent ------------------------------- *)

IsDup(h, d, i) ==
  /\ Other(h, i) # {}
  /\ \E j \in Ifs[h] : d.pcb[j].state = "dup"

Addresses(h, d, i) ==
  <<Addr[h][i]>> \o
  (IF IsDup(h, d, i) THEN SetToSeq({Addr[h][j] : j \in Other(h, i)}) ELSE <<>>)

(* The records name what the device is called when the packet leaves. *)
Wire(h, d, i, auth, asked, svc, ip) ==
  [src |-> Addr[h][i], auth |-> auth, asked |-> asked, any |-> TRUE,
   records |->
     (IF svc THEN <<[type |-> "SRV", name |-> InstanceName(d), data |-> d.name]>> ELSE <<>>)
     \o (IF ip THEN [n \in DOMAIN Addresses(h, d, i) |->
                       [type |-> "A", name |-> HostName(d), data |-> Addresses(h, d, i)[n]]]
         ELSE <<>>)]

Sends(h, d, i, auth, asked, svc, ip) ==
  IF ~svc /\ ~ip /\ asked = {} THEN d
  ELSE [d EXCEPT !.out = @ \cup
          {[to |-> x, pkt |-> Wire(h, d, i, auth, asked, svc, ip)] : x \in All \ {<<h, i>>}}]

Dispatched(h, d, p) ==
  LET asked == IF p.kind # "probe" THEN {}
               ELSE (IF p.svc THEN {InstanceName(d)} ELSE {})
                    \cup (IF p.ip THEN {HostName(d)} ELSE {})
  IN Sends(h, d, p.if, p.kind # "probe", asked, p.svc, p.ip)

(* The goodbye to a service is its PTR, left out; where the instance is     *)
(* called after the host, it carries the addresses too.                     *)
ByeNoInstance(h, d) ==
  IF d.name = 0 \/ ~d.svc \/ d.inst > 0 THEN d
  ELSE FoldSet(LAMBDA i, e : IF e.pcb[i].state = "running"
                             THEN Sends(h, e, i, TRUE, {}, FALSE, TRUE) ELSE e,
               d, {i \in Ifs[h] : d.pcb[i].ready})

(* ------------------------------ probing -------------------------------- *)

(* _mdns_init_pcb_probe and _new_service: what was being probed goes on     *)
(* with what is new.  ticks stands for 120 ms and the random part.          *)
InitProbe(d, i, svc, ip, ticks) ==
  LET c == Cleared(d, i)
      now == c.pcb[i]
      s == svc \/ now.svc
      a == ip \/ now.ip
  IN IF d.name = 0 THEN [c EXCEPT !.pcb[i].state = "running"]
     ELSE Scheduled([c EXCEPT !.pcb[i] = [@ EXCEPT !.state = "probe1", !.running = TRUE,
                                                   !.ip = a, !.svc = s]],
                    Packet(c, i, "probe", s, a), ticks)

Ready(h, d) == {i \in Ifs[h] : d.pcb[i].ready}

ProbeAll(h, d, svc, ip, clear, ticks) ==
  FoldSet(LAMBDA i, e :
            InitProbe(IF clear THEN [e EXCEPT !.pcb[i].svc = FALSE, !.pcb[i].running = FALSE]
                      ELSE e, i, svc, ip, ticks),
          d, Ready(h, d))

RestartAll(h, d, ticks) == ProbeAll(h, [d EXCEPT !.txq = <<>>], d.svc, TRUE, TRUE, ticks)

Announce(d, i, ticks) ==
  LET mine == {n \in DOMAIN d.txq : d.txq[n].if = i}
      first == CHOOSE n \in mine : \A k \in mine : n <= k
      state == d.pcb[i].state
  IN CASE ~d.pcb[i].ready -> d
       [] d.pcb[i].ready /\ state \in Probing -> InitProbe(d, i, FALSE, TRUE, ticks)
       [] d.pcb[i].ready /\ state \in Announcing /\ mine # {} ->
            [d EXCEPT !.txq[first].ip = TRUE, !.pcb[i].state = "announce1"]
       [] d.pcb[i].ready /\ state = "running" /\ d.name > 0 ->
            Scheduled([d EXCEPT !.pcb[i].state = "announce1"],
                      Packet(d, i, "announce", FALSE, TRUE), 0)
       [] OTHER -> d

(* ------------------------- interfaces and dups -------------------------- *)

Deinit(d, i) == [Cleared(d, i) EXCEPT !.pcb[i] = Idle]

Dup(h, d, i, ticks) ==
  FoldSet(LAMBDA o, e :
            IF e.pcb[o].ready
            THEN Announce([Deinit(e, i) EXCEPT !.pcb[i].state = "dup"], o, ticks)
            ELSE e,
          d, Other(h, i))

(* _mdns_pcb_init fails while the interface has no link. *)
Enable(h, d, i, links, ticks) ==
  IF ~d.pcb[i].ready /\ <<h, i>> \notin links THEN d
  ELSE InitProbe([d EXCEPT !.pcb[i].ready = TRUE], i, d.svc, TRUE, ticks)

(* mutant: leaves the other interface standing back *)
MCDisableAlone(h, d, i, links, ticks) ==
  [(IF d.pcb[i].ready THEN Deinit(d, i) ELSE d) EXCEPT !.pcb[i].state = "off"]
Disable(h, d, i, links, ticks) ==
  LET wake(o, e) == IF e.pcb[o].state = "dup"
                    THEN Enable(h, [e EXCEPT !.pcb[o].state = "off"], o, links, ticks)
                    ELSE e
      gone == IF d.pcb[i].ready THEN FoldSet(wake, Deinit(d, i), Other(h, i)) ELSE d
  IN [gone EXCEPT !.pcb[i].state = "off"]

(* --------------------------- reading a packet --------------------------- *)

(* Whose record is greater: 1 they win, -1 we win, 0 the same               *)
Compare(theirs, ours) ==
  CASE theirs > ours -> 1 [] theirs < ours -> -1 [] OTHER -> 0

(* 2: the greater address is that of our other interface, which goes on     *)
(* alone.                                                                   *)
AddressCollision(h, i, theirs) ==
  IF theirs > Addr[h][i] /\ \E o \in Other(h, i) : theirs = Addr[h][o] THEN 2
  ELSE Compare(theirs, Addr[h][i])

(* What a packet does so far: the device, whether an answer is withheld,    *)
(* and whether the rest of the packet is skipped                            *)
Reading(d) == [d |-> d, silent |-> FALSE, stop |-> FALSE]

(* The name gives way to the next one if the interface was probing; if not, *)
(* it starts to probe again.                                                *)
(* mutant: who has finished probing keeps the name *)
MCHostKept(h, d, i, ticks) ==
  IF d.pcb[i].running THEN RestartAll(h, [d EXCEPT !.name = Mangled(@)], ticks) ELSE d
HostLost(h, d, i, ticks) ==
  IF d.pcb[i].running THEN RestartAll(h, [d EXCEPT !.name = Mangled(@)], ticks)
  ELSE InitProbe(d, i, FALSE, TRUE, ticks)

ReadA(h, r, i, rec, ticks) ==
  LET col == AddressCollision(h, i, rec.data)
  IN CASE rec.name # HostName(r.d) \/ r.d.name = 0 -> r
       [] rec.name = HostName(r.d) /\ r.d.name > 0 /\ col = 2 ->
            [r EXCEPT !.d = Dup(h, @, i, ticks), !.stop = TRUE]
       [] rec.name = HostName(r.d) /\ r.d.name > 0 /\ col = 1 ->
            [r EXCEPT !.d = HostLost(h, @, i, ticks), !.silent = TRUE]
       [] OTHER -> r

ReadSrv(h, r, i, rec, ticks) ==
  LET d == r.d
      beaten ==
        IF d.pcb[i].running
        THEN IF d.inst > 0
             THEN ProbeAll(h, [d EXCEPT !.inst = Mangled(@)], TRUE, FALSE, FALSE, ticks)
             ELSE RestartAll(h, [d EXCEPT !.name = Mangled(@)], ticks)
        ELSE InitProbe(d, i, TRUE, FALSE, ticks)
  IN IF d.svc /\ d.name > 0 /\ rec.name = InstanceName(d) /\ Compare(rec.data, d.name) = 1
     THEN [r EXCEPT !.d = beaten, !.silent = TRUE]
     ELSE r

(* An answer names the service if it was asked for; a query that is no      *)
(* probe is answered later, in case others answer too.                      *)
Answer(h, d, i, asked, any, ticks) ==
  IF any THEN Sends(h, d, i, TRUE, {}, \E q \in asked : q = InstanceName(d) /\ d.svc, TRUE)
  ELSE Scheduled(d, Packet(d, i, "answer", FALSE, TRUE), 0)

Parse(h, d, i, pkt, ticks) ==
  LET asked == {q \in pkt.asked : IsOurs(d, q)}
      step(r, rec) == CASE r.stop -> r
                        [] ~r.stop /\ rec.type = "A" -> ReadA(h, r, i, rec, ticks)
                        [] ~r.stop /\ rec.type = "SRV" -> ReadSrv(h, r, i, rec, ticks)
      end == FoldLeft(step, Reading(d), pkt.records)
  IN CASE pkt.src = Addr[h][i] -> d
       [] pkt.src # Addr[h][i] /\ pkt.asked # {} /\ asked = {} -> d
       [] OTHER ->
            IF ~end.silent /\ ~end.stop /\ asked # {}
               /\ Place(end.d.pcb[i].state) > Place("probe3")
            THEN Answer(h, end.d, i, asked, pkt.any, ticks)
            ELSE end.d

(* ----------------------------- the service task ------------------------- *)

(* What a packet does next is decided by the state of the interface.        *)
TxHandle(h, d, p) ==
  LET sent == Dispatched(h, d, p)
      state == d.pcb[p.if].state
      next == [sent EXCEPT !.pcb[p.if].state = After(state)]
      again == [p EXCEPT !.queued = FALSE]
      done == [Idle EXCEPT !.state = "announce1", !.ready = d.pcb[p.if].ready]
  IN CASE state = "off" -> d
       [] state \in {"probe1", "probe2"} -> Scheduled(next, again, 2)
       [] state = "probe3" ->
            LET ended == [sent EXCEPT !.pcb[p.if] = done]
            IN Scheduled(ended, Packet(ended, p.if, "announce", p.svc, p.ip \/ p.svc), 2)
       [] state \in {"announce1", "announce2"} -> Scheduled(next, again, 4)
       [] state = "announce3" -> next
       [] OTHER -> sent

(* Only the head of the queue is sent, and only if it is what was meant. *)
TxAction(h, d, id) ==
  IF d.txq # <<>> /\ Head(d.txq).id = id /\ Head(d.txq).queued
  THEN TxHandle(h, [d EXCEPT !.txq = Tail(@)], Head(d.txq))
  ELSE d

Performed(h, d, a, ticks) ==
  CASE a.type = "tx" -> TxAction(h, d, a.id)
    [] a.type = "rx" -> Parse(h, d, a.if, a.pkt, ticks)
    [] a.type = "enable" -> Enable(h, d, a.if, up, ticks)
    [] a.type = "disable" -> Disable(h, d, a.if, up, ticks)
    [] a.type = "hostname" ->
         RestartAll(h, [ByeNoInstance(h, d) EXCEPT !.name = a.name], ticks)

(* ----------------------- calls of the application ----------------------- *)

(* What is scheduled loses the service; a probe or an announcement of it    *)
(* alone is over.                                                           *)
ServiceRemoved(h, d) ==
  LET after(i) ==
        LET pcb == d.pcb[i]
            mine == {n \in DOMAIN d.txq : d.txq[n].if = i}
            empty == \E n \in mine : d.txq[n].svc /\ ~d.txq[n].ip
        IN CASE ~pcb.ready \/ mine = {} -> pcb
             [] pcb.ready /\ mine # {} /\ pcb.state \in Probing /\ pcb.svc ->
                  [pcb EXCEPT !.svc = FALSE, !.running = @ /\ pcb.ip,
                              !.state = IF pcb.ip THEN @ ELSE "running"]
             [] pcb.ready /\ pcb.state \in Announcing /\ empty ->
                  [pcb EXCEPT !.state = "running"]
             [] OTHER -> pcb
  IN [d EXCEPT !.svc = FALSE, !.inst = 0,
               !.txq = SelectSeq([n \in DOMAIN @ |-> [@[n] EXCEPT !.svc = FALSE]],
                                 LAMBDA p : p.ip),
               !.pcb = [i \in Ifs[h] |-> after(i)]]

ServiceAdded(h, d, ticks) == ProbeAll(h, [d EXCEPT !.svc = TRUE], TRUE, FALSE, FALSE, ticks)

InstanceSet(h, d, n, ticks) ==
  ProbeAll(h, [d EXCEPT !.inst = n], TRUE, FALSE, FALSE, ticks)

(* ------------------------------ the actions ----------------------------- *)

Event == events < MaxEvents /\ events' = events + 1

(* xQueueSend without waiting *)
Post(h, a) ==
  IF Len(actions[h]) < QueueLen
  THEN actions' = [actions EXCEPT ![h] = Append(@, a)] /\ UNCHANGED overflow
  ELSE overflow' = TRUE /\ UNCHANGED actions

Init ==
  /\ up \in SUBSET All
  /\ \E inst \in {0, 1}, name \in [Devices -> {1, 2}], svc \in BOOLEAN :
       dev = [h \in Devices |->
                [name |-> name[h], inst |-> inst, svc |-> svc, txq |-> <<>>, out |-> {},
                 pcb |-> [i \in Ifs[h] |-> Idle]]]
  /\ actions = [h \in Devices |->
                  SetToSeq({[type |-> "enable", if |-> x[2]] : x \in {y \in up : y[1] = h}})]
  /\ timer = [h \in Devices |-> 0]
  /\ air = {} /\ events = 0 /\ lost = FALSE /\ overflow = FALSE

(* The timer task holds the lock from here until its place is 0 again. *)
Due(h) == {n \in DOMAIN dev[h].txq :
             /\ ~dev[h].txq[n].queued /\ dev[h].txq[n].in = 0
             /\ \A k \in 1 .. n - 1 : dev[h].txq[k].queued}

TimerPost(h) ==
  \E n \in IF timer[h] = 0 THEN Due(h) ELSE {timer[h]} :
    LET q == dev[h].txq
        more == n < Len(q) /\ q[n + 1].in = 0
    IN /\ Post(h, [type |-> "tx", id |-> q[n].id])
       /\ dev' = [dev EXCEPT ![h].txq[n].queued = Len(actions[h]) < QueueLen]
       /\ timer' = [timer EXCEPT ![h] = IF more THEN n + 1 ELSE 0]
       /\ UNCHANGED <<up, air, events, lost>>

(* What a device sends is on the link when it is done. *)
Leaves(h, d) ==
  /\ dev' = [dev EXCEPT ![h] = [d EXCEPT !.out = {}]]
  /\ air' = air \cup {m \in d.out : m.to \in up}

(* What is taken counts as queued until the lock is free. *)
Execute(h) ==
  /\ actions[h] # <<>> /\ timer[h] = 0
  /\ actions' = [actions EXCEPT ![h] = Tail(@)]
  /\ \E d \in {Performed(h, dev[h], Head(actions[h]), ticks) : ticks \in {1, 2}} :
       Leaves(h, d)
  /\ UNCHANGED <<timer, up, events, lost, overflow>>

(* Every interface that takes part gets the packet, in any order. *)
Deliver(m) ==
  LET h == m.to[1]
  IN /\ air' = air \ {m}
     /\ IF dev[h].pcb[m.to[2]].ready
        THEN Post(h, [type |-> "rx", if |-> m.to[2], pkt |-> m.pkt])
        ELSE UNCHANGED <<actions, overflow>>
     /\ UNCHANGED <<dev, timer, up, events, lost>>

Lose(m) ==
  /\ Event /\ lost' = TRUE /\ air' = air \ {m}
  /\ UNCHANGED <<dev, actions, timer, up, overflow>>

LinkChanges(h, i) ==
  /\ Event
  /\ up' = (up \ {<<h, i>>}) \cup ({<<h, i>>} \ up)
  /\ Post(h, [type |-> IF <<h, i>> \in up THEN "disable" ELSE "enable", if |-> i])
  /\ UNCHANGED <<dev, timer, air, lost>>

SetHostname(h) ==
  /\ Event
  /\ Post(h, [type |-> "hostname", name |-> 1])
  /\ UNCHANGED <<dev, timer, up, air, lost>>

(* Under the service lock, by the task that calls *)
Call(h, d) ==
  /\ Event /\ timer[h] = 0
  /\ Leaves(h, d)
  /\ UNCHANGED <<actions, timer, up, lost, overflow>>

AddService(h) == ~dev[h].svc /\ \E t \in {1, 2} : Call(h, ServiceAdded(h, dev[h], t))
RemoveService(h) == dev[h].svc /\ Call(h, ServiceRemoved(h, dev[h]))
SetInstance(h) == dev[h].svc /\ \E t \in {1, 2} : Call(h, InstanceSet(h, dev[h], 1, t))

(* Somebody asks for the address of the host, or sends what concerns nobody. *)
Query(h, i) ==
  /\ Event /\ dev[h].pcb[i].ready
  /\ \E asked \in {{}, {HostName(dev[h])}} :
       Post(h, [type |-> "rx", if |-> i,
                pkt |-> [src |-> 0, auth |-> FALSE, asked |-> asked, any |-> FALSE,
                         records |-> <<>>]])
  /\ UNCHANGED <<dev, timer, up, air, lost>>

Quiet ==
  /\ air = {}
  /\ \A h \in Devices : actions[h] = <<>> /\ timer[h] = 0 /\ Due(h) = {}

(* 120 ms pass, for which everything has waited. *)
Tick ==
  /\ Quiet
  /\ \E h \in Devices : \E n \in DOMAIN dev[h].txq : dev[h].txq[n].in > 0
  /\ dev' = [h \in Devices |->
               [dev[h] EXCEPT !.txq = [n \in DOMAIN @ |-> [@[n] EXCEPT !.in = IF @ > 0 THEN @ - 1 ELSE 0]]]]
  /\ UNCHANGED <<actions, timer, up, air, events, lost, overflow>>

Link == \E m \in air : Deliver(m) \/ Lose(m)
Outside(h) ==
  \/ \E i \in Ifs[h] : LinkChanges(h, i) \/ Query(h, i)
  \/ SetHostname(h) \/ AddService(h) \/ RemoveService(h) \/ SetInstance(h)

Next ==
  \/ \E h \in Devices : TimerPost(h) \/ Execute(h) \/ Outside(h)
  \/ Link \/ Tick

Progress == Tick \/ Link \/ \E h \in Devices : TimerPost(h) \/ Execute(h)

AtRest == Quiet /\ \A h \in Devices : \A n \in DOMAIN dev[h].txq : dev[h].txq[n].in = 0

(* WF_vars(Progress), written out: Progress is enabled unless AtRest, and is *)
(* what every step is that counts no event.  It is weaker than fairness of    *)
(* each task: none waits for ever on the work of another, as the work of      *)
(* 120 ms is finite.                                                          *)
Fairness == []<>AtRest \/ []<><<events' = events>>_vars

Spec == Init /\ [][Next]_vars /\ Fairness

(* ------------------------------ properties ------------------------------ *)

TypeOK ==
  /\ \A h \in Devices :
       /\ dev[h].name \in Nat /\ dev[h].inst \in Nat /\ dev[h].svc \in BOOLEAN
       /\ dev[h].pcb \in [Ifs[h] -> Pcb] /\ dev[h].out = {}
       /\ timer[h] \in 0 .. Len(dev[h].txq) /\ Len(actions[h]) <= QueueLen
  /\ up \subseteq All

(* An interface that takes part and probes or announces has a packet that   *)
(* will take it further (2254-2301, 5086-5141, 2773-2852): whatever clears   *)
(* the queue starts again or ends the matter.                                *)
NeverLeftProbing ==
  \A h \in Devices : \A i \in Ifs[h] :
    dev[h].pcb[i].ready /\ dev[h].pcb[i].state \in Probing \cup Announcing =>
      \E n \in DOMAIN dev[h].txq : dev[h].txq[n].if = i

Claims(h) == \E i \in Ifs[h] : dev[h].pcb[i].ready /\ dev[h].pcb[i].state = "running"

(* Two devices that have announced themselves do not bear one name, neither  *)
(* for the host nor for the service (4226-4285, 3991-4098), as long as no    *)
(* packet was lost and no queue refused one.  Two changes within one round   *)
(* of probes can make them share the service's name: who probes again for    *)
(* its host alone (4268) drops the announcement of its service (2314) and    *)
(* does not defend it meanwhile (4284).                                      *)
NamesUnique ==
  ~lost /\ ~overflow /\ Quiet =>
    \A g, h \in Devices : g # h /\ Claims(g) /\ Claims(h) =>
      /\ dev[g].name # dev[h].name
      /\ events < 2 /\ dev[g].svc /\ dev[h].svc => InstanceName(dev[g]) # InstanceName(dev[h])

(* Once links and calls have come to rest, every interface that takes part   *)
(* bears its name, none waits behind another one that does not, and nothing  *)
(* is left to send (5332-5364, 5086-5141).                                   *)
Settled ==
  /\ \A x \in up :
       LET pcb == dev[x[1]].pcb
       IN \/ pcb[x[2]].state = "running"
          \/ ~pcb[x[2]].ready /\ \E o \in Other(x[1], x[2]) : pcb[o].state = "running"
  /\ \A h \in Devices : dev[h].txq = <<>>

NamesSettle == <>[](~overflow => Settled)
=============================================================================
