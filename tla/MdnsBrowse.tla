----------------------------- MODULE MdnsBrowse ------------------------------
(***************************************************************************)
(* Browsing for services by mDNS (managed_components/espressif__mdns/      *)
(* mdns.c): the application names a service, the parser gathers what is    *)
(* heard of its instances, and what changed with a packet comes back to    *)
(* the service task as an action, which tells the application.             *)
(*                                                                         *)
(* The service task alone touches the list of browses; the application     *)
(* only posts, and what does not fit into the queue is refused.  One       *)
(* interface; AAAA records are left out.                                   *)
(***************************************************************************)
EXTENDS Integers, Sequences, FiniteSets, SequencesExt

CONSTANTS
  Packets,    \* what other devices send: sequences of records
  Services,
  QueueLen,   \* MDNS_ACTION_QUEUE_LEN
  MaxCalls    \* bound on calls of the application and packets received

VARIABLES
  browses,    \* the list, the newest first: each its service and its results
  actions,    \* the action queue
  syncs,      \* every mdns_browse_sync_t so far: what changed, and how often
              \* it was freed
  stuck,      \* the service task waits for the lock it has
  calls

vars == <<browses, actions, syncs, stuck, calls>>

(* ------------------------------- results -------------------------------- *)

Result == [inst |-> "", host |-> "", ips |-> {}, txt |-> "", ttl |-> 0]

(* A time to live of nothing was never set; others only get less.            *)
Ttl(old, ttl) == IF old = 0 \/ ttl < old THEN ttl ELSE old

At(rs, inst) == CHOOSE n \in 0 .. Len(rs) :
  IF \E k \in DOMAIN rs : rs[k].inst = inst
  THEN n > 0 /\ rs[n].inst = inst /\ \A k \in 1 .. n - 1 : rs[k].inst # inst
  ELSE n = 0

(* Another result with the same host lends its addresses.                    *)
Lent(rs, host) ==
  LET from == {n \in DOMAIN rs : rs[n].host = host /\ rs[n].ips # {}}
  IN IF from = {} THEN {} ELSE rs[CHOOSE n \in from : \A k \in from : n <= k].ips

(* Each gives the results and the instances that changed.                    *)
New(rs, r) == [rs |-> <<r>> \o rs, changed |-> {r.inst}]
Updated(rs, n, r, told) ==
  [rs |-> [rs EXCEPT ![n] = r], changed |-> IF told THEN {r.inst} ELSE {}]

AddSrv(rs, rec) ==
  LET n == At(rs, rec.name)
      r == rs[n]
      moved == r.host # rec.data
      r2 == [r EXCEPT !.host = rec.data, !.ttl = Ttl(@, rec.ttl),
                      !.ips = IF moved /\ @ = {} THEN Lent(rs, rec.data) ELSE @]
  IN IF n = 0 THEN New(rs, [Result EXCEPT !.inst = rec.name, !.host = rec.data, !.ttl = rec.ttl])
     ELSE Updated(rs, n, r2, moved \/ r2.ttl # r.ttl)

(* The first text of a result is no change.                                  *)
AddTxt(rs, rec) ==
  LET n == At(rs, rec.name)
      r == rs[n]
      r2 == [r EXCEPT !.txt = rec.data, !.ttl = Ttl(@, rec.ttl)]
  IN IF n = 0 THEN New(rs, [Result EXCEPT !.inst = rec.name, !.txt = rec.data, !.ttl = rec.ttl])
     ELSE Updated(rs, n, r2, (r.txt # "" /\ r.txt # rec.data) \/ r2.ttl # r.ttl)

AddIp(rs, rec) ==
  LET lacking == {n \in DOMAIN rs : rs[n].host = rec.name /\ rec.data \notin rs[n].ips}
      n == CHOOSE n \in lacking : \A k \in lacking : n <= k
  IN IF lacking = {} THEN [rs |-> rs, changed |-> {}]
     ELSE Updated(rs, n, [rs[n] EXCEPT !.ips = @ \cup {rec.data}, !.ttl = Ttl(@, rec.ttl)], TRUE)

(* ------------------------------ the parser ------------------------------ *)

(* The first browse that the record is for, or 0                             *)
Found(bs, rec) ==
  LET hits == {n \in DOMAIN bs :
                 IF rec.type = "A" THEN \E k \in DOMAIN bs[n].results :
                                          bs[n].results[k].host = rec.name
                 ELSE bs[n].service = rec.service}
  IN IF hits = {} THEN 0 ELSE CHOOSE n \in hits : \A k \in hits : n <= k

(* The sync of a packet is for the first browse the packet is for; records   *)
(* for others are passed over.                                               *)
Step(p, rec) ==
  LET n == Found(p.browses, rec)
      sync == IF p.sync = 0 THEN n ELSE p.sync
      rs == p.browses[n].results
      added == CASE rec.type = "SRV" -> AddSrv(rs, rec)
                 [] rec.type = "TXT" -> AddTxt(rs, rec)
                 [] rec.type = "A"   -> AddIp(rs, rec)
  IN IF n = 0 \/ n # sync THEN p
     ELSE [browses |-> [p.browses EXCEPT ![n].results = added.rs],
           sync |-> sync, changed |-> p.changed \cup added.changed]

Parsed(pkt) == FoldLeft(Step, [browses |-> browses, sync |-> 0, changed |-> {}], pkt)

HasPlace(queue) == Len(queue) < QueueLen

(* What changed is posted, or freed if there is nothing, and freed at the    *)
(* end of mdns_parse_packet.                                                 *)
Receives(pkt) ==
  LET p == Parsed(pkt)
      frees == IF p.changed = {} THEN 2 ELSE 1
      rest == Tail(actions)
  IN /\ browses' = p.browses
     /\ syncs' = IF p.sync = 0 THEN syncs
                 ELSE Append(syncs, [service |-> p.browses[p.sync].service,
                                     changed |-> p.changed, frees |-> frees])
     /\ actions' = IF p.sync # 0 /\ p.changed # {} /\ HasPlace(rest)
                   THEN Append(rest, [type |-> "sync", id |-> Len(syncs) + 1])
                   ELSE rest
     /\ UNCHANGED stuck

(* --------------------------- the service task --------------------------- *)

(* A browse that is there already is only asked for again.                   *)
Adds(service) ==
  /\ browses' = IF \E n \in DOMAIN browses : browses[n].service = service THEN browses
                ELSE <<[service |-> service, results |-> <<>>]>> \o browses
  /\ actions' = Tail(actions) /\ UNCHANGED <<syncs, stuck>>

Ends(service) ==
  /\ browses' = SelectSeq(browses, LAMBDA b : b.service # service)
  /\ actions' = Tail(actions) /\ UNCHANGED <<syncs, stuck>>

(* The application is told; a result that is gone is freed by                *)
(* mdns_query_results_free, which takes the lock the task holds.             *)
Syncs(id) ==
  LET gone == {n \in DOMAIN browses : browses[n].service = syncs[id].service
                 /\ \E k \in DOMAIN browses[n].results :
                      LET r == browses[n].results[k]
                      IN r.inst \in syncs[id].changed /\ r.ttl = 0}
  IN /\ stuck' = (gone # {})
     /\ syncs' = [syncs EXCEPT ![id].frees = IF gone = {} THEN @ + 1 ELSE @]
     /\ actions' = Tail(actions) /\ UNCHANGED browses

Execute ==
  /\ actions # <<>> /\ ~stuck
  /\ LET a == Head(actions)
     IN \/ a.type = "rx" /\ Receives(a.pkt)
        \/ a.type = "add" /\ Adds(a.service)
        \/ a.type = "end" /\ Ends(a.service)
        \/ a.type = "sync" /\ Syncs(a.id)
  /\ UNCHANGED calls

(* ---------------------- the application, the link ----------------------- *)

Post(a) ==
  /\ calls < MaxCalls /\ calls' = calls + 1
  /\ HasPlace(actions) /\ actions' = Append(actions, a)
  /\ UNCHANGED <<browses, syncs, stuck>>

BrowseNew(service) == Post([type |-> "add", service |-> service])
BrowseDelete(service) == Post([type |-> "end", service |-> service])
Receive(pkt) == Post([type |-> "rx", pkt |-> pkt])

Init ==
  /\ browses = <<>> /\ actions = <<>> /\ syncs = <<>> /\ stuck = FALSE /\ calls = 0

(* "will be freed in function _mdns_browse_sync" (3891): once, by the task   *)
(* that is told of it.  The code frees it at the end of the parser as well.  *)
SyncFreedOnce == \A id \in DOMAIN syncs : syncs[id].frees <= 1

(* What the device does after that is not defined; the model stops.          *)
Next ==
  /\ SyncFreedOnce
  /\ \/ Execute
     \/ \E service \in Services : BrowseNew(service) \/ BrowseDelete(service)
     \/ \E pkt \in Packets : Receive(pkt)

Spec == Init /\ [][Next]_vars
=============================================================================
