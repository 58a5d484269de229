----------------------------- MODULE MdnsQuery -------------------------------
(***************************************************************************)
(* The questions an application asks by mDNS                                *)
(* (managed_components/espressif__mdns/mdns.c): the caller allocates a      *)
(* search, hands it to the service task and waits for its semaphore; the    *)
(* timer task has the search sent every second, and ended when its time is  *)
(* over; the parser gives it the records that match, and ends it when it    *)
(* has as many results as it may have.  Whoever ends it, the caller frees   *)
(* it.                                                                      *)
(*                                                                          *)
(* The timer goes through the searches under the service lock, the service  *)
(* task takes an action off the queue before it waits for the lock.  What   *)
(* does not fit into the queue is refused.                                  *)
(*                                                                          *)
(* One service and one interface; AAAA records and searches for ANY are     *)
(* left out, and so are records that name what the device itself offers.    *)
(***************************************************************************)
EXTENDS Integers, Sequences, FiniteSets, SequencesExt

CONSTANTS
  Searches,    \* what is searched: for each type, name, max and timeout
  Packets,     \* answers of other devices, sequences of records
  QueueLen,    \* MDNS_ACTION_QUEUE_LEN
  Interval,    \* the timer's periods in a second
  MaxStarts,   \* bound on searches begun
  MaxPackets   \* bound on packets received

Names == DOMAIN Searches

QueryAssumption ==
  /\ \A q \in Names :
       /\ Searches[q].type \in {"PTR", "SRV", "TXT", "A"}
       /\ Searches[q].max \in Nat /\ Searches[q].timeout \in Nat \ {0}
  /\ {QueueLen, Interval, MaxStarts, MaxPackets} \subseteq Nat

VARIABLES
  search,     \* the search structures, or Freed
  list,       \* search_once, the newest first
  actions,    \* the action queue
  timer,      \* the timer task's place in the list, or 0
  user,       \* what each caller does: "idle" or "waits"
  starts, received

vars == <<search, list, actions, timer, user, starts, received>>

Freed == [state |-> "freed"]

(* _mdns_search_init: age and since count the timer's periods since the      *)
(* search was begun, and since it was last sent; done is the semaphore.      *)
New == [state |-> "init", results |-> <<>>, age |-> 0, since |-> 0, done |-> FALSE]

Allocated == {q \in Names : search[q] # Freed}

(* ------------------------------- results -------------------------------- *)

Result == [inst |-> "", host |-> "", ips |-> {}, txt |-> ""]

HasRoom(q, rs) == Searches[q].max = 0 \/ Len(rs) < Searches[q].max
Full(q, rs) == Searches[q].max > 0 /\ Len(rs) >= Searches[q].max

Add(q, rs, r) == IF HasRoom(q, rs) THEN <<r>> \o rs ELSE rs

(* The first of the results with f(r) is changed to g(r).                    *)
Change(rs, f(_), g(_)) ==
  LET hits == {n \in DOMAIN rs : f(rs[n])}
      first == CHOOSE n \in hits : \A k \in hits : n <= k
  IN IF hits = {} THEN rs ELSE [rs EXCEPT ![first] = g(@)]

TakePtr(q, rs, inst) ==
  IF \E n \in DOMAIN rs : rs[n].inst = inst THEN rs
  ELSE Add(q, rs, [Result EXCEPT !.inst = inst])

(* A search for a service keeps the host it heard first for an instance.     *)
TakeSrv(q, rs, rec) ==
  IF Searches[q].type = "PTR"
  THEN Change(TakePtr(q, rs, rec.name), LAMBDA r : r.inst = rec.name,
              LAMBDA r : [r EXCEPT !.host = IF @ = "" THEN rec.data ELSE @])
  ELSE IF \E n \in DOMAIN rs : rs[n].host = rec.data THEN rs
       ELSE Add(q, rs, [Result EXCEPT !.inst = Searches[q].name, !.host = rec.data])

TakeTxt(q, rs, rec) ==
  LET put(r) == [r EXCEPT !.txt = IF @ = "" THEN rec.data ELSE @]
  IN IF Searches[q].type = "PTR"
     THEN Change(TakePtr(q, rs, rec.name), LAMBDA r : r.inst = rec.name, put)
     ELSE IF rs # <<>> THEN Change(rs, LAMBDA r : TRUE, put)
          ELSE Add(q, rs, put(Result))

(* An address goes to the first result with its host; a search for the host  *)
(* has one result on an interface.                                           *)
TakeIp(q, rs, rec) ==
  LET put(r) == [r EXCEPT !.ips = @ \cup {rec.data}]
  IN IF Searches[q].type # "A" THEN Change(rs, LAMBDA r : r.host = rec.name, put)
     ELSE IF rs # <<>> THEN Change(rs, LAMBDA r : TRUE, put)
          ELSE Add(q, rs, put([Result EXCEPT !.host = rec.name]))

Taken(q, rs, rec) ==
  CASE rec.type = "PTR" -> TakePtr(q, rs, rec.data)
    [] rec.type = "SRV" -> TakeSrv(q, rs, rec)
    [] rec.type = "TXT" -> TakeTxt(q, rs, rec)
    [] rec.type = "A"   -> TakeIp(q, rs, rec)

(* ------------------------- which search it is for ------------------------ *)

Wants(q, rs, rec) ==
  LET s == Searches[q]
  IN CASE rec.type = "A" /\ s.type \in {"PTR", "SRV"} ->
            \E n \in DOMAIN rs : rs[n].host = rec.name
       [] rec.type = "A" /\ s.type \in {"A", "TXT"} -> s.type = "A" /\ s.name = rec.name
       [] rec.type = "PTR" -> s.type = "PTR"
       [] OTHER -> s.type = "PTR" \/ (s.type = rec.type /\ s.name = rec.name)

(* mutant: also those that the timer has ended *)
MCMatchesEnded(b, rec) == {n \in DOMAIN b.list : Wants(b.list[n], b.search[b.list[n]].results, rec)}
Matches(b, rec) ==
  {n \in DOMAIN b.list : /\ b.search[b.list[n]].state # "off"
                         /\ Wants(b.list[n], b.search[b.list[n]].results, rec)}

(* An address goes to all the searches it is for, the rest to the first.     *)
Given(b, rec) ==
  LET hits == Matches(b, rec)
      to == IF rec.type = "A" THEN hits
            ELSE {n \in hits : \A k \in hits : n <= k}
  IN FoldSet(LAMBDA n, c : [c EXCEPT !.search[b.list[n]].results = Taken(b.list[n], @, rec)],
             b, to)

(* -------------------------------- the end ------------------------------- *)

(* _mdns_search_finish; b has the searches and the list. *)
Finish(b, q) ==
  [b EXCEPT !.search[q] = [@ EXCEPT !.state = "off", !.done = TRUE],
            !.list = SelectSeq(@, LAMBDA p : p # q)]

FinishDone(b) ==
  FoldLeft(LAMBDA c, q : IF Full(q, c.search[q].results) THEN Finish(c, q) ELSE c,
           b, b.list)

Parse(b, pkt) == FinishDone(FoldLeft(Given, b, pkt))

Performed(b, a) ==
  CASE a.type = "add" -> [b EXCEPT !.list = <<a.q>> \o @]
    [] a.type = "end" -> Finish(b, a.q)
    [] a.type = "rx" -> Parse(b, a.pkt)
    [] a.type = "send" -> b     \* the question is on the link

(* ------------------------------ the actions ----------------------------- *)

HasPlace == Len(actions) < QueueLen
Post(a) == IF HasPlace THEN actions' = Append(actions, a) ELSE UNCHANGED actions

Init ==
  /\ search = [q \in Names |-> Freed] /\ user = [q \in Names |-> "idle"]
  /\ list = <<>> /\ actions = <<>> /\ timer = 0 /\ starts = 0 /\ received = 0

(* mdns_query, mdns_query_async_new; what finds no place returns at once. *)
Start(q) ==
  /\ user[q] = "idle" /\ starts < MaxStarts /\ HasPlace
  /\ starts' = starts + 1
  /\ search' = [search EXCEPT ![q] = New]
  /\ user' = [user EXCEPT ![q] = "waits"]
  /\ Post([type |-> "add", q |-> q])
  /\ UNCHANGED <<list, timer, received>>

(* The semaphore is taken, the results are read, the search is freed: by     *)
(* mdns_query itself, or by mdns_query_async_delete under the lock.          *)
Return(q) ==
  /\ user[q] = "waits" /\ search[q].done /\ search[q].state = "off"
  /\ user' = [user EXCEPT ![q] = "idle"]
  /\ search' = [search EXCEPT ![q] = Freed]
  /\ UNCHANGED <<list, actions, timer, starts, received>>

Expired(q) == search[q].age > Searches[q].timeout
Due(n) == LET q == list[n] IN
  search[q].state # "off" /\ (Expired(q) \/ search[q].state = "init" \/ search[q].since > Interval)

StateAfterEnd == IF HasPlace THEN "off" ELSE "running"

(* _mdns_search_run, one search at a time *)
TimerStep ==
  LET due == {n \in DOMAIN list : Due(n) /\ n > (IF timer = 0 THEN 0 ELSE timer - 1)}
      n == CHOOSE m \in due : \A k \in due : m <= k
      q == list[n]
  IN /\ due # {}
     /\ timer' = IF \E k \in due : k > n THEN n + 1 ELSE 0
     /\ IF Expired(q)
        THEN /\ search' = [search EXCEPT ![q].state = StateAfterEnd]
             /\ Post([type |-> "end", q |-> q])
        ELSE /\ search' = [search EXCEPT ![q].state = "running",
                                         ![q].since = IF HasPlace THEN 0 ELSE Interval]
             /\ Post([type |-> "send", q |-> q])
     /\ UNCHANGED <<list, user, starts, received>>

Execute ==
  /\ actions # <<>> /\ timer = 0
  /\ LET b == Performed([search |-> search, list |-> list], Head(actions))
     IN search' = b.search /\ list' = b.list
  /\ actions' = Tail(actions)
  /\ UNCHANGED <<timer, user, starts, received>>

Receive ==
  /\ received < MaxPackets /\ received' = received + 1
  /\ \E pkt \in Packets : Post([type |-> "rx", pkt |-> pkt])
  /\ UNCHANGED <<search, list, timer, user, starts>>

(* A period of the timer, 100 ms; neither count goes on where it is over.    *)
Tick ==
  /\ timer = 0
  /\ search' = [q \in Names |->
       IF search[q] = Freed THEN Freed
       ELSE [search[q] EXCEPT
               !.age = IF @ > Searches[q].timeout THEN @ ELSE @ + 1,
               !.since = IF @ > Interval THEN @ ELSE @ + 1]]
  /\ UNCHANGED <<list, actions, timer, user, starts, received>>

Next ==
  \/ \E q \in Names : Start(q) \/ Return(q)
  \/ TimerStep \/ Execute \/ Receive \/ Tick

(* SF_vars(Execute), written out: nothing else shortens the queue.           *)
ServiceRuns ==
  \/ <>[](actions = <<>> \/ timer # 0)
  \/ []<><<Len(actions') < Len(actions)>>_vars

(* The tasks run and time goes on; a task that waits for the lock gets it    *)
(* although the timer takes it again and again.                              *)
Fairness ==
  /\ WF_vars(Tick) /\ WF_vars(TimerStep) /\ ServiceRuns
  /\ \A q \in Names : WF_vars(Return(q))

Spec == Init /\ [][Next]_vars /\ Fairness

(* ------------------------------ properties ------------------------------ *)

TypeOK ==
  /\ \A q \in Allocated :
       /\ search[q].state \in {"init", "running", "off"} /\ search[q].done \in BOOLEAN
       /\ search[q].age \in 0 .. Searches[q].timeout + 1
       /\ search[q].since \in 0 .. Interval + 1
  /\ Len(actions) <= QueueLen /\ timer \in 0 .. Len(list)
  /\ user \in [Names -> {"idle", "waits"}]

(* No list and no action that will touch it names a search its caller has    *)
(* freed, although parser and timer both end searches (4631, 4653, 5369,      *)
(* 6842); an action to send is checked against the list instead (5041).      *)
NothingFreedIsUsed ==
  /\ \A n \in DOMAIN actions :
       actions[n].type \in {"add", "end"} => actions[n].q \in Allocated
  /\ ToSet(list) \subseteq Allocated /\ Cardinality(ToSet(list)) = Len(list)

(* A search ends before its time only with all the results it may have.      *)
EarlyOnlyIfFull ==
  \A q \in Allocated :
    search[q].state = "off" => Expired(q) \/ Full(q, search[q].results)

(* A result joins only what some packet has joined: the host of its instance *)
(* and the addresses of its host; no instance is there twice (4699-4828).    *)
Heard == UNION {ToSet(p) : p \in Packets}
ResultsBelongTogether ==
  \A q \in Allocated : LET rs == search[q].results IN
    /\ Searches[q].max > 0 => Len(rs) <= Searches[q].max
    /\ \A n \in DOMAIN rs :
         /\ rs[n].inst # "" /\ rs[n].host # "" =>
              [type |-> "SRV", name |-> rs[n].inst, data |-> rs[n].host] \in Heard
         /\ \A ip \in rs[n].ips : [type |-> "A", name |-> rs[n].host, data |-> ip] \in Heard
    /\ Searches[q].type = "PTR" =>
         \A n, k \in DOMAIN rs : rs[n].inst = rs[k].inst => n = k

(* Whoever asks gets an end of it, also when the queue was full when the     *)
(* search was to be sent or ended (5382, 5388).                              *)
QueriesReturn == \A q \in Names : []<>(user[q] = "idle")
=============================================================================
