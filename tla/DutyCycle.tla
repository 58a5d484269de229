----------------------------- MODULE DutyCycle ------------------------------
(***************************************************************************)
(* The airtime budget (duty_cycle.c): a ring of one bucket per second of   *)
(* the window.  The transmit task asks before it sends and records after   *)
(* TX_DONE, seconds later perhaps; a transmission that fails is not        *)
(* recorded.  The policy is one that is enforced.                          *)
(***************************************************************************)
EXTENDS Integers

CONSTANTS
  Window,    \* window_s
  Budget,    \* max_airtime_ms_per_window
  Airtimes,  \* airtimes of packets
  MaxTime    \* bound: seconds since boot

DutyAssumption ==
  /\ Window \in Nat \ {0} /\ Budget \in Nat \ {0}
  /\ Airtimes \subseteq Nat \ {0} /\ MaxTime \in Nat \ {0}

VARIABLES
  now,      \* duty_cycle_now_s
  buckets,  \* the ring: [second, airtime_ms]
  claimed,  \* airtime of the packet being transmitted, 0 if none
  total     \* history: the airtime recorded until the end of each second

vars == <<now, buckets, claimed, total>>

Ring == 0..(Window - 1)
Seconds == 1..MaxTime

TypeOK ==
  /\ now \in Seconds
  /\ buckets \in [Ring -> [second : 0..MaxTime, airtime_ms : Nat]]
  /\ \A i \in Ring : buckets[i].second = 0
                      \/ (buckets[i].second <= now /\ buckets[i].second % Window = i)
  /\ claimed \in Airtimes \cup {0}
  /\ total \in [0..MaxTime -> Nat]

(* app_main takes seconds before it starts the pipeline: second 0, which
   marks an empty bucket, is over. *)
Init ==
  /\ now = 1 /\ claimed = 0
  /\ buckets = [i \in Ring |-> [second |-> 0, airtime_ms |-> 0]]
  /\ total = [s \in 0..MaxTime |-> 0]

Tick == now < MaxTime /\ now' = now + 1 /\ UNCHANGED <<buckets, claimed, total>>

-----------------------------------------------------------------------------
InWindow(b) == b.second > 0 /\ now - b.second < Window

(* The loop of duty_cycle_sum_used_locked; recursion by a function, for the    *)
(* sake of the proofs.                                                       *)
Sum(amounts) ==
  LET upTo[n \in 0..Window] == IF n = 0 THEN 0 ELSE upTo[n - 1] + amounts[n - 1]
  IN upTo[Window]

Amount(b) == IF InWindow(b) THEN b.airtime_ms ELSE 0
Used == Sum([i \in Ring |-> Amount(buckets[i])])

Remaining == IF Used >= Budget THEN 0 ELSE Budget - Used

FitsIfAnyLeft(airtime) == Remaining > 0   \* mutant
Fits(airtime) == airtime <= Remaining

(* duty_cycle_can_send lets the task transmit; where it does not, the packet
   is dropped and nothing changes here. *)
CanSend(airtime) ==
  /\ claimed = 0
  /\ Fits(airtime)
  /\ claimed' = airtime
  /\ UNCHANGED <<now, buckets, total>>

Bucket == buckets[now % Window]
FreshBucket ==
  IF Bucket.second = now THEN Bucket ELSE [second |-> now, airtime_ms |-> 0]

RecordTx ==
  /\ claimed # 0
  /\ buckets' = [buckets EXCEPT ![now % Window] =
                   [FreshBucket EXCEPT !.airtime_ms = @ + claimed]]
  /\ total' = [s \in 0..MaxTime |-> IF s < now THEN total[s] ELSE total[s] + claimed]
  /\ claimed' = 0 /\ UNCHANGED now

SendFails == claimed # 0 /\ claimed' = 0 /\ UNCHANGED <<now, buckets, total>>

Next ==
  \/ Tick \/ RecordTx \/ SendFails
  \/ \E airtime \in Airtimes : CanSend(airtime)

Spec == Init /\ [][Next]_vars

-----------------------------------------------------------------------------
(* What was recorded in the window that ends with a second *)
Before(s) == IF s < Window THEN 0 ELSE s - Window
Spent(s)  == total[s] - total[Before(s)]

(* The ring forgets nothing too early and nothing too late: at every second
   the airtime in use is what was recorded in the last Window seconds.  So no
   Window seconds in a row hold more recorded airtime than the budget, although
   it is checked before a transmission and recorded after it. *)
BudgetKept ==
  /\ Used = Spent(now)
  /\ \A s \in 1..now : Spent(s) <= Budget

=============================================================================
