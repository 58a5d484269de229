---------------------------- MODULE SlotWorkers -----------------------------
(***************************************************************************)
(* What the NTRIP runtime promises about its slots, whatever order the     *)
(* supervisor, the slot tasks and the control API run in: a slot is served *)
(* by at most one worker; only a worker opens a connection, and one at a   *)
(* time; a connection belongs to one slot; anybody may close connections   *)
(* at any time; a worker leaves no connection behind.                      *)
(***************************************************************************)
EXTENDS Naturals

CONSTANTS Slots, Fds

VARIABLES
  workers,  \* workers[s]: tasks that serve slot s
  conn      \* conn[s]: descriptors open for slot s

vars == <<workers, conn>>

Init ==
  /\ workers = [s \in Slots |-> 0]
  /\ conn = [s \in Slots |-> {}]

Begin(s) ==
  /\ workers[s] = 0
  /\ workers' = [workers EXCEPT ![s] = 1]
  /\ UNCHANGED conn

Connect(s, f) ==
  /\ workers[s] = 1
  /\ conn[s] = {}
  /\ \A t \in Slots : f \notin conn[t]
  /\ conn' = [conn EXCEPT ![s] = {f}]
  /\ UNCHANGED workers

Drop(D) ==
  /\ conn' = [s \in Slots |-> IF s \in D THEN {} ELSE conn[s]]
  /\ UNCHANGED workers

End(s) ==
  /\ workers[s] = 1
  /\ workers' = [workers EXCEPT ![s] = 0]
  /\ conn' = [conn EXCEPT ![s] = {}]

Next ==
  \/ \E s \in Slots : Begin(s) \/ End(s) \/ \E f \in Fds : Connect(s, f)
  \/ \E D \in SUBSET Slots : Drop(D)

Spec == Init /\ [][Next]_vars

=============================================================================
