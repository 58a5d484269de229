---------------------------- MODULE SocketClient ----------------------------
(***************************************************************************)
(* The socket client (main/interface/socket_client.c) with the delays of   *)
(* main/retry.c and the socket functions of main/util.c.  Its task         *)
(* connects, sends a message and reads until an error; the event task      *)
(* writes the UART's data to the same variable sock, and closes it when a  *)
(* write fails, whatever the task is doing with it.  destroy_socket looks  *)
(* at that variable, shuts down, closes and clears it in four steps, in    *)
(* either task.                                                            *)
(*                                                                         *)
(* Abstractions: a connection is its number, which does not come back as   *)
(* another's; of what is written only what comes first; the UART always    *)
(* has data.                                                               *)
(***************************************************************************)
EXTENDS Integers, Sequences

CONSTANTS
  MaxConns,     \* bound on connections made
  MaxAttempts   \* bound on attempts in a row

ClientAssumption == {MaxConns, MaxAttempts} \subseteq Nat

VARIABLES
  place,     \* where socket_client_task is
  attempts,  \* retry_delay.attempts
  waited,    \* the last delay
  sock,      \* CONNECT_SOCKET_ERROR_CONNECT (-1, which also stands for no
             \* socket), _RESOLVE (-2), _OPTS (-3), or a connection
  conns,     \* connections so far
  open,      \* those the device has not closed
  peer,      \* each is "up", at its end ("eof": the peer closed), or dead
             \* ("rst": reset, or shut down by the device)
  first,     \* what went out first on each: "none", "message", "data"
  frees,     \* how often connect_message was freed since it was allocated
  handler,   \* the event task in socket_client_uart_handler
  late       \* history: connections stored in sock while the event task had
             \* closed another and not yet cleared sock

network == <<sock, conns, open, peer, first>>
vars == <<place, attempts, waited, network, frees, handler, late>>

Init ==
  /\ place = "delay" /\ attempts = 0 /\ waited = 0
  /\ sock = -1 /\ conns = 0 /\ open = {} /\ peer = <<>> /\ first = <<>>
  /\ frees = 0 /\ handler = "idle" /\ late = {}
-----------------------------------------------------------------------------
(* retry.c, with the arguments of the task's retry_init *)

delays == <<1000, 2000, 5000, 10000, 15000, 30000, 45000, 60000, 90000, 120000,
            300000, 600000, 900000, 1800000, 2700000, 3600000>>
ShortCount == 5
ShortDelay == 2000

(* delays_offset: how many of the delays are shorter than ShortDelay *)
Offset == CHOOSE k \in 0..Len(delays) :
            /\ \A i \in 1..k : delays[i] < ShortDelay
            /\ k < Len(delays) => delays[k + 1] >= ShortDelay

Delay(n) ==
  IF n = 0 THEN 0
  ELSE IF n < ShortCount THEN ShortDelay
  ELSE IF n - ShortCount + Offset < Len(delays) THEN delays[n - ShortCount + Offset + 1]
  ELSE delays[Len(delays)]
-----------------------------------------------------------------------------
(* socket_client_task *)

Goto(from, to) == place = from /\ place' = to

RetryDelay ==
  /\ Goto("delay", "connect")
  /\ attempts < MaxAttempts
  /\ waited' = Delay(attempts) /\ attempts' = attempts + 1
  /\ frees' = 0
  /\ UNCHANGED <<network, handler, late>>

Connect ==
  /\ Goto("connect", "message")
  /\ conns < MaxConns /\ conns' = conns + 1
  /\ sock' = conns' /\ open' = open \union {conns'}
  /\ peer' = Append(peer, "up") /\ first' = Append(first, "none")
  /\ late' = IF handler = "clear" THEN late \union {conns'} ELSE late
  /\ UNCHANGED <<attempts, waited, frees, handler>>

(* Only two of the three errors of connect_socket are looked for: after the   *)
(* third the message is written to a descriptor that is none.                *)
ConnectFails ==
  /\ \/ Goto("connect", "error") /\ sock' \in {-1, -2}
     \/ Goto("connect", "message") /\ sock' = -3
  /\ UNCHANGED <<attempts, waited, conns, open, peer, first, frees, handler, late>>

Works(s)    == s \in open /\ peer[s] # "rst"
Write(what) ==
  first' = [first EXCEPT ![sock] = IF @ = "none" THEN what ELSE @]

(* The message is freed, sent or not; success resets the delays. *)
SendMessage ==
  /\ frees' = frees + 1
  /\ \/ Works(sock) /\ Goto("message", "read") /\ Write("message") /\ attempts' = 0
     \/ ~Works(sock) /\ Goto("message", "error") /\ UNCHANGED <<first, attempts>>
  /\ UNCHANGED <<waited, sock, conns, open, peer, handler, late>>

(* read fails on a closed or reset socket, and after two seconds without     *)
(* data; at the end of the stream it returns 0, which goes on reading.       *)
ReadFails ==
  /\ Works(sock) => peer[sock] = "up"
  /\ Goto("read", "error")
  /\ UNCHANGED <<attempts, waited, network, frees, handler, late>>

(* destroy_socket after its look at sock, which it reads again each time *)
ShutDown == peer' = IF sock \in open THEN [peer EXCEPT ![sock] = "rst"] ELSE peer
CloseNothing == UNCHANGED open   \* mutant: destroy_socket without its close
Close    == open' = open \ {sock}

(* The label _error: the socket is destroyed, the message freed. *)
TaskDestroys ==
  /\ sock >= 0 /\ Goto("error", "shutdown")
  /\ UNCHANGED <<attempts, waited, network, frees, handler, late>>

TaskShutsDown ==
  /\ Goto("shutdown", "close") /\ ShutDown
  /\ UNCHANGED <<attempts, waited, sock, conns, open, first, frees, handler, late>>

TaskCloses ==
  /\ Goto("close", "clear") /\ Close
  /\ UNCHANGED <<attempts, waited, sock, conns, peer, first, frees, handler, late>>

TaskEnds ==
  /\ \/ sock < 0 /\ Goto("error", "delay") /\ UNCHANGED sock
     \/ Goto("clear", "delay") /\ sock' = -1
  /\ frees' = frees + 1
  /\ UNCHANGED <<attempts, waited, conns, open, peer, first, handler, late>>

OnError == TaskDestroys \/ TaskShutsDown \/ TaskCloses \/ TaskEnds

(* What is freed twice may stop the device: it starts again. *)
Abort ==
  /\ frees > 1
  /\ place' = "delay" /\ attempts' = 0 /\ waited' = 0 /\ frees' = 0
  /\ sock' = -1 /\ open' = {} /\ handler' = "idle" /\ late' = {}
  /\ UNCHANGED <<conns, peer, first>>
-----------------------------------------------------------------------------
(* socket_client_uart_handler, in the event task *)

SockSet == sock # -1

HandlerChecks ==
  /\ handler = "idle" /\ SockSet
  /\ handler' = "write"
  /\ UNCHANGED <<place, attempts, waited, network, frees, late>>

(* The first write after the peer closed is answered by a reset. *)
HandlerWrites ==
  /\ handler = "write"
  /\ IF Works(sock)
       THEN /\ handler' = "idle" /\ Write("data")
            /\ peer' = [peer EXCEPT ![sock] = IF @ = "eof" THEN "rst" ELSE @]
       ELSE handler' = "destroy" /\ UNCHANGED <<first, peer>>
  /\ UNCHANGED <<place, attempts, waited, sock, conns, open, frees, late>>

HandlerDestroys ==
  /\ handler = "destroy"
  /\ handler' = IF sock < 0 THEN "idle" ELSE "shutdown"
  /\ UNCHANGED <<place, attempts, waited, network, frees, late>>

HandlerShutsDown ==
  /\ handler = "shutdown" /\ handler' = "close"
  /\ ShutDown
  /\ UNCHANGED <<place, attempts, waited, sock, conns, open, first, frees, late>>

HandlerCloses ==
  /\ handler = "close" /\ handler' = "clear"
  /\ Close
  /\ UNCHANGED <<place, attempts, waited, sock, conns, peer, first, frees, late>>

HandlerClears ==
  /\ handler = "clear" /\ handler' = "idle"
  /\ sock' = -1
  /\ UNCHANGED <<place, attempts, waited, conns, open, peer, first, frees, late>>
-----------------------------------------------------------------------------
PeerCloses ==
  /\ \E c \in open, how \in {"eof", "rst"} :
       peer[c] = "up" /\ peer' = [peer EXCEPT ![c] = how]
  /\ UNCHANGED <<place, attempts, waited, sock, conns, open, first, frees, handler, late>>

Task    == RetryDelay \/ Connect \/ ConnectFails \/ SendMessage \/ OnError
           \/ (~Works(sock) /\ ReadFails)
Handler == HandlerChecks \/ HandlerWrites \/ HandlerDestroys \/ HandlerShutsDown
           \/ HandlerCloses \/ HandlerClears

Next == Task \/ ReadFails \/ Abort \/ Handler \/ PeerCloses

Spec == Init /\ [][Next]_vars

(* The task and the event task run; the UART has data again and again.       *)
Fairness == WF_vars(Task) /\ WF_vars(Handler)

FairSpec == Spec /\ Fairness
-----------------------------------------------------------------------------
TypeOK ==
  /\ place \in {"delay", "connect", "message", "read", "error", "shutdown", "close",
               "clear"}
  /\ attempts \in 0..MaxAttempts /\ waited \in Nat /\ frees \in 0..2
  /\ sock \in -3..MaxConns /\ conns \in 0..MaxConns /\ open \subseteq 1..conns
  /\ Len(peer) = conns /\ Len(first) = conns
  /\ handler \in {"idle", "write", "destroy", "shutdown", "close", "clear"}

(* Whoever closed the last connection, and whenever, before the next attempt *)
(* none is left open, but for one overlap: a connection made while the event  *)
(* task had closed the one before and not cleared sock yet.  That clearing    *)
(* overwrites the new connection's number, and nobody closes it.  No other    *)
(* way to lose a socket exists.                                              *)
NoSocketLeft == place \in {"delay", "connect"} => open \subseteq late

(* As long as no attempt succeeds the waits do not get shorter, and none but *)
(* the first is shorter than ShortDelay.                                     *)
Patient ==
  [][RetryDelay /\ attempts > 0 => waited' >= waited /\ waited' >= ShortDelay]_vars

(* A connection the peer closed does not keep the client: read sees only the *)
(* end of the stream, but the UART's next data finds the connection dead.    *)
DeadConnectionIsLeft ==
  []<>~(place = "read" /\ sock > 0 /\ peer[sock] # "up")

=============================================================================
