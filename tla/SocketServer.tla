---------------------------- MODULE SocketServer ----------------------------
(***************************************************************************)
(* The serial port and the socket server on it (main/uart.c,               *)
(* main/interface/socket_server.c).  uart_task posts what it reads to the  *)
(* default event loop; the event task writes it to every client of a list; *)
(* the server's task accepts clients, writes what they send to the UART    *)
(* (which posts an event too) and removes those that fail.  Both tasks      *)
(* change the list, with no lock.                                          *)
(*                                                                         *)
(* Abstractions: the UART's bytes come in numbered chunks; of what clients  *)
(* send only the event it costs; walks of the list that neither write nor  *)
(* remove are one step.  The pointers of the list are modelled as they     *)
(* are, every write to them a step.  Where a task holds, or would reach, a  *)
(* client that was freed (Raced), memory is used that is not its own: from  *)
(* there on the model claims and does nothing.                             *)
(***************************************************************************)
EXTENDS Naturals, Sequences

CONSTANTS
  Tcp, Udp,    \* peers that connect, peers that send datagrams
  DriverRoom,  \* chunks the UART driver buffers
  QueueRoom,   \* events the loop's queue holds
  MaxChunks,   \* bound on chunks from the UART
  MaxConns,    \* bound on clients ever added
  MaxData      \* bound on what peers send, closes and refusals

ServerAssumption ==
  /\ Tcp \intersect Udp = {}
  /\ {DriverRoom, QueueRoom} \subseteq Nat \ {0}
  /\ {MaxChunks, MaxConns, MaxData} \subseteq Nat

VARIABLES
  driver, arrived,  \* the driver's buffer; number of chunks accepted so far
  reading,          \* chunk uart_task holds, 0 if none
  queue,            \* events of the loop: a chunk's number, 0 for a WRITE
  handling,         \* chunk the event task writes to clients, 0 if none
  cur, nxt,         \* per task: client and client_tmp of its walk, 0 for NULL
  out,              \* per task: how far it is in removing client
  head, next,       \* socket_client_list: its first; per client the one behind
  freed,            \* clients whose memory was freed
  who,              \* peer of every client so far, by number
  line,             \* state of each connection as the peer left it, "gone"
                    \* when the socket was closed
  got, since,       \* chunks each client was sent; the first that came to the
                    \* event task after it was in the list
  taken, late,      \* history: chunks the event task took; clients that came
                    \* into the list while the event task was removing one
  place, svPost,    \* the server's task; events it has to post first
  adding,           \* client it has allocated and not yet put in the list
  ready, listeners, \* what select found: clients, listeners
  watched,          \* sockets select waits on
  knocks, inbox,    \* connects and datagrams at the listeners; clients with
                    \* data to be received
  data              \* how often peers sent, closed or were refused

uart   == <<driver, arrived, reading>>
walks  == <<cur, nxt, out>>
chain  == <<head, next, freed>>
conns  == <<who, line, got, since, late>>
found  == <<ready, listeners, watched>>
server == <<place, svPost, adding, found>>
peers  == <<knocks, inbox, data>>
vars == <<uart, queue, handling, taken, walks, chain, conns, server, peers>>

Peers  == Tcp \union Udp
Tasks  == {"event", "server"}
Number == Len(who)

(* SLIST_NEXT, and what a walk from client c comes to; 0 is NULL.  Who is     *)
(* behind another in the list is older.                                     *)
After(c) == IF c = 0 THEN 0 ELSE next[c]
From(c) ==
  LET reach[d \in 0..Number] == IF d = 0 THEN {} ELSE {d} \union reach[After(d)]
  IN reach[c]
Clients == From(head)

NoRemoval == [step |-> "no", at |-> 0, to |-> 0]

Init ==
  /\ driver = <<>> /\ arrived = 0 /\ reading = 0 /\ queue = <<>>
  /\ handling = 0 /\ taken = 0
  /\ cur = [t \in Tasks |-> 0] /\ nxt = [t \in Tasks |-> 0]
  /\ out = [t \in Tasks |-> NoRemoval]
  /\ head = 0 /\ next = <<>> /\ freed = {}
  /\ who = <<>> /\ line = <<>> /\ got = <<>> /\ since = <<>> /\ late = {}
  /\ place = "build" /\ svPost = 0 /\ adding = 0
  /\ ready = {} /\ listeners = {} /\ watched = {}
  /\ knocks = <<>> /\ inbox = {} /\ data = 0
-----------------------------------------------------------------------------
(* uart_task: uart_read_bytes, then esp_event_post that waits for room *)

Others == <<handling, taken, walks, chain, conns, server, peers>>

ChunkArrives ==
  /\ arrived < MaxChunks /\ Len(driver) < DriverRoom
  /\ arrived' = arrived + 1 /\ driver' = Append(driver, arrived')
  /\ UNCHANGED <<reading, queue, Others>>

UartRead ==
  /\ reading = 0 /\ driver # <<>>
  /\ reading' = Head(driver) /\ driver' = Tail(driver)
  /\ UNCHANGED <<arrived, queue, Others>>

PostOrDrop(e) ==
  queue' = IF Len(queue) < QueueRoom THEN Append(queue, e) ELSE queue
PostWaits(e) == Len(queue) < QueueRoom /\ queue' = Append(queue, e)

UartPost ==
  /\ reading # 0
  /\ PostWaits(reading)
  /\ reading' = 0
  /\ UNCHANGED <<driver, arrived, Others>>
-----------------------------------------------------------------------------
(* The walks of both tasks, and what they do to remove a client: the socket   *)
(* is closed, SLIST_REMOVE looks for the client in front, takes this one out  *)
(* and the memory is freed.                                                  *)

Walk(t, c)   == cur' = [cur EXCEPT ![t] = c] /\ nxt' = [nxt EXCEPT ![t] = After(c)]
MovesOn(t)   == Walk(t, nxt[t])
SetOut(t, r) == out' = [out EXCEPT ![t] = r]

Destroy(t) ==
  /\ out[t] = NoRemoval
  /\ line' = [line EXCEPT ![cur[t]] = "gone"]
  /\ SetOut(t, [NoRemoval EXCEPT !.step = "closed"])

AlwaysHead(t) == 0   \* mutant: SLIST_REMOVE_HEAD
InFront(t) == IF head = cur[t] THEN 0 ELSE CHOOSE c \in Clients : next[c] = cur[t]

Find(t) ==
  /\ out[t].step = "closed"
  /\ SetOut(t, [step |-> "found", at |-> InFront(t), to |-> next[cur[t]]])
  /\ UNCHANGED <<uart, queue, handling, taken, cur, nxt, chain, conns, server, peers>>

UnlinkAndFree(t) ==
  /\ out[t].step = "found"
  /\ IF out[t].at = 0 THEN head' = out[t].to /\ UNCHANGED next
       ELSE next' = [next EXCEPT ![out[t].at] = out[t].to] /\ UNCHANGED head
  /\ freed' = freed \union {cur[t]}
  /\ got' = [got EXCEPT ![cur[t]] = <<>>] /\ since' = [since EXCEPT ![cur[t]] = 0]
  /\ inbox' = inbox \ {cur[t]}
  /\ SetOut(t, NoRemoval)
  /\ MovesOn(t)
  /\ UNCHANGED <<uart, queue, handling, taken, who, line, late, svPost, adding, found,
                 knocks, data>>

Holds(t) == {cur[t], nxt[t], out[t].at, out[t].to}

(* Freed memory is held or can be reached, or SLIST_REMOVE would look for a   *)
(* client that is not in the list, and follow NULL.                          *)
Raced ==
  \/ \E c \in freed :
       \/ c \in From(head) \union From(adding)
       \/ \E t \in Tasks : c \in Holds(t)
  \/ \E t \in Tasks : out[t].step = "closed" /\ cur[t] \notin Clients
-----------------------------------------------------------------------------
(* The event task: socket_server_uart_handler *)

(* An event nobody handles is only taken. *)
TakeEvent ==
  /\ handling = 0 /\ queue # <<>>
  /\ queue' = Tail(queue)
  /\ IF Head(queue) = 0 THEN UNCHANGED <<handling, taken, cur, nxt>>
       ELSE handling' = Head(queue) /\ taken' = Head(queue) /\ Walk("event", head)
  /\ UNCHANGED <<uart, out, chain, conns, server, peers>>

EventAt(states) ==
  /\ handling # 0 /\ cur["event"] # 0 /\ out["event"] = NoRemoval
  /\ line[cur["event"]] \in states

(* A peer that closed answers the first write with a reset. *)
EventWrites ==
  /\ EventAt({"open", "closed"})
  /\ got' = [got EXCEPT ![cur["event"]] = Append(@, handling)]
  /\ line' = [line EXCEPT ![cur["event"]] = IF @ = "closed" THEN "reset" ELSE @]
  /\ MovesOn("event")
  /\ UNCHANGED <<uart, queue, handling, taken, out, chain, who, since, late, server,
                 peers>>

(* The loop's own task cannot wait for room in its queue: esp_event_post     *)
(* drops the event instead.                                                  *)
PostFromHandlerWaits == PostWaits(0)   \* mutant
PostFromHandler == PostOrDrop(0)

EventFails ==
  /\ EventAt({"reset", "gone"})
  /\ PostFromHandler
  /\ Destroy("event")
  /\ UNCHANGED <<uart, handling, taken, cur, nxt, chain, who, got, since, late, server,
                 peers>>

EventRemoves ==
  Find("event") \/ (UnlinkAndFree("event") /\ UNCHANGED place)

EventDone ==
  /\ handling # 0 /\ cur["event"] = 0
  /\ handling' = 0
  /\ UNCHANGED <<uart, queue, taken, walks, chain, conns, server, peers>>
-----------------------------------------------------------------------------
(* socket_server_task.  uart_write and uart_nmea post an event first.       *)

ServerPosts ==
  /\ svPost > 0 /\ adding = 0 /\ PostWaits(0)
  /\ svPost' = svPost - 1
  /\ UNCHANGED <<uart, handling, taken, walks, chain, conns, place, adding, found,
                 peers>>

Free == svPost = 0 /\ adding = 0
Goto(from, to) == Free /\ place = from /\ place' = to

Open == {c \in Clients : line[c] # "gone"}

(* FD_SET of the listeners and of every client, then select *)
Build ==
  /\ Goto("build", "select")
  /\ watched' = Open
  /\ UNCHANGED <<uart, queue, handling, taken, walks, chain, conns, svPost, adding,
                 ready, listeners, peers>>

Waiting(ps) == SelectSeq(knocks, LAMBDA p : p \in ps)

Readable == {c \in watched : c \in inbox \/ (line[c] \in {"closed", "reset"} /\ who[c] \in Tcp)}

Knocked == {l \in {"tcp", "udp"} :
              Waiting(IF l = "tcp" THEN Tcp ELSE Udp) # <<>>}

Select ==
  /\ Goto("select", "tcp")
  /\ Readable # {} \/ Knocked # {}
  /\ \A c \in watched : line[c] # "gone"
  /\ ready' = Readable /\ listeners' = Knocked /\ watched' = {}
  /\ UNCHANGED <<uart, queue, handling, taken, walks, chain, conns, svPost, adding,
                 peers>>

(* A watched socket that the event task closed makes select fail.  At the     *)
(* label _error the listeners are closed, with who waits there.              *)
SelectFails ==
  /\ Goto("select", "error")
  /\ \E c \in watched : line[c] = "gone"
  /\ knocks' = <<>> /\ Walk("server", head)
  /\ UNCHANGED <<uart, queue, handling, taken, out, chain, conns, svPost, adding,
                 found, inbox, data>>

(* socket_client_add: SLIST_INSERT_HEAD reads the list's head into the new    *)
(* client, then stores the client there; the NMEA line follows.              *)
Add(p) ==
  /\ adding' = Number + 1 /\ next' = Append(next, head)
  /\ who' = Append(who, p) /\ line' = Append(line, "open")
  /\ got' = Append(got, <<>>) /\ since' = Append(since, 0)
  /\ UNCHANGED <<head, freed, late, data>>

AddLast ==
  /\ adding # 0
  /\ head' = adding /\ adding' = 0
  /\ svPost' = svPost + 1
  /\ since' = [since EXCEPT ![adding] = taken + 1]
  /\ late' = IF out["event"] = NoRemoval THEN late ELSE late \union {adding}
  /\ UNCHANGED <<uart, queue, handling, taken, walks, next, freed, who, line, got,
                 place, found, peers>>

NoneAdded == UNCHANGED <<adding, chain, conns, data>>

(* The socket cannot be accepted or made: who knocked is passed over. *)
Refuses ==
  /\ data < MaxData /\ data' = data + 1
  /\ UNCHANGED <<adding, chain, conns>>

TcpAccept ==
  /\ Goto("tcp", "udp")
  /\ \/ /\ "tcp" \in listeners
        /\ Add(Head(Waiting(Tcp))) \/ Refuses
        /\ knocks' = Waiting(Udp) \o Tail(Waiting(Tcp))
     \/ "tcp" \notin listeners /\ NoneAdded /\ UNCHANGED knocks
  /\ UNCHANGED <<uart, queue, handling, taken, walks, svPost, found, inbox>>

HasClient(p) == \E c \in Clients : who[c] = p

(* One datagram: a client for a new address, unless its socket cannot be      *)
(* made, then uart_write.                                                    *)
UdpReceive ==
  /\ Free /\ place = "udp" /\ "udp" \in listeners
  /\ Waiting(Udp) # <<>>
  /\ knocks' = Tail(Waiting(Udp)) \o Waiting(Tcp)
  /\ IF HasClient(Head(Waiting(Udp))) THEN NoneAdded
       ELSE Add(Head(Waiting(Udp))) \/ Refuses
  /\ svPost' = 1
  /\ UNCHANGED <<uart, queue, handling, taken, walks, place, found, inbox>>

(* recvfrom finds nothing more, or fails. *)
UdpDone ==
  /\ Goto("udp", "clients")
  /\ Walk("server", head)
  /\ listeners' = {}
  /\ UNCHANGED <<uart, queue, handling, taken, out, chain, conns, svPost, adding,
                 ready, watched, peers>>

(* recv until nothing is left: 0, the peer closed, removes nobody.  A socket   *)
(* the event task closes may be asked just before or be left out.            *)
ClientReceive ==
  /\ Free /\ place = "clients" /\ cur["server"] # 0
  /\ LET c == cur["server"] IN
     \/ /\ c \in ready \intersect inbox /\ line[c] # "gone"
        /\ inbox' = inbox \ {c} /\ svPost' = 1 /\ UNCHANGED <<place, cur, nxt>>
     \/ /\ c \in ready => line[c] = "gone" \/ (c \notin inbox /\ line[c] # "reset")
        /\ MovesOn("server") /\ UNCHANGED <<inbox, svPost, place>>
     \/ /\ c \in ready
        /\ line[c] = "gone" \/ (c \notin inbox /\ line[c] = "reset")
        /\ place' = "remove" /\ svPost' = 1 /\ UNCHANGED <<inbox, cur, nxt>>
  /\ UNCHANGED <<uart, queue, handling, taken, out, chain, conns, adding, found, knocks,
                 data>>

(* socket_client_remove after its NMEA line, and the loop at _error *)
ServerCloses ==
  /\ Free /\ place \in {"remove", "error"} /\ cur["server"] # 0
  /\ Destroy("server")
  /\ UNCHANGED <<uart, queue, handling, taken, cur, nxt, chain, who, got, since, late,
                 server, peers>>

ServerRemoves ==
  \/ Find("server")
  \/ UnlinkAndFree("server") /\ place' = IF place = "remove" THEN "clients" ELSE place

ClientsDone ==
  /\ Goto("clients", "build") /\ cur["server"] = 0
  /\ ready' = {} /\ listeners' = {} /\ watched' = {}
  /\ UNCHANGED <<uart, queue, handling, taken, walks, chain, conns, svPost, adding,
                 peers>>

(* All clients are gone, the list and the listeners are made anew. *)
Restart ==
  /\ Goto("error", "build") /\ cur["server"] = 0
  /\ head' = 0
  /\ ready' = {} /\ listeners' = {} /\ watched' = {}
  /\ UNCHANGED <<uart, queue, handling, taken, walks, next, freed, conns, svPost, adding,
                 peers>>
-----------------------------------------------------------------------------
(* Peers *)

(* A datagram of a peer that has a client goes to that client's socket. *)
PeerSends ==
  /\ \/ \E c \in Open :
          /\ line[c] = "open" /\ inbox' = inbox \union {c}
          /\ data < MaxData /\ data' = data + 1 /\ UNCHANGED knocks
     \/ \E p \in Peers :
          /\ Number + Len(knocks) < MaxConns
          /\ ~HasClient(p) /\ place # "error"
          /\ knocks' = Append(knocks, p) /\ UNCHANGED <<inbox, data>>
  /\ UNCHANGED <<uart, queue, handling, taken, walks, chain, conns, server>>

PeerCloses ==
  /\ data < MaxData /\ data' = data + 1
  /\ \E c \in 1..Number, s \in {"closed", "reset", "stalled"} :
       /\ line[c] = "open" /\ (who[c] \in Udp => s = "reset")
       /\ line' = [line EXCEPT ![c] = s]
  /\ UNCHANGED <<uart, queue, handling, taken, walks, chain, who, got, since, late,
                 server, knocks, inbox>>

(* A peer that had stopped reading reads again. *)
PeerReads ==
  /\ \E c \in 1..Number : line[c] = "stalled" /\ line' = [line EXCEPT ![c] = "open"]
  /\ UNCHANGED <<uart, queue, handling, taken, walks, chain, who, got, since, late,
                 server, peers>>

Uart   == UartRead \/ UartPost
Event  == TakeEvent \/ EventWrites \/ EventFails \/ EventRemoves \/ EventDone
Server == ServerPosts \/ Build \/ Select \/ SelectFails \/ TcpAccept \/ UdpReceive
          \/ UdpDone \/ AddLast \/ ClientReceive \/ ServerCloses \/ ServerRemoves
          \/ ClientsDone \/ Restart

Next == ~Raced /\ (ChunkArrives \/ Uart \/ Event \/ Server \/ PeerSends \/ PeerCloses
                    \/ PeerReads)

Spec == Init /\ [][Next]_vars

(* The three tasks run.  write has no timeout: the event task waits for the   *)
(* peer it writes to, which is assumed to read on sooner or later.            *)
Fairness ==
  /\ WF_vars(~Raced /\ Uart) /\ WF_vars(~Raced /\ Event)
  /\ WF_vars(~Raced /\ Server) /\ WF_vars(~Raced /\ PeerReads)

FairSpec == Spec /\ Fairness
-----------------------------------------------------------------------------
TypeOK ==
  /\ Len(driver) <= DriverRoom /\ Len(queue) <= QueueRoom
  /\ {arrived, reading, handling, taken} \subseteq 0..MaxChunks
  /\ Number <= MaxConns /\ {Len(line), Len(got), Len(since), Len(next)} = {Number}
  /\ \A c \in 1..Number :
       /\ who[c] \in Peers /\ next[c] \in 0..(c - 1)
       /\ line[c] \in {"open", "stalled", "closed", "reset", "gone"}
  /\ freed \union late \subseteq 1..Number
  /\ {head, adding} \subseteq 0..Number
  /\ \A t \in Tasks : Holds(t) \subseteq 0..Number /\ out[t].step \in {"no", "closed", "found"}
  /\ place \in {"build", "select", "error", "tcp", "udp", "clients", "remove"}
  /\ svPost \in 0..2 /\ data \in 0..MaxData

(* Every client in the list has got all data since it came in, once and in    *)
(* order, up to the chunk the event task is at: whoever else comes or goes,   *)
(* none is passed over.                                                      *)
Ahead   == {cur["event"]} \union From(nxt["event"])
Upto(c) == IF c \in Ahead THEN taken - 1 ELSE taken
NoGaps ==
  \A c \in Open : got[c] = [i \in 1..(Upto(c) + 1 - since[c]) |-> since[c] + i - 1]

(* A client whose socket is open is in the list, unless it came in while the  *)
(* event task was removing another: SLIST_REMOVE of the first client stores   *)
(* what was behind it over a head that may be new meanwhile.  Such a client    *)
(* keeps its socket and never gets data.                                     *)
NoneForgotten ==
  \A c \in 1..Number : line[c] # "gone" => c = adding \/ c \in Clients \/ c \in late

(* A datagram's address has one client: a second would get, and count, every  *)
(* chunk twice.                                                              *)
OneClientPerAddress ==
  \A c, d \in Clients : who[c] \in Udp /\ who[c] = who[d] => c = d

(* uart_task and the server's task wait for room in the queue, which only the *)
(* event task makes, and the event task posts too: none waits for ever, so    *)
(* once the line is silent all there was has been handed out.                 *)
AllDispatched ==
  <>[](Raced \/ (driver = <<>> /\ reading = 0 /\ queue = <<>> /\ handling = 0))
=============================================================================
