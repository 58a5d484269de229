------------------------------ MODULE MCStreams ------------------------------
(***************************************************************************)
(* The socket server for TLC, and beside it the questions of MdnsQuery.     *)
(* They share no state; a behaviour is one of the two, chosen by part at    *)
(* the start.                                                               *)
(***************************************************************************)
EXTENDS SocketServer

VARIABLES
  part, search, q_list, actions, timer, q_user, starts, received

Search(t, n, m, o) == [type |-> t, name |-> n, max |-> m, timeout |-> o]
Record(t, n, d) == [type |-> t, name |-> n, data |-> d]

(* Two instances of the service, each all at once; addresses before the      *)
(* names they belong to; addresses alone                                     *)
MCPackets ==
  {<<Record("PTR", "service", "i1"), Record("SRV", "i1", "h1"),
     Record("TXT", "i1", "t1"), Record("A", "h1", 1)>>,
   <<Record("A", "h2", 2), Record("SRV", "i2", "h2"), Record("A", "h2", 2)>>,
   <<Record("A", "h1", 1), Record("A", "h2", 2)>>}

Queries == INSTANCE MdnsQuery WITH
  Searches <- [all |-> Search("PTR", "", 2, 2), one |-> Search("SRV", "i1", 1, 1),
               txt |-> Search("TXT", "i1", 1, 1), host |-> Search("A", "h2", 1, 1)],
  Packets <- MCPackets, QueueLen <- 2, Interval <- 1, MaxStarts <- 2, MaxPackets <- 2,
  list <- q_list, user <- q_user

queryVars == <<search, q_list, actions, timer, q_user, starts, received>>

ASSUME ServerAssumption /\ Queries!QueryAssumption

MCInit ==
  /\ Init /\ Queries!Init
  /\ part \in {"server", "queries"}

MCNext ==
  \/ part = "server" /\ Next /\ UNCHANGED <<part, queryVars>>
  \/ part = "queries" /\ Queries!Next /\ UNCHANGED <<part, vars>>

(* The fairness of each module, where it is the one that runs; that of the   *)
(* service task in MdnsQuery holds where its queue stays empty.              *)
MCFairness ==
  /\ WF_vars(part = "server" /\ ~Raced /\ Uart)
  /\ WF_vars(part = "server" /\ ~Raced /\ Event)
  /\ WF_vars(part = "server" /\ ~Raced /\ Server)
  /\ WF_vars(part = "server" /\ ~Raced /\ PeerReads)
  /\ WF_queryVars(part = "queries" /\ Queries!Tick)
  /\ WF_queryVars(part = "queries" /\ Queries!TimerStep)
  /\ \A q \in {"all", "one", "txt", "host"} :
       WF_queryVars(part = "queries" /\ Queries!Return(q))
  /\ Queries!ServiceRuns

MCSpec ==
  /\ MCInit /\ MCFairness
  /\ [][MCNext]_<<part, vars, queryVars>>

(* Clients of the socket server get all data once, in order, from when they  *)
(* come into the list until they go, an address has one client, and a client  *)
(* is forgotten only in the one overlap NoneForgotten names; as long as no    *)
(* freed client is in use.                                                  *)
ServerSound ==
  TypeOK /\ (Raced \/ (NoGaps /\ NoneForgotten /\ OneClientPerAddress))

(* A search is freed when nobody needs it any more, and its results are its. *)
QueriesSound ==
  part = "queries" =>
    /\ Queries!TypeOK /\ Queries!NothingFreedIsUsed
    /\ Queries!EarlyOnlyIfFull /\ Queries!ResultsBelongTogether

(* Data gets where it is meant to, and who asks is answered. *)
NothingHangs == AllDispatched /\ Queries!QueriesReturn
=============================================================================
