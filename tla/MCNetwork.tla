------------------------------ MODULE MCNetwork ------------------------------
(***************************************************************************)
(* The network side for TLC: the mDNS responder on the link, and beside it *)
(* NetworkBoot, the driver of the W5500, and what sends the serial port's  *)
(* data to the net, SocketClient and RtcmFanout.  They share no state; a   *)
(* behaviour is one of the five, chosen by part at the start.              *)
(***************************************************************************)
EXTENDS MdnsResponder

(* A gateway with a cable and a station on the link of another device, whose *)
(* address is the least                                                      *)
MCIfs == [a |-> {"eth", "sta"}, b |-> {"sta"}]
MCAddr == [a |-> [eth |-> 3, sta |-> 2], b |-> [sta |-> 1]]

(* The bounds of NetworkBoot, of the driver, of SocketClient and of RtcmFanout *)
CONSTANTS
  BootChanges, BootResets, RingRoom, RxFrames, TxFrames, MacFaults, MacLinks,
  ClientConns, ClientAttempts, FanoutSlots, BufferRoom, FedMessages, FanoutCalls

VARIABLES
  part,
  pc, cable, lease, coverage, changes, resets, netif, link, b_up, ethIp, b_events,
  started, linkUp, hasIp, group, bits, mode, sta, staUp, portal, saved, posted,
  slot, b_lost,
  m_link, m_links, rx, recv, arrived, passed, note, place, remain, more, tx,
  txPlace, sending, sent, reported, wire, faults, failed,
  c_place, attempts, waited, sock, conns, open, peer, first, frees, handler, late,
  enabled, stopReq, looping, leaving, fed, run, buf, dropped, held, c_wire, clean,
  user

Boot == INSTANCE NetworkBoot WITH
  MaxChanges <- BootChanges, MaxResets <- BootResets, up <- b_up, events <- b_events, lost <- b_lost

Mac == INSTANCE W5500Mac WITH
  RxRoom <- RingRoom, MaxRx <- RxFrames, MaxTx <- TxFrames, MaxFaults <- MacFaults,
  MaxLinks <- MacLinks,
  link <- m_link, links <- m_links

Client == INSTANCE SocketClient WITH
  MaxConns <- ClientConns, MaxAttempts <- ClientAttempts, place <- c_place

Fanout == INSTANCE RtcmFanout WITH
  Slots <- FanoutSlots, Room <- BufferRoom, MaxFed <- FedMessages,
  MaxUser <- FanoutCalls, wire <- c_wire

bootVars == <<pc, cable, lease, coverage, changes, resets, netif, link, b_up, ethIp,
              b_events, started, linkUp, hasIp, group, bits, mode, sta, staUp, portal,
              saved, posted, slot, b_lost>>

macVars == <<m_link, m_links, rx, recv, arrived, passed, note, place, remain,
             more, tx, txPlace, sending, sent, reported, wire, faults, failed>>

clientVars == <<c_place, attempts, waited, sock, conns, open, peer, first,
                frees, handler, late>>

fanoutVars == <<enabled, stopReq, looping, leaving, fed, run, buf, dropped,
                held, c_wire, clean, user>>

ASSUME MCAssumption ==
  /\ ResponderAssumption /\ Boot!BootAssumption /\ Mac!MacAssumption
  /\ Client!ClientAssumption /\ Fanout!FanoutAssumption

(* All start with the same name: both devices by their stations, with        *)
(* services of one name; the gateway by both of its interfaces; or the other  *)
(* device alone, with a service or none yet.                                  *)
MdnsStarts ==
  /\ \A h \in Devices : dev[h].name = 1
  /\ \/ dev["a"].svc /\ dev["a"].inst = 1 /\ up = {<<"a", "sta">>, <<"b", "sta">>}
     \/ dev["a"].svc /\ dev["a"].inst = 0 /\ up = {<<"a", "eth">>, <<"a", "sta">>}
     \/ dev["a"].inst = 0 /\ up = {<<"b", "sta">>}

MdnsQuiet == up = {} /\ \A h \in Devices :
  dev[h].name = 1 /\ dev[h].inst = 0 /\ dev[h].svc

BootQuiet == cable /\ lease /\ coverage /\ saved

(* One initial state of the parts that do not run is enough. *)
MCInit ==
  /\ Boot!Init /\ Mac!Init /\ Init /\ Client!Init /\ Fanout!Init
  /\ \/ part = "boot" /\ MdnsQuiet
     \/ part \in {"mac", "client", "fanout"} /\ BootQuiet /\ MdnsQuiet
     \/ part = "mdns" /\ BootQuiet /\ MdnsStarts

MCNext ==
  \/ part = "boot" /\ Boot!Next
       /\ UNCHANGED <<part, macVars, vars, clientVars, fanoutVars>>
  \/ part = "mac" /\ Mac!Next
       /\ UNCHANGED <<part, bootVars, vars, clientVars, fanoutVars>>
  \/ part = "client" /\ Client!Next
       /\ UNCHANGED <<part, bootVars, macVars, vars, fanoutVars>>
  \/ part = "fanout" /\ Fanout!Next
       /\ UNCHANGED <<part, bootVars, macVars, vars, clientVars>>
  \/ part = "mdns" /\ Next
       /\ UNCHANGED <<part, bootVars, macVars, clientVars, fanoutVars>>

(* The fairness of each module, where it is the one that runs *)
MCFairness ==
  /\ WF_bootVars(part = "boot" /\ Boot!Main) /\ WF_bootVars(part = "boot" /\ Boot!SlotOnline)
  /\ WF_bootVars(part = "boot" /\ Boot!HandleEvent)
  /\ WF_bootVars(part = "boot" /\ Boot!LinkCheck) /\ WF_bootVars(part = "boot" /\ Boot!EthLease)
  /\ WF_bootVars(part = "boot" /\ Boot!StaJoins) /\ WF_bootVars(part = "boot" /\ Boot!StaLease)
  /\ WF_bootVars(part = "boot" /\ Boot!StaLoses)
  /\ WF_macVars(part = "mac" /\ Mac!RxTask) /\ WF_macVars(part = "mac" /\ Mac!TxDone)
  /\ WF_macVars(part = "mac" /\ Mac!Sent)
  /\ WF_clientVars(part = "client" /\ Client!Task)
  /\ WF_clientVars(part = "client" /\ Client!Handler)
  /\ WF_fanoutVars(part = "fanout" /\ Fanout!Generator)
  /\ Fairness

allVars == <<part, vars, bootVars, macVars, clientVars, fanoutVars>>

MCSpec == MCInit /\ [][MCNext]_allVars /\ MCFairness

(* app_main waits only for what was started, and the flags follow the driver. *)
BootSound == Boot!TypeOK /\ Boot!FlagsCatchUp /\ Boot!NeverBlindWait

(* The driver passes frames up and sends them down as it says it does. *)
FramesFaithful == Mac!TypeOK /\ Mac!PassedInOrder /\ Mac!ReportedIsSent

(* What a caster gets, with one generator at most beside the UART; and no    *)
(* socket of the client is left behind, but by the overlap NoSocketLeft names. *)
CasterSound ==
  /\ Fanout!TypeOK /\ Fanout!OneGenerator /\ Fanout!CasterInOrder /\ Fanout!CutsAreCounted
  /\ Client!TypeOK /\ Client!NoSocketLeft

(* The boot comes to its web server and a cable plugged in later is taken;   *)
(* frames do not stay in the ring of the W5500; a stop ends the generator;   *)
(* the client waits as long as it says and leaves a connection that died.    *)
NetworkComesUp ==
  /\ part = "boot" => Boot!WebServerStarts /\ Boot!CableBringsOnline
  /\ Mac!RingDrains
  /\ Fanout!StopEnds
  /\ Client!Patient /\ Client!DeadConnectionIsLeft

(* The responder: what probes goes on to its end, no two devices keep one    *)
(* name, and all come to rest.                                               *)
RespondersProbe == TypeOK /\ NeverLeftProbing /\ (AtRest <=> ~ENABLED Progress)
=============================================================================
