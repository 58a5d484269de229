----------------------------- MODULE NetworkBoot -----------------------------
(***************************************************************************)
(* From reset to an uplink: app_main brings up Ethernet, falls back to     *)
(* Wi-Fi and to an access point of its own, starts the web server and the  *)
(* NTRIP slots, and waits for an address (main/main.c, main/wifi.c,        *)
(* main/ethernet, main/network_state.c, and the wait of a slot's task in   *)
(* main/ntrip_runtime.c).                                                  *)
(*                                                                         *)
(* Four parties run concurrently: the main task, the event task, which     *)
(* hands the events of the network stack to the handlers one by one, the   *)
(* drivers, and a slot's task.  What the main task decides from are the    *)
(* flags and bits the handlers set, which lag behind the drivers.          *)
(*                                                                         *)
(* Abstractions: one slot; initialisation steps that cannot wait are one   *)
(* step; of a failing Ethernet initialisation only that it failed.         *)
(***************************************************************************)
EXTENDS Naturals, Sequences

CONSTANTS
  MaxChanges,  \* bound on changes of cable and Wi-Fi coverage
  MaxResets    \* bound on resets

BootAssumption == MaxChanges \in Nat /\ MaxResets \in Nat

VARIABLES
  pc,                      \* where app_main is
  cable, lease, coverage,  \* the world: cable plugged, a DHCP server behind
                           \* it, the configured access point in range
  changes, resets,         \* counts of what the bounds bound
  netif, link, up, ethIp,  \* Ethernet: interface created, the driver's link,
                           \* interface brought up, its address assigned
  events,                  \* queue of the default event loop
  started, linkUp, hasIp,  \* network_state.c
  group, bits,             \* s_wifi_event_group: created, its bits
  mode, sta, staUp,        \* Wi-Fi mode, the station's state, its interface
  portal,                  \* dns_running of the captive portal
  saved, posted,           \* flash: station in the namespace wifi_config, and
                           \* in that of the configuration page
  slot,                    \* the slot's task: not started, waiting, online
  lost                     \* history: since boot the station gave up

world    == <<cable, lease, coverage, changes>>
ethernet == <<netif, link, up, ethIp>>
state    == <<started, linkUp, hasIp>>
wifi     == <<group, bits, mode, sta, staUp, portal>>
flash    == <<saved, posted>>
vars == <<pc, world, resets, ethernet, events, state, wifi, flash, slot, lost>>

Places == {"start", "link_wait", "dhcp_wait", "wifi", "sta_wait", "fallback",
           "bits", "network", "network_ip", "web", "services", "ip", "eth_ip",
           "sta_ip", "sntp"}
Events == {"ETH_START", "ETH_CONNECTED", "ETH_DISCONNECTED", "ETH_GOT_IP",
           "STA_CONNECTED", "STA_DISCONNECTED", "STA_GOT_IP", "AP_START"}
Bits   == {"connected", "gotIp", "disconnected", "apActive"}

(* network_state_is_network_ready *)
EthernetReady == started /\ linkUp /\ hasIp

WebUp == pc \in {"services", "ip", "eth_ip", "sta_ip", "sntp"}

Init ==
  /\ pc = "start"
  /\ netif = FALSE /\ link = FALSE /\ up = FALSE /\ ethIp = FALSE
  /\ events = <<>>
  /\ started = FALSE /\ linkUp = FALSE /\ hasIp = FALSE
  /\ group = FALSE /\ bits = {} /\ mode = "null" /\ sta = "off"
  /\ staUp = FALSE /\ portal = FALSE
  /\ slot = "off" /\ lost = FALSE
  /\ cable \in BOOLEAN /\ lease \in BOOLEAN /\ coverage \in BOOLEAN
  /\ changes = 0 /\ resets = 0
  /\ saved \in BOOLEAN /\ posted = FALSE

Goto(from, to) == pc = from /\ pc' = to

Post(es) == events' = events \o es
-----------------------------------------------------------------------------
(* The main task *)

(* network_init: on a board without Ethernet, or when a step of the         *)
(* initialisation fails, there is no interface and nothing stays started.   *)
NetworkInit ==
  /\ \/ Goto("start", "link_wait") /\ netif' = TRUE /\ Post(<<"ETH_START">>)
     \/ Goto("start", "wifi") /\ UNCHANGED <<netif, events>>
  /\ UNCHANGED <<world, resets, link, up, ethIp, state, wifi, flash, slot, lost>>

(* network_wait_for_ethernet_link_up and network_wait_for_ethernet_ip poll   *)
(* their flag until it is set or the time is over; in three seconds the      *)
(* event task, of higher priority, has long handled the start of the driver. *)
EthernetWait ==
  /\ \/ linkUp /\ Goto("link_wait", "dhcp_wait")
     \/ started /\ ~linkUp /\ Goto("link_wait", "wifi")
     \/ hasIp /\ Goto("dhcp_wait", "network")
     \/ ~hasIp /\ Goto("dhcp_wait", "wifi")
  /\ UNCHANGED <<world, resets, ethernet, events, state, wifi, flash, slot, lost>>

(* wifi_init joins the saved network, or opens the access point. *)
WifiInit ==
  /\ group' = TRUE
  /\ \/ /\ saved
        /\ Goto("wifi", "sta_wait")
        /\ mode' = "sta" /\ sta' = "joining"
        /\ UNCHANGED <<events, portal>>
     \/ /\ ~saved
        /\ Goto("wifi", "network")
        /\ mode' = "ap" /\ portal' = TRUE
        /\ Post(<<"AP_START">>)
        /\ UNCHANGED sta
  /\ UNCHANGED <<world, resets, ethernet, state, bits, staUp, flash, slot, lost>>

(* wifi_wait_for_sta_ip(5000) *)
StationWait ==
  /\ IF "gotIp" \in bits THEN Goto("sta_wait", "network")
                         ELSE Goto("sta_wait", "fallback")
  /\ UNCHANGED <<world, resets, ethernet, events, state, wifi, flash, slot, lost>>

FallbackKeepsMode == mode' = mode   \* mutant: esp_wifi_set_mode forgotten
FallbackSetsMode == mode' = "ap"

(* wifi_start_ap_fallback stops the station and opens the access point ... *)
FallbackMode ==
  /\ Goto("fallback", "bits")
  /\ FallbackSetsMode /\ sta' = "off" /\ staUp' = FALSE
  /\ Post((IF sta = "off" THEN <<>> ELSE <<"STA_DISCONNECTED">>)
          \o <<"AP_START">>)
  /\ UNCHANGED <<world, resets, ethernet, state, group, bits, portal, flash,
                 slot, lost>>

(* ... and then clears the bits, whatever the event task does meanwhile. *)
FallbackBits ==
  /\ Goto("bits", "network")
  /\ bits' = (bits \ {"connected", "gotIp", "disconnected"}) \union {"apActive"}
  /\ UNCHANGED <<world, resets, ethernet, events, state, group, mode, sta,
                 staUp, portal, flash, slot, lost>>

(* wait_for_network: only a station is waited for. *)
WaitForNetwork ==
  /\ IF ~EthernetReady /\ mode = "sta" THEN Goto("network", "network_ip")
                                       ELSE Goto("network", "web")
  /\ UNCHANGED <<world, resets, ethernet, events, state, wifi, flash, slot, lost>>

NetworkIp ==
  /\ Goto("network_ip", "web")
  /\ "gotIp" \in bits
  /\ UNCHANGED <<world, resets, ethernet, events, state, wifi, flash, slot, lost>>

(* web_server_init, then the slots and the socket tasks *)
StartServices ==
  /\ \/ Goto("web", "services") /\ UNCHANGED slot
     \/ Goto("services", "ip") /\ slot' = "waiting"
  /\ UNCHANGED <<world, resets, ethernet, events, state, wifi, flash, lost>>

(* wait_for_ip decides by the started driver which interface it waits for;  *)
(* without Wi-Fi it returns at once.                                        *)
WaitForIp ==
  /\ \/ started /\ Goto("ip", "eth_ip")
     \/ ~started /\ group /\ Goto("ip", "sta_ip")
     \/ ~started /\ ~group /\ Goto("ip", "sntp")
     \/ ethIp /\ Goto("eth_ip", "sntp")
     \/ "gotIp" \in bits /\ Goto("sta_ip", "sntp")
  /\ UNCHANGED <<world, resets, ethernet, events, state, wifi, flash, slot, lost>>
-----------------------------------------------------------------------------
(* A slot's task *)

(* ntrip_runtime_wait_for_ip_with_wdt; whatever follows may fail. *)
SlotOnline ==
  /\ slot = "waiting"
  /\ IF started THEN EthernetReady ELSE sta = "ip"
  /\ slot' = "online"
  /\ UNCHANGED <<pc, world, resets, ethernet, events, state, wifi, flash, lost>>

SlotRetries ==
  /\ slot = "online"
  /\ slot' = "waiting"
  /\ UNCHANGED <<pc, world, resets, ethernet, events, state, wifi, flash, lost>>
-----------------------------------------------------------------------------
(* The event task.  The SDK's own handlers run before those of the code:    *)
(* they bring the interface up, and take address and interface down.        *)

Take(e) ==
  /\ events # <<>> /\ Head(events) = e
  /\ events' = Tail(events)
  /\ UNCHANGED <<pc, world, resets, netif, link, group, mode, sta, portal,
                 flash, slot, lost>>

EthStart ==
  /\ Take("ETH_START")
  /\ started' = TRUE
  /\ UNCHANGED <<up, ethIp, linkUp, hasIp, bits, staUp>>

EthConnected ==
  /\ Take("ETH_CONNECTED")
  /\ up' = TRUE /\ linkUp' = TRUE
  /\ UNCHANGED <<ethIp, started, hasIp, bits, staUp>>

FlagsOfLossReset ==   \* mutant: network_state_reset_ethernet, as on a stop
  started' = FALSE /\ linkUp' = FALSE /\ hasIp' = FALSE
FlagsOfLoss == linkUp' = FALSE /\ hasIp' = FALSE /\ UNCHANGED started

EthDisconnected ==
  /\ Take("ETH_DISCONNECTED")
  /\ up' = FALSE /\ ethIp' = FALSE
  /\ FlagsOfLoss
  /\ UNCHANGED <<bits, staUp>>

EthGotIp ==
  /\ Take("ETH_GOT_IP")
  /\ hasIp' = TRUE
  /\ UNCHANGED <<up, ethIp, started, linkUp, bits, staUp>>

StaConnected ==
  /\ Take("STA_CONNECTED")
  /\ staUp' = TRUE
  /\ bits' = (bits \union {"connected"}) \ {"disconnected"}
  /\ UNCHANGED <<up, ethIp, state>>

StaDisconnected ==
  /\ Take("STA_DISCONNECTED")
  /\ staUp' = FALSE
  /\ bits' = (bits \ {"connected", "gotIp"}) \union {"disconnected"}
  /\ UNCHANGED <<up, ethIp, state>>

StaGotIp ==
  /\ Take("STA_GOT_IP")
  /\ bits' = bits \union {"gotIp"}
  /\ UNCHANGED <<up, ethIp, state, staUp>>

ApStart ==
  /\ Take("AP_START")
  /\ bits' = bits \union {"apActive"}
  /\ UNCHANGED <<up, ethIp, state, staUp>>

HandleEvent ==
  \/ EthStart \/ EthConnected \/ EthDisconnected \/ EthGotIp
  \/ StaConnected \/ StaDisconnected \/ StaGotIp \/ ApStart
-----------------------------------------------------------------------------
(* Drivers and network stack *)

(* The driver polls the PHY once it is started. *)
LinkCheck ==
  /\ netif /\ link # cable
  /\ link' = cable
  /\ Post(<<IF cable THEN "ETH_CONNECTED" ELSE "ETH_DISCONNECTED">>)
  /\ UNCHANGED <<pc, world, resets, netif, up, ethIp, state, wifi, flash,
                 slot, lost>>

(* The lease may arrive when the link is down again but its event waits. *)
EthLease ==
  /\ up /\ lease /\ ~ethIp
  /\ ethIp' = TRUE
  /\ Post(<<"ETH_GOT_IP">>)
  /\ UNCHANGED <<pc, world, resets, netif, link, up, state, wifi, flash,
                 slot, lost>>

StaJoins ==
  /\ sta = "joining"
  /\ \/ coverage /\ sta' = "joined" /\ Post(<<"STA_CONNECTED">>) /\ UNCHANGED lost
     \/ sta' = "off" /\ Post(<<"STA_DISCONNECTED">>) /\ lost' = TRUE
  /\ UNCHANGED <<pc, world, resets, ethernet, state, group, bits, mode, staUp,
                 portal, flash, slot>>

StaLease ==
  /\ sta = "joined" /\ staUp
  /\ sta' = "ip" /\ Post(<<"STA_GOT_IP">>)
  /\ UNCHANGED <<pc, world, resets, ethernet, state, group, bits, mode, staUp,
                 portal, flash, slot, lost>>

(* Nobody calls esp_wifi_connect again. *)
StaLoses ==
  /\ sta \in {"joined", "ip"} /\ ~coverage
  /\ sta' = "off" /\ Post(<<"STA_DISCONNECTED">>) /\ lost' = TRUE
  /\ UNCHANGED <<pc, world, resets, ethernet, state, group, bits, mode, staUp,
                 portal, flash, slot>>
-----------------------------------------------------------------------------
(* The user *)

Change ==
  /\ changes < MaxChanges /\ changes' = changes + 1
  /\ \/ cable' = ~cable /\ UNCHANGED coverage
     \/ coverage' = ~coverage /\ UNCHANGED cable
  /\ UNCHANGED <<pc, lease, resets, ethernet, events, state, wifi, flash,
                 slot, lost>>

(* RAM and chips start again. *)
Reset ==
  /\ resets < MaxResets /\ resets' = resets + 1
  /\ pc' = "start"
  /\ netif' = FALSE /\ link' = FALSE /\ up' = FALSE /\ ethIp' = FALSE
  /\ events' = <<>>
  /\ started' = FALSE /\ linkUp' = FALSE /\ hasIp' = FALSE
  /\ group' = FALSE /\ bits' = {} /\ mode' = "null" /\ sta' = "off"
  /\ staUp' = FALSE /\ portal' = FALSE
  /\ slot' = "off" /\ lost' = FALSE
  /\ UNCHANGED <<world, saved>>

(* POST /config with a station restarts the device (config_restart). *)
PostStation ==
  /\ WebUp
  /\ posted' = TRUE
  /\ Reset

(* GET /wifi/scan: the driver scans for a station only; ESP_ERROR_CHECK on   *)
(* its refusal aborts.                                                       *)
WifiScan ==
  /\ WebUp /\ mode # "sta"
  /\ Reset
  /\ UNCHANGED posted

Main == \/ NetworkInit \/ EthernetWait \/ WifiInit \/ StationWait
        \/ FallbackMode \/ FallbackBits \/ WaitForNetwork \/ NetworkIp
        \/ StartServices \/ WaitForIp

Stack == LinkCheck \/ EthLease \/ StaJoins \/ StaLease \/ StaLoses

Next == Main \/ SlotOnline \/ SlotRetries \/ HandleEvent \/ Stack
        \/ Change \/ PostStation \/ WifiScan

Spec == Init /\ [][Next]_vars

(* Tasks run, timers of the drivers fire, a reachable DHCP server answers.   *)
Fairness ==
  /\ WF_vars(Main) /\ WF_vars(SlotOnline) /\ WF_vars(HandleEvent)
  /\ WF_vars(LinkCheck) /\ WF_vars(EthLease)
  /\ WF_vars(StaJoins) /\ WF_vars(StaLease) /\ WF_vars(StaLoses)

FairSpec == Spec /\ Fairness
-----------------------------------------------------------------------------
TypeOK ==
  /\ pc \in Places
  /\ {cable, lease, coverage, netif, link, up, ethIp, started, linkUp, hasIp,
      group, staUp, portal, saved, posted, lost} \subseteq BOOLEAN
  /\ changes \in 0..MaxChanges /\ resets \in 0..MaxResets
  /\ events \in Seq(Events)
  /\ bits \subseteq Bits
  /\ mode \in {"null", "sta", "ap"}
  /\ sta \in {"off", "joining", "joined", "ip"}
  /\ slot \in {"off", "waiting", "online"}

(* Once the event task has caught up, the flags of network_state.c show the  *)
(* driver's link and miss no address (a lease that arrives while the event   *)
(* of a lost link waits may leave hasIp set; it goes with the next loss).    *)
FlagsCatchUp ==
  events = <<>> => linkUp = link /\ (ethIp => EthernetReady)

(* wait_for_ip never returns for want of Wi-Fi: on the path that skipped     *)
(* wifi_init the Ethernet driver is started, whatever became of its link.    *)
NeverBlindWait == pc = "ip" => started \/ group

(* Unless the station failed or lost its network after a boot, which nothing *)
(* repairs, app_main gets past every wait before the web server.             *)
WebServerStarts == <>[]~lost => <>[]WebUp

(* A cable with a DHCP server, plugged in at any time, even after the        *)
(* fallback to Wi-Fi, brings the clock and the slots online.                 *)
CableBringsOnline ==
  <>[](cable /\ lease /\ netif /\ ~lost)
    => <>[](pc = "sntp") /\ []<>(slot = "online")

(* What the boot turns to Wi-Fi for: where Ethernet is not ready and the      *)
(* station keeps its address, the slots come online over Wi-Fi.               *)
StationCarries ==
  <>[](~EthernetReady /\ sta = "ip" /\ ~lost) => []<>(slot = "online") \/ <>[](slot = "off")
=============================================================================
