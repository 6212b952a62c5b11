---------------------------- MODULE Connectivity ----------------------------
(***************************************************************************)
(* Switching between Wifi, Bluetooth and nothing (main/platform.c,         *)
(* main/wifi_service.c, the start and stop of main/ble_server.c), and the  *)
(* websocket server that Wifi brings (components/websocket_server).        *)
(*                                                                         *)
(* duktape_task runs the Platform functions of the application and sends   *)
(* its events; websocket_server_task accepts one client after the other    *)
(* and posts what they write.  They share websocket_server_running,        *)
(* websocket_conn and the server's configuration.  Scripts, clients, the   *)
(* TCP/IP stack and the drivers are external: a driver's start fails, and  *)
(* with it ESP_ERROR_CHECK, if it has been started before and not been     *)
(* stopped.  The web server and the UDP server, which Wifi starts too, are *)
(* left out; so is what Bluetooth does while it is up (BleLink).           *)
(***************************************************************************)
EXTENDS Naturals, Sequences, SequencesExt

CONSTANTS
  Conns,      \* bound: the connections of clients, each used once
  MaxFrames,  \* bound: frames a client writes
  Null

ASSUME ConnectivityAssumption == Null \notin Conns /\ MaxFrames \in Nat

VARIABLES
  duk,           \* duktape_task: "run", "stop" (in websocket_stop) or "aborted"
  newcon,        \* the argument of the setConnectivity that stops
  connectivity,  \* connectivity
  sendFunc,      \* g->ui_send_func
  wifi,          \* "off", "on", or "left" by a station that could not connect
  ble,           \* "never" started, "on" or "stopped"
  cfg,           \* ws_server_cfg is allocated
  running,       \* websocket_server_running
  srv,           \* websocket_server_task: where it is
  conn,          \* websocket_conn
  open,          \* the connections whose netconn is allocated
  client,        \* each client: "new", "open" or "closed"
  backlog,       \* connections that have not been accepted, oldest first
  inbox,         \* of each connection: what has not been received
  written,       \* history: frames each client has written
  events,        \* history: the events posted since the board has started
  lost,          \* history: connections that the server has let go
  misused        \* history: the application did not keep to the rules, see Misuse

wifiVars == <<wifi, cfg>>
dukVars == <<duk, newcon, connectivity, sendFunc, wifi, ble, cfg, misused>>
srvVars == <<srv, conn, open, events, lost>>
netVars == <<client, backlog, inbox, written>>
vars == <<dukVars, running, srvVars, netVars>>

(* The variables of the program after a start of the board. *)
Started ==
  /\ duk' = "run" /\ newcon' = "off"
  /\ connectivity' = "off" /\ sendFunc' = "null"
  /\ wifi' = "off" /\ ble' = "never" /\ cfg' = FALSE
  /\ running' = 0
  /\ srv' = "none" /\ conn' = Null
  /\ open' = {} /\ events' = <<>> /\ lost' = {}
  /\ misused' = FALSE

Init ==
  /\ duk = "run" /\ newcon = "off"
  /\ connectivity = "off" /\ sendFunc = "null"
  /\ wifi = "off" /\ ble = "never" /\ cfg = FALSE
  /\ running = 0
  /\ srv = "none" /\ conn = Null
  /\ open = {} /\ events = <<>> /\ lost = {}
  /\ misused = FALSE
  /\ client = [c \in Conns |-> "new"]
  /\ backlog = <<>>
  /\ inbox = [c \in Conns |-> <<>>]
  /\ written = [c \in Conns |-> 0]

-----------------------------------------------------------------------------
(* Clients: a request that makes a good or a bad handshake, then frames,   *)
(* then perhaps a closing one.                                             *)

Connect(c) ==
  /\ srv \notin {"none", "start"}
  /\ client[c] = "new"
  /\ client' = [client EXCEPT ![c] = "open"]
  /\ backlog' = Append(backlog, c)
  /\ \E hello \in {"hello", "bad"} : inbox' = [inbox EXCEPT ![c] = <<hello>>]
  /\ UNCHANGED <<dukVars, running, srvVars, written>>

Write(c) ==
  /\ client[c] = "open"
  /\ written[c] < MaxFrames
  /\ written' = [written EXCEPT ![c] = @ + 1]
  /\ inbox' = [inbox EXCEPT ![c] = Append(@, "text")]
  /\ UNCHANGED <<dukVars, running, srvVars, client, backlog>>

Close(c) ==
  /\ client[c] = "open"
  /\ client' = [client EXCEPT ![c] = "closed"]
  /\ \/ UNCHANGED inbox
     \/ inbox' = [inbox EXCEPT ![c] = Append(@, "close")]
  /\ UNCHANGED <<dukVars, running, srvVars, backlog, written>>

-----------------------------------------------------------------------------
(* websocket_server_task                                                   *)

Srv(from, to) ==
  /\ srv = from
  /\ srv' = to
  /\ UNCHANGED <<dukVars, client, written>>

Post(type, c) == events' = Append(events, [type |-> type, conn |-> c])

SrvListen ==
  /\ Srv("start", "accept")
  /\ conn' = Null
  /\ UNCHANGED <<running, open, events, lost, backlog, inbox>>

(* netconn_accept; without a client it times out, and is called again. *)
SrvAccept ==
  /\ Srv("accept", IF running = 0 THEN "close" ELSE "handshake")
  /\ backlog # <<>>
  /\ conn' = Head(backlog)
  /\ backlog' = Tail(backlog)
  /\ open' = open \cup {conn'}
  /\ lost' = IF running = 0 THEN lost \cup {conn'} ELSE lost
  /\ UNCHANGED <<running, events, inbox>>

SrvAcceptTimeout ==
  /\ Srv("accept", "close")
  /\ backlog = <<>> /\ running = 0
  /\ UNCHANGED <<running, conn, open, events, lost, backlog, inbox>>

(* websocket_handshake *)
SrvHandshake ==
  /\ Srv("handshake", "notify")
  /\ inbox[conn] # <<>> /\ Head(inbox[conn]) = "hello"
  /\ inbox' = [inbox EXCEPT ![conn] = Tail(@)]
  /\ UNCHANGED <<running, conn, open, events, lost, backlog>>

(* Without a request, with a bad one, or with nobody left to answer to; the *)
(* next netconn_accept overwrites websocket_conn.                           *)
SrvHandshakeFails ==
  /\ Srv("handshake", "accept")
  /\ inbox[conn] = <<>> \/ Head(inbox[conn]) # "hello" \/ client[conn] = "closed"
  /\ conn' = Null
  /\ lost' = lost \cup {conn}
  /\ UNCHANGED <<running, open, events, backlog, inbox>>

SrvConnected ==
  /\ Srv("notify", "serve")
  /\ Post("UI_CONNECTED", conn)
  /\ UNCHANGED <<running, conn, open, lost, backlog, inbox>>

(* websocket_serve: a frame, which queue_cb posts, *)
SrvFrame ==
  /\ Srv("serve", "serve")
  /\ inbox[conn] # <<>> /\ Head(inbox[conn]) = "text"
  /\ running = 1
  /\ Post("UI_MSG", conn)
  /\ inbox' = [inbox EXCEPT ![conn] = Tail(@)]
  /\ UNCHANGED <<running, conn, open, lost, backlog>>

(* Fault: a server that is stopped keeps on serving. *)
SrvEndNotStopped ==
  /\ Srv("serve", "deleted")
  /\ IF inbox[conn] = <<>> THEN client[conn] = "closed"
                           ELSE Head(inbox[conn]) = "close"
  /\ open' = open \ {conn}
  /\ UNCHANGED <<running, conn, events, lost, backlog, inbox>>

(* Fault: the connection is closed, but not deleted. *)
SrvEndKeepsConn ==
  /\ Srv("serve", "deleted")
  /\ \/ inbox[conn] = <<>> /\ client[conn] = "closed"
     \/ inbox[conn] # <<>> /\ Head(inbox[conn]) = "close"
     \/ running = 0
  /\ UNCHANGED <<running, conn, open, events, lost, backlog, inbox>>

(* or the end: by the client, in two ways, or because the server is        *)
(* stopped, which is noticed with the next frame or the next time-out.     *)
SrvEnd ==
  /\ Srv("serve", "deleted")
  /\ \/ inbox[conn] = <<>> /\ client[conn] = "closed"
     \/ inbox[conn] # <<>> /\ Head(inbox[conn]) = "close"
     \/ running = 0
  /\ open' = open \ {conn}
  /\ UNCHANGED <<running, conn, events, lost, backlog, inbox>>

(* Fault: the application is not told. *)
SrvDisconnectedSilent ==
  /\ Srv("deleted", "forget")
  /\ UNCHANGED <<running, conn, open, events, lost, backlog, inbox>>

SrvDisconnected ==
  /\ Srv("deleted", "forget")
  /\ Post("UI_DISCONNECTED", conn)
  /\ UNCHANGED <<running, conn, open, lost, backlog, inbox>>

SrvForget ==
  /\ Srv("forget", "accept")
  /\ conn' = Null
  /\ UNCHANGED <<running, open, events, lost, backlog, inbox>>

(* The server's socket is closed, and with it those not yet accepted. *)
SrvClose ==
  /\ Srv("close", "none")
  /\ running' = 2
  /\ backlog' = <<>>
  /\ UNCHANGED <<conn, open, events, lost, inbox>>

SrvStep ==
  \/ SrvListen
  \/ SrvAccept
  \/ SrvAcceptTimeout
  \/ SrvHandshake
  \/ SrvHandshakeFails
  \/ SrvConnected
  \/ SrvFrame
  \/ SrvEnd
  \/ SrvDisconnected
  \/ SrvForget
  \/ SrvClose

-----------------------------------------------------------------------------
(* duktape_task                                                            *)

(* What setConnectivity is called with: 0, 1, 2, or another number. *)
Modes == {"off", "wifi", "ble", "other"}

(* The rules: a mode is one of the three that docs/platform.md names; Wifi *)
(* is configured after it has been chosen (its example), and neither       *)
(* chosen nor configured again while it is up (wifimgnt.js:6).             *)
MisuseSetConnectivity(m) == m = "other" \/ (m = "wifi" /\ wifi = "on")

MisuseWifiConfigure == connectivity # "wifi" \/ wifi = "on"

(* Fault: Bluetooth is not stopped. *)
SwitchKeepsBle(m) ==
  /\ m = "ble" => ble = "never"
  /\ duk' = "run"
  /\ connectivity' = m
  /\ ble' = IF m = "ble" THEN "on" ELSE ble
  /\ sendFunc' = CASE m = "ble" -> "ble" [] m = "other" -> sendFunc [] OTHER -> "null"

(* Fault: websocket_send stays the function that sends. *)
SwitchKeepsSend(m) ==
  /\ m = "ble" => ble = "never"
  /\ duk' = "run"
  /\ connectivity' = m
  /\ ble' = CASE m = "ble" -> "on"
              [] m \in {"off", "wifi"} /\ connectivity = "ble" -> "stopped"
              [] OTHER -> ble
  /\ sendFunc' = IF m = "ble" THEN "ble" ELSE sendFunc

(* set_connectivity, without the stop of Wifi.  ESP_ERROR_CHECK aborts if  *)
(* the start of Bluetooth is not the first; another number is stored as it *)
(* is, and starts and stops nothing.                                       *)
Switch(m) ==
  \/ /\ m = "ble" /\ ble # "never"
     /\ duk' = "aborted"
     /\ UNCHANGED <<connectivity, sendFunc, ble>>
  \/ /\ m = "ble" => ble = "never"
     /\ duk' = "run"
     /\ connectivity' = m
     /\ ble' = CASE m = "ble" -> "on"
                 [] m \in {"off", "wifi"} /\ connectivity = "ble" -> "stopped"
                 [] OTHER -> ble
     /\ sendFunc' = CASE m = "ble" -> "ble" [] m = "other" -> sendFunc [] OTHER -> "null"

SetConnectivity(m) ==
  /\ duk = "run"
  /\ misused' = (misused \/ MisuseSetConnectivity(m))
  /\ \/ /\ connectivity = "wifi" /\ m \in {"off", "ble"}
        /\ duk' = "stop"
        /\ newcon' = m
        /\ running' = 0
        /\ UNCHANGED <<connectivity, sendFunc, ble>>
     \/ /\ connectivity = "wifi" => m \notin {"off", "ble"}
        /\ Switch(m)
        /\ UNCHANGED <<newcon, running>>
  /\ UNCHANGED <<wifiVars, srvVars, netVars>>

(* websocket_stop returns, and the rest of wifi_connectivity_stop follows. *)
Stopped ==
  /\ duk = "stop"
  /\ running = 2
  /\ wifi' = "off" /\ cfg' = FALSE
  /\ Switch(newcon)
  /\ UNCHANGED <<newcon, running, misused, srvVars, netVars>>

(* wifiConfigure with a password that is too short, *)
WifiConfigureRefused ==
  /\ duk = "run"
  /\ connectivity' = "off"
  /\ misused' = (misused \/ MisuseWifiConfigure)
  /\ UNCHANGED <<duk, newcon, sendFunc, wifiVars, ble, running, srvVars, netVars>>

(* with a network that cannot be joined, *)
WifiConfigureFails ==
  /\ duk = "run"
  /\ wifi = "off"
  /\ wifi' = "left"
  /\ connectivity' = "off"
  /\ misused' = (misused \/ MisuseWifiConfigure)
  /\ UNCHANGED <<duk, newcon, sendFunc, ble, cfg, running, srvVars, netVars>>

(* with an access point or a network that can, *)
WifiConfigureWorks ==
  /\ duk = "run"
  /\ wifi = "off"
  /\ wifi' = "on"
  /\ cfg' = TRUE
  /\ sendFunc' = "ws"
  /\ running' = 1
  /\ srv' = "start"
  /\ misused' = (misused \/ MisuseWifiConfigure)
  /\ UNCHANGED <<duk, newcon, connectivity, ble, conn, open, events, lost, netVars>>

(* and again: wifi_start's esp_event_loop_create_default fails. *)
WifiConfigureAborts ==
  /\ duk = "run"
  /\ wifi # "off"
  /\ duk' = "aborted"
  /\ misused' = (misused \/ MisuseWifiConfigure)
  /\ UNCHANGED <<newcon, connectivity, sendFunc, wifiVars, ble, running, srvVars, netVars>>

Reboot ==
  /\ duk = "aborted"
  /\ Started
  /\ client' = [c \in Conns |-> IF client[c] = "new" THEN "new" ELSE "closed"]
  /\ backlog' = <<>>
  /\ inbox' = [c \in Conns |-> <<>>]
  /\ UNCHANGED written

ScriptCall ==
  \/ \E m \in Modes : SetConnectivity(m)
  \/ WifiConfigureRefused
  \/ WifiConfigureFails
  \/ WifiConfigureWorks
  \/ WifiConfigureAborts

-----------------------------------------------------------------------------

(* After an abort nothing runs but the start of the board. *)
Next ==
  \/ duk # "aborted" /\ \E c \in Conns : Connect(c) \/ Write(c) \/ Close(c)
  \/ duk # "aborted" /\ SrvStep
  \/ ScriptCall
  \/ Stopped
  \/ Reboot

Spec == Init /\ [][Next]_vars

(* Both tasks run; scripts and clients do what they like.  SrvEnd covers   *)
(* the time-out of a client that is silent while the server is stopped.    *)
Fairness ==
  /\ WF_vars(duk # "aborted" /\ SrvStep)
  /\ WF_vars(Stopped)

FairSpec == Spec /\ Fairness

-----------------------------------------------------------------------------
(* Properties.                                                             *)

EventsOf(c) == SelectSeq(events, LAMBDA e : e.conn = c)

(* What the application's send uses is up, whatever calls it makes and in  *)
(* whatever order, and the server's task has its configuration for as long *)
(* as it runs.                                                             *)
SendFuncUp ==
  /\ srv # "none" => cfg
  /\ duk = "run" =>
       /\ sendFunc = "ws" => wifi = "on" /\ srv # "none" /\ running = 1
       /\ sendFunc = "ble" => ble = "on"

(* Whatever is chosen and configured in whatever order, by an application  *)
(* that keeps to the rules, getConnectivity tells what is up and nothing   *)
(* else is: also after a station that could not connect and the fallback   *)
(* to an access point (wifimgnt.js:24), and after Bluetooth was left.      *)
(* These two, a configuration of Wifi after a failed one and a second      *)
(* start of Bluetooth, are all that makes the board abort.                 *)
ConnectivityTells ==
  ~misused =>
    /\ ble = "on" <=> connectivity = "ble"
    /\ wifi = "on" => connectivity = "wifi"
    /\ duk = "run" /\ wifi = "on" => sendFunc = "ws"
    /\ duk = "run" /\ wifi # "on" => srv = "none" /\ ~cfg
    /\ duk = "aborted" => wifi = "left" \/ ble # "never"

(* The application sees one client after the other: the events of a client *)
(* are its arrival, its frames and its end, with no event of another in    *)
(* between, also when the server is stopped and started again.             *)
OneClientAtATime ==
  \A k \in DOMAIN events :
    IF events[k].type = "UI_CONNECTED"
    THEN k = 1 \/ events[k - 1].type = "UI_DISCONNECTED"
    ELSE /\ k > 1
         /\ events[k - 1].conn = events[k].conn
         /\ events[k - 1].type # "UI_DISCONNECTED"

(* Every connection that was accepted is closed, but for those whose       *)
(* handshake failed or which came while the server was being stopped: the  *)
(* code forgets about these without closing them.                          *)
ConnectionsClosed == open \subseteq lost \cup {conn}

(* setConnectivity returns: whatever the clients do or do not, and where   *)
(* the server's task is, websocket_stop ends; if there is a server, that   *)
(* is, as websocket_stop waits for its answer also without one.            *)
StopReturns == duk = "stop" /\ srv # "none" ~> duk # "stop"

(* The application is told of the end of every client that it was told of. *)
Present(c) ==
  LET es == EventsOf(c) IN es # <<>> /\ Last(es).type # "UI_DISCONNECTED"

EndIsTold ==
  \A c \in Conns : Present(c) /\ client[c] = "closed" ~> (~Present(c) \/ duk = "aborted")
=============================================================================
