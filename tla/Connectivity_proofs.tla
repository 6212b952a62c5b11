------------------------ MODULE Connectivity_proofs -------------------------
(***************************************************************************)
(* Theorems about Connectivity, for any number of clients, and frames of   *)
(* each, and whatever calls the application makes.                         *)
(***************************************************************************)
EXTENDS Connectivity, SequenceTheorems, TLAPS

Events == [type : {"UI_CONNECTED", "UI_MSG", "UI_DISCONNECTED"}, conn : Conns \cup {Null}]

Types ==
  /\ duk \in {"run", "stop", "aborted"} /\ newcon \in {"off", "ble"}
  /\ connectivity \in Modes /\ sendFunc \in {"null", "ws", "ble"}
  /\ wifi \in {"off", "on", "left"} /\ ble \in {"never", "on", "stopped"}
  /\ cfg \in BOOLEAN /\ running \in {0, 1, 2} /\ misused \in BOOLEAN
  /\ srv \in {"none", "start", "accept", "handshake", "notify", "serve", "deleted", "forget",
              "close"}
  /\ conn \in Conns \cup {Null} /\ backlog \in Seq(Conns)
  /\ events \in Seq(Events)

(* The server's task lives from wifiConfigure until it has answered        *)
(* websocket_stop, which it does only when it is asked.                    *)
TaskWithWifi ==
  /\ cfg <=> wifi = "on"
  /\ srv # "none" => wifi = "on"
  /\ running = 2 => srv = "none"
  /\ srv = "close" => running = 0
  /\ duk = "run" /\ wifi = "on" => running = 1 /\ srv # "none"
  /\ duk = "run" /\ sendFunc = "ws" => wifi = "on"
  /\ duk = "run" /\ sendFunc = "ble" => ble = "on"

(* Wifi is stopped only when it has been chosen.                           *)
StopsWifi == duk = "stop" => connectivity = "wifi"

(* The last event belongs to the client that is served, or is the end of   *)
(* the one that was.                                                       *)
LastEvent ==
  IF srv \in {"serve", "deleted"}
  THEN /\ Len(events) > 0
       /\ events[Len(events)].type # "UI_DISCONNECTED"
       /\ events[Len(events)].conn = conn
  ELSE Len(events) > 0 => events[Len(events)].type = "UI_DISCONNECTED"

(* The server has at most the connection in hand open. *)
OpenIsInHand ==
  IF srv \in {"handshake", "notify", "serve"} THEN open \subseteq lost \cup {conn}
  ELSE open \subseteq lost

IInv ==
  /\ Types
  /\ TaskWithWifi /\ StopsWifi
  /\ LastEvent
  /\ OpenIsInHand
  /\ ConnectivityTells
  /\ OneClientAtATime

-----------------------------------------------------------------------------

LEMMA InitIInv == Init => IInv
  <1> SUFFICES ASSUME Init PROVE IInv
    OBVIOUS
  <1> USE DEF Init
  <1>1. events \in Seq(Events) /\ Len(events) = 0 /\ DOMAIN events = {} /\ backlog \in Seq(Conns)
    OBVIOUS
  <1>2. Types
    BY <1>1 DEF Types, Modes
  <1>3. TaskWithWifi /\ StopsWifi
    BY DEF TaskWithWifi, StopsWifi
  <1>4. LastEvent /\ OpenIsInHand
    BY <1>1 DEF LastEvent, OpenIsInHand
  <1>5. ConnectivityTells
    BY DEF ConnectivityTells
  <1>6. OneClientAtATime
    BY <1>1 DEF OneClientAtATime
  <1>7. QED
    BY <1>2, <1>3, <1>4, <1>5, <1>6 DEF IInv

(* The clients do not touch what duktape_task and the server's task share, *)
(* but for the backlog.                                                    *)
LEMMA ClientsKeep ==
  ASSUME IInv, NEW c \in Conns, Connect(c) \/ Write(c) \/ Close(c)
  PROVE  IInv'
  <1>1. UNCHANGED <<dukVars, running, srvVars>>
    BY DEF Connect, Write, Close
  <1>2. backlog' \in Seq(Conns)
    BY SMTT(60) DEF Connect, Write, Close, IInv, Types
  <1>3. QED
    BY <1>1, <1>2
       DEF dukVars, srvVars, wifiVars, IInv, Types, TaskWithWifi, StopsWifi, LastEvent,
           OpenIsInHand, ConnectivityTells, OneClientAtATime

(* What the server's task does with its connection keeps the order of the  *)
(* events, ...                                                             *)
LEMMA PostKeeps ==
  ASSUME IInv, NEW type \in {"UI_CONNECTED", "UI_MSG", "UI_DISCONNECTED"}, Post(type, conn),
         type = "UI_CONNECTED" => srv = "notify",
         type # "UI_CONNECTED" => srv \in {"serve", "deleted"}
  PROVE  /\ events' \in Seq(Events)
         /\ Len(events') > 0 /\ events'[Len(events')] = [type |-> type, conn |-> conn]
         /\ OneClientAtATime'
  <1>0. Types /\ LastEvent /\ OneClientAtATime
    BY DEF IInv
  <1> DEFINE e == [type |-> type, conn |-> conn]
             n == Len(events)
  <1>1. /\ e \in Events /\ events \in Seq(Events) /\ events' = Append(events, e) /\ n \in Nat
        /\ n = Len(events) /\ DOMAIN events = 1..n
        /\ e.type = type /\ e.conn = conn
    BY <1>0 DEF Types, Events, Post
  <1> HIDE DEF e, n
  <1>2. /\ events' \in Seq(Events) /\ Len(events') = n + 1 /\ events'[n + 1] = e
        /\ \A k \in 1..n : events'[k] = events[k]
        /\ DOMAIN events' = 1..(n + 1)
    BY <1>1
  <1>3. ASSUME NEW k \in 1..n
        PROVE  IF events'[k].type = "UI_CONNECTED"
               THEN k = 1 \/ events'[k - 1].type = "UI_DISCONNECTED"
               ELSE /\ k > 1
                    /\ events'[k - 1].conn = events'[k].conn
                    /\ events'[k - 1].type # "UI_DISCONNECTED"
    <2>1. IF events[k].type = "UI_CONNECTED"
          THEN k = 1 \/ events[k - 1].type = "UI_DISCONNECTED"
          ELSE /\ k > 1
               /\ events[k - 1].conn = events[k].conn
               /\ events[k - 1].type # "UI_DISCONNECTED"
      BY <1>0, <1>1 DEF OneClientAtATime
    <2>2. CASE k = 1
      BY <1>1, <1>2, <2>1, <2>2
    <2>3. CASE k # 1
      <3>1. k - 1 \in 1..n
        BY <1>1, <2>3
      <3>2. events'[k] = events[k] /\ events'[k - 1] = events[k - 1]
        BY <1>2, <3>1
      <3>3. QED
        BY <2>1, <3>2
    <2>4. QED
      BY <2>2, <2>3
  <1>4. IF type = "UI_CONNECTED"
        THEN n = 0 \/ events[n].type = "UI_DISCONNECTED"
        ELSE n > 0 /\ events[n].conn = conn /\ events[n].type # "UI_DISCONNECTED"
    BY <1>0, <1>1 DEF LastEvent
  <1>5. IF events'[n + 1].type = "UI_CONNECTED"
        THEN n + 1 = 1 \/ events'[(n + 1) - 1].type = "UI_DISCONNECTED"
        ELSE /\ n + 1 > 1
             /\ events'[(n + 1) - 1].conn = events'[n + 1].conn
             /\ events'[(n + 1) - 1].type # "UI_DISCONNECTED"
    <2>1. (n + 1) - 1 = n /\ (n > 0 => n \in 1..n)
      BY <1>1
    <2>2. n > 0 => events'[n] = events[n]
      BY <1>2, <2>1
    <2>3. QED
      BY <1>1, <1>2, <1>4, <2>1, <2>2
  <1>6. OneClientAtATime'
    <2>1. ASSUME NEW k \in 1..(n + 1)
          PROVE  IF events'[k].type = "UI_CONNECTED"
                 THEN k = 1 \/ events'[k - 1].type = "UI_DISCONNECTED"
                 ELSE /\ k > 1
                      /\ events'[k - 1].conn = events'[k].conn
                      /\ events'[k - 1].type # "UI_DISCONNECTED"
      <3>1. k \in 1..n \/ k = n + 1
        BY <1>1
      <3>2. QED
        BY <1>3, <1>5, <3>1
    <2>2. QED
      BY <1>2, <2>1 DEF OneClientAtATime
  <1>7. QED
    BY <1>1, <1>2, <1>6 DEF e

(* ... and nothing that the application depends on.                        *)
LEMMA SrvKeeps ==
  ASSUME IInv, SrvStep
  PROVE  IInv'
  <1> USE DEF Srv, dukVars, wifiVars
  <1>1. UNCHANGED dukVars
    BY DEF SrvStep, SrvListen, SrvAccept, SrvAcceptTimeout, SrvHandshake, SrvHandshakeFails,
           SrvConnected, SrvFrame, SrvEnd, SrvDisconnected, SrvForget, SrvClose
  <1>2. srv # "none" /\ StopsWifi'
    BY <1>1 DEF SrvStep, SrvListen, SrvAccept, SrvAcceptTimeout, SrvHandshake,
                SrvHandshakeFails, SrvConnected, SrvFrame, SrvEnd, SrvDisconnected, SrvForget,
                SrvClose, IInv, StopsWifi
  <1>3. CASE SrvListen \/ SrvAcceptTimeout \/ SrvHandshake \/ SrvEnd \/ SrvForget
    BY <1>1, <1>2, <1>3, SMTT(60)
       DEF SrvListen, SrvAcceptTimeout, SrvHandshake, SrvEnd, SrvForget, IInv, Types,
           TaskWithWifi, LastEvent, OpenIsInHand, ConnectivityTells, OneClientAtATime
  <1>4. CASE SrvAccept
    <2>1. conn' \in Conns /\ backlog' \in Seq(Conns)
      BY <1>4 DEF SrvAccept, IInv, Types
    <2>2. QED
      BY <1>1, <1>2, <1>4, <2>1
         DEF SrvAccept, IInv, Types, TaskWithWifi, LastEvent, OpenIsInHand, ConnectivityTells,
             OneClientAtATime
  <1>5. CASE SrvHandshakeFails
    BY <1>1, <1>2, <1>5
       DEF SrvHandshakeFails, IInv, Types, TaskWithWifi, LastEvent, OpenIsInHand,
           ConnectivityTells, OneClientAtATime
  <1>6. CASE SrvConnected \/ SrvFrame \/ SrvDisconnected
    <2>1. PICK type \in {"UI_CONNECTED", "UI_MSG", "UI_DISCONNECTED"} :
            /\ Post(type, conn)
            /\ type = "UI_CONNECTED" => srv = "notify" /\ srv' = "serve"
            /\ type = "UI_MSG" => srv = "serve" /\ srv' = "serve"
            /\ type = "UI_DISCONNECTED" => srv = "deleted" /\ srv' = "forget"
      BY <1>6 DEF SrvConnected, SrvFrame, SrvDisconnected
    <2>2. /\ events' \in Seq(Events)
          /\ Len(events') > 0 /\ events'[Len(events')] = [type |-> type, conn |-> conn]
          /\ OneClientAtATime'
      BY <2>1, PostKeeps
    <2>3. UNCHANGED <<running, conn, open, lost, backlog>>
      BY <1>6 DEF SrvConnected, SrvFrame, SrvDisconnected
    <2>4. LastEvent'
      BY <2>1, <2>2, <2>3 DEF LastEvent
    <2>5. Types' /\ TaskWithWifi' /\ OpenIsInHand' /\ ConnectivityTells'
      BY <1>1, <1>2, <2>1, <2>2, <2>3
         DEF IInv, Types, TaskWithWifi, OpenIsInHand, ConnectivityTells
    <2>6. QED
      BY <1>2, <2>2, <2>4, <2>5 DEF IInv
  <1>7. CASE SrvClose
    <2>1. backlog' \in Seq(Conns)
      BY <1>7 DEF SrvClose
    <2>2. duk # "run"
      BY <1>7 DEF SrvClose, IInv, TaskWithWifi
    <2>3. QED
      BY <1>1, <1>2, <1>7, <2>1, <2>2
         DEF SrvClose, IInv, Types, TaskWithWifi, LastEvent, OpenIsInHand, ConnectivityTells,
             OneClientAtATime
  <1>8. QED
    BY <1>3, <1>4, <1>5, <1>6, <1>7 DEF SrvStep

(* The calls of the application, of which none touches the connections.    *)
LEMMA CallsKeep ==
  ASSUME IInv, ScriptCall \/ Stopped
  PROVE  IInv'
  <1> USE DEF srvVars, netVars, wifiVars, Modes
  <1>1. UNCHANGED <<conn, open, events, lost, backlog>>
    BY DEF ScriptCall, SetConnectivity, WifiConfigureRefused, WifiConfigureFails,
           WifiConfigureWorks, WifiConfigureAborts, Stopped
  <1>2. OneClientAtATime'
    BY <1>1 DEF IInv, OneClientAtATime
  <1>3. LastEvent' /\ OpenIsInHand'
    <2>1. srv' = srv \/ (srv = "none" /\ srv' = "start")
      BY DEF ScriptCall, SetConnectivity, WifiConfigureRefused, WifiConfigureFails,
             WifiConfigureWorks, WifiConfigureAborts, Stopped, IInv, TaskWithWifi
    <2>2. QED
      BY <1>1, <2>1 DEF IInv, LastEvent, OpenIsInHand
  <1>4. /\ Types /\ TaskWithWifi /\ StopsWifi /\ ConnectivityTells
        /\ misused \in BOOLEAN /\ cfg \in BOOLEAN
    BY DEF IInv, Types
  <1>5. ASSUME NEW m \in Modes, SetConnectivity(m)
        PROVE  Types' /\ TaskWithWifi' /\ StopsWifi' /\ ConnectivityTells'
    <2>1. /\ misused' \in BOOLEAN
          /\ ~misused' => ~misused /\ ~MisuseSetConnectivity(m)
      BY <1>4, <1>5 DEF SetConnectivity
    <2>2. duk = "run" /\ UNCHANGED <<wifi, cfg, srv>>
      BY <1>5 DEF SetConnectivity
    <2>3. CASE /\ connectivity = "wifi" /\ m \in {"off", "ble"} /\ duk' = "stop" /\ newcon' = m
               /\ running' = 0 /\ UNCHANGED <<connectivity, sendFunc, ble>>
      BY <1>1, <1>4, <2>1, <2>2, <2>3
         DEF Types, TaskWithWifi, StopsWifi, ConnectivityTells, MisuseSetConnectivity
    <2>4. CASE /\ connectivity = "wifi" => m \notin {"off", "ble"}
               /\ Switch(m) /\ UNCHANGED <<newcon, running>>
      <3>1. CASE m = "ble" /\ ble # "never" /\ duk' = "aborted" /\ UNCHANGED <<connectivity, sendFunc, ble>>
        BY <1>1, <1>4, <2>1, <2>2, <2>4, <3>1
           DEF Types, TaskWithWifi, StopsWifi, ConnectivityTells, MisuseSetConnectivity
      <3>2. CASE /\ m = "ble" => ble = "never"
                 /\ duk' = "run"
                 /\ connectivity' = m
                 /\ ble' = CASE m = "ble" -> "on"
                             [] m \in {"off", "wifi"} /\ connectivity = "ble" -> "stopped"
                             [] OTHER -> ble
                 /\ sendFunc' = CASE m = "ble" -> "ble" [] m = "other" -> sendFunc [] OTHER -> "null"
        BY <1>1, <1>4, <2>1, <2>2, <2>4, <3>2
           DEF Types, TaskWithWifi, StopsWifi, ConnectivityTells, MisuseSetConnectivity
      <3>3. QED
        BY <2>4, <3>1, <3>2 DEF Switch
    <2>5. QED
      BY <1>5, <2>3, <2>4 DEF SetConnectivity
  <1>6. CASE WifiConfigureRefused \/ WifiConfigureFails
    <2>1. misused' \in BOOLEAN /\ (~misused' => ~misused /\ connectivity = "wifi" /\ wifi # "on")
      BY <1>4, <1>6 DEF WifiConfigureRefused, WifiConfigureFails, MisuseWifiConfigure
    <2>2. /\ UNCHANGED <<duk, newcon, sendFunc, ble, cfg, running, srv>> /\ connectivity' = "off"
          /\ duk = "run" /\ (wifi' = wifi \/ (wifi = "off" /\ wifi' = "left"))
      BY <1>6 DEF WifiConfigureRefused, WifiConfigureFails
    <2>3. QED
      <3>1. Types'
        BY <1>1, <1>4, <2>1, <2>2 DEF Types
      <3>2. TaskWithWifi'
        BY <1>1, <1>4, <2>1, <2>2 DEF Types, TaskWithWifi
      <3>3. StopsWifi'
        BY <1>1, <1>4, <2>1, <2>2 DEF Types, StopsWifi, ConnectivityTells
      <3>4. ConnectivityTells'
        BY <1>1, <1>4, <2>1, <2>2 DEF Types, TaskWithWifi, StopsWifi, ConnectivityTells
      <3>5. QED
        BY <1>2, <1>3, <3>1, <3>2, <3>3, <3>4 DEF IInv
  <1>7. CASE WifiConfigureWorks
    <2>1. misused' \in BOOLEAN /\ (~misused' => ~misused /\ connectivity = "wifi" /\ wifi # "on")
      BY <1>4, <1>7 DEF WifiConfigureWorks, MisuseWifiConfigure
    <2>2. /\ UNCHANGED <<duk, newcon, connectivity, ble>> /\ duk = "run" /\ wifi = "off"
          /\ wifi' = "on" /\ cfg' /\ cfg' \in BOOLEAN /\ sendFunc' = "ws" /\ running' = 1
          /\ srv' = "start"
      BY <1>7 DEF WifiConfigureWorks
    <2>3. QED
      <3>1. Types'
        BY <1>1, <1>4, <2>1, <2>2 DEF Types
      <3>2. TaskWithWifi'
        BY <1>1, <1>4, <2>1, <2>2 DEF Types, TaskWithWifi
      <3>3. StopsWifi'
        BY <1>1, <1>4, <2>1, <2>2 DEF Types, StopsWifi, ConnectivityTells
      <3>4. ConnectivityTells'
        BY <1>1, <1>4, <2>1, <2>2 DEF Types, TaskWithWifi, StopsWifi, ConnectivityTells
      <3>5. QED
        BY <1>2, <1>3, <3>1, <3>2, <3>3, <3>4 DEF IInv
  <1>8. CASE WifiConfigureAborts
    <2>1. misused' \in BOOLEAN /\ wifi # "off" /\ (~misused' => ~misused /\ wifi # "on")
      BY <1>4, <1>8 DEF WifiConfigureAborts, MisuseWifiConfigure
    <2>2. /\ UNCHANGED <<newcon, connectivity, sendFunc, wifi, cfg, ble, running, srv>>
          /\ duk' = "aborted"
      BY <1>8 DEF WifiConfigureAborts
    <2>3. QED
      <3>1. Types'
        BY <1>1, <1>4, <2>1, <2>2 DEF Types
      <3>2. TaskWithWifi'
        BY <1>1, <1>4, <2>1, <2>2 DEF Types, TaskWithWifi
      <3>3. StopsWifi'
        BY <1>1, <1>4, <2>1, <2>2 DEF Types, StopsWifi, ConnectivityTells
      <3>4. ConnectivityTells'
        BY <1>1, <1>4, <2>1, <2>2 DEF Types, TaskWithWifi, StopsWifi, ConnectivityTells
      <3>5. QED
        BY <1>2, <1>3, <3>1, <3>2, <3>3, <3>4 DEF IInv
  <1>9. CASE Stopped
    <2>1. /\ duk = "stop" /\ srv = "none" /\ wifi' = "off" /\ ~cfg' /\ cfg' \in BOOLEAN
          /\ UNCHANGED <<newcon, running, misused, srv>> /\ running = 2
      BY <1>4, <1>9 DEF Stopped, Types, TaskWithWifi
    <2>2. CASE newcon = "ble" /\ ble # "never" /\ duk' = "aborted" /\ UNCHANGED <<connectivity, sendFunc, ble>>
      <3>1. Types'
        BY <1>1, <1>4, <2>1, <2>2 DEF Types
      <3>2. TaskWithWifi'
        BY <1>1, <1>4, <2>1, <2>2 DEF Types, TaskWithWifi
      <3>3. StopsWifi'
        BY <1>1, <1>4, <2>1, <2>2 DEF Types, StopsWifi, ConnectivityTells
      <3>4. ConnectivityTells'
        BY <1>1, <1>4, <2>1, <2>2 DEF Types, TaskWithWifi, StopsWifi, ConnectivityTells
      <3>5. QED
        BY <1>2, <1>3, <3>1, <3>2, <3>3, <3>4 DEF IInv
    <2>3. CASE /\ newcon = "ble" => ble = "never"
               /\ duk' = "run"
               /\ connectivity' = newcon
               /\ ble' = CASE newcon = "ble" -> "on"
                           [] newcon \in {"off", "wifi"} /\ connectivity = "ble" -> "stopped"
                           [] OTHER -> ble
               /\ sendFunc' = CASE newcon = "ble" -> "ble" [] newcon = "other" -> sendFunc
                             [] OTHER -> "null"
      <3>1. Types'
        BY <1>1, <1>4, <2>1, <2>3 DEF Types
      <3>2. TaskWithWifi'
        BY <1>1, <1>4, <2>1, <2>3 DEF Types, TaskWithWifi
      <3>3. StopsWifi'
        BY <1>1, <1>4, <2>1, <2>3 DEF Types, StopsWifi, ConnectivityTells
      <3>4. ConnectivityTells'
        BY <1>1, <1>4, <2>1, <2>3 DEF Types, TaskWithWifi, StopsWifi, ConnectivityTells
      <3>5. QED
        BY <1>2, <1>3, <3>1, <3>2, <3>3, <3>4 DEF IInv
    <2>4. QED
      BY <1>9, <2>2, <2>3 DEF Stopped, Switch
  <1>10. QED
    BY <1>2, <1>3, <1>5, <1>6, <1>7, <1>8, <1>9 DEF ScriptCall, IInv

LEMMA StepKeeps == IInv /\ [Next]_vars => IInv'
  <1> SUFFICES ASSUME IInv, [Next]_vars PROVE IInv'
    OBVIOUS
  <1>1. CASE Reboot
    <2> USE <1>1 DEF Reboot, Started
    <2>1. /\ events' \in Seq(Events) /\ Len(events') = 0 /\ DOMAIN events' = {}
          /\ backlog' \in Seq(Conns)
      OBVIOUS
    <2>2. Types'
      BY <2>1 DEF Types, Modes
    <2>3. TaskWithWifi' /\ StopsWifi' /\ ConnectivityTells'
      BY DEF TaskWithWifi, StopsWifi, ConnectivityTells
    <2>4. LastEvent' /\ OpenIsInHand' /\ OneClientAtATime'
      BY <2>1 DEF LastEvent, OpenIsInHand, OneClientAtATime
    <2>5. QED
      BY <2>2, <2>3, <2>4 DEF IInv
  <1>2. CASE UNCHANGED vars
    BY <1>2 DEF vars, dukVars, srvVars, wifiVars, netVars, IInv, Types, TaskWithWifi,
                StopsWifi, LastEvent, OpenIsInHand, ConnectivityTells, OneClientAtATime
  <1>3. QED
    BY <1>1, <1>2, ClientsKeep, SrvKeeps, CallsKeep DEF Next

LEMMA AlwaysIInv == Spec => []IInv
  BY InitIInv, StepKeeps, PTL DEF Spec

(* What the application sends with is up, and the server's task has its    *)
(* configuration, whatever calls are made and whatever clients do.         *)
THEOREM SendFuncIsUp == Spec => []SendFuncUp
  <1>1. IInv => SendFuncUp
    BY DEF IInv, TaskWithWifi, SendFuncUp
  <1>2. QED
    BY AlwaysIInv, <1>1, PTL

(* getConnectivity tells an application that keeps to the rules what is    *)
(* up, also after a station that could not connect, the fallback that      *)
(* follows it and a second start of Bluetooth, which alone make the board  *)
(* abort.                                                                  *)
THEOREM ConnectivityIsTold == Spec => []ConnectivityTells
  <1>1. IInv => ConnectivityTells
    BY DEF IInv
  <1>2. QED
    BY AlwaysIInv, <1>1, PTL

(* The events of two clients are never mixed, though the server is stopped *)
(* and started while they come and go.                                     *)
THEOREM ClientsOneAtATime == Spec => []OneClientAtATime
  <1>1. IInv => OneClientAtATime
    BY DEF IInv
  <1>2. QED
    BY AlwaysIInv, <1>1, PTL

(* No connection stays open but those that the code forgets.               *)
THEOREM ConnectionsAreClosed == Spec => []ConnectionsClosed
  <1>1. IInv => ConnectionsClosed
    BY DEF IInv, OpenIsInHand, ConnectionsClosed
  <1>2. QED
    BY AlwaysIInv, <1>1, PTL
=============================================================================
