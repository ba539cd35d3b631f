----------------------------- MODULE MeshNode ------------------------------
(***************************************************************************)
(* One node of the mesh from power-on: the boot sequence of app_main, the  *)
(* default event loop's task, which runs mesh_event_handler and            *)
(* ip_event_handler, and the tasks these start.  The ESP-MESH stack, the   *)
(* DHCP client and the flash driver are external: they post events, in     *)
(* order, into the event loop's bounded queue.  What the node is built as  *)
(* and whether its Ethernet chip answers is chosen in Init.                *)
(***************************************************************************)
EXTENDS Naturals, Sequences

CONSTANTS
    TaskFails,   \* xTaskCreate may fail for lack of memory
    QueueSize,   \* length of the default event loop's queue (32 in sdkconfig)
    MaxLinks,    \* bound: connections to a parent since power-on
    MaxCrashes   \* bound: power losses, panics and aborts

ASSUME NodeAssumption ==
    /\ TaskFails \in BOOLEAN
    /\ QueueSize \in Nat \ {0}
    /\ MaxLinks \in Nat
    /\ MaxCrashes \in Nat

VARIABLES
    \* flash
    nvs,               \* "ok" or "full": nvs_flash_init refuses it
    \* app_main
    pc,                \* the next call of app_main
    rx_led_handle,     \* the RX LED task exists
    netif_sta,         \* the station's network interface exists
    mesh_current_addr, \* the node's own address is known
    handlers,          \* event bases with a registered handler
    \* the mesh stack and the DHCP client
    linked,            \* the stack is connected to a parent
    links,             \* connections so far
    announced,         \* the root's address was posted since then
    dhcpc,             \* "stopped", "started" or "bound"
    events,            \* the event loop's queue
    \* what the handlers write
    is_mesh_connected,
    mesh_root_addr,    \* the root's address is known
    toDS,              \* the root told the mesh that the network is reachable
    locks,             \* mutexes created for route_table_lock
    is_comm_started,
    rxTasks,           \* tasks running esp_mesh_rx_main
    is_comm_mqtt_task_started,
    mqttTasks,         \* tasks running esp_mesh_mqtt_task
    \* the node and its environment
    type,              \* of the node: root if CONFIG_ROOT_NODE is set
    w5500,             \* the Ethernet chip answers
    crashes

boot == <<nvs, pc, rx_led_handle, netif_sta, mesh_current_addr, handlers>>
site == <<type, w5500, crashes>>
stack == <<linked, links, announced, dhcpc>>
flags == <<is_mesh_connected, mesh_root_addr, toDS, locks, is_comm_started,
           rxTasks, is_comm_mqtt_task_started, mqttTasks>>
vars == <<boot, stack, events, flags, site>>

Event == {"STARTED", "PARENT_CONNECTED", "PARENT_DISCONNECTED", "ROOT_ADDRESS",
          "GOT_IP"}

TypeOK ==
    /\ nvs \in {"ok", "full"}
    /\ pc \in {"leds", "nvs", "wifi", "eth", "mesh", "idle"}
    /\ rx_led_handle \in BOOLEAN /\ netif_sta \in BOOLEAN
    /\ mesh_current_addr \in BOOLEAN
    /\ linked \in BOOLEAN /\ announced \in BOOLEAN
    /\ is_mesh_connected \in BOOLEAN /\ mesh_root_addr \in BOOLEAN
    /\ toDS \in BOOLEAN
    /\ is_comm_started \in BOOLEAN /\ is_comm_mqtt_task_started \in BOOLEAN
    /\ handlers \subseteq {"MESH", "IP"}
    /\ links \in 0..MaxLinks
    /\ dhcpc \in {"stopped", "started", "bound"}
    /\ events \in Seq(Event) /\ Len(events) <= QueueSize
    /\ locks \in Nat
    /\ rxTasks \in Nat /\ mqttTasks \in Nat
    /\ type \in {"MESH_ROOT", "MESH_LEAF"} /\ w5500 \in BOOLEAN
    /\ crashes \in 0..MaxCrashes

Init ==
    /\ nvs \in {"ok", "full"}
    /\ type \in {"MESH_ROOT", "MESH_LEAF"} /\ w5500 \in BOOLEAN
    /\ crashes = 0
    /\ pc = "leds"
    /\ rx_led_handle = FALSE /\ netif_sta = FALSE /\ mesh_current_addr = FALSE
    /\ handlers = {}
    /\ linked = FALSE /\ links = 0 /\ announced = FALSE /\ dhcpc = "stopped"
    /\ events = << >>
    /\ is_mesh_connected = FALSE /\ mesh_root_addr = FALSE /\ toDS = FALSE
    /\ locks = 0
    /\ is_comm_started = FALSE /\ rxTasks = 0
    /\ is_comm_mqtt_task_started = FALSE /\ mqttTasks = 0

-----------------------------------------------------------------------------
(***************************************************************************)
(* app_main.  A failing ESP_ERROR_CHECK aborts and the node boots again:   *)
(* EthAborts where it fails each time, and Crash.                          *)
(***************************************************************************)

\* Mutant: the mesh is started before the interfaces it needs.
NextCall_meshFirst ==
    [leds |-> "mesh", mesh |-> "nvs", nvs |-> "wifi", wifi |-> "eth", eth |-> "idle"]

\* The order of the calls in app_main; nvs and wifi are initialize_wifi.
NextCall ==
    [leds |-> "nvs", nvs |-> "wifi", wifi |-> "eth", eth |-> "mesh", mesh |-> "idle"]

Calls(f) == pc = f /\ pc' = NextCall[f]

\* xTaskCreate adds a task to the n there are, or fails and nobody looks.
xTaskCreate(n, new) == new \in IF TaskFails THEN {n, n + 1} ELSE {n + 1}

\* setup_indicator_leds and start_rx_led, the first and only call of it.
setup_indicator_leds ==
    /\ Calls("leds")
    /\ rx_led_handle' \in (IF TaskFails THEN BOOLEAN ELSE {TRUE})
    /\ UNCHANGED <<nvs, netif_sta, mesh_current_addr, handlers, stack, events,
                   flags, site>>

\* Mutant: the first error is returned, the flash is not erased.
ErasesNvs_never == FALSE

\* nvs_flash_init's errors for a flash it cannot use.
ErasesNvs == nvs = "full"

\* nvs_flash_init, the erase if it is needed, and the second nvs_flash_init.
InitNvs ==
    /\ pc = "nvs"
    /\ \/ /\ ErasesNvs
          /\ nvs' = "ok"
          /\ UNCHANGED pc
       \/ /\ nvs = "ok"
          /\ pc' = NextCall["nvs"]
          /\ UNCHANGED nvs
    /\ UNCHANGED <<rx_led_handle, netif_sta, mesh_current_addr, handlers, stack,
                   events, flags, site>>

\* The rest of initialize_wifi.
initialize_wifi ==
    /\ Calls("wifi")
    /\ netif_sta' = TRUE
    /\ handlers' = handlers \cup {"IP"}
    /\ mesh_current_addr' = TRUE
    /\ UNCHANGED <<nvs, rx_led_handle, stack, events, flags, site>>

\* init_eth with a W5500 that answers: it leaves nothing the mesh depends on.
init_eth ==
    /\ Calls("eth") /\ w5500
    /\ UNCHANGED <<nvs, rx_led_handle, netif_sta, mesh_current_addr, handlers,
                   stack, events, flags, site>>

\* Mutant: one event too many is posted.
HasRoom_offbyone == Len(events) <= QueueSize

\* The stack and the DHCP client wait for room in the event loop's queue.
HasRoom == Len(events) < QueueSize

\* start_mesh: the handler is registered before the stack can post anything.
start_mesh ==
    /\ Calls("mesh")
    /\ HasRoom
    /\ handlers' = handlers \cup {"MESH"}
    /\ events' = Append(events, "STARTED")
    /\ UNCHANGED <<nvs, rx_led_handle, netif_sta, mesh_current_addr, stack, flags,
                   site>>

-----------------------------------------------------------------------------
(***************************************************************************)
(* The mesh stack and the DHCP client, as the handlers see them.           *)
(***************************************************************************)

MeshRuns == "MESH" \in handlers

ParentConnects ==
    /\ MeshRuns /\ ~linked /\ HasRoom
    /\ links < MaxLinks
    /\ linked' = TRUE
    /\ links' = links + 1
    /\ announced' = FALSE
    /\ events' = Append(events, "PARENT_CONNECTED")
    /\ UNCHANGED <<boot, dhcpc, flags, site>>

\* The lease is lost with the link.
ParentLost ==
    /\ linked /\ HasRoom
    /\ linked' = FALSE
    /\ dhcpc' = IF dhcpc = "bound" THEN "started" ELSE dhcpc
    /\ events' = Append(events, "PARENT_DISCONNECTED")
    /\ UNCHANGED <<boot, links, announced, flags, site>>

LearnsRoot ==
    /\ linked /\ ~announced /\ HasRoom
    /\ announced' = TRUE
    /\ events' = Append(events, "ROOT_ADDRESS")
    /\ UNCHANGED <<boot, linked, links, dhcpc, flags, site>>

\* Only a node whose DHCP client runs gets a lease.
DhcpBinds ==
    /\ linked /\ HasRoom
    /\ dhcpc = "started"
    /\ dhcpc' = "bound"
    /\ events' = Append(events, "GOT_IP")
    /\ UNCHANGED <<boot, linked, links, announced, flags, site>>

-----------------------------------------------------------------------------
(***************************************************************************)
(* The event loop's task: one event at a time, in the order of posting.    *)
(***************************************************************************)

Takes(e) ==
    /\ events # << >>
    /\ Head(events) = e
    /\ events' = Tail(events)

\* MESH_EVENT_STARTED
OnStarted ==
    /\ Takes("STARTED")
    /\ is_mesh_connected' = FALSE
    /\ UNCHANGED <<boot, stack, mesh_root_addr, toDS, locks, is_comm_started,
                   rxTasks, is_comm_mqtt_task_started, mqttTasks, site>>

\* Mutant: the flag is not set, every connection starts another task.
comm_start_again ==
    /\ xTaskCreate(rxTasks, rxTasks')
    /\ UNCHANGED is_comm_started

\* Mutant: the guard is the wrong way round.
comm_start_never ==
    IF is_comm_started
    THEN xTaskCreate(rxTasks, rxTasks') /\ UNCHANGED is_comm_started
    ELSE UNCHANGED <<is_comm_started, rxTasks>>

\* The flag is set first, and stays set when xTaskCreate fails.
esp_mesh_comm_start ==
    IF is_comm_started
    THEN UNCHANGED <<is_comm_started, rxTasks>>
    ELSE is_comm_started' = TRUE /\ xTaskCreate(rxTasks, rxTasks')

\* Mutant: every node asks for an address.
AsksForAddress_all == TRUE

\* esp_mesh_is_root(): the type is fixed by esp_mesh_set_type.
AsksForAddress == type = "MESH_ROOT"

\* Mutant: a lost parent is not noted.
Connected_sticky(up) == TRUE

\* What MESH_EVENT_PARENT_CONNECTED and _DISCONNECTED store.
Connected(up) == up

\* MESH_EVENT_PARENT_CONNECTED: the root's DHCP client is stopped and started.
OnParentConnected ==
    /\ Takes("PARENT_CONNECTED")
    /\ is_mesh_connected' = Connected(TRUE)
    /\ dhcpc' = IF AsksForAddress /\ netif_sta THEN "started" ELSE dhcpc
    /\ esp_mesh_comm_start
    /\ UNCHANGED <<boot, linked, links, announced, mesh_root_addr, toDS, locks,
                   is_comm_mqtt_task_started, mqttTasks, site>>

\* MESH_EVENT_PARENT_DISCONNECTED
OnParentDisconnected ==
    /\ Takes("PARENT_DISCONNECTED")
    /\ is_mesh_connected' = Connected(FALSE)
    /\ UNCHANGED <<boot, stack, mesh_root_addr, toDS, locks, is_comm_started,
                   rxTasks, is_comm_mqtt_task_started, mqttTasks, site>>

\* MESH_EVENT_ROOT_ADDRESS
OnRootAddress ==
    /\ Takes("ROOT_ADDRESS")
    /\ mesh_root_addr' = TRUE
    /\ UNCHANGED <<boot, stack, is_mesh_connected, toDS, locks, is_comm_started,
                   rxTasks, is_comm_mqtt_task_started, mqttTasks, site>>

\* Mutant: a new lease starts another MQTT task.
mqtt_task_start_again ==
    /\ xTaskCreate(mqttTasks, mqttTasks')
    /\ is_comm_mqtt_task_started' = TRUE

\* Mutant: the guard is the wrong way round.
mqtt_task_start_never ==
    IF is_comm_mqtt_task_started
    THEN xTaskCreate(mqttTasks, mqttTasks') /\ UNCHANGED is_comm_mqtt_task_started
    ELSE UNCHANGED <<is_comm_mqtt_task_started, mqttTasks>>

\* The task is created first, then the flag is set, whatever the result.
esp_mesh_comm_mqtt_task_start ==
    IF is_comm_mqtt_task_started
    THEN UNCHANGED <<is_comm_mqtt_task_started, mqttTasks>>
    ELSE xTaskCreate(mqttTasks, mqttTasks') /\ is_comm_mqtt_task_started' = TRUE

\* ip_event_handler: every lease creates another mutex.
OnGotIp ==
    /\ Takes("GOT_IP")
    /\ toDS' = (toDS \/ type = "MESH_ROOT")
    /\ locks' = locks + 1
    /\ esp_mesh_comm_mqtt_task_start
    /\ UNCHANGED <<boot, stack, is_mesh_connected, mesh_root_addr, is_comm_started,
                   rxTasks, site>>

-----------------------------------------------------------------------------
\* What is in flash survives, everything else is in RAM.
Reboot ==
    /\ pc' = "leds"
    /\ rx_led_handle' = FALSE /\ netif_sta' = FALSE /\ mesh_current_addr' = FALSE
    /\ handlers' = {}
    /\ linked' = FALSE /\ links' = 0 /\ announced' = FALSE /\ dhcpc' = "stopped"
    /\ events' = << >>
    /\ is_mesh_connected' = FALSE /\ mesh_root_addr' = FALSE /\ toDS' = FALSE
    /\ locks' = 0
    /\ is_comm_started' = FALSE /\ rxTasks' = 0
    /\ is_comm_mqtt_task_started' = FALSE /\ mqttTasks' = 0
    /\ UNCHANGED <<nvs, type, w5500>>

\* ethernet_init_all finds no W5500, and the ESP_ERROR_CHECK in init_eth aborts.
EthAborts ==
    /\ pc = "eth" /\ ~w5500
    /\ Reboot
    /\ UNCHANGED crashes

\* A power loss, a panic, or an error of any other call that is checked.
Crash ==
    /\ crashes < MaxCrashes
    /\ crashes' = crashes + 1
    /\ Reboot

HandleEvent ==
    \/ OnStarted
    \/ OnParentConnected
    \/ OnParentDisconnected
    \/ OnRootAddress
    \/ OnGotIp

AppMain ==
    \/ setup_indicator_leds
    \/ InitNvs
    \/ initialize_wifi
    \/ init_eth
    \/ start_mesh

Next ==
    \/ AppMain
    \/ ParentConnects
    \/ ParentLost
    \/ LearnsRoot
    \/ DhcpBinds
    \/ HandleEvent
    \/ EthAborts
    \/ Crash

Spec == Init /\ [][Next]_vars

\* The main task and the event loop's task run whenever they can, the stack
\* finds a parent again, and a DHCP server answers a client that keeps asking.
Fairness ==
    /\ WF_vars(AppMain)
    /\ WF_vars(HandleEvent)
    /\ WF_vars(ParentConnects)
    /\ WF_vars(DhcpBinds)

FairSpec == Spec /\ Fairness

-----------------------------------------------------------------------------
(***************************************************************************)
(* Properties.                                                             *)
(***************************************************************************)

\* However often the link and the lease come back, one receive task and one
\* MQTT task exist at most: two receive tasks would share rx_buf and tx_buf
\* (mesh.cpp:174-179, mqtt_app.cpp:106-112).
OneTaskEach == rxTasks <= 1 /\ mqttTasks <= 1

\* The MQTT client lives on the root only, although ip_event_handler starts
\* it without asking what the node is (mesh.cpp:316): a leaf's DHCP client is
\* never started (mesh.cpp:237-248).
OnlyRootRunsMqtt == mqttTasks > 0 => type = "MESH_ROOT"

\* When the receive task runs, the interface exists, the node knows its own
\* address, which it compares every sender with (mesh.cpp:77), and the RX LED
\* task exists ("RX LED Indicator needs to be initialized before mesh",
\* main.cpp:50).
ReceiverFindsAllReady ==
    rxTasks > 0 => /\ netif_sta
                   /\ mesh_current_addr
                   /\ TaskFails \/ rx_led_handle

\* With no event pending, is_mesh_connected says what the stack says, however
\* links came and went while events were queued.
SettledFlagIsTrue == events = << >> => is_mesh_connected = linked

\* A node with a W5500 boots up for good once crashes stop, with an unusable
\* flash too, and with a power loss between the erase and the second
\* nvs_flash_init.  Without a W5500 no node ever does (eth_spi_driver.cpp:79).
BootsUp == IF w5500 THEN <>[](pc = "idle") ELSE [](pc # "idle")

\* A node whose link stays up runs its receive task (main.cpp:94, "Listen for
\* packets from internal mesh").
ListensToMesh == <>[]linked => <>[](rxTasks > 0)

\* A root whose link stays up runs its MQTT task (main.cpp:96, "Listen for
\* MQTT messages from broker").
ListensToBroker == type = "MESH_ROOT" /\ <>[]linked => <>[](mqttTasks > 0)
=============================================================================
