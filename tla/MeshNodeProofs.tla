--------------------------- MODULE MeshNodeProofs ---------------------------
(***************************************************************************)
(* Proofs about MeshNode, for every length of the event loop's queue and   *)
(* every number of connections and crashes: type correctness, and the four *)
(* safety invariants of a node, from one inductive invariant.  Then about  *)
(* NodeLed: the node in it is the node of MeshNode, so all of this holds   *)
(* beside the LED too, and the LED flashes once at most for each return of *)
(* esp_mesh_recv, however many there are.                                  *)
(***************************************************************************)
EXTENDS NodeLed, SequenceTheorems, TLAPS

(***************************************************************************)
(* The inductive invariant.                                                *)
(***************************************************************************)

\* The boot sequence: what has been set up when app_main is at a call.
BootInv ==
    /\ pc # "leds" => TaskFails \/ rx_led_handle
    /\ pc \in {"eth", "mesh", "idle"} => netif_sta /\ mesh_current_addr
    /\ MeshRuns => pc = "idle"

\* Nothing is posted, linked or started before the mesh runs.
QuietBeforeMesh ==
    ~MeshRuns => events = << >> /\ ~linked /\ rxTasks = 0

\* The flags of the two start functions count the tasks.
TasksInv ==
    /\ rxTasks = 0 \/ (rxTasks = 1 /\ is_comm_started)
    /\ mqttTasks = 0 \/ (mqttTasks = 1 /\ is_comm_mqtt_task_started)

\* Only a root's DHCP client is ever started, so only a root gets a lease.
LeaseInv ==
    type = "MESH_LEAF"
    => /\ dhcpc = "stopped"
       /\ \A i \in DOMAIN events : events[i] # "GOT_IP"
       /\ mqttTasks = 0

\* The events after which the handlers change is_mesh_connected.
Status == {"STARTED", "PARENT_CONNECTED", "PARENT_DISCONNECTED"}

\* No status event waits behind the first i events.
NoneAfter(i) == \A j \in DOMAIN events : j > i => events[j] \notin Status

\* The last status event in the queue says what the stack is, and the flag
\* does so when there is none.
FlagInv ==
    /\ NoneAfter(0) => is_mesh_connected = linked
    /\ \A i \in DOMAIN events :
          events[i] \in Status /\ NoneAfter(i)
          => linked = (events[i] = "PARENT_CONNECTED")

NodeInv == BootInv /\ QuietBeforeMesh /\ TasksInv /\ LeaseInv /\ FlagInv

(***************************************************************************)
(* The event loop's queue.                                                 *)
(***************************************************************************)

\* Posting an event leaves the earlier ones where they are.
LEMMA Posting ==
    ASSUME TypeOK, HasRoom, NEW e \in Event, events' = Append(events, e)
    PROVE  /\ events' \in Seq(Event)
           /\ Len(events') = Len(events) + 1
           /\ Len(events') <= QueueSize
           /\ \A i \in 1..Len(events) : events'[i] = events[i]
           /\ events'[Len(events) + 1] = e
<1>1. events \in Seq(Event) /\ Len(events) \in Nat
  BY LenProperties DEF TypeOK
<1> QED BY <1>1, AppendProperties, NodeAssumption DEF HasRoom

\* Taking an event moves the later ones one place forward.
LEMMA Taking ==
    ASSUME TypeOK, NEW e, Takes(e)
    PROVE  /\ events' \in Seq(Event)
           /\ Len(events) >= 1
           /\ Len(events') = Len(events) - 1
           /\ events[1] = e
           /\ \A i \in 1..Len(events') : events'[i] = events[i + 1]
<1>1. events \in Seq(Event) /\ events # << >>
  BY DEF TypeOK, Takes
<1>2. /\ events' = Tail(events)
      /\ Head(events) = e
  BY DEF Takes
<1> QED BY <1>1, <1>2, HeadTailProperties, LenProperties, EmptySeq

\* A power loss empties the queue.
LEMMA NoEvents == << >> \in Seq(Event) /\ Len(<< >>) = 0
BY EmptySeq

-----------------------------------------------------------------------------
(***************************************************************************)
(* Type correctness.                                                       *)
(***************************************************************************)

\* The queue of a state in which it is unchanged.
LEMMA QueueUnchanged ==
    ASSUME TypeOK, UNCHANGED events
    PROVE  events' \in Seq(Event) /\ Len(events') <= QueueSize
BY DEF TypeOK

\* xTaskCreate adds one task or none.
LEMMA TaskCount ==
    ASSUME NEW n \in Nat, NEW new, xTaskCreate(n, new)
    PROVE  new \in Nat /\ (new = n \/ new = n + 1)
BY DEF xTaskCreate

\* The initial states are well typed.
LEMMA InitTypeOK == Init => TypeOK
<1> SUFFICES ASSUME Init PROVE TypeOK
  OBVIOUS
<1>1. events \in Seq(Event) /\ Len(events) <= QueueSize
  BY NoEvents, NodeAssumption DEF Init
<1>2. crashes \in 0..MaxCrashes
  BY NodeAssumption DEF Init
<1>3. handlers \subseteq {"MESH", "IP"} /\ links \in 0..MaxLinks
  BY NodeAssumption DEF Init
<1> QED BY <1>1, <1>2, <1>3 DEF Init, TypeOK

\* Every step of app_main keeps the types.
LEMMA AppMainTypes == TypeOK /\ AppMain => TypeOK'
<1> SUFFICES ASSUME TypeOK, AppMain PROVE TypeOK'
  OBVIOUS
<1>1. CASE setup_indicator_leds
  <2>1. rx_led_handle' \in BOOLEAN
    BY <1>1 DEF setup_indicator_leds
  <2>2. events' \in Seq(Event) /\ Len(events') <= QueueSize
    BY <1>1, QueueUnchanged DEF setup_indicator_leds
  <2> QED BY <1>1, <2>1, <2>2
          DEF TypeOK, setup_indicator_leds, Calls, NextCall, stack, flags, site
<1>2. CASE InitNvs
  <2>1. events' \in Seq(Event) /\ Len(events') <= QueueSize
    BY <1>2, QueueUnchanged DEF InitNvs
  <2> QED BY <1>2, <2>1 DEF TypeOK, InitNvs, NextCall, stack, flags, site
<1>3. CASE initialize_wifi
  <2>1. events' \in Seq(Event) /\ Len(events') <= QueueSize
    BY <1>3, QueueUnchanged DEF initialize_wifi
  <2> QED BY <1>3, <2>1 DEF TypeOK, initialize_wifi, Calls, NextCall, stack, flags, site
<1>4. CASE init_eth
  <2>1. events' \in Seq(Event) /\ Len(events') <= QueueSize
    BY <1>4, QueueUnchanged DEF init_eth
  <2> QED BY <1>4, <2>1 DEF TypeOK, init_eth, Calls, NextCall, stack, flags, site
<1>5. CASE start_mesh
  <2>1. events' \in Seq(Event) /\ Len(events') <= QueueSize
    BY <1>5, Posting DEF start_mesh, Event
  <2> QED BY <1>5, <2>1 DEF TypeOK, start_mesh, Calls, NextCall, stack, flags, site
<1> QED BY <1>1, <1>2, <1>3, <1>4, <1>5 DEF AppMain

\* Every step of the stack and of the DHCP client keeps the types.
LEMMA StackTypes ==
    TypeOK /\ (ParentConnects \/ ParentLost \/ LearnsRoot \/ DhcpBinds) => TypeOK'
<1> SUFFICES ASSUME TypeOK,
                    ParentConnects \/ ParentLost \/ LearnsRoot \/ DhcpBinds
             PROVE  TypeOK'
  OBVIOUS
<1>1. events' \in Seq(Event) /\ Len(events') <= QueueSize
  BY Posting DEF ParentConnects, ParentLost, LearnsRoot, DhcpBinds, Event
<1>2. CASE ParentConnects
  <2>1. links' \in 0..MaxLinks
    BY <1>2, NodeAssumption DEF TypeOK, ParentConnects
  <2>2. linked' \in BOOLEAN /\ announced' \in BOOLEAN
    BY <1>2 DEF ParentConnects
  <2> QED BY <1>1, <1>2, <2>1, <2>2 DEF TypeOK, ParentConnects, boot, flags, site
<1>3. CASE ParentLost
  <2>1. dhcpc' \in {"stopped", "started", "bound"}
    BY <1>3 DEF TypeOK, ParentLost
  <2>2. linked' \in BOOLEAN
    BY <1>3 DEF ParentLost
  <2> QED BY <1>1, <1>3, <2>1, <2>2 DEF TypeOK, ParentLost, boot, flags, site
<1>4. CASE LearnsRoot
  BY <1>1, <1>4 DEF TypeOK, LearnsRoot, boot, flags, site
<1>5. CASE DhcpBinds
  BY <1>1, <1>5 DEF TypeOK, DhcpBinds, boot, flags, site
<1> QED BY <1>2, <1>3, <1>4, <1>5

\* Every event handler keeps the types.
LEMMA HandlerTypes == TypeOK /\ HandleEvent => TypeOK'
<1> SUFFICES ASSUME TypeOK, HandleEvent PROVE TypeOK'
  OBVIOUS
<1>1. \E e \in Event : Takes(e)
  BY DEF HandleEvent, OnStarted, OnParentConnected, OnParentDisconnected,
         OnRootAddress, OnGotIp, Event
<1>2. events' \in Seq(Event) /\ Len(events') <= QueueSize
  <2>1. PICK e \in Event : Takes(e)
    BY <1>1
  <2>2. Len(events) \in Nat /\ Len(events) <= QueueSize
    BY LenProperties DEF TypeOK
  <2> QED BY <2>1, <2>2, Taking, NodeAssumption
<1>3. CASE OnStarted
  <2>1. is_mesh_connected' \in BOOLEAN
    BY <1>3 DEF OnStarted
  <2> QED BY <1>2, <1>3, <2>1 DEF TypeOK, OnStarted, boot, stack, site
<1>4. CASE OnParentConnected
  <2>1. is_comm_started' \in BOOLEAN /\ rxTasks' \in Nat
    BY <1>4, TaskCount DEF TypeOK, OnParentConnected, esp_mesh_comm_start
  <2>2. dhcpc' \in {"stopped", "started", "bound"}
    BY <1>4 DEF TypeOK, OnParentConnected
  <2>3. is_mesh_connected' \in BOOLEAN
    BY <1>4 DEF OnParentConnected, Connected
  <2>4. UNCHANGED <<boot, linked, links, announced, mesh_root_addr, toDS, locks,
                    is_comm_mqtt_task_started, mqttTasks, site>>
    BY <1>4 DEF OnParentConnected
  <2> QED BY <1>2, <2>1, <2>2, <2>3, <2>4 DEF TypeOK, boot, site
<1>5. CASE OnParentDisconnected
  <2>1. is_mesh_connected' \in BOOLEAN
    BY <1>5 DEF OnParentDisconnected, Connected
  <2>2. UNCHANGED <<boot, stack, mesh_root_addr, toDS, locks, is_comm_started,
                    rxTasks, is_comm_mqtt_task_started, mqttTasks, site>>
    BY <1>5 DEF OnParentDisconnected
  <2> QED BY <1>2, <2>1, <2>2 DEF TypeOK, boot, stack, site
<1>6. CASE OnRootAddress
  BY <1>2, <1>6 DEF TypeOK, OnRootAddress, boot, stack, site
<1>7. CASE OnGotIp
  <2>1. is_comm_mqtt_task_started' \in BOOLEAN /\ mqttTasks' \in Nat
    BY <1>7, TaskCount DEF TypeOK, OnGotIp, esp_mesh_comm_mqtt_task_start
  <2>2. toDS' \in BOOLEAN /\ locks' \in Nat
    BY <1>7 DEF TypeOK, OnGotIp
  <2> QED BY <1>2, <1>7, <2>1, <2>2 DEF TypeOK, OnGotIp, boot, stack, site
<1> QED BY <1>3, <1>4, <1>5, <1>6, <1>7 DEF HandleEvent

\* A reboot leads to a well-typed state.
LEMMA RebootTypes == TypeOK /\ (EthAborts \/ Crash) => TypeOK'
<1> SUFFICES ASSUME TypeOK, EthAborts \/ Crash PROVE TypeOK'
  OBVIOUS
<1>1. Reboot
  BY DEF EthAborts, Crash
<1>2. events' \in Seq(Event) /\ Len(events') <= QueueSize
  BY <1>1, NoEvents, NodeAssumption DEF Reboot
<1>3. crashes' \in 0..MaxCrashes
  BY NodeAssumption DEF EthAborts, Crash, TypeOK
<1>4. handlers' \subseteq {"MESH", "IP"} /\ links' \in 0..MaxLinks
  BY <1>1, NodeAssumption DEF Reboot
<1> QED BY <1>1, <1>2, <1>3, <1>4 DEF Reboot, TypeOK

\* Every step keeps the types.
LEMMA TypeStep == TypeOK /\ [Next]_vars => TypeOK'
<1> SUFFICES ASSUME TypeOK, [Next]_vars PROVE TypeOK'
  OBVIOUS
<1>1. CASE UNCHANGED vars
  BY <1>1 DEF TypeOK, vars, boot, stack, flags, site
<1> QED BY <1>1, AppMainTypes, StackTypes, HandlerTypes, RebootTypes DEF Next

\* Every reachable state of a node is well typed, and the event loop's queue
\* never holds more than QueueSize events.
THEOREM NodeTypeCorrect == Spec => []TypeOK
BY InitTypeOK, TypeStep, PTL DEF Spec

-----------------------------------------------------------------------------
(***************************************************************************)
(* The flag follows the queue.                                             *)
(***************************************************************************)

\* Posting a status event together with the change it tells of, or any other
\* event without one, keeps FlagInv.
LEMMA PostingKeepsFlag ==
    ASSUME TypeOK, HasRoom, FlagInv, NEW e \in Event,
           events' = Append(events, e),
           UNCHANGED is_mesh_connected,
           IF e \in Status THEN linked' = (e = "PARENT_CONNECTED")
                           ELSE UNCHANGED linked
    PROVE  FlagInv'
<1> DEFINE n == Len(events)
<1>1. /\ n \in Nat
      /\ DOMAIN events = 1..n
      /\ DOMAIN events' = 1..(n + 1)
      /\ \A i \in 1..n : events'[i] = events[i]
      /\ events'[n + 1] = e
  BY Posting, LenProperties DEF TypeOK
<1> HIDE DEF n
<1>2. CASE e \in Status
  <2>1. \A i \in 0..n : ~NoneAfter(i)'
    BY <1>1, <1>2 DEF NoneAfter
  <2>2. \A i \in DOMAIN events' : NoneAfter(i)' => i = n + 1
    BY <1>1, <2>1
  <2>3. linked' = (e = "PARENT_CONNECTED")
    BY <1>2
  <2> QED BY <1>1, <2>1, <2>2, <2>3 DEF FlagInv
<1>3. CASE e \notin Status
  <2>1. \A i \in 0..n : NoneAfter(i)' => NoneAfter(i)
    BY <1>1 DEF NoneAfter
  <2>2. UNCHANGED <<linked, is_mesh_connected>>
    BY <1>3
  <2>3. NoneAfter(0)' => is_mesh_connected' = linked'
    BY <1>1, <2>1, <2>2 DEF FlagInv
  <2>4. ASSUME NEW i \in DOMAIN events', events'[i] \in Status, NoneAfter(i)'
        PROVE  linked' = (events'[i] = "PARENT_CONNECTED")
    <3>1. i \in 1..n /\ events'[i] = events[i]
      BY <1>1, <1>3, <2>4
    <3>2. NoneAfter(i)
      BY <2>1, <2>4, <3>1, <1>1
    <3> QED BY <1>1, <2>2, <2>4, <3>1, <3>2 DEF FlagInv
  <2> QED BY <2>3, <2>4 DEF FlagInv
<1> QED BY <1>2, <1>3

\* Taking a status event and storing what it tells, or taking another event
\* and leaving the flag alone, keeps FlagInv.
LEMMA TakingKeepsFlag ==
    ASSUME TypeOK, FlagInv, NEW e \in Event, Takes(e),
           UNCHANGED linked,
           IF e \in Status THEN is_mesh_connected' = (e = "PARENT_CONNECTED")
                           ELSE UNCHANGED is_mesh_connected
    PROVE  FlagInv'
<1> DEFINE n == Len(events)
<1>1. /\ n \in Nat /\ n >= 1
      /\ DOMAIN events = 1..n
      /\ DOMAIN events' = 1..(n - 1)
      /\ events[1] = e
      /\ \A i \in 1..(n - 1) : events'[i] = events[i + 1]
  BY Taking, LenProperties DEF TypeOK
<1> HIDE DEF n
<1>2. \A i \in 0..(n - 1) : NoneAfter(i)' => NoneAfter(i + 1)
  <2> SUFFICES ASSUME NEW i \in 0..(n - 1), NoneAfter(i)',
                      NEW j \in 1..n, j > i + 1
               PROVE  events[j] \notin Status
    BY <1>1 DEF NoneAfter
  <2>1. j - 1 \in 1..(n - 1) /\ j - 1 > i /\ (j - 1) + 1 = j
    BY <1>1
  <2>2. events'[j - 1] \notin Status
    BY <1>1, <2>1 DEF NoneAfter
  <2> QED BY <1>1, <2>1, <2>2
<1>3. \A i \in DOMAIN events' :
        events'[i] \in Status /\ NoneAfter(i)'
        => linked' = (events'[i] = "PARENT_CONNECTED")
  <2> SUFFICES ASSUME NEW i \in 1..(n - 1), events'[i] \in Status, NoneAfter(i)'
               PROVE  linked' = (events'[i] = "PARENT_CONNECTED")
    BY <1>1
  <2>1. i + 1 \in DOMAIN events /\ events'[i] = events[i + 1] /\ i \in 0..(n - 1)
    BY <1>1
  <2>2. NoneAfter(i + 1)
    BY <1>2, <2>1
  <2> QED BY <2>1, <2>2 DEF FlagInv
<1>4. NoneAfter(0)' => is_mesh_connected' = linked'
  <2> SUFFICES ASSUME NoneAfter(0)' PROVE is_mesh_connected' = linked'
    OBVIOUS
  <2>1. NoneAfter(1)
    <3>1. 0 \in 0..(n - 1) /\ 0 + 1 = 1
      BY <1>1
    <3> QED BY <1>2, <3>1
  <2>2. CASE e \in Status
    BY <1>1, <2>1, <2>2 DEF FlagInv
  <2>3. CASE e \notin Status
    <3>1. NoneAfter(0)
      BY <1>1, <2>1, <2>3 DEF NoneAfter
    <3> QED BY <2>3, <3>1 DEF FlagInv
  <2> QED BY <2>2, <2>3
<1> QED BY <1>3, <1>4 DEF FlagInv

\* An empty queue and a flag that says what the stack is.
LEMMA FreshFlag ==
    ASSUME events = << >>, is_mesh_connected = linked
    PROVE  FlagInv
<1>1. DOMAIN events = {}
  BY NoEvents, LenProperties
<1> QED BY <1>1 DEF FlagInv

-----------------------------------------------------------------------------
(***************************************************************************)
(* The inductive invariant.                                                *)
(***************************************************************************)

\* A node that has just been switched on.
LEMMA InitNodeInv == Init => NodeInv
<1> SUFFICES ASSUME Init PROVE NodeInv
  OBVIOUS
<1>1. FlagInv
  <2>1. events = << >> /\ is_mesh_connected = linked
    BY DEF Init
  <2> QED BY <2>1, FreshFlag
<1>2. DOMAIN events = {}
  BY NoEvents, LenProperties DEF Init
<1>3. BootInv /\ QuietBeforeMesh /\ TasksInv
  BY DEF Init, BootInv, QuietBeforeMesh, TasksInv, MeshRuns
<1>4. LeaseInv
  BY <1>2 DEF Init, LeaseInv
<1> QED BY <1>1, <1>3, <1>4 DEF NodeInv

\* The calls of app_main before start_mesh: nothing runs that could notice.
LEMMA BootKeepsInv ==
    ASSUME TypeOK, NodeInv,
           setup_indicator_leds \/ InitNvs \/ initialize_wifi \/ init_eth
    PROVE  NodeInv'
<1>1. UNCHANGED <<stack, events, flags, site>>
  BY DEF setup_indicator_leds, InitNvs, initialize_wifi, init_eth
<1>2. BootInv' /\ MeshRuns' = MeshRuns
  <2>1. ~MeshRuns
    BY DEF NodeInv, BootInv, setup_indicator_leds, InitNvs, initialize_wifi,
           init_eth, Calls
  <2>2. CASE setup_indicator_leds
    BY <2>1, <2>2 DEF NodeInv, BootInv, setup_indicator_leds, Calls, NextCall,
                      MeshRuns
  <2>3. CASE InitNvs
    BY <2>1, <2>3 DEF NodeInv, BootInv, InitNvs, NextCall, MeshRuns
  <2>4. CASE initialize_wifi
    BY <2>1, <2>4 DEF NodeInv, BootInv, initialize_wifi, Calls, NextCall, MeshRuns
  <2>5. CASE init_eth
    BY <2>1, <2>5 DEF NodeInv, BootInv, init_eth, Calls, NextCall, MeshRuns
  <2> QED BY <2>2, <2>3, <2>4, <2>5
<1>3. QuietBeforeMesh' /\ TasksInv' /\ LeaseInv' /\ FlagInv'
  BY <1>1, <1>2 DEF NodeInv, QuietBeforeMesh, TasksInv, LeaseInv, FlagInv,
                    NoneAfter, stack, flags, site
<1> QED BY <1>2, <1>3 DEF NodeInv

\* start_mesh: the stack's first event finds a node that is not linked.
LEMMA StartMeshKeepsInv == ASSUME TypeOK, NodeInv, start_mesh PROVE NodeInv'
<1>1. HasRoom /\ events' = Append(events, "STARTED") /\ UNCHANGED <<stack, flags, site>>
  BY DEF start_mesh
<1>2. ~MeshRuns /\ ~linked
  BY DEF NodeInv, BootInv, QuietBeforeMesh, start_mesh, Calls
<1>3. FlagInv'
  <2>1. linked' = ("STARTED" = "PARENT_CONNECTED")
    BY <1>1, <1>2 DEF stack, TypeOK
  <2> QED BY <1>1, <2>1, PostingKeepsFlag DEF NodeInv, Event, Status, flags
<1>4. LeaseInv'
  <2>1. /\ \A i \in 1..Len(events) : events'[i] = events[i]
        /\ events'[Len(events) + 1] = "STARTED"
        /\ DOMAIN events' = 1..(Len(events) + 1)
        /\ DOMAIN events = 1..Len(events)
        /\ Len(events) \in Nat
    BY <1>1, Posting, LenProperties DEF Event, TypeOK
  <2> QED BY <1>1, <2>1 DEF NodeInv, LeaseInv, stack, flags, site
<1>5. BootInv'
  BY DEF NodeInv, BootInv, start_mesh, Calls, NextCall, MeshRuns
<1>6. QuietBeforeMesh' /\ TasksInv'
  BY DEF NodeInv, QuietBeforeMesh, TasksInv, start_mesh, MeshRuns, flags
<1> QED BY <1>3, <1>4, <1>5, <1>6 DEF NodeInv

\* The events of the stack and of the DHCP client.
LEMMA StackKeepsInv ==
    ASSUME TypeOK, NodeInv,
           ParentConnects \/ ParentLost \/ LearnsRoot \/ DhcpBinds
    PROVE  NodeInv'
<1>1. UNCHANGED <<boot, flags, site>> /\ HasRoom /\ MeshRuns
  BY DEF NodeInv, QuietBeforeMesh, ParentConnects, ParentLost, LearnsRoot, DhcpBinds
<1>2. PICK e \in Event :
        /\ events' = Append(events, e)
        /\ e = "GOT_IP" => dhcpc = "started"
        /\ IF e \in Status THEN linked' = (e = "PARENT_CONNECTED")
                           ELSE UNCHANGED linked
  <2>1. CASE ParentConnects
    BY <2>1 DEF ParentConnects, Event, Status
  <2>2. CASE ParentLost
    BY <2>2 DEF ParentLost, Event, Status
  <2>3. CASE LearnsRoot
    BY <2>3 DEF LearnsRoot, Event, Status
  <2>4. CASE DhcpBinds
    BY <2>4 DEF DhcpBinds, Event, Status
  <2> QED BY <2>1, <2>2, <2>3, <2>4
<1>3. FlagInv'
  BY <1>1, <1>2, PostingKeepsFlag DEF NodeInv, flags
<1>4. LeaseInv'
  <2>1. /\ \A i \in 1..Len(events) : events'[i] = events[i]
        /\ events'[Len(events) + 1] = e
        /\ DOMAIN events' = 1..(Len(events) + 1)
        /\ DOMAIN events = 1..Len(events)
        /\ Len(events) \in Nat
    BY <1>1, <1>2, Posting, LenProperties DEF TypeOK
  <2>2. type = "MESH_LEAF" => dhcpc = "stopped" /\ e # "GOT_IP"
    BY <1>2 DEF NodeInv, LeaseInv
  <2>3. dhcpc = "stopped" => dhcpc' = "stopped"
    BY DEF ParentConnects, ParentLost, LearnsRoot, DhcpBinds
  <2> QED BY <1>1, <2>1, <2>2, <2>3 DEF NodeInv, LeaseInv, flags, site
<1>5. BootInv' /\ QuietBeforeMesh' /\ TasksInv'
  BY <1>1 DEF NodeInv, BootInv, QuietBeforeMesh, TasksInv, MeshRuns, boot, flags
<1> QED BY <1>3, <1>4, <1>5 DEF NodeInv

\* The event handlers.
LEMMA HandlerKeepsInv == ASSUME TypeOK, NodeInv, HandleEvent PROVE NodeInv'
<1>1. PICK e \in Event :
        /\ Takes(e)
        /\ e = "GOT_IP" \/ UNCHANGED mqttTasks
        /\ IF e \in Status THEN is_mesh_connected' = (e = "PARENT_CONNECTED")
                           ELSE UNCHANGED is_mesh_connected
  <2>1. CASE OnStarted
    BY <2>1 DEF OnStarted, Event, Status
  <2>2. CASE OnParentConnected
    BY <2>2 DEF OnParentConnected, Connected, Event, Status
  <2>3. CASE OnParentDisconnected
    BY <2>3 DEF OnParentDisconnected, Connected, Event, Status
  <2>4. CASE OnRootAddress
    BY <2>4 DEF OnRootAddress, Event, Status
  <2>5. CASE OnGotIp
    BY <2>5 DEF OnGotIp, Event, Status
  <2> QED BY <2>1, <2>2, <2>3, <2>4, <2>5 DEF HandleEvent
<1>2. UNCHANGED <<boot, linked, type>>
  BY DEF HandleEvent, OnStarted, OnParentConnected, OnParentDisconnected,
         OnRootAddress, OnGotIp, stack, site
<1>3. MeshRuns
  BY <1>1 DEF NodeInv, QuietBeforeMesh, Takes
<1>4. FlagInv'
  BY <1>1, <1>2, TakingKeepsFlag DEF NodeInv
<1>5. TasksInv'
  <2>1. \/ UNCHANGED <<is_comm_started, rxTasks>>
        \/ ~is_comm_started /\ is_comm_started' = TRUE /\ xTaskCreate(rxTasks, rxTasks')
    BY DEF HandleEvent, OnStarted, OnParentConnected, OnParentDisconnected,
           OnRootAddress, OnGotIp, esp_mesh_comm_start
  <2>2. \/ UNCHANGED <<is_comm_mqtt_task_started, mqttTasks>>
        \/ /\ ~is_comm_mqtt_task_started /\ is_comm_mqtt_task_started' = TRUE
           /\ xTaskCreate(mqttTasks, mqttTasks')
    BY DEF HandleEvent, OnStarted, OnParentConnected, OnParentDisconnected,
           OnRootAddress, OnGotIp, esp_mesh_comm_mqtt_task_start
  <2>3. rxTasks' = 0 \/ (rxTasks' = 1 /\ is_comm_started')
    BY <2>1, TaskCount DEF NodeInv, TasksInv, TypeOK
  <2>4. mqttTasks' = 0 \/ (mqttTasks' = 1 /\ is_comm_mqtt_task_started')
    BY <2>2, TaskCount DEF NodeInv, TasksInv, TypeOK
  <2> QED BY <2>3, <2>4 DEF TasksInv
<1>6. LeaseInv'
  <2> SUFFICES ASSUME type = "MESH_LEAF"
               PROVE  /\ dhcpc' = "stopped"
                      /\ \A i \in DOMAIN events' : events'[i] # "GOT_IP"
                      /\ mqttTasks' = 0
    BY <1>2 DEF LeaseInv
  <2>1. /\ Len(events) >= 1 /\ Len(events) \in Nat
        /\ DOMAIN events' = 1..(Len(events) - 1)
        /\ DOMAIN events = 1..Len(events)
        /\ events[1] = e
        /\ \A i \in 1..(Len(events) - 1) : events'[i] = events[i + 1]
    BY <1>1, Taking, LenProperties DEF TypeOK
  <2>2. dhcpc = "stopped" /\ mqttTasks = 0
        /\ \A i \in DOMAIN events : events[i] # "GOT_IP"
    BY DEF NodeInv, LeaseInv
  <2>3. \A i \in DOMAIN events' : events'[i] # "GOT_IP"
    BY <2>1, <2>2
  <2>4. mqttTasks' = 0
    BY <1>1, <2>1, <2>2
  <2>5. dhcpc' = "stopped"
    BY <2>2 DEF HandleEvent, OnStarted, OnParentConnected, OnParentDisconnected,
                OnRootAddress, OnGotIp, stack, AsksForAddress
  <2> QED BY <2>3, <2>4, <2>5
<1>7. BootInv' /\ QuietBeforeMesh'
  BY <1>2, <1>3 DEF NodeInv, BootInv, QuietBeforeMesh, MeshRuns, boot
<1> QED BY <1>4, <1>5, <1>6, <1>7 DEF NodeInv

\* A reboot puts the node back where it was switched on.
LEMMA RebootKeepsInv == ASSUME EthAborts \/ Crash PROVE NodeInv'
<1>1. Reboot
  BY DEF EthAborts, Crash
<1>2. DOMAIN events' = {}
  BY <1>1, NoEvents, LenProperties DEF Reboot
<1>3. FlagInv'
  <2>1. is_mesh_connected' = linked'
    BY <1>1 DEF Reboot
  <2> QED BY <1>2, <2>1 DEF FlagInv
<1>4. LeaseInv'
  BY <1>1, <1>2 DEF Reboot, LeaseInv
<1>5. BootInv' /\ QuietBeforeMesh' /\ TasksInv'
  BY <1>1 DEF Reboot, BootInv, QuietBeforeMesh, TasksInv, MeshRuns
<1> QED BY <1>3, <1>4, <1>5 DEF NodeInv

\* Every step keeps the inductive invariant.
LEMMA NodeInvStep == TypeOK /\ NodeInv /\ [Next]_vars => NodeInv'
<1> SUFFICES ASSUME TypeOK, NodeInv, [Next]_vars PROVE NodeInv'
  OBVIOUS
<1>1. CASE UNCHANGED vars
  BY <1>1 DEF NodeInv, BootInv, QuietBeforeMesh, TasksInv, LeaseInv, FlagInv,
              NoneAfter, MeshRuns, vars, boot, stack, flags, site
<1> QED BY <1>1, BootKeepsInv, StartMeshKeepsInv, StackKeepsInv, HandlerKeepsInv,
           RebootKeepsInv DEF Next, AppMain

\* The inductive invariant holds in every reachable state of a node.
THEOREM NodeInvariant == Spec => []NodeInv
BY InitTypeOK, InitNodeInv, TypeStep, NodeInvStep, PTL DEF Spec

\* However often events repeat, a node runs at most one receive task and one
\* MQTT task.
THEOREM NodeRunsOneTaskEach == Spec => []OneTaskEach
<1>1. NodeInv => OneTaskEach
  BY DEF NodeInv, TasksInv, OneTaskEach
<1> QED BY <1>1, NodeInvariant, PTL

\* Only a node built as the root ever runs the MQTT task.
THEOREM NodeKeepsMqttOnRoot == Spec => []OnlyRootRunsMqtt
<1>1. TypeOK /\ NodeInv => OnlyRootRunsMqtt
  BY DEF TypeOK, NodeInv, LeaseInv, OnlyRootRunsMqtt
<1> QED BY <1>1, NodeTypeCorrect, NodeInvariant, PTL

\* The receive task never runs before the interface, the node's own address
\* and the LED task are there.
THEOREM NodeReadyBeforeReceiving == Spec => []ReceiverFindsAllReady
<1>1. NodeInv => ReceiverFindsAllReady
  BY DEF NodeInv, BootInv, QuietBeforeMesh, ReceiverFindsAllReady
<1> QED BY <1>1, NodeInvariant, PTL

\* With no event pending, is_mesh_connected says what the stack says.
THEOREM NodeFlagSettles == Spec => []SettledFlagIsTrue
<1>1. NodeInv => SettledFlagIsTrue
  <2> SUFFICES ASSUME FlagInv, events = << >> PROVE is_mesh_connected = linked
    BY DEF NodeInv, SettledFlagIsTrue
  <2>1. DOMAIN events = {}
    BY NoEvents, LenProperties
  <2>2. NoneAfter(0)
    BY <2>1 DEF NoneAfter
  <2> QED BY <2>2 DEF FlagInv
<1> QED BY <1>1, NodeInvariant, PTL

-----------------------------------------------------------------------------
(***************************************************************************)
(* The node with its LED.                                                  *)
(***************************************************************************)

\* A flash that is still to come has its return of esp_mesh_recv already.
LedInv ==
    /\ notified \in BOOLEAN
    /\ returns \in Nat /\ blinks \in Nat
    /\ blinks <= returns
    /\ notified = TRUE => blinks + 1 <= returns

\* The counts and the notification of an LED that has just been set up.
LEMMA AfreshLed ==
    /\ FALSE \in BOOLEAN /\ FALSE # TRUE
    /\ 0 \in Nat /\ 0 <= 0
OBVIOUS

LEMMA RxNotifiesKeeps == LedInv /\ RxNotifies => LedInv'
<1> SUFFICES ASSUME LedInv, RxNotifies PROVE LedInv'
  OBVIOUS
<1>1. returns' = returns + 1 /\ blinks' = blinks
  BY DEF RxNotifies, Led!notify_rx_led
<1>2. notified' \in BOOLEAN
  <2>1. CASE rx_led_handle
    BY <2>1, Zenon DEF RxNotifies, Led!notify_rx_led, Led!Notifies
  <2>2. CASE ~rx_led_handle
    BY <2>2 DEF LedInv, RxNotifies, Led!notify_rx_led
  <2> QED BY <2>1, <2>2
<1> QED BY <1>1, <1>2 DEF LedInv

LEMMA LedRunsKeeps == LedInv /\ LedRuns => LedInv'
<1> SUFFICES ASSUME LedInv, LedRuns PROVE LedInv'
  OBVIOUS
<1>1. CASE Led!LedOn
  <2>1. notified = TRUE
    BY <1>1, Zenon DEF Led!LedOn, LedInv
  <2>2. notified' = FALSE
    BY <1>1, Zenon DEF Led!LedOn, Led!AfterWait
  <2>3. blinks' = blinks + 1 /\ returns' = returns
    BY <1>1 DEF Led!LedOn
  <2>4. /\ returns' \in Nat /\ blinks' \in Nat
        /\ blinks' <= returns'
    BY <2>1, <2>3 DEF LedInv
  <2> QED BY <2>2, <2>4 DEF LedInv
<1>2. CASE Led!LedOff
  BY <1>2 DEF Led!LedOff, LedInv
<1>3. CASE Led!LedWaits
  BY <1>3 DEF Led!LedWaits, LedInv
<1> QED BY <1>1, <1>2, <1>3 DEF LedRuns, Led!LedTask

LEMMA LedInvNext == LedInv /\ [LedNext]_<<vars, led>> => LedInv'
<1>1. LedReset => LedInv'
  BY AfreshLed DEF LedReset, LedInv
<1>2. LedInv /\ UNCHANGED led => LedInv'
  BY DEF led, LedInv
<1> QED BY <1>1, <1>2, RxNotifiesKeeps, LedRunsKeeps DEF LedNext

\* However many returns of esp_mesh_recv are merged into one notification, each flash
\* has one of its own (mesh.cpp:66-67, indicator.cpp:9).
THEOREM LedFlashesOncePerReturn == LedSpec => []OneFlashPerReturn
<1>1. LedInit => LedInv
  BY AfreshLed DEF LedInit, Led!Init, LedInv
<1>2. LedInv => OneFlashPerReturn
  BY DEF LedInv, OneFlashPerReturn
<1> QED BY <1>1, <1>2, LedInvNext, PTL DEF LedSpec

\* The node that shares its receive task with the LED is the node of MeshNode:
\* every step of it is one of MeshNode's or leaves that node alone.
THEOREM LedNodeIsNode == LedSpec => Spec
<1>1. LedInit => Init
  BY DEF LedInit
<1>2. [LedNext]_<<vars, led>> => [Next]_vars
  <2>1. RxNotifies \/ LedRuns => UNCHANGED vars
    BY DEF RxNotifies, LedRuns
  <2>2. NodeRuns \/ EthAborts \/ Crash => Next
    BY Zenon DEF NodeRuns, Next
  <2> QED BY <2>1, <2>2 DEF LedNext
<1> QED BY <1>1, <1>2, PTL DEF LedSpec, Spec

\* So that what is proved of MeshNode holds beside the LED too.
THEOREM LedNodeIsSafe ==
    LedSpec => [](TypeOK /\ OneTaskEach /\ OnlyRootRunsMqtt
                  /\ ReceiverFindsAllReady /\ SettledFlagIsTrue)
BY LedNodeIsNode, NodeTypeCorrect, NodeRunsOneTaskEach, NodeKeepsMqttOnRoot,
   NodeReadyBeforeReceiving, NodeFlagSettles, PTL
=============================================================================
