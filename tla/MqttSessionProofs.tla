------------------------- MODULE MqttSessionProofs --------------------------
(***************************************************************************)
(* Proofs about MqttSession, for every number of failing subscribes,       *)
(* broken connections and outages: its safety invariants, and that the     *)
(* root never ends a session in which it is subscribed.                    *)
(***************************************************************************)
EXTENDS MqttSession, TLAPS

\* The event to hand over belongs to the state the client is in, and the flag
\* has caught up when there is none.
EventInv ==
    /\ event = "CONNECTED" => client = "connected"
    /\ event = "DISCONNECTED" => client = "waiting"
    /\ event = "none" => (is_mqtt_connected <=> client = "connected")

\* The client is started once, by the task.
StartInv == task = "start" => client = "none"

\* Only a session whose subscribe failed is to be given up, and nothing has
\* been asked for before MQTT_EVENT_CONNECTED is handled.
RetryInv ==
    /\ disconnectBit => client = "connected" /\ subscription = "none"
    /\ event = "CONNECTED" => ~disconnectBit /\ subscription = "none"

SessionInv == TypeOK /\ StartInv /\ EventInv /\ RetryInv

\* The states in which the root has just started.
LEMMA InitSession == Init => SessionInv
<1> SUFFICES ASSUME Init PROVE SessionInv
  OBVIOUS
<1>1. /\ fails \in 0..MaxFails /\ losses \in 0..MaxLosses
      /\ outages \in 0..MaxOutages /\ refusals \in 0..MaxRefusals
  BY SessionAssumption DEF Init
<1>2. TypeOK
  BY <1>1 DEF Init, TypeOK
<1>3. StartInv /\ EventInv /\ RetryInv
  BY DEF Init, StartInv, EventInv, RetryInv
<1> QED BY <1>2, <1>3 DEF SessionInv

\* The polling task touches nothing of the session but the reconnect bit.
LEMMA TaskStep == SessionInv /\ Task => SessionInv'
<1> SUFFICES ASSUME SessionInv, Task PROVE SessionInv'
  OBVIOUS
<1>1. CASE mqtt_app_start
  BY <1>1 DEF SessionInv, TypeOK, StartInv, EventInv, RetryInv, mqtt_app_start,
              bounds
<1>2. CASE Poll
  BY <1>2 DEF SessionInv, TypeOK, StartInv, EventInv, RetryInv, Poll, clientVars, bounds
<1>3. CASE Reconnect
  BY <1>3 DEF SessionInv, TypeOK, StartInv, EventInv, RetryInv, Reconnect,
              AcceptsReconnect, bounds
<1>4. CASE Delay
  BY <1>4 DEF SessionInv, TypeOK, StartInv, EventInv, RetryInv, Delay, clientVars, bounds
<1> QED BY <1>1, <1>2, <1>3, <1>4 DEF Task

\* The handlers catch up with the client.
LEMMA EventProcessStep == SessionInv /\ EventProcess => SessionInv'
<1> SUFFICES ASSUME SessionInv, EventProcess PROVE SessionInv'
  OBVIOUS
<1>1. ASSUME NEW sent \in BOOLEAN, OnConnected(sent) PROVE SessionInv'
  <2>1. fails' \in 0..MaxFails
    BY <1>1, SessionAssumption DEF SessionInv, TypeOK, OnConnected
  <2>2. disconnectBit' \in BOOLEAN /\ (disconnectBit' => ~sent)
    BY <1>1 DEF SessionInv, TypeOK, RetryInv, OnConnected, RetriesSubscribe
  <2>3. subscription' = IF sent THEN "asked" ELSE "none"
    BY <1>1 DEF SessionInv, RetryInv, OnConnected
  <2>4. client = "connected" /\ event' = "none" /\ is_mqtt_connected' = TRUE
    BY <1>1 DEF SessionInv, EventInv, OnConnected
  <2>5. UNCHANGED <<task, client, reconnectBit, waited, brokerUp, losses, outages,
                    refusals>>
    BY <1>1 DEF OnConnected
  <2>6. TypeOK'
    BY <2>1, <2>2, <2>3, <2>4, <2>5 DEF SessionInv, TypeOK
  <2> QED BY <2>2, <2>3, <2>4, <2>5, <2>6
          DEF SessionInv, StartInv, EventInv, RetryInv
<1>2. CASE OnDisconnected
  BY <1>2 DEF SessionInv, TypeOK, StartInv, EventInv, RetryInv, OnDisconnected,
              AfterDisconnect, bounds
<1> QED BY <1>1, <1>2 DEF EventProcess

\* A connection that ends leaves nothing of its session behind.
LEMMA DropsKeepsInv ==
    ASSUME SessionInv, Drops, client # "none", losses' \in 0..MaxLosses
    PROVE  SessionInv'
<1>1. UNCHANGED <<taskVars, reconnectBit, brokerUp, fails, outages, refusals>>
  BY DEF Drops
<1>2. /\ client' = "waiting" /\ event' = "DISCONNECTED"
      /\ disconnectBit' = FALSE /\ waited' = FALSE /\ subscription' = "none"
  BY DEF Drops
<1>3. TypeOK'
  BY <1>1, <1>2 DEF SessionInv, TypeOK, taskVars
<1> QED BY <1>1, <1>2, <1>3
        DEF SessionInv, StartInv, EventInv, RetryInv, taskVars

\* The client's own steps and the broker's.
LEMMA ClientStep ==
    /\ SessionInv
    /\ \/ Client \/ TimeoutPasses \/ BrokerComes \/ BrokerGoes
       \/ \E accepts \in BOOLEAN : SubAck(accepts)
    => SessionInv'
<1> SUFFICES ASSUME SessionInv,
                    \/ Client \/ TimeoutPasses \/ BrokerComes \/ BrokerGoes
                    \/ \E accepts \in BOOLEAN : SubAck(accepts)
             PROVE  SessionInv'
  OBVIOUS
<1>1. CASE Connects
  BY <1>1 DEF SessionInv, TypeOK, StartInv, EventInv, RetryInv, Connects, taskVars,
              bounds
<1>2. CASE ConnectFails
  BY <1>2, DropsKeepsInv DEF ConnectFails, SessionInv, TypeOK
<1>3. CASE ConnectionLost
  <2>1. losses' \in 0..MaxLosses
    BY <1>3, SessionAssumption DEF ConnectionLost, SessionInv, TypeOK
  <2> QED BY <1>3, <2>1, DropsKeepsInv DEF ConnectionLost
<1>4. CASE ObeysDisconnect
  BY <1>4, DropsKeepsInv DEF ObeysDisconnect, SessionInv, TypeOK
<1>5. CASE TriesAgain
  BY <1>5 DEF SessionInv, TypeOK, StartInv, EventInv, RetryInv, TriesAgain, taskVars,
              bounds
<1>6. CASE TimeoutPasses
  BY <1>6 DEF SessionInv, TypeOK, StartInv, EventInv, RetryInv, TimeoutPasses,
              taskVars, bounds
<1>7. ASSUME NEW accepts \in BOOLEAN, SubAck(accepts) PROVE SessionInv'
  <2>1. refusals' \in 0..MaxRefusals
    BY <1>7, SessionAssumption DEF SubAck, SessionInv, TypeOK
  <2>2. subscription' \in {"active", "refused"}
    BY <1>7 DEF SubAck
  <2>3. client = "connected" /\ event = "none" /\ subscription = "asked"
    BY <1>7 DEF SubAck
  <2>4. UNCHANGED <<taskVars, client, event, disconnectBit, reconnectBit, waited,
                    brokerUp, fails, losses, outages>>
    BY <1>7 DEF SubAck
  <2>5. TypeOK'
    BY <2>1, <2>2, <2>3, <2>4 DEF SessionInv, TypeOK, taskVars
  <2>6. ~disconnectBit
    BY <2>3 DEF SessionInv, RetryInv
  <2> QED BY <2>2, <2>3, <2>4, <2>5, <2>6
          DEF SessionInv, StartInv, EventInv, RetryInv, taskVars
<1>8. CASE BrokerComes
  BY <1>8 DEF SessionInv, TypeOK, StartInv, EventInv, RetryInv, BrokerComes,
              taskVars, clientVars, bounds
<1>9. CASE BrokerGoes
  <2>1. outages' \in 0..MaxOutages
    BY <1>9, SessionAssumption DEF BrokerGoes, SessionInv, TypeOK
  <2> QED BY <1>9, <2>1 DEF SessionInv, TypeOK, StartInv, EventInv, RetryInv,
             BrokerGoes, taskVars, clientVars
<1> QED BY <1>1, <1>2, <1>3, <1>4, <1>5, <1>6, <1>7, <1>8, <1>9 DEF Client

\* Every step keeps the inductive invariant.
LEMMA SessionStep == SessionInv /\ [Next]_vars => SessionInv'
<1> SUFFICES ASSUME SessionInv, [Next]_vars PROVE SessionInv'
  OBVIOUS
<1>1. CASE UNCHANGED vars
  BY <1>1 DEF SessionInv, TypeOK, StartInv, EventInv, RetryInv, vars, taskVars,
              clientVars, bounds
<1> QED BY <1>1, TaskStep, EventProcessStep, ClientStep DEF Next

\* The inductive invariant holds in every reachable state.
THEOREM SessionInvariant == Spec => []SessionInv
BY InitSession, SessionStep, PTL DEF Spec

\* Every reachable state is well typed, a reconnect is pending only while the
\* client waits, and a subscription belongs to a connection.
THEOREM SessionTypeCorrect == Spec => []TypeOK
<1>1. SessionInv => TypeOK
  BY DEF SessionInv
<1> QED BY <1>1, SessionInvariant, PTL

\* With no event pending, the flag that the polling task reads says what the
\* client is.
THEOREM SessionFlagSettles == Spec => []SettledFlagIsTrue
<1>1. SessionInv => SettledFlagIsTrue
  BY DEF SessionInv, EventInv, SettledFlagIsTrue
<1> QED BY <1>1, SessionInvariant, PTL

\* Only the broker or the network ends a session in which the subscription is
\* active, never the poll or the retry of a subscribe.
THEOREM RootKeepsItsSession == Spec => OnlyFaultsEndASession
<1>1. SessionInv /\ [Next]_vars
      => [subscription = "active" /\ subscription' # "active"
          => ~brokerUp \/ losses' > losses]_vars
  <2> SUFFICES ASSUME SessionInv, Next, subscription = "active",
                      subscription' # "active", brokerUp
               PROVE  losses' > losses
    OBVIOUS
  <2>1. client = "connected" /\ event # "CONNECTED" /\ ~disconnectBit
    BY DEF SessionInv, TypeOK, RetryInv
  <2>2. ConnectionLost
    BY <2>1 DEF Next, Task, EventProcess, Client, mqtt_app_start, Poll, Reconnect,
                Delay, OnConnected, OnDisconnected, Connects, ConnectFails,
                ObeysDisconnect, TriesAgain, TimeoutPasses, SubAck, BrokerComes,
                BrokerGoes, clientVars
  <2>3. losses' = losses + 1 /\ losses \in Nat
    BY <2>2, SessionAssumption DEF ConnectionLost, SessionInv, TypeOK
  <2> QED BY <2>3
<1> QED BY <1>1, SessionInvariant, PTL DEF Spec, OnlyFaultsEndASession
=============================================================================
