---------------------------- MODULE MqttSession ----------------------------
(***************************************************************************)
(* The root's MQTT session: esp_mesh_mqtt_task, which starts the client    *)
(* and polls it every two seconds, and MQTT_EventProcess, which the        *)
(* client's own task calls.  The client (esp-mqtt) and the broker are      *)
(* external.  The client changes its state first and calls the handler     *)
(* next, so the polling task can read is_mqtt_connected in between.        *)
(***************************************************************************)
EXTENDS Naturals

CONSTANTS
    MaxFails,    \* bound: subscribe requests that cannot be sent
    MaxLosses,   \* bound: connections that break
    MaxOutages,  \* bound: times the broker goes away
    MaxRefusals  \* bound: subscriptions the broker refuses

ASSUME SessionAssumption ==
    MaxFails \in Nat /\ MaxLosses \in Nat /\ MaxOutages \in Nat /\ MaxRefusals \in Nat

VARIABLES
    task,              \* where esp_mesh_mqtt_task is
    is_mqtt_connected,
    client,            \* state of the esp-mqtt client
    event,             \* event the client's task has yet to hand over
    disconnectBit,     \* esp_mqtt_client_disconnect was called
    reconnectBit,      \* esp_mqtt_client_reconnect was accepted
    waited,            \* the auto-reconnect timeout has passed
    subscription,      \* of the session to /track: "none", "asked", "active", "refused"
    brokerUp,
    fails, losses, outages, refusals

taskVars == <<task, is_mqtt_connected>>
clientVars == <<client, event, disconnectBit, reconnectBit, waited, subscription>>
bounds == <<fails, losses, outages, refusals>>
vars == <<taskVars, clientVars, brokerUp, bounds>>

TypeOK ==
    /\ task \in {"start", "poll", "reconnect", "delay"}
    /\ is_mqtt_connected \in BOOLEAN
    /\ client \in {"none", "connecting", "connected", "waiting"}
    /\ event \in {"none", "CONNECTED", "DISCONNECTED"}
    /\ disconnectBit \in BOOLEAN /\ reconnectBit \in BOOLEAN /\ waited \in BOOLEAN
    /\ subscription \in {"none", "asked", "active", "refused"}
    /\ brokerUp \in BOOLEAN
    /\ fails \in 0..MaxFails /\ losses \in 0..MaxLosses /\ outages \in 0..MaxOutages
    /\ refusals \in 0..MaxRefusals
    /\ reconnectBit => client = "waiting"
    /\ subscription # "none" => client = "connected"

Init ==
    /\ task = "start"
    /\ is_mqtt_connected = FALSE
    /\ client = "none"
    /\ event = "none"
    /\ disconnectBit = FALSE /\ reconnectBit = FALSE /\ waited = FALSE
    /\ subscription = "none"
    /\ brokerUp \in BOOLEAN
    /\ fails = 0 /\ losses = 0 /\ outages = 0 /\ refusals = 0

-----------------------------------------------------------------------------
(***************************************************************************)
(* esp_mesh_mqtt_task.                                                     *)
(***************************************************************************)

\* mqtt_app_start: the handler is registered, then the client is started.
mqtt_app_start ==
    /\ task = "start"
    /\ task' = "poll"
    /\ client' = "connecting"
    /\ UNCHANGED <<is_mqtt_connected, event, disconnectBit, reconnectBit, waited,
                   subscription, brokerUp, bounds>>

\* Mutant: only a task that believes it is connected reconnects.
NeedsReconnect_inverted == is_mqtt_connected

NeedsReconnect == ~is_mqtt_connected

\* The flag is read ...
Poll ==
    /\ task = "poll"
    /\ task' = IF NeedsReconnect THEN "reconnect" ELSE "delay"
    /\ UNCHANGED <<is_mqtt_connected, clientVars, brokerUp, bounds>>

\* Mutant: the client takes the call in every state.
AcceptsReconnect_always == TRUE

\* esp_mqtt_client_reconnect returns an error in any other state.
AcceptsReconnect == client = "waiting"

\* ... and esp_mqtt_client_reconnect called; its result is not looked at.
Reconnect ==
    /\ task = "reconnect"
    /\ task' = "delay"
    /\ reconnectBit' = (reconnectBit \/ AcceptsReconnect)
    /\ UNCHANGED <<is_mqtt_connected, client, event, disconnectBit, waited,
                   subscription, brokerUp, bounds>>

\* Two seconds pass.
Delay ==
    /\ task = "delay"
    /\ task' = "poll"
    /\ UNCHANGED <<is_mqtt_connected, clientVars, brokerUp, bounds>>

-----------------------------------------------------------------------------
(***************************************************************************)
(* MQTT_EventProcess, called by the client's task.                         *)
(***************************************************************************)

\* Mutant: a subscribe that failed is left at that.
RetriesSubscribe_never(sent) == FALSE

\* Mutant: the sign of the result is taken the wrong way round.
RetriesSubscribe_inverted(sent) == sent

\* esp_mqtt_client_subscribe(...) < 0: the connection is given up.
RetriesSubscribe(sent) == ~sent

\* MQTT_EVENT_CONNECTED
OnConnected(sent) ==
    /\ event = "CONNECTED"
    /\ event' = "none"
    /\ is_mqtt_connected' = TRUE
    /\ sent \/ fails < MaxFails
    /\ fails' = IF sent THEN fails ELSE fails + 1
    /\ subscription' = IF sent THEN "asked" ELSE subscription
    /\ disconnectBit' = (disconnectBit \/ RetriesSubscribe(sent))
    /\ UNCHANGED <<task, client, reconnectBit, waited, brokerUp, losses, outages, refusals>>

\* Mutant: a lost connection is not noted.
AfterDisconnect_connected == is_mqtt_connected

AfterDisconnect == FALSE

\* MQTT_EVENT_DISCONNECTED
OnDisconnected ==
    /\ event = "DISCONNECTED"
    /\ event' = "none"
    /\ is_mqtt_connected' = AfterDisconnect
    /\ UNCHANGED <<task, client, disconnectBit, reconnectBit, waited, subscription,
                   brokerUp, bounds>>

-----------------------------------------------------------------------------
(***************************************************************************)
(* The client's task and the broker.  Sessions are clean: a subscription   *)
(* ends with its connection.                                               *)
(***************************************************************************)

Connects ==
    /\ client = "connecting" /\ brokerUp
    /\ client' = "connected"
    /\ event' = "CONNECTED"
    /\ UNCHANGED <<taskVars, disconnectBit, reconnectBit, waited, subscription,
                   brokerUp, bounds>>

\* The connection is closed, or was never made: wait before the next attempt.
Drops ==
    /\ client' = "waiting"
    /\ event' = "DISCONNECTED"
    /\ disconnectBit' = FALSE
    /\ waited' = FALSE
    /\ subscription' = "none"
    /\ UNCHANGED <<taskVars, reconnectBit, brokerUp, fails, outages, refusals>>

ConnectFails ==
    /\ client = "connecting" /\ ~brokerUp
    /\ Drops
    /\ UNCHANGED losses

ConnectionLost ==
    /\ client = "connected" /\ event = "none"
    /\ \/ ~brokerUp /\ UNCHANGED losses
       \/ losses < MaxLosses /\ losses' = losses + 1
    /\ Drops

ObeysDisconnect ==
    /\ client = "connected" /\ event = "none"
    /\ disconnectBit
    /\ Drops
    /\ UNCHANGED losses

TimeoutPasses ==
    /\ client = "waiting" /\ ~waited
    /\ waited' = TRUE
    /\ UNCHANGED <<taskVars, client, event, disconnectBit, reconnectBit,
                   subscription, brokerUp, bounds>>

\* The wait ends by the timeout or by an accepted reconnect.
TriesAgain ==
    /\ client = "waiting" /\ event = "none"
    /\ waited \/ reconnectBit
    /\ client' = "connecting"
    /\ reconnectBit' = FALSE
    /\ UNCHANGED <<taskVars, event, disconnectBit, waited, subscription, brokerUp,
                   bounds>>

\* A SUBACK that accepts or refuses.  MQTT_EventProcess logs
\* MQTT_EVENT_SUBSCRIBED and does not look at the event's error_type.
SubAck(accepts) ==
    /\ client = "connected" /\ event = "none" /\ brokerUp
    /\ subscription = "asked"
    /\ accepts \/ refusals < MaxRefusals
    /\ subscription' = IF accepts THEN "active" ELSE "refused"
    /\ refusals' = IF accepts THEN refusals ELSE refusals + 1
    /\ UNCHANGED <<taskVars, client, event, disconnectBit, reconnectBit, waited,
                   brokerUp, fails, losses, outages>>

BrokerComes ==
    /\ ~brokerUp
    /\ brokerUp' = TRUE
    /\ UNCHANGED <<taskVars, clientVars, bounds>>

BrokerGoes ==
    /\ brokerUp
    /\ outages < MaxOutages
    /\ brokerUp' = FALSE
    /\ outages' = outages + 1
    /\ UNCHANGED <<taskVars, clientVars, fails, losses, refusals>>

-----------------------------------------------------------------------------
Task == mqtt_app_start \/ Poll \/ Reconnect \/ Delay

EventProcess == (\E sent \in BOOLEAN : OnConnected(sent)) \/ OnDisconnected

Client ==
    \/ Connects
    \/ ConnectFails
    \/ ConnectionLost
    \/ ObeysDisconnect
    \/ TriesAgain

Next ==
    \/ Task
    \/ EventProcess
    \/ Client
    \/ TimeoutPasses
    \/ \E accepts \in BOOLEAN : SubAck(accepts)
    \/ BrokerComes
    \/ BrokerGoes

Spec == Init /\ [][Next]_vars

\* The two tasks run whenever they can; a broker that is up acknowledges.
\* Nothing is assumed of the auto-reconnect timeout.
Fairness ==
    /\ WF_vars(Task)
    /\ WF_vars(EventProcess)
    /\ WF_vars(Connects)
    /\ WF_vars(ConnectFails)
    /\ WF_vars(ObeysDisconnect)
    /\ WF_vars(TriesAgain)
    /\ WF_vars(\E accepts \in BOOLEAN : SubAck(accepts))

FairSpec == Spec /\ Fairness

-----------------------------------------------------------------------------
(***************************************************************************)
(* Properties.                                                             *)
(***************************************************************************)

\* With no event pending the flag the polling task reads says what the client
\* is (mqtt_app.cpp:9 and 17).
SettledFlagIsTrue == event = "none" => (is_mqtt_connected <=> client = "connected")

\* Once the broker stays up, the root ends up subscribed to /track for good,
\* although requests fail, connections break and the polling task works on a
\* stale flag; the poll alone is enough (mqtt_app.cpp:10-14 and 92-100).  Only a
\* refusal is final: then it stays connected and never asks again (line 21).
EndsUpSubscribed ==
    <>[]brokerUp => <>[](subscription = "active") \/ <>[](subscription = "refused")

\* "Listen for MQTT messages from broker" (main.cpp:96): once the broker stays
\* up, the root ends up subscribed.
ListensToBroker == <>[]brokerUp => <>[](subscription = "active")

\* Neither the poll nor the retry of a subscribe ends a session in which the
\* subscription is active: only the broker or the network does.
OnlyFaultsEndASession ==
    [][subscription = "active" /\ subscription' # "active"
       => ~brokerUp \/ losses' > losses]_vars
=============================================================================
