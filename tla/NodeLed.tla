------------------------------ MODULE NodeLed ------------------------------
(***************************************************************************)
(* A node with its RX LED: the LED's task is created by app_main, before   *)
(* the mesh starts, and notified by the receive task, which an event       *)
(* handler starts; a reboot ends both.                                     *)
(***************************************************************************)
EXTENDS MeshNode

CONSTANT MaxReturns  \* bound: returns of esp_mesh_recv since power-on

ASSUME LedAssumption == MaxReturns \in Nat

VARIABLES sleeps, notified, level, returns, blinks, owed

led == <<sleeps, notified, level, returns, blinks, owed>>

Led == INSTANCE RxLed

\* esp_mesh_recv returns to the receive task: notify_rx_led comes before err and
\* data.size are looked at, so an error or an empty packet is notified too.
RxNotifies ==
    /\ rxTasks > 0
    /\ \E packet \in BOOLEAN : Led!notify_rx_led(packet)
    /\ UNCHANGED vars

LedRuns == Led!LedTask /\ UNCHANGED vars

\* The pin, the task and its notification start afresh.
LedReset ==
    /\ sleeps' = "notify" /\ notified' = FALSE
    /\ level' = 0
    /\ returns' = 0 /\ blinks' = 0 /\ owed' = 0

NodeRuns ==
    \/ AppMain
    \/ ParentConnects \/ ParentLost \/ LearnsRoot \/ DhcpBinds
    \/ HandleEvent

LedNext ==
    \/ NodeRuns /\ UNCHANGED led
    \/ (EthAborts \/ Crash) /\ LedReset
    \/ RxNotifies
    \/ LedRuns

LedInit == Init /\ Led!Init

\* The LED's task has priority 3, the receive task 5: it runs when no packet is
\* being handled, and the receive task sleeps between two packets: assumed is an
\* esp_mesh_recv that does not return errors for ever without waiting.
LedSpec ==
    /\ LedInit /\ [][LedNext]_<<vars, led>>
    /\ Fairness
    /\ WF_<<vars, led>>(LedRuns)

-----------------------------------------------------------------------------

\* Every flash stands for a return of esp_mesh_recv of its own, an error or a
\* packet: the LED never flashes again for returns that were merged into one
\* notification (mesh.cpp:66-67, indicator.cpp:9).
OneFlashPerReturn == blinks + (IF notified THEN 1 ELSE 0) <= returns

\* Packets that arrive during a flash, or in the dark after it, are followed by
\* another flash: none is missed because the task slept (indicator.cpp:9-13).
EveryPacketShown == owed > 0 ~> owed = 0

\* The LED never stays on, however fast packets arrive (indicator.cpp:12).
LedGoesDark == level = 1 ~> level = 0
=============================================================================
