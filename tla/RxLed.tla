------------------------------- MODULE RxLed -------------------------------
(***************************************************************************)
(* The RX LED: the receive task notifies the LED's task whenever           *)
(* esp_mesh_recv returns, with a packet or without, and that task shows    *)
(* one flash for all it was notified of while it slept.  A FreeRTOS        *)
(* notification is pending or not, whatever its count.  NodeLed puts the   *)
(* LED into its node.                                                      *)
(***************************************************************************)
EXTENDS Naturals

CONSTANT MaxReturns  \* bound: returns of esp_mesh_recv

VARIABLES
    rx_led_handle,  \* the LED's task exists
    sleeps,         \* where the task is: in which call it sleeps
    notified,       \* a notification of the task is pending
    level,          \* of the pin RX_LED
    returns,        \* returns of esp_mesh_recv so far
    blinks,         \* flashes so far
    owed            \* packets that arrived since the last flash began

Init ==
    /\ sleeps = "notify" /\ notified = FALSE
    /\ level = 0
    /\ returns = 0 /\ blinks = 0 /\ owed = 0

\* Mutant: a task that sleeps in vTaskDelay does not get the notification.
Notifies_waiting == sleeps = "notify"

\* xTaskNotifyGive reaches the task wherever it is.
Notifies == TRUE

\* esp_mesh_recv has returned, with a packet or with an error or no data, and
\* notify_rx_led is called, which returns ESP_FAIL without a task.
notify_rx_led(packet) ==
    /\ returns < MaxReturns
    /\ returns' = returns + 1
    /\ IF rx_led_handle
       THEN /\ notified' = (notified \/ Notifies)
            /\ owed' = IF packet THEN owed + 1 ELSE owed
       ELSE UNCHANGED <<notified, owed>>
    /\ UNCHANGED <<rx_led_handle, sleeps, level, blinks>>

\* Mutant: the notification stays pending.
AfterWait_kept == notified

\* What xTaskNotifyWait leaves of it.
AfterWait == FALSE

\* xTaskNotifyWait returns, and the LED goes on for RX_LED_DELAY.
LedOn ==
    /\ rx_led_handle /\ sleeps = "notify" /\ notified
    /\ notified' = AfterWait
    /\ level' = 1
    /\ sleeps' = "lit"
    /\ blinks' = blinks + 1
    /\ owed' = 0
    /\ UNCHANGED <<rx_led_handle, returns>>

\* Mutant: the pin is set again instead of reset.
OffLevel_on == 1

OffLevel == 0

\* RX_LED_DELAY has passed, and the LED goes off for ten milliseconds.
LedOff ==
    /\ sleeps = "lit"
    /\ level' = OffLevel
    /\ sleeps' = "dark"
    /\ UNCHANGED <<rx_led_handle, notified, returns, blinks, owed>>

\* They have passed, and the task waits for the next notification.
LedWaits ==
    /\ sleeps = "dark"
    /\ sleeps' = "notify"
    /\ UNCHANGED <<rx_led_handle, notified, level, returns, blinks, owed>>

LedTask == LedOn \/ LedOff \/ LedWaits
=============================================================================
