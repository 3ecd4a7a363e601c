--------------------------- MODULE OperatorConsole ---------------------------
(***************************************************************************)
(* PC/src/App.cpp: the operator's switches and the commands they send.     *)
(* The UI keeps its own idea of the Pi's modes; nothing tells it the       *)
(* Pi's.  Commands are numbered as they are issued.                        *)
(***************************************************************************)
EXTENDS Integers, Sequences

CONSTANT MaxClicks   \* bound on the operator's clicks

ASSUME ConsoleAssumption == MaxClicks \in Nat

VARIABLES
    m_connected,     \* the UI's word for "detection is on"
    m_fullAuto, m_fp16Enabled,
    m_prevTelState,  \* the client's state as last drawn
    m_sendQueue,     \* TelemetryClient's queue
    issued,          \* history: every command issued
    clicks

switches     == <<m_connected, m_fullAuto, m_fp16Enabled>>
console_vars == <<switches, m_prevTelState, m_sendQueue, issued, clicks>>

ConsoleInit ==
    /\ m_connected = FALSE /\ m_fullAuto = FALSE /\ m_fp16Enabled = TRUE
    /\ m_prevTelState = "Disconnected"
    /\ m_sendQueue = <<>> /\ issued = <<>> /\ clicks = 0

\* A queue that a later connection empties; being connected is not required.
sendCommand(cmds) ==
    LET new == [i \in DOMAIN cmds |-> [cmd |-> cmds[i], n |-> Len(issued) + i]]
    IN  m_sendQueue' = m_sendQueue \o new /\ issued' = issued \o new

Click == clicks < MaxClicks /\ clicks' = clicks + 1

toggleAutonomousDetection ==
    /\ Click
    /\ m_connected' = ~m_connected
    /\ sendCommand(<<IF m_connected THEN "DETECT:STOP" ELSE "DETECT:START">>)
    /\ UNCHANGED <<m_fullAuto, m_fp16Enabled, m_prevTelState>>

toggleFullAutonomous ==
    /\ Click
    /\ m_fullAuto' = ~m_fullAuto
    /\ IF m_fullAuto THEN sendCommand(<<"MODE:MANUAL">>) /\ UNCHANGED m_connected
       ELSE IF m_connected THEN sendCommand(<<"MODE:FULL_AUTO">>) /\ UNCHANGED m_connected
       ELSE sendCommand(<<"DETECT:START", "MODE:FULL_AUTO">>) /\ m_connected' = TRUE
    /\ UNCHANGED <<m_fp16Enabled, m_prevTelState>>

Fp16(on) == IF on THEN "FP16:ON" ELSE "FP16:OFF"

\* The checkbox of renderSettingsPanel; only sent to a connected client.
fp16Checkbox(state) ==
    /\ Click
    /\ m_fp16Enabled' = ~m_fp16Enabled
    /\ IF state = "Connected" THEN sendCommand(<<Fp16(m_fp16Enabled')>>)
       ELSE UNCHANGED <<m_sendQueue, issued>>
    /\ UNCHANGED <<m_connected, m_fullAuto, m_prevTelState>>

\* Faulty variant: the setting is not sent again after a reconnection.
renderStatusBarSilent(state) ==
    /\ state # m_prevTelState
    /\ m_prevTelState' = state
    /\ UNCHANGED <<switches, clicks, m_sendQueue, issued>>

\* A change of the client's state as the status bar sees it.
renderStatusBar(state) ==
    /\ state # m_prevTelState
    /\ m_prevTelState' = state
    /\ IF state = "Connected" THEN sendCommand(<<Fp16(m_fp16Enabled)>>)
       ELSE UNCHANGED <<m_sendQueue, issued>>
    /\ UNCHANGED <<switches, clicks>>

-----------------------------------------------------------------------------
DetectCommands == {"DETECT:START", "DETECT:STOP"}
ModeCommands   == {"MODE:FULL_AUTO", "MODE:MANUAL"}

\* The number of the last command issued of a kind, 0 if there is none.
LastIssued(kind) ==
    LET of == {i \in DOMAIN issued : issued[i].cmd \in kind}
    IN  IF of = {} THEN 0 ELSE CHOOSE i \in of : \A j \in of : j <= i
=============================================================================
