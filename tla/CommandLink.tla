----------------------------- MODULE CommandLink -----------------------------
(***************************************************************************)
(* The operator's console, the TCP connection and the Pi: commands go one  *)
(* way, aim results the other.  The network may drop the connection, and   *)
(* what is on the way in it from some point on, at any time.               *)
(***************************************************************************)
EXTENDS TelemetryClient

CONSTANTS
    MaxBreaks,   \* bound on the connections the network drops
    MaxWork      \* bound on clicks and aim results together

ASSUME CommandLinkAssumption == MaxBreaks \in Nat /\ MaxWork \in Nat

VARIABLES breaks, workload   \* how many clicks and aim results there will be

command_vars == <<console_vars, server_vars, client_vars, breaks, workload>>

CommandInit ==
    /\ ConsoleInit /\ ServerInit /\ ClientInit /\ breaks = 0
    /\ workload \in {w \in (0..MaxClicks) \X (0..MaxAims) : w[1] + w[2] = MaxWork}

ConnectionDrops ==
    /\ breaks < MaxBreaks /\ breaks' = breaks + 1
    /\ attached /\ conns # <<>> /\ conns[Mine].st = "up"
    /\ \E i \in 0..Len(conns[Mine].up), j \in 0..Len(conns[Mine].down) :
          conns' = [conns EXCEPT ![Mine] = [up   |-> SubSeq(@.up, 1, i),
                                            down |-> SubSeq(@.down, 1, j), st |-> "down"]]
    /\ UNCHANGED <<console_vars, pi_life, s_at, pi_queues, pi_frames, pi_modes, handled,
                   applied, client_vars, workload>>

Console(A) == UNCHANGED <<server_vars, client_vars, breaks, workload>> /\ A
Pi(A)      == UNCHANGED <<console_vars, client_vars, breaks, workload>> /\ A
Client(A)  == UNCHANGED <<breaks, workload>> /\ A

StatusBar == renderStatusBar(m_state)

CommandNext ==
    \/ /\ clicks < workload[1]
       /\ Console(toggleAutonomousDetection \/ toggleFullAutonomous \/ fp16Checkbox(m_state))
    \/ Console(StatusBar)
    \/ Client(ClientThread \/ getLatestAimResult)
    \/ Pi(ServerThread) \/ Pi(handleNetworkCommand) \/ Pi(PiStarts)
    \/ Len(published) < workload[2] /\ Pi(publishAimResult)
    \/ ConnectionDrops

CommandSpec == CommandInit /\ [][CommandNext]_command_vars

\* The UI is drawn, both threads are scheduled and see what happened to their
\* connection, the frame loop runs.
FairCommandSpec ==
    /\ CommandSpec
    /\ WF_console_vars(Console(StatusBar))
    /\ WF_client_vars(Client(ClientThread))
    /\ WF_server_vars(Pi(ServerThread))
    /\ WF_server_vars(Pi(handleNetworkCommand))

-----------------------------------------------------------------------------
\* Queues within their limits; a half line only while its connection is served.
CommandLinkOK ==
    /\ Len(cmd_queue_) <= max_cmd_queue_
    /\ Len(conns) <= 2 /\ Len(inLineBuf) <= 1
    /\ s_at = "accept" => inLineBuf = <<>>
    /\ s_at # "accept" /\ alive => conns # <<>>
    /\ attached <=> m_state = "Connected"
    /\ m_hasNewAim => m_aims # <<>>

Headers == [id : Nat, part : {1}]
Heads(pieces) == LET heads == Only(pieces, Headers)
                 IN  [i \in DOMAIN heads |-> heads[i].id]

CommandsOnTheWay ==
    LET up(i) == IF i \in DOMAIN conns THEN Lines(conns[i].up) ELSE <<>>
    IN  cmd_queue_ \o up(1) \o up(2) \o m_sendQueue

AimsOnTheWay ==
    Heads(recvBuffer) \o
    (IF attached /\ conns # <<>> THEN Heads(conns[Mine].down) ELSE <<>>) \o
    (IF out_queue_ = 0 THEN <<>> ELSE <<out_queue_>>)

(***************************************************************************)
(* Commands and aim results both keep to the lossy channel: a broken       *)
(* connection, a resent command, a cut frame or a restart loses some, but  *)
(* none is ever doubled, overtaken or put together from two.               *)
(***************************************************************************)
CommandChannel == INSTANCE LossyChannel
    WITH sent <- issued, inTransit <- CommandsOnTheWay, delivered <- handled
AimChannel == INSTANCE LossyChannel
    WITH sent <- published, inTransit <- AimsOnTheWay, delivered <- m_aims

BothWaysKeepOrder == CommandChannel!ChannelSpec /\ AimChannel!ChannelSpec

(***************************************************************************)
(* What the operator sees is what the Pi does, once it has the last word:  *)
(* when the last DETECT (MODE) command reached a Pi that has not been      *)
(* restarted since, detection (the autonomous mode) there is as the switch *)
(* says, whatever was lost before.  Before the first click it need not be: *)
(* the Pi starts with detection on, the UI with "off".                     *)
(***************************************************************************)
LastWordCounts ==
    alive =>
        /\ LastIssued(DetectCommands) \in applied => detection_enabled_ = m_connected
        /\ LastIssued(ModeCommands) \in applied => autonomous = m_fullAuto

(***************************************************************************)
(* The one setting the UI sends again after a reconnection does arrive:    *)
(* whatever was lost with connections or in a restart, the Pi in the end   *)
(* runs the model the operator chose (if that loads, and the full command  *)
(* queue has not dropped it).                                              *)
(***************************************************************************)
ModelChoiceArrives ==
    <>[](Fp16Loads /\ alive /\ ~overflowed => fp16_enabled_ = m_fp16Enabled)

(***************************************************************************)
(* "PC tarafi baglantiyi kaybetse bile Raspi'nin safety katmanlari         *)
(* calismali" (TEKNIK_DOKUMAN.md:690): losing the PC leaves the Pi's       *)
(* program running.                                                        *)
(***************************************************************************)
PiOutlivesLink == alive
=============================================================================
