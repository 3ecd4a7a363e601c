--------------------------- MODULE TelemetryServer ---------------------------
(***************************************************************************)
(* raspi/src/network/tcp_telemetry_server.cpp, one client at a time, and   *)
(* the frame loop that takes the commands from it and leaves aim results.  *)
(*                                                                         *)
(* conns holds the connections not closed at this end, oldest first: the   *)
(* server is in the first one (or about to accept it), the PC's client at  *)
(* most in the last.  A connection is "up", "down" (the PC has gone), or   *)
(* "told": recv has already reported its reset, and the next send raises   *)
(* SIGPIPE, which nothing handles.                                         *)
(*                                                                         *)
(* A command is two pieces, its text and its end of line, an aim frame     *)
(* three: the header, payload up to a byte that may be '\n', the rest.     *)
(***************************************************************************)
EXTENDS Subsequences, SequencesExt

CONSTANTS max_cmd_queue_,  \* 64
          MaxAims,         \* bound on the aim results published
          MaxPiRestarts,   \* bound on the restarts of the Pi's program
          Fp16Loads        \* the FP16 model's file is there and loads

ASSUME ServerAssumption ==
    /\ max_cmd_queue_ \in Nat \ {0} /\ MaxAims \in Nat /\ MaxPiRestarts \in Nat
    /\ Fp16Loads \in BOOLEAN

VARIABLES
    alive,         \* the Pi's program runs
    pi_restarts,
    conns,         \* <<[up, down, st], ...>>
    s_at,          \* the thread: "accept", "send", "recv"
    inLineBuf, cmd_queue_,
    out_queue_,    \* 0 or the frame id to be sent
    net_frame_id_,
    published,     \* history: the frame ids published
    detection_enabled_, autonomous, fp16_enabled_,
    handled,       \* history: every command handled
    applied,       \* those of them since the last start
    overflowed     \* history: the full queue dropped a command

pi_modes    == <<detection_enabled_, autonomous, fp16_enabled_>>
pi_queues   == <<inLineBuf, cmd_queue_, overflowed>>
pi_frames   == <<out_queue_, net_frame_id_, published>>
pi_life     == <<alive, pi_restarts>>
server_vars == <<pi_life, conns, s_at, pi_queues, pi_frames, pi_modes, handled, applied>>

ServerInit ==
    /\ alive = TRUE /\ pi_restarts = 0
    /\ conns = <<>> /\ s_at = "accept"
    /\ inLineBuf = <<>> /\ cmd_queue_ = <<>> /\ overflowed = FALSE
    /\ out_queue_ = 0 /\ net_frame_id_ = 1 /\ published = <<>>
    /\ detection_enabled_ = TRUE /\ autonomous = FALSE /\ fp16_enabled_ = FALSE
    /\ handled = <<>> /\ applied = {}

CommandTexts == {"DETECT:START", "DETECT:STOP", "MODE:FULL_AUTO", "MODE:MANUAL",
                 "FP16:ON", "FP16:OFF"}
Commands     == [cmd : CommandTexts, n : Nat]

FramePieces(id)  == [i \in 1..3 |-> [id |-> id, part |-> i]]
LineEnds         == [cmd : Commands, part : {2}]
NewConn          == [up |-> <<>>, down |-> <<>>, st |-> "up"]

\* closeSocket and back to accept.
CloseClient == conns' = Tail(conns) /\ s_at' = "accept" /\ inLineBuf' = <<>>

accept ==
    /\ alive /\ s_at = "accept" /\ conns # <<>>
    /\ s_at' = "send"
    /\ UNCHANGED <<pi_life, conns, pi_queues, pi_frames, pi_modes, handled, applied>>

\* The newest frame, if there is one.  A send on a reset connection fails once
\* without, from then on with SIGPIPE.
SendLatest ==
    /\ alive /\ s_at = "send"
    /\ IF out_queue_ = 0
       THEN s_at' = "recv" /\ UNCHANGED <<alive, conns, inLineBuf>>
       ELSE CASE conns[1].st = "up" ->
                    /\ conns' = [conns EXCEPT ![1].down = @ \o FramePieces(out_queue_)]
                    /\ s_at' = "recv" /\ UNCHANGED <<alive, inLineBuf>>
              [] conns[1].st = "down" ->
                    \/ s_at' = "recv" /\ UNCHANGED <<alive, conns, inLineBuf>>
                    \/ CloseClient /\ UNCHANGED alive
              [] conns[1].st = "told" ->
                    /\ alive' = FALSE /\ conns' = <<>> /\ inLineBuf' = <<>>
                    /\ UNCHANGED s_at
    /\ out_queue_' = 0
    /\ UNCHANGED <<pi_restarts, cmd_queue_, overflowed, net_frame_id_,
                   published, pi_modes, handled, applied>>

\* The finished lines; a connection's pieces come in order, so each has its text.
Lines(pieces) ==
    LET ends == Only(pieces, LineEnds)
    IN  [i \in DOMAIN ends |-> ends[i].cmd]

\* What follows the last end of line.
Unfinished(pieces) == IF Last(pieces).part = 1 THEN <<Last(pieces)>> ELSE <<>>

\* Faulty variant: no limit.
enqueueCommandUnlimited(lines) ==
    cmd_queue_' = cmd_queue_ \o lines /\ UNCHANGED overflowed

\* enqueueCommand, line by line: at the limit the oldest goes.
enqueueCommand(lines) ==
    LET all == cmd_queue_ \o lines
        over == IF Len(all) > max_cmd_queue_ THEN Len(all) - max_cmd_queue_ ELSE 0
    IN  /\ cmd_queue_' = SubSeq(all, over + 1, Len(all))
        /\ overflowed' = (overflowed \/ over > 0)

ReceiveCommands ==
    /\ alive /\ s_at = "recv" /\ s_at' = "send"
    /\ \E n \in 1..Len(conns[1].up) :
          LET text == inLineBuf \o SubSeq(conns[1].up, 1, n)
          IN  /\ conns' = [conns EXCEPT ![1].up = SubSeq(@, n + 1, Len(@))]
              /\ inLineBuf' = Unfinished(text)
              /\ enqueueCommand(Lines(text))
    /\ UNCHANGED <<pi_life, pi_frames, pi_modes, handled, applied>>

\* recv returns without data: a timeout, a reset (taken for one), or the end.
ReceiveNothing ==
    /\ alive /\ s_at = "recv" /\ conns[1].up = <<>>
    /\ \/ conns[1].st = "up" /\ s_at' = "send" /\ UNCHANGED <<conns, inLineBuf>>
       \/ /\ conns[1].st = "down" /\ s_at' = "send"
          /\ conns' = [conns EXCEPT ![1].st = "told"] /\ UNCHANGED inLineBuf
       \/ conns[1].st # "up" /\ CloseClient
    /\ UNCHANGED <<pi_life, cmd_queue_, overflowed, pi_frames, pi_modes, handled, applied>>

\* The end of a frame: publishAimResult replaces what has not been sent.
publishAimResult ==
    /\ alive /\ Len(published) < MaxAims
    /\ out_queue_' = net_frame_id_ /\ net_frame_id_' = net_frame_id_ + 1
    /\ published' = Append(published, net_frame_id_)
    /\ UNCHANGED <<pi_life, conns, s_at, pi_queues, pi_modes, handled, applied>>

\* Faulty variant: stopping detection also ends the autonomous mode.
DETECT_EndsAuto(cmd) ==
    /\ cmd \in {"DETECT:START", "DETECT:STOP"}
    /\ detection_enabled_' = (cmd = "DETECT:START")
    /\ autonomous' = (autonomous /\ cmd = "DETECT:START")
    /\ UNCHANGED fp16_enabled_

DETECT(cmd) ==
    /\ cmd \in {"DETECT:START", "DETECT:STOP"}
    /\ detection_enabled_' = (cmd = "DETECT:START")
    /\ UNCHANGED <<autonomous, fp16_enabled_>>

MODE(cmd) ==
    /\ cmd \in {"MODE:FULL_AUTO", "MODE:MANUAL"}
    /\ autonomous' = (cmd = "MODE:FULL_AUTO")
    /\ detection_enabled_' = (detection_enabled_ \/ cmd = "MODE:FULL_AUTO")
    /\ UNCHANGED fp16_enabled_

\* A model that is missing or does not load leaves FP32 in place.
FP16(cmd) ==
    /\ cmd \in {"FP16:ON", "FP16:OFF"}
    /\ fp16_enabled_' = (cmd = "FP16:ON" /\ Fp16Loads)
    /\ UNCHANGED <<detection_enabled_, autonomous>>

\* consumeNetworkCommands at the head of a frame.
handleNetworkCommand ==
    /\ alive /\ cmd_queue_ # <<>>
    /\ LET c == Head(cmd_queue_)
       IN  /\ DETECT(c.cmd) \/ MODE(c.cmd) \/ FP16(c.cmd)
           /\ handled' = Append(handled, c) /\ applied' = applied \cup {c.n}
    /\ cmd_queue_' = Tail(cmd_queue_)
    /\ UNCHANGED <<pi_life, conns, s_at, inLineBuf, overflowed, pi_frames>>

\* The Pi's program is started again after it died.
PiStarts ==
    /\ ~alive /\ pi_restarts < MaxPiRestarts
    /\ alive' = TRUE /\ pi_restarts' = pi_restarts + 1
    /\ conns' = <<>> /\ s_at' = "accept" /\ inLineBuf' = <<>> /\ cmd_queue_' = <<>>
    /\ out_queue_' = 0 /\ net_frame_id_' = 1
    /\ detection_enabled_' = TRUE /\ autonomous' = FALSE /\ fp16_enabled_' = FALSE
    /\ applied' = {}
    /\ UNCHANGED <<overflowed, published, handled>>

ServerThread == accept \/ SendLatest \/ ReceiveCommands \/ ReceiveNothing
=============================================================================
