----------------------------- MODULE SerialLink -----------------------------
(***************************************************************************)
(* Framed packets over a serial line that loses bytes, picks up stray ones *)
(* and stops in the middle of a frame.  At the far end listens either the  *)
(* microcontroller's parser (FrameReceiver) or the Pi's read thread        *)
(* (SerialComm); the two never hear the same line.                         *)
(***************************************************************************)
EXTENDS FrameReceiver, SerialComm

CONSTANTS Packets,    \* what is sent: ProtocolDef.h's payloads have at most 12 bytes
          MaxFrames,  \* bound on the frames sent
          MaxFaults   \* bound on the bytes lost or stray

ASSUME LinkAssumption ==
    /\ Packets \subseteq Packet /\ \A p \in Packets : Len(p.payload) <= kMaxPayload
    /\ MaxFrames \in Nat /\ MaxFaults \in Nat

VARIABLES
    end,    \* who listens: "board" or "pi"
    wire,   \* bytes on the line or in the listener's buffer
    sent,   \* frames sent so far
    faults, \* bytes lost or stray so far
    quiet,  \* the listener's timeout has passed since its last byte
    since   \* history: the bytes parsed since the parser last waited for a frame
            \* and none had begun

line_vars == <<wire, sent, faults, quiet>>
link_vars == <<receiver_vars, serial_vars, line_vars, end, since>>

LinkInit ==
    /\ ReceiverInit /\ SerialInit
    /\ end \in {"board", "pi"}
    /\ wire = <<>> /\ sent = 0 /\ faults = 0 /\ quiet = TRUE
    /\ since = <<>>

-----------------------------------------------------------------------------
Frame == [p \in Packets |-> buildRaw(p)]

Transmit ==
    /\ sent < MaxFrames
    /\ \E p \in Packets : wire' = wire \o Frame[p]
    /\ sent' = sent + 1
    /\ UNCHANGED <<receiver_vars, serial_vars, faults, quiet, end, since>>

LoseByte ==
    /\ faults < MaxFaults /\ wire # <<>>
    /\ wire' = Tail(wire) /\ faults' = faults + 1
    /\ UNCHANGED <<receiver_vars, serial_vars, sent, quiet, end, since>>

\* A stray byte that looks like the start of a frame.
Glitch ==
    /\ faults < MaxFaults
    /\ wire' = Append(wire, UART_H1) /\ faults' = faults + 1
    /\ UNCHANGED <<receiver_vars, serial_vars, sent, quiet, end, since>>

Pause ==
    /\ ~quiet
    /\ quiet' = TRUE
    /\ UNCHANGED <<receiver_vars, serial_vars, wire, sent, faults, end, since>>

Idle == IF end = "board" THEN g.state = "WAIT_H1" ELSE rx.state = "WAIT_H1"

\* Stray header bytes and the beginning of a frame, but not all of it.
Promising(s) ==
    \E p \in Packets : \E n \in 0..Len(s) :
        /\ n < Len(Frame[p]) /\ IsSuffix(SubSeq(Frame[p], 1, n), s)
        /\ \A i \in 1..(Len(s) - n) : s[i] = UART_H1

Parsed(b) == since' = IF Idle /\ ~Promising(since) THEN <<b>> ELSE Append(since, b)

BoardReads ==
    /\ end = "board" /\ wire # <<>>
    /\ ReceiverByte(Head(wire)) /\ Parsed(Head(wire))
    /\ wire' = Tail(wire) /\ quiet' = FALSE
    /\ UNCHANGED <<serial_vars, sent, faults, end>>

BoardTimeout ==
    /\ end = "board" /\ quiet
    /\ ReceiverTimeout
    /\ since' = <<>>
    /\ UNCHANGED <<serial_vars, line_vars, end>>

PiReads ==
    /\ end = "pi"
    /\ \E n \in 1..Len(wire) :
          /\ ReadChunk(SubSeq(wire, 1, n))
          /\ wire' = SubSeq(wire, n + 1, Len(wire))
    /\ quiet' = FALSE
    /\ UNCHANGED <<receiver_vars, sent, faults, end, since>>

PiFeeds ==
    /\ end = "pi"
    /\ FeedOne /\ Parsed(Head(chunk))
    /\ UNCHANGED <<receiver_vars, line_vars, end>>

PiTimeout ==
    /\ end = "pi" /\ quiet
    /\ SelectTimeout
    /\ since' = <<>>
    /\ UNCHANGED <<receiver_vars, line_vars, end>>

\* Starting to read takes the time of a first byte and empties the parser.
PiStarts ==
    /\ end = "pi"
    /\ startAsyncRead
    /\ quiet' = FALSE /\ since' = <<>>
    /\ UNCHANGED <<receiver_vars, wire, sent, faults, end>>

PiStops == Joined \/ ReadLoopEnds

PiOwner ==
    /\ end = "pi"
    /\ open \/ stopAsyncRead \/ PiStops \/ close
    /\ UNCHANGED <<receiver_vars, line_vars, end, since>>

LinkNext ==
    \/ Transmit \/ LoseByte \/ Glitch \/ Pause
    \/ BoardReads \/ BoardTimeout
    \/ PiReads \/ PiFeeds \/ PiTimeout \/ PiStarts \/ PiOwner

LinkSpec == LinkInit /\ [][LinkNext]_link_vars

\* loop() is called for ever, the read thread is scheduled, time passes, a
\* join that can return does.  Nobody has to send, start or stop.
FairLinkSpec ==
    /\ LinkSpec
    /\ WF_link_vars(Pause)
    /\ WF_link_vars(BoardReads) /\ WF_link_vars(BoardTimeout)
    /\ WF_link_vars(PiFeeds) /\ WF_link_vars(PiTimeout)
    /\ WF_link_vars(PiOwner /\ PiStops)

-----------------------------------------------------------------------------
(***************************************************************************)
(* Neither parser writes outside its payload buffer or mistakes a payload  *)
(* for finished, whatever arrives; a read thread is never left behind, on  *)
(* a closed port or unjoined.                                              *)
(***************************************************************************)
LinkInv == ReceiverOK /\ SerialCommOK

Delivered == IF end = "board" THEN g_frames ELSE rx_packets

(***************************************************************************)
(* What is delivered is exactly what was framed: a packet whose frame      *)
(* arrives whole at a waiting parser, stray header bytes before it or not, *)
(* is delivered with its last byte, and whatever is delivered has arrived  *)
(* as one uninterrupted frame, such as PacketBuilder builds of it, whatever *)
(* was lost around it.                                                     *)
(***************************************************************************)
ArrivesWhole(p) ==
    LET stray == Len(since') - Len(Frame[p])
    IN  /\ since' # since /\ IsSuffix(Frame[p], since')
        /\ \A i \in 1..stray : since'[i] = UART_H1

DeliversFrames ==
    [][/\ \A p \in Packets : ArrivesWhole(p) => Delivered' = Append(Delivered, p)
       /\ Delivered' # Delivered => IsSuffix(buildRaw(Last(Delivered')), since')]_link_vars

(***************************************************************************)
(* No loss leaves a parser hanging in half a frame for good ("kilitlenme   *)
(* onlemi", Receiver.ino:64): it waits for a new frame again and again.    *)
(* And stopAsyncRead (and close) return, in the middle of a chunk too.     *)
(***************************************************************************)
NeverStuck ==
    /\ []<>(Idle \/ (end = "pi" /\ ~running_))
    /\ owner = "join" ~> owner = "idle"
=============================================================================
