---------------------------- MODULE FrameReceiver ----------------------------
(***************************************************************************)
(* The microcontroller's parser, arduino/Receiver/Receiver.ino: one byte   *)
(* at a time, a timeout against half a frame, resynchronisation on headers.*)
(* The error counters, which nothing reads, are left out.                  *)
(***************************************************************************)
EXTENDS PacketFrame

VARIABLES
    g,        \* the parser: [state, type, len, payload, crc, crcRx]
    g_frames  \* what handleFrame was called with, oldest first

receiver_vars == <<g, g_frames>>

kMaxPayload == 64

RxStates == {"WAIT_H1", "WAIT_H2", "GET_TYPE", "GET_LEN", "GET_PAYLOAD",
             "GET_CRC_H", "GET_CRC_L"}

Reset(p) == [p EXCEPT !.state = "WAIT_H1", !.payload = <<>>, !.len = 0,
                      !.crc = kCrcInit, !.crcRx = 0]

ReceiverInit ==
    /\ g = [state |-> "WAIT_H1", type |-> 0, len |-> 0, payload |-> <<>>,
            crc |-> kCrcInit, crcRx |-> 0]
    /\ g_frames = <<>>

\* The parser in its next state, b added to the running CRC.
Took(b, next) == [g EXCEPT !.crc = crc16_ccitt_false_update(@, b), !.state = next]

\* A first header byte restarts the CRC wherever it is seen.
Heading(b) == [g EXCEPT !.crc = crc16_ccitt_false_update(kCrcInit, b),
                        !.state = "WAIT_H2"]

WaitH1(b) ==
    /\ g.state = "WAIT_H1"
    /\ g' = IF b = UART_H1 THEN Heading(b) ELSE g
    /\ UNCHANGED g_frames

\* Faulty variant: a second 0x55 does not count as a header.
WaitH2NoResync(b) ==
    /\ g.state = "WAIT_H2"
    /\ g' = IF b = UART_H2 THEN Took(b, "GET_TYPE") ELSE Reset(g)
    /\ UNCHANGED g_frames

WaitH2(b) ==
    /\ g.state = "WAIT_H2"
    /\ g' = CASE b = UART_H2 -> Took(b, "GET_TYPE")
              [] b = UART_H1 -> Heading(b)
              [] OTHER       -> Reset(g)
    /\ UNCHANGED g_frames

GetType(b) ==
    /\ g.state = "GET_TYPE"
    /\ g' = [Took(b, "GET_LEN") EXCEPT !.type = b]
    /\ UNCHANGED g_frames

\* Faulty variant: an oversized length is accepted.
GetLenUnchecked(b) ==
    /\ g.state = "GET_LEN"
    /\ g' = [Took(b, IF b = 0 THEN "GET_CRC_H" ELSE "GET_PAYLOAD")
                EXCEPT !.len = b, !.payload = <<>>]
    /\ UNCHANGED g_frames

GetLen(b) ==
    /\ g.state = "GET_LEN"
    /\ g' = IF b > kMaxPayload THEN Reset(g)
            ELSE [Took(b, IF b = 0 THEN "GET_CRC_H" ELSE "GET_PAYLOAD")
                     EXCEPT !.len = b, !.payload = <<>>]
    /\ UNCHANGED g_frames

GetPayload(b) ==
    /\ g.state = "GET_PAYLOAD"
    /\ g' = [Took(b, IF Len(g.payload) + 1 >= g.len THEN "GET_CRC_H" ELSE "GET_PAYLOAD")
                EXCEPT !.payload = Append(@, b)]
    /\ UNCHANGED g_frames

GetCrcH(b) ==
    /\ g.state = "GET_CRC_H"
    /\ g' = [g EXCEPT !.crcRx = b * 256, !.state = "GET_CRC_L"]
    /\ UNCHANGED g_frames

GetCrcL(b) ==
    /\ g.state = "GET_CRC_L"
    /\ g_frames' = IF g.crcRx + b = g.crc
                   THEN Append(g_frames, [type |-> g.type, payload |-> g.payload])
                   ELSE g_frames
    /\ g' = Reset(g)

\* One round of the while loop.
ReceiverByte(b) ==
    \/ WaitH1(b) \/ WaitH2(b) \/ GetType(b) \/ GetLen(b)
    \/ GetPayload(b) \/ GetCrcH(b) \/ GetCrcL(b)

\* Faulty variant: the head of loop() gives up only on an unfinished payload.
ReceiverTimeoutPayload ==
    /\ g.state = "GET_PAYLOAD"
    /\ g' = Reset(g)
    /\ UNCHANGED g_frames

\* The head of loop(), kTimeoutMs after the last byte.
ReceiverTimeout ==
    /\ g.state # "WAIT_H1"
    /\ g' = Reset(g)
    /\ UNCHANGED g_frames

\* g_payload[g_payloadIdx++] stays inside the array, whatever the line says,
\* and a finished payload has the announced length.
ReceiverOK ==
    /\ g \in [state : RxStates, type : Bytes, len : 0..kMaxPayload, payload : Seq(Bytes),
              crc : Words, crcRx : Words]
    /\ g.state = "GET_PAYLOAD" => Len(g.payload) < g.len
    /\ g.state \in {"GET_CRC_H", "GET_CRC_L"} => Len(g.payload) = g.len
    /\ g_frames \in Seq(Packet)
=============================================================================
