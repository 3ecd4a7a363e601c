----------------------------- MODULE SerialComm -----------------------------
(***************************************************************************)
(* The Pi's end, raspi/src/sancak/serial_comm.cpp: a port, a read thread   *)
(* started and stopped by its owner, and the parser the thread feeds.      *)
(* open() is called on a closed port only, as its caller does.             *)
(***************************************************************************)
EXTENDS PacketFrame

VARIABLES
    is_open_,
    running_,
    read_thread,  \* "none", in "select", "feeding" a chunk to the parser, "done"
    owner,        \* "idle" or waiting in a "join"
    closing,      \* the join is part of close()
    chunk,        \* what read() returned and has not been fed
    rx,           \* the parser: [state, type, len, payload, crc, crcBytes]
    rx_packets    \* what the callback was called with, oldest first

comm_vars   == <<is_open_, running_, read_thread, owner, closing>>
parser_vars == <<rx, rx_packets>>
serial_vars == <<comm_vars, chunk, parser_vars>>

ParsingStates == {"WAIT_H1", "WAIT_H2", "GET_TYPE", "GET_LEN", "GET_PAYLOAD", "CHECK_CRC"}

Fresh == [state |-> "WAIT_H1", type |-> 0, len |-> 0, payload |-> <<>>,
          crc |-> kCrcInit, crcBytes |-> <<>>]

resetParser == rx' = Fresh

SerialInit ==
    /\ is_open_ = FALSE /\ running_ = FALSE /\ read_thread = "none"
    /\ owner = "idle" /\ closing = FALSE
    /\ chunk = <<>> /\ rx = Fresh /\ rx_packets = <<>>

-----------------------------------------------------------------------------
\* The device may be missing; then the port stays closed.
open ==
    /\ owner = "idle" /\ ~is_open_
    /\ is_open_' = TRUE
    /\ UNCHANGED <<running_, read_thread, owner, closing, chunk, parser_vars>>

\* A second start while running changes nothing.
startAsyncRead ==
    /\ owner = "idle" /\ is_open_ /\ ~running_
    /\ running_' = TRUE /\ read_thread' = "select"
    /\ resetParser
    /\ UNCHANGED <<is_open_, owner, closing, chunk, rx_packets>>

\* stopAsyncRead, on its own or as the first step of close().
stopAsyncRead ==
    /\ owner = "idle" /\ running_
    /\ running_' = FALSE /\ owner' = "join"
    /\ closing' \in BOOLEAN
    /\ UNCHANGED <<is_open_, read_thread, chunk, parser_vars>>

Joined ==
    /\ owner = "join" /\ read_thread = "done"
    /\ read_thread' = "none" /\ owner' = "idle" /\ closing' = FALSE
    /\ is_open_' = (is_open_ /\ ~closing)
    /\ UNCHANGED <<running_, chunk, parser_vars>>

\* close() without a thread to stop.
close ==
    /\ owner = "idle" /\ ~running_ /\ is_open_
    /\ is_open_' = FALSE
    /\ UNCHANGED <<running_, read_thread, owner, closing, chunk, parser_vars>>

-----------------------------------------------------------------------------
\* read() hands over bytes from the kernel's buffer.
ReadChunk(bytes) ==
    /\ read_thread = "select" /\ running_
    /\ chunk' = bytes /\ read_thread' = "feeding"
    /\ UNCHANGED <<is_open_, running_, owner, closing, parser_vars>>

\* select() returned 0, kPacketTimeout after the last byte.
SelectTimeout ==
    /\ read_thread = "select" /\ running_ /\ rx.state # "WAIT_H1"
    /\ resetParser
    /\ UNCHANGED <<comm_vars, chunk, rx_packets>>

\* Faulty variant: the loop is left only between two frames.
ReadLoopEndsIdle ==
    /\ read_thread = "select" /\ ~running_ /\ rx.state = "WAIT_H1"
    /\ read_thread' = "done"
    /\ UNCHANGED <<is_open_, running_, owner, closing, chunk, parser_vars>>

ReadLoopEnds ==
    /\ read_thread = "select" /\ ~running_
    /\ read_thread' = "done"
    /\ UNCHANGED <<is_open_, running_, owner, closing, chunk, parser_vars>>

-----------------------------------------------------------------------------
(* feedByte, one action per state of the parser.                           *)

CommTook(b, next) == [rx EXCEPT !.crc = crc16_ccitt_false_update(@, b), !.state = next]

CommHeading(b) == [rx EXCEPT !.crc = crc16_ccitt_false_update(kCrcInit, b),
                             !.state = "WAIT_H2"]

CommWaitH1(b) ==
    /\ rx.state = "WAIT_H1"
    /\ rx' = IF b = UART_H1 THEN CommHeading(b) ELSE rx
    /\ UNCHANGED rx_packets

CommWaitH2(b) ==
    /\ rx.state = "WAIT_H2"
    /\ rx' = CASE b = UART_H2 -> CommTook(b, "GET_TYPE")
               [] b = UART_H1 -> CommHeading(b)
               [] OTHER       -> Fresh
    /\ UNCHANGED rx_packets

CommGetType(b) ==
    /\ rx.state = "GET_TYPE"
    /\ rx' = [CommTook(b, "GET_LEN") EXCEPT !.type = b]
    /\ UNCHANGED rx_packets

\* A byte cannot exceed this side's limit of 255: nothing is rejected.
CommGetLen(b) ==
    /\ rx.state = "GET_LEN"
    /\ rx' = [CommTook(b, IF b = 0 THEN "CHECK_CRC" ELSE "GET_PAYLOAD")
                 EXCEPT !.len = b, !.payload = <<>>, !.crcBytes = <<>>]
    /\ UNCHANGED rx_packets

CommGetPayload(b) ==
    /\ rx.state = "GET_PAYLOAD"
    /\ rx' = [CommTook(b, IF Len(rx.payload) + 1 >= rx.len THEN "CHECK_CRC" ELSE "GET_PAYLOAD")
                 EXCEPT !.payload = Append(@, b)]
    /\ UNCHANGED rx_packets

CommCrcFirst(b) ==
    /\ rx.state = "CHECK_CRC" /\ rx.crcBytes = <<>>
    /\ rx' = [rx EXCEPT !.crcBytes = <<b>>]
    /\ UNCHANGED rx_packets

CommCrcSecond(b) ==
    /\ rx.state = "CHECK_CRC" /\ rx.crcBytes # <<>>
    /\ rx_packets' = IF rx.crcBytes[1] * 256 + b = rx.crc
                     THEN Append(rx_packets, [type |-> rx.type, payload |-> rx.payload])
                     ELSE rx_packets
    /\ resetParser

feedByte(b) ==
    \/ CommWaitH1(b) \/ CommWaitH2(b) \/ CommGetType(b) \/ CommGetLen(b)
    \/ CommGetPayload(b) \/ CommCrcFirst(b) \/ CommCrcSecond(b)

\* The for loop over the chunk does not look at running_.
FeedOne ==
    /\ read_thread = "feeding" /\ chunk # <<>>
    /\ feedByte(Head(chunk))
    /\ chunk' = Tail(chunk)
    /\ read_thread' = IF Len(chunk) = 1 THEN "select" ELSE "feeding"
    /\ UNCHANGED <<is_open_, running_, owner, closing>>

\* As ReceiverOK; besides, nobody but a joined owner is without a thread, and
\* no thread reads a closed port.
SerialCommOK ==
    /\ rx \in [state : ParsingStates, type : Bytes, len : Bytes, payload : Seq(Bytes),
               crc : Words, crcBytes : Seq(Bytes)]
    /\ rx.state = "GET_PAYLOAD" => Len(rx.payload) < rx.len
    /\ rx.state = "CHECK_CRC" => Len(rx.payload) = rx.len /\ Len(rx.crcBytes) < 2
    /\ rx_packets \in Seq(Packet)
    /\ chunk \in Seq(Bytes) /\ (chunk # <<>> <=> read_thread = "feeding")
    /\ read_thread # "none" => is_open_
    /\ running_ <=> owner = "idle" /\ read_thread # "none"
    /\ owner = "join" => read_thread # "none"
=============================================================================
