--------------------------- MODULE TelemetryClient ---------------------------
(***************************************************************************)
(* PC/src/TelemetryClient.cpp: the thread that keeps a connection to the   *)
(* Pi, sends the queued commands and takes the aim frames apart.           *)
(***************************************************************************)
EXTENDS OperatorConsole, TelemetryServer

CONSTANT NlFrames   \* the frame ids whose payload holds a byte '\n'

VARIABLES
    m_state,     \* "Disconnected" until the thread runs, "Connecting", "Connected", "Retrying"
    c_at,        \* in clientLoop's inner loop: "send", "recv", "parse"
    attached,    \* the last of conns is the client's
    recvBuffer,
    m_hasNewAim,
    m_aims       \* history: every aim result taken (the last is m_latestAim)

client_vars == <<m_state, c_at, attached, recvBuffer, m_hasNewAim, m_aims>>

ClientInit ==
    /\ m_state = "Disconnected" /\ c_at = "send" /\ attached = FALSE
    /\ recvBuffer = <<>> /\ m_hasNewAim = FALSE /\ m_aims = <<>>

Mine == Len(conns)

\* The backoff outlasts a frame of the UI, which therefore sees "Retrying".
tryAgain ==
    /\ \/ m_state = "Disconnected"
       \/ m_state = "Retrying" /\ m_prevTelState = "Retrying"
    /\ m_state' = "Connecting"
    /\ UNCHANGED <<console_vars, server_vars, c_at, attached, recvBuffer, m_hasNewAim, m_aims>>

connectFails ==
    /\ m_state = "Connecting" /\ (~alive \/ Len(conns) > 1)
    /\ m_state' = "Retrying"
    /\ UNCHANGED <<console_vars, server_vars, c_at, attached, recvBuffer, m_hasNewAim, m_aims>>

\* Faulty variant: what is left of the old stream stays in the buffer.
connectKeepingBuffer ==
    /\ m_state = "Connecting" /\ alive /\ Len(conns) <= 1
    /\ m_state' = "Connected" /\ attached' = TRUE /\ c_at' = "send"
    /\ conns' = Append(conns, NewConn)
    /\ UNCHANGED <<console_vars, pi_life, s_at, pi_queues, pi_frames, pi_modes, handled,
                   applied, recvBuffer, m_hasNewAim, m_aims>>

\* The server's backlog takes one connection while another is served.
connect ==
    /\ m_state = "Connecting" /\ alive /\ Len(conns) <= 1
    /\ m_state' = "Connected" /\ attached' = TRUE /\ recvBuffer' = <<>> /\ c_at' = "send"
    /\ conns' = Append(conns, NewConn)
    /\ UNCHANGED <<console_vars, pi_life, s_at, pi_queues, pi_frames, pi_modes, handled,
                   applied, m_hasNewAim, m_aims>>

\* connectionError: the socket is closed.
Leave ==
    /\ m_state' = "Retrying" /\ attached' = FALSE
    /\ conns' = IF conns = <<>> THEN conns ELSE [conns EXCEPT ![Mine].st =
                                                     IF @ = "up" THEN "down" ELSE @]

\* The connection is gone at the other end.
Gone == conns # <<>> => conns[Mine].st # "up"

\* The pieces of several commands.
Written(cmds) ==
    [i \in 1..2 * Len(cmds) |->
        [cmd |-> cmds[(i + 1) \div 2], part |-> IF i % 2 = 1 THEN 1 ELSE 2]]

\* The whole queue is sent with the mutex held; a command that cannot be sent
\* stays for the next connection, one the kernel took may be lost with this one.
SendQueued ==
    /\ attached /\ c_at = "send"
    /\ \E k \in 0..Len(m_sendQueue) :
          /\ k < Len(m_sendQueue) => Gone
          /\ m_sendQueue' = SubSeq(m_sendQueue, k + 1, Len(m_sendQueue))
          /\ IF k < Len(m_sendQueue) THEN Leave /\ UNCHANGED c_at
             ELSE /\ c_at' = "recv"
                  /\ conns' = IF Gone THEN conns
                              ELSE [conns EXCEPT ![Mine].up = @ \o Written(m_sendQueue)]
                  /\ UNCHANGED <<m_state, attached>>
    /\ UNCHANGED <<switches, m_prevTelState, issued, clicks, pi_life, s_at, pi_queues,
                   pi_frames, pi_modes, handled, applied, recvBuffer, m_hasNewAim, m_aims>>

ReceiveChunk ==
    /\ attached /\ c_at = "recv" /\ conns # <<>>
    /\ \E n \in 1..Len(conns[Mine].down) :
          /\ recvBuffer' = recvBuffer \o SubSeq(conns[Mine].down, 1, n)
          /\ conns' = [conns EXCEPT ![Mine].down = SubSeq(@, n + 1, Len(@))]
    /\ c_at' = "parse"
    /\ UNCHANGED <<console_vars, pi_life, s_at, pi_queues, pi_frames, pi_modes, handled,
                   applied, m_state, attached, m_hasNewAim, m_aims>>

\* 500 ms without data, or the other end has closed.
ReceiveFails ==
    /\ attached /\ c_at = "recv"
    /\ conns # <<>> => conns[Mine].down = <<>>
    /\ IF Gone THEN Leave /\ UNCHANGED c_at
       ELSE c_at' = "send" /\ UNCHANGED <<conns, m_state, attached>>
    /\ UNCHANGED <<console_vars, pi_life, s_at, pi_queues, pi_frames, pi_modes, handled,
                   applied, recvBuffer, m_hasNewAim, m_aims>>

-----------------------------------------------------------------------------
IsHeader(p) == p.part = 1
IsNewline(p) == p.part = 2 /\ p.id \in NlFrames

\* As many bytes as the header announces, whosever they are.
tryParseAimFrame ==
    /\ Len(recvBuffer) >= 3 /\ IsHeader(recvBuffer[1])
    /\ m_aims' = Append(m_aims, IF \A i \in 2..3 : recvBuffer[i] = [recvBuffer[1] EXCEPT !.part = i]
                                THEN recvBuffer[1].id ELSE 0)
    /\ m_hasNewAim' = TRUE
    /\ recvBuffer' = SubSeq(recvBuffer, 4, Len(recvBuffer))
    /\ UNCHANGED c_at

\* The first line is cut off, and with it any frame it runs through; without a
\* newline the loop ends.
CutLine(buf) ==
    LET ends == {i \in DOMAIN buf : IsNewline(buf[i])}
    IN  IF ends = {} THEN recvBuffer' = buf /\ c_at' = "send"
        ELSE /\ \E i \in ends : /\ \A j \in ends : i <= j
                                /\ recvBuffer' = SubSeq(buf, i + 1, Len(buf))
             /\ UNCHANGED c_at

\* No whole frame in front: a byte that starts none is dropped (a piece here
\* stands for several), an unfinished frame is looked through all the same.
NoFrame ==
    /\ Len(recvBuffer) >= 3 => ~IsHeader(recvBuffer[1])
    /\ \/ CutLine(recvBuffer)
       \/ recvBuffer # <<>> /\ ~IsHeader(recvBuffer[1]) /\ CutLine(Tail(recvBuffer))
    /\ UNCHANGED <<m_hasNewAim, m_aims>>

Parse ==
    /\ attached /\ c_at = "parse"
    /\ tryParseAimFrame \/ NoFrame
    /\ UNCHANGED <<console_vars, server_vars, m_state, attached>>

\* renderVideoPanel takes the newest result.
getLatestAimResult ==
    /\ m_hasNewAim /\ m_hasNewAim' = FALSE
    /\ UNCHANGED <<console_vars, server_vars, m_state, c_at, attached, recvBuffer, m_aims>>

ClientThread ==
    \/ tryAgain \/ connectFails \/ connect \/ SendQueued \/ ReceiveChunk \/ ReceiveFails
    \/ Parse
=============================================================================
