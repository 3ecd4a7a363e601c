------------------------- MODULE CommandLink_proofs -------------------------
(***************************************************************************)
(* The command link: commands and aim results are lossy channels, and what *)
(* the operator sees is what a Pi that has the last word does.             *)
(***************************************************************************)
EXTENDS CommandLink, Subsequences_proofs

-----------------------------------------------------------------------------
(* Types.                                                                    *)

LinePiece == [cmd : Commands, part : {1, 2}]
TextPiece == [cmd : Commands, part : {1}]
AimPiece  == [id : Nat, part : 1..3]
Conn == [up : Seq(LinePiece), down : Seq(AimPiece), st : {"up", "down", "told"}]

ConsoleTypeOK ==
    /\ m_connected \in BOOLEAN /\ m_fullAuto \in BOOLEAN /\ m_fp16Enabled \in BOOLEAN
    /\ m_sendQueue \in Seq(Commands) /\ issued \in Seq(Commands)

ServerTypeOK ==
    /\ alive \in BOOLEAN /\ s_at \in {"accept", "send", "recv"}
    /\ inLineBuf \in Seq(TextPiece) /\ cmd_queue_ \in Seq(Commands)
    /\ out_queue_ \in Nat /\ net_frame_id_ \in Nat /\ published \in Seq(Nat)
    /\ handled \in Seq(Commands) /\ applied \in SUBSET Nat

ModesTypeOK ==
    detection_enabled_ \in BOOLEAN /\ autonomous \in BOOLEAN /\ fp16_enabled_ \in BOOLEAN

ClientTypeOK ==
    /\ m_state \in {"Disconnected", "Connecting", "Connected", "Retrying"}
    /\ c_at \in {"send", "recv", "parse"} /\ attached \in BOOLEAN
    /\ recvBuffer \in Seq(AimPiece) /\ m_hasNewAim \in BOOLEAN /\ m_aims \in Seq(Nat)

ConnsTypeOK == conns \in Seq(Conn)

LinkTypeOK == ConsoleTypeOK /\ ServerTypeOK /\ ModesTypeOK /\ ClientTypeOK /\ ConnsTypeOK

LinkTypeInv == LinkTypeOK /\ CommandLinkOK

\* The operator's steps and the drawing of the status bar.
ConsoleStep ==
    \/ toggleAutonomousDetection \/ toggleFullAutonomous \/ fp16Checkbox(m_state)
    \/ renderStatusBar(m_state)

-----------------------------------------------------------------------------
(* Commands issued.                                                          *)

Issue(cmds) == [i \in DOMAIN cmds |-> [cmd |-> cmds[i], n |-> Len(issued) + i]]

LEMMA IssueIsSeq ==
    ASSUME issued \in Seq(Commands), NEW cmds \in Seq(CommandTexts)
    PROVE  Issue(cmds) \in Seq(Commands) /\ Len(Issue(cmds)) = Len(cmds)
<1>1. \A i \in DOMAIN cmds : [cmd |-> cmds[i], n |-> Len(issued) + i] \in Commands
  BY DEF Commands
<1> QED
  BY <1>1 DEF Issue

\* What a click, or the drawing, sends: nothing, one command or two.
Requests == {<<>>, <<"DETECT:STOP">>, <<"DETECT:START">>, <<"MODE:MANUAL">>,
             <<"MODE:FULL_AUTO">>, <<"DETECT:START", "MODE:FULL_AUTO">>,
             <<"FP16:ON">>, <<"FP16:OFF">>}

LEMMA RequestsAreNames == Requests \subseteq Seq(CommandTexts)
  BY DEF Requests, CommandTexts, DetectCommands, ModeCommands

IssuesAll(cmds) ==
    m_sendQueue' = m_sendQueue \o Issue(cmds) /\ issued' = issued \o Issue(cmds)

LEMMA NothingIssued ==
    ASSUME ConsoleTypeOK, UNCHANGED <<m_sendQueue, issued>>
    PROVE  IssuesAll(<<>>)
<1>1. Issue(<<>>) = <<>>
  BY DEF Issue
<1>2. m_sendQueue \o <<>> = m_sendQueue /\ issued \o <<>> = issued
  BY DEF ConsoleTypeOK
<1> QED
  BY <1>1, <1>2 DEF IssuesAll

LEMMA ConsoleIssues ==
    ASSUME ConsoleTypeOK, ConsoleStep
    PROVE  /\ \E cmds \in Requests : IssuesAll(cmds)
           /\ m_connected' \in BOOLEAN /\ m_fullAuto' \in BOOLEAN /\ m_fp16Enabled' \in BOOLEAN
<1> USE DEF ConsoleTypeOK
<1>1. CASE toggleAutonomousDetection
  <2>1. sendCommand(<<"DETECT:STOP">>) \/ sendCommand(<<"DETECT:START">>)
    BY <1>1 DEF toggleAutonomousDetection
  <2>2. \E cmds \in Requests : IssuesAll(cmds)
    BY <2>1 DEF sendCommand, IssuesAll, Issue, Requests
  <2> QED
    BY <1>1, <2>2 DEF toggleAutonomousDetection
<1>2. CASE toggleFullAutonomous
  <2>1. \/ sendCommand(<<"MODE:MANUAL">>) \/ sendCommand(<<"MODE:FULL_AUTO">>)
        \/ sendCommand(<<"DETECT:START", "MODE:FULL_AUTO">>)
    BY <1>2 DEF toggleFullAutonomous
  <2>2. \E cmds \in Requests : IssuesAll(cmds)
    BY <2>1 DEF sendCommand, IssuesAll, Issue, Requests
  <2> QED
    BY <1>2, <2>2 DEF toggleFullAutonomous
<1>3. CASE fp16Checkbox(m_state)
  <2>1. \/ sendCommand(<<"FP16:ON">>) \/ sendCommand(<<"FP16:OFF">>)
        \/ UNCHANGED <<m_sendQueue, issued>>
    BY <1>3 DEF fp16Checkbox, Fp16
  <2>2. \E cmds \in Requests : IssuesAll(cmds)
    BY <2>1, NothingIssued DEF sendCommand, IssuesAll, Issue, Requests
  <2> QED
    BY <1>3, <2>2 DEF fp16Checkbox
<1>4. CASE renderStatusBar(m_state)
  <2>1. \/ sendCommand(<<"FP16:ON">>) \/ sendCommand(<<"FP16:OFF">>)
        \/ UNCHANGED <<m_sendQueue, issued>>
    BY <1>4 DEF renderStatusBar, Fp16
  <2>2. \E cmds \in Requests : IssuesAll(cmds)
    BY <2>1, NothingIssued DEF sendCommand, IssuesAll, Issue, Requests
  <2> QED
    BY <1>4, <2>2 DEF renderStatusBar, switches
<1> QED
  BY <1>1, <1>2, <1>3, <1>4 DEF ConsoleStep

LEMMA ConsoleTypes ==
    ASSUME ConsoleTypeOK, ConsoleStep
    PROVE  ConsoleTypeOK'
<1>1. PICK cmds \in Requests : IssuesAll(cmds)
  BY ConsoleIssues
<1>2. Issue(cmds) \in Seq(Commands)
  BY IssueIsSeq, RequestsAreNames DEF ConsoleTypeOK
<1>3. m_sendQueue' \in Seq(Commands) /\ issued' \in Seq(Commands)
  BY <1>1, <1>2 DEF ConsoleTypeOK, IssuesAll
<1> QED
  BY <1>3, ConsoleIssues DEF ConsoleTypeOK

-----------------------------------------------------------------------------
(* Connections.                                                              *)

LEMMA ConnParts ==
    ASSUME ConnsTypeOK, NEW i \in DOMAIN conns
    PROVE  /\ conns[i] \in Conn /\ conns[i].up \in Seq(LinePiece)
           /\ conns[i].down \in Seq(AimPiece) /\ conns[i].st \in {"up", "down", "told"}
           /\ conns[i] = [up |-> conns[i].up, down |-> conns[i].down, st |-> conns[i].st]
<1>1. conns[i] \in Conn
  BY DEF ConnsTypeOK
<1> QED
  BY <1>1 DEF Conn

\* Connection i becomes c.
Becomes(i, c) == conns' = [conns EXCEPT ![i] = c]

LEMMA ConnBecomes ==
    ASSUME ConnsTypeOK, NEW i \in DOMAIN conns, NEW c \in Conn, Becomes(i, c)
    PROVE  /\ ConnsTypeOK' /\ Len(conns') = Len(conns) /\ DOMAIN conns' = DOMAIN conns
           /\ conns'[i] = c /\ \A j \in DOMAIN conns : j # i => conns'[j] = conns[j]
  BY DEF ConnsTypeOK, Becomes

LEMMA MineIsThere ==
    ASSUME ConnsTypeOK, conns # <<>>
    PROVE  Mine \in DOMAIN conns /\ 1 \in DOMAIN conns
  BY DEF ConnsTypeOK, Mine
-----------------------------------------------------------------------------
(* The Pi's steps keep the types.                                            *)

ServedOK ==
    /\ Len(conns) <= 2 /\ Len(inLineBuf) <= 1 /\ Len(cmd_queue_) <= max_cmd_queue_
    /\ s_at = "accept" => inLineBuf = <<>>
    /\ s_at # "accept" /\ alive => conns # <<>>

ClientOK == (attached <=> m_state = "Connected") /\ (m_hasNewAim => m_aims # <<>>)

LEMMA LinkOKParts == CommandLinkOK <=> ServedOK /\ ClientOK
  BY DEF CommandLinkOK, ServedOK, ClientOK

LEMMA FrameIsPieces ==
    ASSUME NEW id \in Nat
    PROVE  FramePieces(id) \in Seq(AimPiece)
  BY DEF FramePieces, AimPiece

LEMMA ClosedClient ==
    ASSUME LinkTypeInv, CloseClient, conns # <<>>, cmd_queue_' = cmd_queue_, alive' = alive
    PROVE  /\ ConnsTypeOK' /\ ServedOK' /\ inLineBuf' \in Seq(TextPiece)
           /\ s_at' \in {"accept", "send", "recv"}
<1>1. conns' \in Seq(Conn) /\ Len(conns') = Len(conns) - 1 /\ Len(conns) \in Nat
  BY DEF LinkTypeInv, LinkTypeOK, ConnsTypeOK, CloseClient
<1>2. inLineBuf' = <<>> /\ s_at' = "accept" /\ Len(inLineBuf') = 0
  BY DEF CloseClient
<1>3. Len(conns) <= 2 /\ Len(cmd_queue_) <= max_cmd_queue_
  BY DEF LinkTypeInv, CommandLinkOK
<1> QED
  BY <1>1, <1>2, <1>3 DEF ServedOK, ConnsTypeOK

LEMMA SendLatestTypes ==
    ASSUME LinkTypeInv, SendLatest
    PROVE  ServerTypeOK' /\ ConnsTypeOK' /\ ServedOK'
<1> USE DEF LinkTypeInv, LinkTypeOK
<1>1. /\ alive /\ s_at = "send" /\ out_queue_' = 0 /\ conns # <<>>
      /\ UNCHANGED <<cmd_queue_, net_frame_id_, published, handled, applied>>
  BY DEF SendLatest, CommandLinkOK
<1>2. /\ ServerTypeOK /\ Len(cmd_queue_) <= max_cmd_queue_ /\ Len(conns) <= 2
      /\ Len(inLineBuf) <= 1
  BY DEF CommandLinkOK
<1>3. /\ cmd_queue_' \in Seq(Commands) /\ out_queue_' \in Nat /\ net_frame_id_' \in Nat
      /\ published' \in Seq(Nat) /\ handled' \in Seq(Commands) /\ applied' \in SUBSET Nat
  BY <1>1 DEF ServerTypeOK
<1>4. CASE CloseClient /\ UNCHANGED alive
  <2>1. alive' \in BOOLEAN
    BY <1>4 DEF ServerTypeOK
  <2>2. /\ ConnsTypeOK' /\ ServedOK' /\ inLineBuf' \in Seq(TextPiece)
        /\ s_at' \in {"accept", "send", "recv"}
    BY <1>1, <1>4, ClosedClient
  <2> QED
    BY <1>3, <2>1, <2>2 DEF ServerTypeOK
<1>5. CASE s_at' = "recv" /\ UNCHANGED <<alive, inLineBuf>>
           /\ ConnsTypeOK' /\ Len(conns') = Len(conns)
  <2>1. alive' \in BOOLEAN /\ inLineBuf' \in Seq(TextPiece)
    BY <1>5 DEF ServerTypeOK
  <2>2. ServedOK'
    <3>1. Len(conns) # 0
      BY <1>1 DEF ConnsTypeOK
    <3> QED
      BY <1>1, <1>2, <1>5, <3>1 DEF ServedOK
  <2> QED
    BY <1>3, <1>5, <2>1, <2>2 DEF ServerTypeOK
<1>6. CASE alive' = FALSE /\ conns' = <<>> /\ inLineBuf' = <<>> /\ UNCHANGED s_at
  <2>1. inLineBuf' \in Seq(TextPiece) /\ alive' \in BOOLEAN /\ ConnsTypeOK'
    <3>1. \A V : <<>> \in Seq(V)
      OBVIOUS
    <3>2. inLineBuf' \in Seq(TextPiece) /\ conns' \in Seq(Conn)
      BY <1>6, <3>1, Zenon
    <3> QED
      BY <1>6, <3>2 DEF ConnsTypeOK
  <2>2. ServedOK'
    BY <1>1, <1>2, <1>6 DEF ServedOK
  <2> QED
    BY <1>1, <1>3, <1>6, <2>1, <2>2 DEF ServerTypeOK
<1>7. 1 \in DOMAIN conns
  BY <1>1, MineIsThere
<1> DEFINE c == [conns[1] EXCEPT !.down = @ \o FramePieces(out_queue_)]
<1>8. c \in Conn
  <2>1. FramePieces(out_queue_) \in Seq(AimPiece)
    BY FrameIsPieces DEF ServerTypeOK
  <2>2. conns[1] \in Conn /\ conns[1].down \in Seq(AimPiece)
    BY <1>7, ConnParts
  <2>3. conns[1].down \o FramePieces(out_queue_) \in Seq(AimPiece)
    BY <2>1, <2>2
  <2> QED
    BY <2>2, <2>3 DEF Conn
<1>9. Becomes(1, c) => ConnsTypeOK' /\ Len(conns') = Len(conns)
  BY <1>7, <1>8, ConnBecomes
<1>10. \/ CloseClient /\ UNCHANGED alive
       \/ s_at' = "recv" /\ UNCHANGED <<alive, conns, inLineBuf>>
       \/ s_at' = "recv" /\ UNCHANGED <<alive, inLineBuf>> /\ Becomes(1, c)
       \/ alive' = FALSE /\ conns' = <<>> /\ inLineBuf' = <<>> /\ UNCHANGED s_at
  <2>1. conns[1].st \in {"up", "down", "told"}
    BY <1>7, ConnParts
  <2> QED
    BY <2>1 DEF SendLatest, Becomes
<1>11. UNCHANGED conns => ConnsTypeOK' /\ Len(conns') = Len(conns)
  BY DEF ConnsTypeOK
<1> QED
  BY <1>4, <1>5, <1>6, <1>9, <1>10, <1>11

cmdOf == [p \in LinePiece |-> p.cmd]
idOf  == [p \in AimPiece |-> p.id]

LEMMA LabelsAre ==
    /\ cmdOf \in [LinePiece -> Commands] /\ idOf \in [AimPiece -> Nat]
    /\ \A p \in Seq(LinePiece) : Lines(p) = Labels(p, LineEnds, cmdOf)
    /\ \A p \in Seq(AimPiece) : Heads(p) = Labels(p, Headers, idOf)
<1>1. cmdOf \in [LinePiece -> Commands] /\ idOf \in [AimPiece -> Nat]
  BY DEF cmdOf, idOf, LinePiece, AimPiece
<1>2. ASSUME NEW p \in Seq(LinePiece)
      PROVE  Lines(p) = Labels(p, LineEnds, cmdOf)
  <2> DEFINE o == Only(p, LineEnds)
  <2>1. o \in Seq(LinePiece)
    BY OnlyIsSeq
  <2>2. Lines(p) = [i \in DOMAIN o |-> o[i].cmd] /\ Labels(p, LineEnds, cmdOf) = Each(o, cmdOf)
    BY DEF Lines, Labels
  <2> HIDE DEF o
  <2>3. \A i \in DOMAIN o : o[i] \in LinePiece
    BY <2>1
  <2>4. \A i \in DOMAIN o : cmdOf[o[i]] = o[i].cmd
    BY <2>3 DEF cmdOf
  <2> QED
    BY <2>2, <2>4 DEF Each
<1>3. ASSUME NEW p \in Seq(AimPiece)
      PROVE  Heads(p) = Labels(p, Headers, idOf)
  <2> DEFINE o == Only(p, Headers)
  <2>1. o \in Seq(AimPiece)
    BY OnlyIsSeq
  <2>2. Heads(p) = [i \in DOMAIN o |-> o[i].id] /\ Labels(p, Headers, idOf) = Each(o, idOf)
    BY DEF Heads, Labels
  <2> HIDE DEF o
  <2>3. \A i \in DOMAIN o : o[i] \in AimPiece
    BY <2>1
  <2>4. \A i \in DOMAIN o : idOf[o[i]] = o[i].id
    BY <2>3 DEF idOf
  <2> QED
    BY <2>2, <2>4 DEF Each
<1> QED
  BY <1>1, <1>2, <1>3

LEMMA LinesIsSeq ==
    ASSUME NEW p \in Seq(LinePiece)
    PROVE  Lines(p) \in Seq(Commands)
<1>1. Labels(p, LineEnds, cmdOf) \in Seq(Commands)
  BY LabelsAre, LabelsIsSeq
<1> QED
  BY <1>1, LabelsAre, Zenon

\* n pieces are received.
Received(n) == inLineBuf \o SubSeq(conns[1].up, 1, n)

LEMMA ReceivedIsSeq ==
    ASSUME ServerTypeOK, ConnsTypeOK, conns # <<>>, NEW n \in 1..Len(conns[1].up)
    PROVE  /\ inLineBuf \in Seq(LinePiece) /\ SubSeq(conns[1].up, 1, n) \in Seq(LinePiece)
           /\ SubSeq(conns[1].up, n + 1, Len(conns[1].up)) \in Seq(LinePiece)
           /\ conns[1].up = SubSeq(conns[1].up, 1, n)
                               \o SubSeq(conns[1].up, n + 1, Len(conns[1].up))
           /\ Received(n) \in Seq(LinePiece) /\ Len(Received(n)) >= 1
           /\ Unfinished(Received(n)) \in Seq(TextPiece) /\ Len(Unfinished(Received(n))) <= 1
<1> DEFINE u == conns[1].up
           a == SubSeq(u, 1, n)
<1>1. u \in Seq(LinePiece)
  BY MineIsThere, ConnParts
<1>2. inLineBuf \in Seq(LinePiece)
  <2>1. inLineBuf \in Seq(TextPiece) /\ TextPiece \subseteq LinePiece
    BY DEF ServerTypeOK, TextPiece, LinePiece
  <2> QED
    BY <2>1
<1> HIDE DEF u
<1>3. /\ a \in Seq(LinePiece) /\ Len(a) = n /\ SubSeq(u, n + 1, Len(u)) \in Seq(LinePiece)
      /\ u = a \o SubSeq(u, n + 1, Len(u))
  BY <1>1 DEF u
<1>4. Received(n) = inLineBuf \o a
  BY DEF Received, u
<1> HIDE DEF a
<1>5. Received(n) \in Seq(LinePiece) /\ Len(Received(n)) >= 1
  BY <1>2, <1>3, <1>4
<1>6. Unfinished(Received(n)) \in Seq(TextPiece) /\ Len(Unfinished(Received(n))) <= 1
  <2> DEFINE r == Received(n)
             x == r[Len(r)]
  <2> HIDE DEF r
  <2>1. x \in LinePiece
    BY <1>5 DEF r
  <2>2. x.part = 1 => x \in TextPiece
    BY <2>1 DEF LinePiece, TextPiece
  <2>3. Unfinished(r) = IF x.part = 1 THEN <<x>> ELSE <<>>
    BY DEF Unfinished, Last
  <2> HIDE DEF x
  <2>4. Unfinished(r) \in Seq(TextPiece) /\ Len(Unfinished(r)) <= 1
    BY <2>2, <2>3
  <2> QED
    BY <2>4 DEF r
<1> QED
  BY <1>2, <1>3, <1>5, <1>6 DEF u, a

\* What the queue keeps of cmds.
Enqueued(cmds) ==
    LET all == cmd_queue_ \o cmds
        over == IF Len(all) > max_cmd_queue_ THEN Len(all) - max_cmd_queue_ ELSE 0
    IN  SubSeq(all, over + 1, Len(all))

LEMMA EnqueuedFits ==
    ASSUME ServerTypeOK, NEW cmds \in Seq(Commands)
    PROVE  /\ Enqueued(cmds) \in Seq(Commands) /\ Len(Enqueued(cmds)) <= max_cmd_queue_
           /\ LeftOf(Enqueued(cmds), cmd_queue_ \o cmds)
<1> DEFINE all == cmd_queue_ \o cmds
           over == IF Len(all) > max_cmd_queue_ THEN Len(all) - max_cmd_queue_ ELSE 0
<1>1. all \in Seq(Commands)
  BY DEF ServerTypeOK
<1> HIDE DEF all
<1>2. over \in Nat /\ over <= Len(all) /\ Len(all) - over <= max_cmd_queue_
  BY <1>1, ServerAssumption
<1>3. Enqueued(cmds) = SubSeq(all, over + 1, Len(all))
  BY DEF Enqueued, all
<1> HIDE DEF over
<1>4. over + 1 \in 1..(Len(all) + 1) /\ Len(all) \in (over + 1 - 1)..Len(all)
  BY <1>1, <1>2
<1>5. LeftOf(SubSeq(all, over + 1, Len(all)), all)
  BY <1>1, <1>4, LeftOfSubSeq
<1>6. Len(SubSeq(all, over + 1, Len(all))) = Len(all) - over
      /\ SubSeq(all, over + 1, Len(all)) \in Seq(Commands)
  BY <1>1, <1>2
<1> QED
  BY <1>2, <1>3, <1>5, <1>6 DEF all

\* The first connection's pieces after the n received.
Rest(n) == [conns[1] EXCEPT !.up = SubSeq(@, n + 1, Len(@))]

LEMMA ReceiveCommandTypes ==
    ASSUME LinkTypeInv, ReceiveCommands
    PROVE  ServerTypeOK' /\ ConnsTypeOK' /\ ServedOK'
<1>1. /\ alive /\ s_at = "recv" /\ s_at' = "send" /\ conns # <<>>
      /\ UNCHANGED <<alive, out_queue_, net_frame_id_, published, handled, applied>>
  BY DEF ReceiveCommands, LinkTypeInv, CommandLinkOK, pi_life, pi_frames
<1>2. ServerTypeOK /\ ConnsTypeOK /\ Len(conns) <= 2
  BY DEF LinkTypeInv, LinkTypeOK, CommandLinkOK
<1>3. PICK n \in 1..Len(conns[1].up) :
        Becomes(1, Rest(n)) /\ inLineBuf' = Unfinished(Received(n))
        /\ cmd_queue_' = Enqueued(Lines(Received(n)))
  BY DEF ReceiveCommands, Becomes, Rest, Received, Enqueued, enqueueCommand
<1>4. /\ SubSeq(conns[1].up, n + 1, Len(conns[1].up)) \in Seq(LinePiece)
      /\ Received(n) \in Seq(LinePiece) /\ Unfinished(Received(n)) \in Seq(TextPiece)
      /\ Len(Unfinished(Received(n))) <= 1
  BY <1>1, <1>2, ReceivedIsSeq
<1>5. Rest(n) \in Conn /\ 1 \in DOMAIN conns
  <2>1. 1 \in DOMAIN conns
    BY <1>1, <1>2, MineIsThere
  <2>2. conns[1] \in Conn
    BY <1>2, <2>1, ConnParts
  <2> QED
    BY <1>4, <2>1, <2>2 DEF Rest, Conn
<1>6. ConnsTypeOK' /\ Len(conns') = Len(conns)
  BY <1>2, <1>3, <1>5, ConnBecomes
<1>7. Enqueued(Lines(Received(n))) \in Seq(Commands)
      /\ Len(Enqueued(Lines(Received(n)))) <= max_cmd_queue_
  BY <1>2, <1>4, LinesIsSeq, EnqueuedFits
<1>8. /\ cmd_queue_' \in Seq(Commands) /\ Len(cmd_queue_') <= max_cmd_queue_
      /\ inLineBuf' \in Seq(TextPiece) /\ Len(inLineBuf') <= 1
  BY <1>3, <1>4, <1>7, Zenon
<1>9. ServerTypeOK'
  <2>1. alive' \in BOOLEAN /\ s_at' \in {"accept", "send", "recv"}
    BY <1>1, <1>2 DEF ServerTypeOK
  <2>2. /\ out_queue_' \in Nat /\ net_frame_id_' \in Nat /\ published' \in Seq(Nat)
        /\ handled' \in Seq(Commands) /\ applied' \in SUBSET Nat
    BY <1>1, <1>2 DEF ServerTypeOK
  <2> QED
    BY <1>8, <2>1, <2>2 DEF ServerTypeOK
<1>10. ServedOK'
  <2>1. conns' # <<>> /\ Len(conns') <= 2
    BY <1>1, <1>2, <1>6 DEF ConnsTypeOK
  <2> QED
    BY <1>1, <1>8, <2>1 DEF ServedOK
<1> QED
  BY <1>6, <1>9, <1>10

Told == [conns[1] EXCEPT !.st = "told"]

LEMMA ReceiveNothingTypes ==
    ASSUME LinkTypeInv, ReceiveNothing
    PROVE  ServerTypeOK' /\ ConnsTypeOK' /\ ServedOK'
<1>1. /\ alive /\ s_at = "recv" /\ conns # <<>>
      /\ UNCHANGED <<alive, cmd_queue_, out_queue_, net_frame_id_, published, handled, applied>>
  BY DEF ReceiveNothing, LinkTypeInv, CommandLinkOK, pi_life, pi_frames
<1>2. ServerTypeOK /\ ConnsTypeOK /\ Len(conns) <= 2 /\ ServedOK
  BY LinkOKParts DEF LinkTypeInv, LinkTypeOK, CommandLinkOK
<1>3. /\ alive' \in BOOLEAN /\ cmd_queue_' \in Seq(Commands) /\ out_queue_' \in Nat
      /\ net_frame_id_' \in Nat /\ published' \in Seq(Nat)
      /\ handled' \in Seq(Commands) /\ applied' \in SUBSET Nat
  BY <1>1, <1>2 DEF ServerTypeOK
<1>4. \/ s_at' = "send" /\ UNCHANGED <<conns, inLineBuf>>
      \/ s_at' = "send" /\ Becomes(1, Told) /\ UNCHANGED inLineBuf
      \/ CloseClient
  BY DEF ReceiveNothing, Becomes, Told
<1>5. Told \in Conn /\ 1 \in DOMAIN conns
  <2>1. 1 \in DOMAIN conns
    BY <1>1, <1>2, MineIsThere
  <2>2. conns[1] \in Conn
    BY <1>2, <2>1, ConnParts
  <2> QED
    BY <2>1, <2>2 DEF Told, Conn
<1>6. CASE s_at' = "send" /\ UNCHANGED inLineBuf /\ ConnsTypeOK' /\ Len(conns') = Len(conns)
  <2>1. conns' # <<>> /\ Len(conns') <= 2
    BY <1>1, <1>2, <1>6 DEF ConnsTypeOK
  <2>2. ServedOK'
    BY <1>1, <1>2, <1>6, <2>1 DEF ServedOK
  <2>3. inLineBuf' \in Seq(TextPiece)
    BY <1>2, <1>6 DEF ServerTypeOK
  <2> QED
    BY <1>3, <1>6, <2>2, <2>3 DEF ServerTypeOK
<1>7. CASE CloseClient
  <2>1. /\ ConnsTypeOK' /\ ServedOK' /\ inLineBuf' \in Seq(TextPiece)
        /\ s_at' \in {"accept", "send", "recv"}
    BY <1>1, <1>7, ClosedClient
  <2> QED
    BY <1>3, <2>1 DEF ServerTypeOK
<1>8. UNCHANGED conns => ConnsTypeOK' /\ Len(conns') = Len(conns)
  BY <1>2 DEF ConnsTypeOK
<1>9. Becomes(1, Told) => ConnsTypeOK' /\ Len(conns') = Len(conns)
  BY <1>2, <1>5, ConnBecomes
<1> QED
  BY <1>4, <1>6, <1>7, <1>8, <1>9

LEMMA FrameLoopTypes ==
    ASSUME LinkTypeInv, handleNetworkCommand \/ publishAimResult \/ accept \/ PiStarts
    PROVE  ServerTypeOK' /\ ConnsTypeOK' /\ ServedOK' /\ ModesTypeOK'
<1>1. ServerTypeOK /\ ConnsTypeOK /\ ServedOK /\ ModesTypeOK
  BY LinkOKParts DEF LinkTypeInv, LinkTypeOK
<1>2. CASE handleNetworkCommand
  <2>1. /\ cmd_queue_ # <<>> /\ cmd_queue_' = Tail(cmd_queue_)
        /\ handled' = Append(handled, Head(cmd_queue_))
        /\ applied' = applied \cup {Head(cmd_queue_).n}
        /\ DETECT(Head(cmd_queue_).cmd) \/ MODE(Head(cmd_queue_).cmd) \/ FP16(Head(cmd_queue_).cmd)
        /\ UNCHANGED <<alive, conns, s_at, inLineBuf, out_queue_, net_frame_id_, published>>
    BY <1>2 DEF handleNetworkCommand, pi_life, pi_frames
  <2>2. Head(cmd_queue_) \in Commands /\ Tail(cmd_queue_) \in Seq(Commands)
        /\ Len(Tail(cmd_queue_)) <= max_cmd_queue_
    BY <1>1, <2>1, ServerAssumption DEF ServerTypeOK, ServedOK
  <2>3. Head(cmd_queue_).n \in Nat
    BY <2>2 DEF Commands
  <2>4. handled' \in Seq(Commands) /\ applied' \in SUBSET Nat /\ cmd_queue_' \in Seq(Commands)
    <3>1. handled \in Seq(Commands) /\ applied \in SUBSET Nat
      BY <1>1 DEF ServerTypeOK
    <3> DEFINE h == Head(cmd_queue_)
    <3> HIDE DEF h
    <3>2. h \in Commands /\ h.n \in Nat /\ handled' = Append(handled, h)
          /\ applied' = applied \cup {h.n}
      BY <2>1, <2>2, <2>3 DEF h
    <3>3. handled' \in Seq(Commands)
      BY <3>1, <3>2
    <3>4. applied' \in SUBSET Nat
      BY <3>1, <3>2
    <3> QED
      BY <2>1, <2>2, <3>3, <3>4, Zenon
  <2>5. ServerTypeOK'
    BY <1>1, <2>1, <2>4 DEF ServerTypeOK
  <2>6. ModesTypeOK'
    <3> DEFINE c == Head(cmd_queue_).cmd
    <3>1. (c = "DETECT:START") \in BOOLEAN /\ (c = "MODE:FULL_AUTO") \in BOOLEAN
          /\ (detection_enabled_ \/ c = "MODE:FULL_AUTO") \in BOOLEAN
          /\ (c = "FP16:ON" /\ Fp16Loads) \in BOOLEAN
      OBVIOUS
    <3> HIDE DEF c
    <3>2. CASE DETECT(c)
      BY <1>1, <3>1, <3>2, Zenon DEF DETECT, ModesTypeOK
    <3>3. CASE MODE(c)
      BY <1>1, <3>1, <3>3, Zenon DEF MODE, ModesTypeOK
    <3>4. CASE FP16(c)
      BY <1>1, <3>1, <3>4, Zenon DEF FP16, ModesTypeOK
    <3> QED
      BY <2>1, <3>2, <3>3, <3>4 DEF c
  <2> QED
    BY <1>1, <2>1, <2>2, <2>5, <2>6 DEF ConnsTypeOK, ServedOK
<1>3. CASE publishAimResult
  <2>1. /\ out_queue_' = net_frame_id_ /\ net_frame_id_' = net_frame_id_ + 1
        /\ published' = Append(published, net_frame_id_)
        /\ UNCHANGED <<alive, conns, s_at, inLineBuf, cmd_queue_, handled, applied,
                       detection_enabled_, autonomous, fp16_enabled_>>
    BY <1>3 DEF publishAimResult, pi_life, pi_queues, pi_modes
  <2>2. out_queue_' \in Nat /\ net_frame_id_' \in Nat /\ published' \in Seq(Nat)
    BY <1>1, <2>1 DEF ServerTypeOK
  <2> QED
    BY <1>1, <2>1, <2>2 DEF ServerTypeOK, ConnsTypeOK, ServedOK, ModesTypeOK
<1>4. CASE accept
  <2>1. /\ s_at = "accept" /\ conns # <<>> /\ s_at' = "send"
        /\ UNCHANGED <<alive, conns, inLineBuf, cmd_queue_, out_queue_, net_frame_id_, published,
                       handled, applied, detection_enabled_, autonomous, fp16_enabled_>>
    BY <1>4 DEF accept, pi_life, pi_queues, pi_frames, pi_modes
  <2> QED
    BY <1>1, <2>1 DEF ServerTypeOK, ConnsTypeOK, ServedOK, ModesTypeOK
<1>5. CASE PiStarts
  <2>1. \A V : <<>> \in Seq(V)
    OBVIOUS
  <2>2. /\ alive' \in BOOLEAN /\ s_at' \in {"accept", "send", "recv"}
        /\ out_queue_' \in Nat /\ net_frame_id_' \in Nat /\ applied' \in SUBSET Nat
        /\ published' \in Seq(Nat) /\ handled' \in Seq(Commands)
    BY <1>1, <1>5 DEF PiStarts, ServerTypeOK
  <2>3. /\ inLineBuf' \in Seq(TextPiece) /\ cmd_queue_' \in Seq(Commands) /\ conns' \in Seq(Conn)
    BY <1>5, <2>1, Zenon DEF PiStarts
  <2>4. ServedOK'
    BY <1>5, ServerAssumption DEF PiStarts, ServedOK
  <2>5. ModesTypeOK'
    BY <1>5 DEF PiStarts, ModesTypeOK
  <2> QED
    BY <2>2, <2>3, <2>4, <2>5 DEF ServerTypeOK, ConnsTypeOK
<1> QED
  BY <1>2, <1>3, <1>4, <1>5

-----------------------------------------------------------------------------
(* The client's steps keep the types.                                        *)

LEMMA FewConns ==
    ASSUME ServedOK, ConnsTypeOK', Len(conns') = Len(conns), ConnsTypeOK,
           UNCHANGED <<inLineBuf, cmd_queue_, s_at, alive>>
    PROVE  ServedOK'
<1>1. conns # <<>> => conns' # <<>>
  BY DEF ConnsTypeOK
<1> QED
  BY <1>1 DEF ServedOK

Left == [conns[Mine] EXCEPT !.st = IF @ = "up" THEN "down" ELSE @]

LEMMA LeaveTypes ==
    ASSUME ConnsTypeOK, Leave
    PROVE  /\ ConnsTypeOK' /\ Len(conns') = Len(conns)
           /\ m_state' = "Retrying" /\ attached' = FALSE
           /\ IF conns = <<>> THEN conns' = conns ELSE Becomes(Mine, Left) /\ Left \in Conn
<1>1. m_state' = "Retrying" /\ attached' = FALSE
      /\ IF conns = <<>> THEN conns' = conns ELSE Becomes(Mine, Left)
  BY DEF Leave, Becomes, Left
<1>2. CASE conns = <<>>
  BY <1>1, <1>2 DEF ConnsTypeOK
<1>3. CASE conns # <<>>
  <2>1. Mine \in DOMAIN conns
    BY <1>3, MineIsThere
  <2>2. Left \in Conn
    <3>1. conns[Mine] \in Conn /\ conns[Mine].st \in {"up", "down", "told"}
      BY <2>1, ConnParts
    <3> QED
      BY <3>1 DEF Left, Conn
  <2>3. ConnsTypeOK' /\ Len(conns') = Len(conns)
    BY <1>1, <1>3, <2>1, <2>2, ConnBecomes
  <2> QED
    BY <1>1, <1>3, <2>2, <2>3
<1> QED
  BY <1>2, <1>3

\* The piece at place i of what the commands are written as.
LEMMA WrittenIsSeq ==
    ASSUME NEW q \in Seq(Commands)
    PROVE  Written(q) \in Seq(LinePiece) /\ Len(Written(q)) = 2 * Len(q)
<1>1. ASSUME NEW i \in 1..2 * Len(q)
      PROVE  [cmd |-> q[(i + 1) \div 2], part |-> IF i % 2 = 1 THEN 1 ELSE 2] \in LinePiece
  <2>1. (i + 1) \div 2 \in 1..Len(q)
    OBVIOUS
  <2>2. q[(i + 1) \div 2] \in Commands
    BY <2>1
  <2> QED
    BY <2>2 DEF LinePiece
<1>2. 2 * Len(q) \in Nat
  OBVIOUS
<1> QED
  BY <1>1, <1>2 DEF Written

Sent == [conns[Mine] EXCEPT !.up = @ \o Written(m_sendQueue)]

LEMMA SendQueuedFacts ==
    ASSUME SendQueued, ConsoleTypeOK, ConnsTypeOK
    PROVE  \E k \in 0..Len(m_sendQueue) :
             /\ k < Len(m_sendQueue) => Gone
             /\ m_sendQueue' = SubSeq(m_sendQueue, k + 1, Len(m_sendQueue))
             /\ \/ /\ k < Len(m_sendQueue) /\ Leave /\ c_at' = c_at
                \/ /\ k = Len(m_sendQueue) /\ c_at' = "recv" /\ UNCHANGED <<m_state, attached>>
                   /\ Gone /\ conns' = conns
                \/ /\ k = Len(m_sendQueue) /\ c_at' = "recv" /\ UNCHANGED <<m_state, attached>>
                   /\ ~Gone /\ Becomes(Mine, Sent) /\ Sent \in Conn /\ Mine \in DOMAIN conns
<1>1. ~Gone => Sent \in Conn /\ Mine \in DOMAIN conns
  <2> SUFFICES ASSUME ~Gone PROVE Sent \in Conn /\ Mine \in DOMAIN conns
    OBVIOUS
  <2>1. Mine \in DOMAIN conns
    BY MineIsThere DEF Gone
  <2>2. conns[Mine] \in Conn /\ conns[Mine].up \in Seq(LinePiece)
    BY <2>1, ConnParts
  <2>3. Written(m_sendQueue) \in Seq(LinePiece)
    BY WrittenIsSeq DEF ConsoleTypeOK
  <2>4. conns[Mine].up \o Written(m_sendQueue) \in Seq(LinePiece)
    BY <2>2, <2>3
  <2> QED
    BY <2>1, <2>2, <2>4 DEF Sent, Conn
<1>2. PICK k \in 0..Len(m_sendQueue) :
        /\ k < Len(m_sendQueue) => Gone
        /\ m_sendQueue' = SubSeq(m_sendQueue, k + 1, Len(m_sendQueue))
        /\ IF k < Len(m_sendQueue) THEN Leave /\ UNCHANGED c_at
           ELSE /\ c_at' = "recv"
                /\ conns' = IF Gone THEN conns
                            ELSE [conns EXCEPT ![Mine].up = @ \o Written(m_sendQueue)]
                /\ UNCHANGED <<m_state, attached>>
  BY DEF SendQueued
<1>3. ~(k < Len(m_sendQueue)) => k = Len(m_sendQueue)
  BY DEF ConsoleTypeOK
<1> QED
  BY <1>1, <1>2, <1>3 DEF Becomes, Sent

LEMMA SendQueuedTypes ==
    ASSUME LinkTypeInv, SendQueued
    PROVE  LinkTypeInv'
<1>1. /\ ConsoleTypeOK /\ ServerTypeOK /\ ModesTypeOK /\ ClientTypeOK /\ ConnsTypeOK
      /\ ServedOK /\ ClientOK
  BY LinkOKParts DEF LinkTypeInv, LinkTypeOK
<1>2. PICK k \in 0..Len(m_sendQueue) :
             /\ k < Len(m_sendQueue) => Gone
             /\ m_sendQueue' = SubSeq(m_sendQueue, k + 1, Len(m_sendQueue))
             /\ \/ /\ k < Len(m_sendQueue) /\ Leave /\ c_at' = c_at
                \/ /\ k = Len(m_sendQueue) /\ c_at' = "recv" /\ UNCHANGED <<m_state, attached>>
                   /\ Gone /\ conns' = conns
                \/ /\ k = Len(m_sendQueue) /\ c_at' = "recv" /\ UNCHANGED <<m_state, attached>>
                   /\ ~Gone /\ Becomes(Mine, Sent) /\ Sent \in Conn /\ Mine \in DOMAIN conns
  BY <1>1, SendQueuedFacts
<1>3. /\ UNCHANGED <<m_connected, m_fullAuto, m_fp16Enabled, issued, alive, s_at, inLineBuf,
                     cmd_queue_, out_queue_, net_frame_id_, published, handled, applied,
                     detection_enabled_, autonomous, fp16_enabled_,
                     recvBuffer, m_hasNewAim, m_aims>>
      /\ attached
  BY DEF SendQueued, switches, pi_life, pi_queues, pi_frames, pi_modes
<1>4. m_sendQueue' \in Seq(Commands)
  BY <1>1, <1>2 DEF ConsoleTypeOK
<1>5. ConsoleTypeOK' /\ ServerTypeOK' /\ ModesTypeOK'
  BY <1>1, <1>3, <1>4 DEF ConsoleTypeOK, ServerTypeOK, ModesTypeOK
<1>6. ConnsTypeOK' /\ Len(conns') = Len(conns)
  <2>1. conns' = conns => ConnsTypeOK' /\ Len(conns') = Len(conns)
    BY <1>1 DEF ConnsTypeOK
  <2>2. Sent \in Conn /\ Mine \in DOMAIN conns /\ Becomes(Mine, Sent)
          => ConnsTypeOK' /\ Len(conns') = Len(conns)
    BY <1>1, ConnBecomes
  <2> QED
    BY <1>1, <1>2, <2>1, <2>2, LeaveTypes
<1>7. ServedOK'
  BY <1>1, <1>3, <1>6, FewConns
<1>8. ClientTypeOK' /\ ClientOK'
  <2>1. CASE Leave /\ c_at' = c_at
    <3>1. m_state' = "Retrying" /\ attached' = FALSE
      BY <1>1, <2>1, LeaveTypes
    <3> QED
      BY <1>1, <1>3, <2>1, <3>1 DEF ClientTypeOK, ClientOK
  <2>2. CASE c_at' = "recv" /\ UNCHANGED <<m_state, attached>>
    BY <1>1, <1>3, <2>2 DEF ClientTypeOK, ClientOK
  <2> QED
    BY <1>2, <2>1, <2>2
<1> QED
  BY <1>5, <1>6, <1>7, <1>8, LinkOKParts DEF LinkTypeInv, LinkTypeOK, CommandLinkOK, ServedOK, ClientOK

LEMMA MineIsRead ==
    ASSUME ConnsTypeOK, conns # <<>>, NEW n \in 1..Len(conns[Mine].down)
    PROVE  /\ Mine \in DOMAIN conns
           /\ conns[Mine].down \in Seq(AimPiece) /\ conns[Mine].up \in Seq(LinePiece)
           /\ SubSeq(conns[Mine].down, 1, n) \in Seq(AimPiece)
           /\ SubSeq(conns[Mine].down, n + 1, Len(conns[Mine].down)) \in Seq(AimPiece)
           /\ conns[Mine].down = SubSeq(conns[Mine].down, 1, n)
                 \o SubSeq(conns[Mine].down, n + 1, Len(conns[Mine].down))
<1>1. Mine \in DOMAIN conns
  BY MineIsThere
<1>2. conns[Mine].down \in Seq(AimPiece) /\ conns[Mine].up \in Seq(LinePiece)
  BY <1>1, ConnParts
<1> DEFINE d == conns[Mine].down
<1> HIDE DEF d
<1>3. /\ SubSeq(d, 1, n) \in Seq(AimPiece) /\ SubSeq(d, n + 1, Len(d)) \in Seq(AimPiece)
      /\ d = SubSeq(d, 1, n) \o SubSeq(d, n + 1, Len(d))
  BY <1>2 DEF d
<1> QED
  BY <1>1, <1>2, <1>3 DEF d

ReadUpTo(n) == [conns[Mine] EXCEPT !.down = SubSeq(@, n + 1, Len(@))]

LEMMA ReceiveChunkTypes ==
    ASSUME LinkTypeInv, ReceiveChunk
    PROVE  LinkTypeInv'
<1>1. /\ ConsoleTypeOK /\ ServerTypeOK /\ ModesTypeOK /\ ClientTypeOK /\ ConnsTypeOK
      /\ ServedOK /\ ClientOK
  BY LinkOKParts DEF LinkTypeInv, LinkTypeOK
<1>2. PICK n \in 1..Len(conns[Mine].down) :
        /\ recvBuffer' = recvBuffer \o SubSeq(conns[Mine].down, 1, n)
        /\ Becomes(Mine, ReadUpTo(n))
  BY DEF ReceiveChunk, Becomes, ReadUpTo
<1>3. /\ conns # <<>> /\ c_at' = "parse"
      /\ UNCHANGED <<m_connected, m_fullAuto, m_fp16Enabled, m_sendQueue, issued,
                     alive, s_at, inLineBuf,
                     cmd_queue_, out_queue_, net_frame_id_, published, handled, applied,
                     detection_enabled_, autonomous, fp16_enabled_, m_state, attached,
                     m_hasNewAim, m_aims>>
  BY DEF ReceiveChunk, switches, pi_life, pi_queues, pi_frames, pi_modes, console_vars
<1>4. ConsoleTypeOK' /\ ServerTypeOK' /\ ModesTypeOK'
  BY <1>1, <1>3 DEF ConsoleTypeOK, ServerTypeOK, ModesTypeOK
<1>5. ReadUpTo(n) \in Conn /\ Mine \in DOMAIN conns /\ recvBuffer' \in Seq(AimPiece)
  <2>1. /\ Mine \in DOMAIN conns /\ SubSeq(conns[Mine].down, 1, n) \in Seq(AimPiece)
        /\ SubSeq(conns[Mine].down, n + 1, Len(conns[Mine].down)) \in Seq(AimPiece)
    BY <1>1, <1>3, MineIsRead
  <2>2. conns[Mine] \in Conn
    BY <1>1, <2>1, ConnParts
  <2>3. recvBuffer' \in Seq(AimPiece)
    BY <1>1, <1>2, <2>1 DEF ClientTypeOK
  <2> QED
    BY <2>1, <2>2, <2>3 DEF ReadUpTo, Conn
<1>6. ConnsTypeOK' /\ Len(conns') = Len(conns)
  BY <1>1, <1>2, <1>5, ConnBecomes
<1>7. ServedOK'
  BY <1>1, <1>3, <1>6, FewConns
<1>8. ClientTypeOK' /\ ClientOK'
  BY <1>1, <1>3, <1>5 DEF ClientTypeOK, ClientOK
<1> QED
  BY <1>4, <1>6, <1>7, <1>8 DEF LinkTypeInv, LinkTypeOK, CommandLinkOK, ServedOK, ClientOK

LEMMA ReceiveFailsTypes ==
    ASSUME LinkTypeInv, ReceiveFails
    PROVE  LinkTypeInv'
<1>1. /\ ConsoleTypeOK /\ ServerTypeOK /\ ModesTypeOK /\ ClientTypeOK /\ ConnsTypeOK
      /\ ServedOK /\ ClientOK
  BY LinkOKParts DEF LinkTypeInv, LinkTypeOK
<1>2. \/ Leave /\ UNCHANGED c_at
      \/ c_at' = "send" /\ UNCHANGED <<conns, m_state, attached>>
  BY DEF ReceiveFails
<1>3. UNCHANGED <<m_connected, m_fullAuto, m_fp16Enabled, m_sendQueue, issued,
                  alive, s_at, inLineBuf,
                  cmd_queue_, out_queue_, net_frame_id_, published, handled, applied,
                  detection_enabled_, autonomous, fp16_enabled_, recvBuffer, m_hasNewAim, m_aims>>
  BY DEF ReceiveFails, switches, pi_life, pi_queues, pi_frames, pi_modes, console_vars
<1>4. ConsoleTypeOK' /\ ServerTypeOK' /\ ModesTypeOK'
  BY <1>1, <1>3 DEF ConsoleTypeOK, ServerTypeOK, ModesTypeOK
<1>6. ConnsTypeOK' /\ Len(conns') = Len(conns)
  <2>1. conns' = conns => ConnsTypeOK' /\ Len(conns') = Len(conns)
    BY <1>1 DEF ConnsTypeOK
  <2> QED
    BY <1>1, <1>2, <2>1, LeaveTypes
<1>7. ServedOK'
  BY <1>1, <1>3, <1>6, FewConns
<1>8. ClientTypeOK' /\ ClientOK'
  <2>1. CASE Leave /\ c_at' = c_at
    <3>1. m_state' = "Retrying" /\ attached' = FALSE
      BY <1>1, <2>1, LeaveTypes
    <3> QED
      BY <1>1, <1>3, <2>1, <3>1 DEF ClientTypeOK, ClientOK
  <2>2. CASE c_at' = "send" /\ UNCHANGED <<m_state, attached>>
    BY <1>1, <1>3, <2>2 DEF ClientTypeOK, ClientOK
  <2> QED
    BY <1>2, <2>1, <2>2
<1> QED
  BY <1>4, <1>6, <1>7, <1>8 DEF LinkTypeInv, LinkTypeOK, CommandLinkOK, ServedOK, ClientOK

\* What is left of buf from some piece on.
RestOf(rest, buf) == \E i \in 1..(Len(buf) + 1) : rest = SubSeq(buf, i, Len(buf))

LEMMA RestIsSeq ==
    ASSUME NEW V, NEW buf \in Seq(V), NEW rest, RestOf(rest, buf)
    PROVE  rest \in Seq(V)
  BY DEF RestOf

LEMMA CutLineLeavesRest ==
    ASSUME NEW buf \in Seq(AimPiece), CutLine(buf)
    PROVE  RestOf(recvBuffer', buf) /\ c_at' \in {"send", c_at}
<1>1. CASE recvBuffer' = buf /\ c_at' = "send"
  <2>1. buf = SubSeq(buf, 1, Len(buf)) /\ 1 \in 1..(Len(buf) + 1)
    OBVIOUS
  <2> QED
    BY <1>1, <2>1 DEF RestOf
<1>2. ASSUME NEW i \in DOMAIN buf, recvBuffer' = SubSeq(buf, i + 1, Len(buf)), UNCHANGED c_at
      PROVE  RestOf(recvBuffer', buf) /\ c_at' \in {"send", c_at}
  <2>1. i + 1 \in 1..(Len(buf) + 1)
    OBVIOUS
  <2> QED
    BY <1>2, <2>1 DEF RestOf
<1> QED
  BY <1>1, <1>2 DEF CutLine

LEMMA RestOfTail ==
    ASSUME NEW V, NEW buf \in Seq(V), buf # <<>>, NEW rest, RestOf(rest, Tail(buf))
    PROVE  RestOf(rest, buf)
<1>1. PICK i \in 1..(Len(Tail(buf)) + 1) : rest = SubSeq(Tail(buf), i, Len(Tail(buf)))
  BY DEF RestOf
<1>2. i + 1 \in 1..(Len(buf) + 1) /\ rest = SubSeq(buf, i + 1, Len(buf))
  BY <1>1
<1> QED
  BY <1>2 DEF RestOf

LEMMA ParseFacts ==
    ASSUME ClientTypeOK, Parse
    PROVE  /\ RestOf(recvBuffer', recvBuffer) /\ c_at' \in {"send", c_at}
           /\ UNCHANGED <<console_vars, server_vars, m_state, attached>>
           /\ tryParseAimFrame \/ UNCHANGED <<m_hasNewAim, m_aims>>
<1>1. recvBuffer \in Seq(AimPiece)
  BY DEF ClientTypeOK
<1>2. CASE tryParseAimFrame
  <2>1. 4 \in 1..(Len(recvBuffer) + 1)
    BY <1>1, <1>2 DEF tryParseAimFrame
  <2> QED
    BY <1>2, <2>1 DEF tryParseAimFrame, RestOf, Parse
<1>3. CASE NoFrame
  <2>1. CutLine(recvBuffer) \/ (recvBuffer # <<>> /\ CutLine(Tail(recvBuffer)))
    BY <1>3 DEF NoFrame
  <2>2. recvBuffer # <<>> => Tail(recvBuffer) \in Seq(AimPiece)
    BY <1>1
  <2>3. RestOf(recvBuffer', recvBuffer) /\ c_at' \in {"send", c_at}
    BY <1>1, <2>1, <2>2, CutLineLeavesRest, RestOfTail
  <2> QED
    BY <1>3, <2>3 DEF NoFrame, Parse
<1> QED
  BY <1>2, <1>3 DEF Parse

LEMMA ParseTypes ==
    ASSUME LinkTypeInv, Parse
    PROVE  LinkTypeInv'
<1>1. /\ ConsoleTypeOK /\ ServerTypeOK /\ ModesTypeOK /\ ClientTypeOK /\ ConnsTypeOK
      /\ ServedOK /\ ClientOK
  BY LinkOKParts DEF LinkTypeInv, LinkTypeOK
<1>2. /\ RestOf(recvBuffer', recvBuffer) /\ c_at' \in {"send", c_at}
      /\ UNCHANGED <<console_vars, server_vars, m_state, attached>>
      /\ tryParseAimFrame \/ UNCHANGED <<m_hasNewAim, m_aims>>
  BY <1>1, ParseFacts
<1>3. UNCHANGED <<m_connected, m_fullAuto, m_fp16Enabled, m_sendQueue, issued,
                  alive, s_at, inLineBuf, conns,
                  cmd_queue_, out_queue_, net_frame_id_, published, handled, applied,
                  detection_enabled_, autonomous, fp16_enabled_, m_state, attached>>
  BY <1>2 DEF switches, pi_life, pi_queues, pi_frames, pi_modes, console_vars, server_vars
<1>4. ConsoleTypeOK' /\ ServerTypeOK' /\ ModesTypeOK' /\ ConnsTypeOK' /\ ServedOK'
  BY <1>1, <1>3 DEF ConsoleTypeOK, ServerTypeOK, ModesTypeOK, ConnsTypeOK, ServedOK
<1>5. recvBuffer' \in Seq(AimPiece)
  BY <1>1, <1>2, RestIsSeq DEF ClientTypeOK
<1>6. m_aims' \in Seq(Nat) /\ m_hasNewAim' \in BOOLEAN /\ (m_hasNewAim' => m_aims' # <<>>)
  <2>1. CASE UNCHANGED <<m_hasNewAim, m_aims>>
    BY <1>1, <2>1 DEF ClientTypeOK, ClientOK
  <2>2. CASE tryParseAimFrame
    <3>1. PICK e : e \in {recvBuffer[1].id, 0} /\ m_aims' = Append(m_aims, e)
      BY <2>2 DEF tryParseAimFrame
    <3>2. recvBuffer[1] \in AimPiece
      BY <1>1, <2>2 DEF tryParseAimFrame, ClientTypeOK
    <3>3. e \in Nat
      BY <3>1, <3>2 DEF AimPiece
    <3>4. m_aims' \in Seq(Nat) /\ m_aims' # <<>>
      BY <1>1, <3>1, <3>3 DEF ClientTypeOK
    <3> QED
      BY <2>2, <3>4 DEF tryParseAimFrame
  <2> QED
    BY <1>2, <2>1, <2>2
<1>7. ClientTypeOK' /\ ClientOK'
  BY <1>1, <1>2, <1>3, <1>5, <1>6 DEF ClientTypeOK, ClientOK
<1> QED
  BY <1>4, <1>7 DEF LinkTypeInv, LinkTypeOK, CommandLinkOK, ServedOK, ClientOK

LEMMA OtherClientTypes ==
    ASSUME LinkTypeInv, tryAgain \/ connectFails \/ getLatestAimResult
    PROVE  LinkTypeInv'
<1>1. /\ ConsoleTypeOK /\ ServerTypeOK /\ ModesTypeOK /\ ClientTypeOK /\ ConnsTypeOK
      /\ ServedOK /\ ClientOK
  BY LinkOKParts DEF LinkTypeInv, LinkTypeOK
<1>2. UNCHANGED <<console_vars, server_vars, c_at, attached, recvBuffer, m_aims>>
  BY DEF tryAgain, connectFails, getLatestAimResult
<1>3. UNCHANGED <<m_connected, m_fullAuto, m_fp16Enabled, m_sendQueue, issued,
                  alive, s_at, inLineBuf, conns,
                  cmd_queue_, out_queue_, net_frame_id_, published, handled, applied,
                  detection_enabled_, autonomous, fp16_enabled_>>
  BY <1>2 DEF switches, pi_life, pi_queues, pi_frames, pi_modes, console_vars, server_vars
<1>4. ConsoleTypeOK' /\ ServerTypeOK' /\ ModesTypeOK' /\ ConnsTypeOK' /\ ServedOK'
  BY <1>1, <1>3 DEF ConsoleTypeOK, ServerTypeOK, ModesTypeOK, ConnsTypeOK, ServedOK
<1>5. /\ m_state' \in {"Disconnected", "Connecting", "Connected", "Retrying"}
      /\ attached' <=> m_state' = "Connected"
      /\ m_hasNewAim' \in BOOLEAN /\ (m_hasNewAim' => m_hasNewAim)
  <2>1. m_hasNewAim \in BOOLEAN /\ (attached <=> m_state = "Connected")
        /\ m_state \in {"Disconnected", "Connecting", "Connected", "Retrying"}
    BY <1>1 DEF ClientTypeOK, ClientOK
  <2>2. CASE tryAgain
    <3>1. m_state' = "Connecting" /\ m_state # "Connected" /\ m_hasNewAim' = m_hasNewAim
      BY <2>2 DEF tryAgain
    <3> QED
      BY <1>2, <2>1, <3>1
  <2>3. CASE connectFails
    <3>1. m_state' = "Retrying" /\ m_state # "Connected" /\ m_hasNewAim' = m_hasNewAim
      BY <2>3 DEF connectFails
    <3> QED
      BY <1>2, <2>1, <3>1
  <2>4. CASE getLatestAimResult
    <3>1. m_state' = m_state /\ m_hasNewAim' = FALSE
      BY <2>4 DEF getLatestAimResult
    <3> QED
      BY <1>2, <2>1, <3>1
  <2> QED
    BY <2>2, <2>3, <2>4
<1>6. ClientTypeOK' /\ ClientOK'
  BY <1>1, <1>2, <1>5 DEF ClientTypeOK, ClientOK
<1> QED
  BY <1>4, <1>6 DEF LinkTypeInv, LinkTypeOK, CommandLinkOK, ServedOK, ClientOK

LEMMA NewConnIsConn == NewConn \in Conn
<1>1. \A V : <<>> \in Seq(V)
  OBVIOUS
<1>2. <<>> \in Seq(LinePiece) /\ <<>> \in Seq(AimPiece)
  BY <1>1, Zenon
<1> QED
  BY <1>2 DEF NewConn, Conn

LEMMA ConnectTypes ==
    ASSUME LinkTypeInv, connect
    PROVE  LinkTypeInv'
<1>1. /\ ConsoleTypeOK /\ ServerTypeOK /\ ModesTypeOK /\ ClientTypeOK /\ ConnsTypeOK
      /\ ServedOK /\ ClientOK
  BY LinkOKParts DEF LinkTypeInv, LinkTypeOK
<1>2. /\ m_state' = "Connected" /\ attached' = TRUE /\ recvBuffer' = <<>> /\ c_at' = "send"
      /\ conns' = Append(conns, NewConn) /\ Len(conns) <= 1
      /\ UNCHANGED <<m_connected, m_fullAuto, m_fp16Enabled, m_sendQueue, issued,
                     alive, s_at, inLineBuf,
                     cmd_queue_, out_queue_, net_frame_id_, published, handled, applied,
                     detection_enabled_, autonomous, fp16_enabled_, m_hasNewAim, m_aims>>
  BY DEF connect, switches, pi_life, pi_queues, pi_frames, pi_modes, console_vars
<1>3. ConsoleTypeOK' /\ ServerTypeOK' /\ ModesTypeOK'
  BY <1>1, <1>2 DEF ConsoleTypeOK, ServerTypeOK, ModesTypeOK
<1>4. conns' \in Seq(Conn) /\ Len(conns') <= 2 /\ conns' # <<>>
  BY <1>1, <1>2, NewConnIsConn DEF ConnsTypeOK
<1>5. ServedOK'
  BY <1>1, <1>2, <1>4 DEF ServedOK
<1>6. recvBuffer' \in Seq(AimPiece)
  <2>1. \A V : <<>> \in Seq(V)
    OBVIOUS
  <2> QED
    BY <1>2, <2>1, Zenon
<1>7. ClientTypeOK' /\ ClientOK'
  BY <1>1, <1>2, <1>6 DEF ClientTypeOK, ClientOK
<1> QED
  BY <1>3, <1>4, <1>5, <1>7 DEF LinkTypeInv, LinkTypeOK, CommandLinkOK, ServedOK, ClientOK, ConnsTypeOK

\* The connection is cut: i pieces still arrive one way, j the other.
Cut(i, j) == [up   |-> SubSeq(conns[Mine].up, 1, i),
              down |-> SubSeq(conns[Mine].down, 1, j), st |-> "down"]

LEMMA CutFacts ==
    ASSUME ConnsTypeOK, ConnectionDrops
    PROVE  \E i \in 0..Len(conns[Mine].up), j \in 0..Len(conns[Mine].down) :
             /\ Becomes(Mine, Cut(i, j)) /\ Cut(i, j) \in Conn /\ Mine \in DOMAIN conns
             /\ attached /\ conns # <<>> /\ conns[Mine].st = "up"
<1>1. attached /\ conns # <<>> /\ conns[Mine].st = "up"
  BY DEF ConnectionDrops
<1>2. PICK i \in 0..Len(conns[Mine].up), j \in 0..Len(conns[Mine].down) : Becomes(Mine, Cut(i, j))
  BY DEF ConnectionDrops, Becomes, Cut
<1>3. Mine \in DOMAIN conns
  BY <1>1, MineIsThere
<1>4. conns[Mine].up \in Seq(LinePiece) /\ conns[Mine].down \in Seq(AimPiece)
  BY <1>3, ConnParts
<1>5. SubSeq(conns[Mine].up, 1, i) \in Seq(LinePiece)
  BY <1>4
<1>6. SubSeq(conns[Mine].down, 1, j) \in Seq(AimPiece)
  BY <1>4
<1>7. Cut(i, j) \in Conn
  BY <1>5, <1>6 DEF Cut, Conn
<1> QED
  BY <1>1, <1>2, <1>3, <1>7

LEMMA ConnectionDropsTypes ==
    ASSUME LinkTypeInv, ConnectionDrops
    PROVE  LinkTypeInv'
<1>1. /\ ConsoleTypeOK /\ ServerTypeOK /\ ModesTypeOK /\ ClientTypeOK /\ ConnsTypeOK
      /\ ServedOK /\ ClientOK
  BY LinkOKParts DEF LinkTypeInv, LinkTypeOK
<1>2. UNCHANGED <<m_connected, m_fullAuto, m_fp16Enabled, m_sendQueue, issued,
                  alive, s_at, inLineBuf,
                  cmd_queue_, out_queue_, net_frame_id_, published, handled, applied,
                  detection_enabled_, autonomous, fp16_enabled_,
                  m_state, c_at, attached, recvBuffer, m_hasNewAim, m_aims>>
  BY DEF ConnectionDrops, switches, pi_life, pi_queues, pi_frames, pi_modes, console_vars,
         client_vars
<1>3. ConsoleTypeOK' /\ ServerTypeOK' /\ ModesTypeOK' /\ ClientTypeOK' /\ ClientOK'
  BY <1>1, <1>2 DEF ConsoleTypeOK, ServerTypeOK, ModesTypeOK, ClientTypeOK, ClientOK
<1>4. ConnsTypeOK' /\ Len(conns') = Len(conns)
  <2>1. PICK c \in Conn : Becomes(Mine, c) /\ Mine \in DOMAIN conns
    BY <1>1, CutFacts
  <2> QED
    BY <1>1, <2>1, ConnBecomes
<1>5. ServedOK'
  BY <1>1, <1>2, <1>4, FewConns
<1> QED
  BY <1>3, <1>4, <1>5 DEF LinkTypeInv, LinkTypeOK, CommandLinkOK, ServedOK, ClientOK

LEMMA PiTypes ==
    ASSUME LinkTypeInv, UNCHANGED <<console_vars, client_vars>>,
           \/ ServerThread \/ handleNetworkCommand \/ PiStarts \/ publishAimResult
    PROVE  LinkTypeInv'
<1>1. ConsoleTypeOK /\ ClientTypeOK /\ ClientOK /\ ModesTypeOK
  BY LinkOKParts DEF LinkTypeInv, LinkTypeOK
<1>2. ConsoleTypeOK'
  BY <1>1 DEF ConsoleTypeOK, console_vars, switches
<1>3. ClientTypeOK' /\ ClientOK'
  BY <1>1 DEF ClientTypeOK, ClientOK, client_vars
<1>4. SendLatest \/ ReceiveCommands \/ ReceiveNothing => ModesTypeOK'
  BY <1>1 DEF SendLatest, ReceiveCommands, ReceiveNothing, ModesTypeOK, pi_modes
<1>5. ServerTypeOK' /\ ConnsTypeOK' /\ ServedOK' /\ ModesTypeOK'
  BY <1>4, FrameLoopTypes, SendLatestTypes, ReceiveCommandTypes, ReceiveNothingTypes
     DEF ServerThread
<1> QED
  BY <1>2, <1>3, <1>5 DEF LinkTypeInv, LinkTypeOK, CommandLinkOK, ServedOK, ClientOK

LEMMA ConsoleKeepsTypes ==
    ASSUME LinkTypeInv, UNCHANGED <<server_vars, client_vars>>, ConsoleStep
    PROVE  LinkTypeInv'
<1>1. /\ ConsoleTypeOK /\ ServerTypeOK /\ ModesTypeOK /\ ClientTypeOK /\ ConnsTypeOK
      /\ ServedOK /\ ClientOK
  BY LinkOKParts DEF LinkTypeInv, LinkTypeOK
<1>2. ConsoleTypeOK'
  BY <1>1, ConsoleTypes
<1>3. ServerTypeOK' /\ ModesTypeOK' /\ ConnsTypeOK' /\ ServedOK'
  BY <1>1 DEF ServerTypeOK, ModesTypeOK, ConnsTypeOK, ServedOK, server_vars, pi_life,
              pi_queues, pi_frames, pi_modes
<1>4. ClientTypeOK' /\ ClientOK'
  BY <1>1 DEF ClientTypeOK, ClientOK, client_vars
<1> QED
  BY <1>2, <1>3, <1>4 DEF LinkTypeInv, LinkTypeOK, CommandLinkOK, ServedOK, ClientOK

\* The steps of the composition, by who takes them.
Stutters == UNCHANGED <<console_vars, server_vars, client_vars>>
ConsoleActs == ConsoleStep /\ UNCHANGED <<server_vars, client_vars>>
PiActs == /\ UNCHANGED <<console_vars, client_vars>>
          /\ \/ SendLatest \/ ReceiveCommands \/ ReceiveNothing \/ handleNetworkCommand
             \/ publishAimResult \/ accept \/ PiStarts
ClientActs == \/ tryAgain \/ connectFails \/ getLatestAimResult \/ connect \/ SendQueued
              \/ ReceiveChunk \/ ReceiveFails \/ Parse

LEMMA CommandSteps ==
    [CommandNext]_command_vars
        => Stutters \/ ConsoleActs \/ PiActs \/ ClientActs \/ ConnectionDrops
  BY DEF CommandNext, command_vars, Stutters, ConsoleActs, PiActs, ClientActs, Console, Pi,
         Client, StatusBar, ConsoleStep, ServerThread, ClientThread

LEMMA CommandTypesStep ==
    ASSUME LinkTypeInv, [CommandNext]_command_vars
    PROVE  LinkTypeInv'
<1>1. CASE Stutters
  <2>1. UNCHANGED <<m_connected, m_fullAuto, m_fp16Enabled, m_sendQueue, issued,
                    alive, s_at, inLineBuf, conns,
                    cmd_queue_, out_queue_, net_frame_id_, published, handled, applied,
                    detection_enabled_, autonomous, fp16_enabled_,
                    m_state, c_at, attached, recvBuffer, m_hasNewAim, m_aims>>
    BY <1>1 DEF Stutters, switches, pi_life, pi_queues, pi_frames, pi_modes, console_vars,
                server_vars, client_vars
  <2>2. LinkTypeOK' /\ CommandLinkOK'
    BY <2>1 DEF LinkTypeInv, LinkTypeOK, CommandLinkOK, ConsoleTypeOK, ServerTypeOK, ModesTypeOK,
                ClientTypeOK, ConnsTypeOK
  <2> QED
    BY <2>2 DEF LinkTypeInv
<1>2. CASE ConsoleActs
  BY <1>2, ConsoleKeepsTypes DEF ConsoleActs
<1>3. CASE PiActs
  BY <1>3, PiTypes DEF PiActs, ServerThread
<1>4. CASE ClientActs
  BY <1>4, OtherClientTypes, ConnectTypes, SendQueuedTypes, ReceiveChunkTypes, ReceiveFailsTypes,
     ParseTypes DEF ClientActs
<1>5. CASE ConnectionDrops
  BY <1>5, ConnectionDropsTypes
<1> QED
  BY <1>1, <1>2, <1>3, <1>4, <1>5, CommandSteps

LEMMA CommandTypesInitially == CommandInit => LinkTypeInv
<1> SUFFICES ASSUME CommandInit PROVE LinkTypeInv
  OBVIOUS
<1>1. \A V : <<>> \in Seq(V)
  OBVIOUS
<1>2. /\ m_sendQueue \in Seq(Commands) /\ issued \in Seq(Commands) /\ inLineBuf \in Seq(TextPiece)
      /\ cmd_queue_ \in Seq(Commands) /\ published \in Seq(Nat) /\ handled \in Seq(Commands)
      /\ recvBuffer \in Seq(AimPiece) /\ m_aims \in Seq(Nat) /\ conns \in Seq(Conn)
  BY <1>1, Zenon DEF CommandInit, ConsoleInit, ServerInit, ClientInit
<1>3. ConsoleTypeOK
  BY <1>2 DEF CommandInit, ConsoleInit, ConsoleTypeOK
<1>4. ServerTypeOK /\ ModesTypeOK /\ ConnsTypeOK
  BY <1>2 DEF CommandInit, ServerInit, ServerTypeOK, ModesTypeOK, ConnsTypeOK
<1>5. ClientTypeOK
  BY <1>2 DEF CommandInit, ClientInit, ClientTypeOK
<1>6. ServedOK
  BY ServerAssumption DEF CommandInit, ServerInit, ServedOK
<1>7. ClientOK
  BY DEF CommandInit, ClientInit, ClientOK
<1> QED
  BY <1>3, <1>4, <1>5, <1>6, <1>7, LinkOKParts DEF LinkTypeInv, LinkTypeOK

LEMMA CommandTypes == CommandSpec => []LinkTypeInv
<1>1. LinkTypeInv /\ [CommandNext]_command_vars => LinkTypeInv'
  BY CommandTypesStep
<1> QED
  BY <1>1, CommandTypesInitially, PTL DEF CommandSpec

(* The command queue, the half line and the backlog stay within their        *)
(* limits, and the two threads agree with their connections, for any length  *)
(* of the queue, any number of clicks, frames, broken connections and deaths *)
(* of the Pi's program.                                                      *)
THEOREM CommandLinkInvariant == CommandSpec => []CommandLinkOK
<1>1. LinkTypeInv => CommandLinkOK
  BY DEF LinkTypeInv
<1> QED
  BY <1>1, CommandTypes, PTL

-----------------------------------------------------------------------------
(* Lines and frames as pieces.                                               *)

LEMMA LinesOfConcat ==
    ASSUME NEW p \in Seq(LinePiece), NEW q \in Seq(LinePiece)
    PROVE  Lines(p \o q) = Lines(p) \o Lines(q)
<1>1. p \o q \in Seq(LinePiece)
  OBVIOUS
<1>2. cmdOf \in [LinePiece -> Commands]
  BY LabelsAre
<1>3. Labels(p \o q, LineEnds, cmdOf) = Labels(p, LineEnds, cmdOf) \o Labels(q, LineEnds, cmdOf)
  <2>1. LabelsJoin(p, q, LineEnds, cmdOf)
    BY <1>2, LabelsOfConcat
  <2> QED
    BY <2>1 DEF LabelsJoin
<1> QED
  BY <1>1, <1>3, LabelsAre, Zenon

LEMMA LinesOfEmpty == Lines(<<>>) = <<>>
<1>1. <<>> \in Seq(LinePiece)
  OBVIOUS
<1> QED
  BY <1>1, LabelsOfEmpty, LabelsAre, Zenon

\* The end of a line stands for its command, the text before it for none.
LEMMA LinesOfPiece ==
    ASSUME NEW c \in Commands, NEW n \in {1, 2}
    PROVE  Lines(<<[cmd |-> c, part |-> n]>>) = IF n = 2 THEN <<c>> ELSE <<>>
<1> DEFINE x == [cmd |-> c, part |-> n]
<1>1. x \in LinePiece /\ x.cmd = c /\ x.part = n
  BY DEF LinePiece
<1>2. x \in LineEnds <=> n = 2
  BY DEF LineEnds
<1>3. cmdOf[x] = c
  BY <1>1 DEF cmdOf
<1> HIDE DEF x
<1>4. cmdOf \in [LinePiece -> Commands] /\ <<x>> \in Seq(LinePiece)
  BY <1>1, LabelsAre
<1>5. Labels(<<x>>, LineEnds, cmdOf) = IF x \in LineEnds THEN <<cmdOf[x]>> ELSE <<>>
  BY <1>1, <1>4, LabelsOfOne
<1>6. Lines(<<x>>) = IF n = 2 THEN <<c>> ELSE <<>>
  BY <1>2, <1>3, <1>4, <1>5, LabelsAre
<1> QED
  BY <1>6 DEF x

LEMMA LinesOfText ==
    ASSUME NEW p \in Seq(TextPiece), Len(p) <= 1
    PROVE  Lines(p) = <<>>
<1>1. CASE p = <<>>
  BY <1>1, LinesOfEmpty
<1>2. CASE p # <<>>
  <2>1. p[1] \in TextPiece /\ p = <<p[1]>>
    <3>1. Len(p) = 1 /\ p[1] \in TextPiece
      <4>1. Len(p) # 0 /\ Len(p) \in Nat
        BY <1>2
      <4>2. \A n \in Nat : n # 0 /\ n <= 1 => n = 1
        OBVIOUS
      <4>3. Len(p) = 1
        BY <4>1, <4>2, Zenon
      <4> QED
        BY <4>3
    <3> DEFINE x == p[1]
               s == <<x>>
    <3>2. s \in Seq(TextPiece) /\ Len(s) = 1 /\ s[1] = p[1]
      BY <3>1
    <3> HIDE DEF s
    <3>3. p = s
      BY <3>1, <3>2
    <3> QED
      BY <3>1, <3>3 DEF s
  <2>2. p[1].cmd \in Commands /\ p[1] = [cmd |-> p[1].cmd, part |-> 1]
    BY <2>1 DEF TextPiece
  <2> DEFINE c == p[1].cmd
  <2> HIDE DEF c
  <2>3. Lines(<<[cmd |-> c, part |-> 1]>>) = <<>>
    <3>1. \A d \in Commands : \A n \in {1, 2} :
             Lines(<<[cmd |-> d, part |-> n]>>) = IF n = 2 THEN <<d>> ELSE <<>>
      BY LinesOfPiece
    <3>2. c \in Commands /\ 1 \in {1, 2} /\ 1 # 2
      BY <2>2 DEF c
    <3> QED
      BY <3>1, <3>2, Zenon
  <2>4. p = <<[cmd |-> c, part |-> 1]>>
    BY <2>1, <2>2 DEF c
  <2> QED
    BY <2>3, <2>4
<1> QED
  BY <1>1, <1>2

\* One more command is two more pieces.
LEMMA WrittenOneMore ==
    ASSUME NEW q \in Seq(Commands), NEW c \in Commands
    PROVE  Written(Append(q, c))
              = (Written(q) \o <<[cmd |-> c, part |-> 1]>>) \o <<[cmd |-> c, part |-> 2]>>
<1> DEFINE w == Written(q)
           t == [cmd |-> c, part |-> 1]
           e == [cmd |-> c, part |-> 2]
           L == Len(q)
           z == Written(Append(q, c))
<1>1. L \in Nat /\ w \in Seq(LinePiece) /\ Len(w) = 2 * L
  BY WrittenIsSeq
<1>2. t \in LinePiece /\ e \in LinePiece
  BY DEF LinePiece
<1>3. Append(q, c) \in Seq(Commands) /\ Len(Append(q, c)) = L + 1
      /\ Append(q, c)[L + 1] = c /\ \A i \in 1..L : Append(q, c)[i] = q[i]
  OBVIOUS
<1>4. z \in Seq(LinePiece) /\ Len(z) = 2 * L + 2
  <2>1. z \in Seq(LinePiece) /\ Len(z) = 2 * (L + 1)
    BY <1>3, WrittenIsSeq
  <2>2. 2 * (L + 1) = 2 * L + 2
    BY <1>1
  <2> QED
    BY <2>1, <2>2
<1>5. \A i \in 1..2 * L : z[i] = w[i]
  <2> SUFFICES ASSUME NEW i \in 1..2 * L
               PROVE  z[i] = w[i]
    OBVIOUS
  <2>1. (i + 1) \div 2 \in 1..L /\ i \in 1..2 * (L + 1)
    BY <1>1
  <2>2. Append(q, c)[(i + 1) \div 2] = q[(i + 1) \div 2]
    BY <1>3, <2>1
  <2> QED
    BY <1>3, <2>1, <2>2 DEF Written
<1>6. z[2 * L + 1] = t
  <2>1. (2 * L + 1 + 1) \div 2 = L + 1 /\ (2 * L + 1) % 2 = 1 /\ 2 * L + 1 \in 1..2 * (L + 1)
    BY <1>1
  <2> QED
    BY <1>3, <2>1 DEF Written
<1>7. z[2 * L + 2] = e
  <2>1. (2 * L + 2 + 1) \div 2 = L + 1 /\ (2 * L + 2) % 2 = 0 /\ 2 * L + 2 \in 1..2 * (L + 1)
    BY <1>1
  <2> QED
    BY <1>3, <2>1 DEF Written
<1> DEFINE y == Append(Append(w, t), e)
<1> HIDE DEF w, t, e, z, L
<1>8. /\ y \in Seq(LinePiece) /\ Len(y) = 2 * L + 2
      /\ \A i \in 1..2 * L : y[i] = w[i]
      /\ y[2 * L + 1] = t /\ y[2 * L + 2] = e
  BY <1>1, <1>2
<1> HIDE DEF y
<1>9. z = y
  <2>1. \A i \in 1..2 * L + 2 : i \in 1..2 * L \/ i = 2 * L + 1 \/ i = 2 * L + 2
    BY <1>1
  <2>2. \A i \in 1..2 * L + 2 : z[i] = y[i]
    BY <1>5, <1>6, <1>7, <1>8, <2>1
  <2> QED
    BY <1>4, <1>8, <2>2
<1>10. y = (w \o <<t>>) \o <<e>>
  <2>1. \A s \in Seq(LinePiece) : \A x \in LinePiece :
           Append(s, x) = s \o <<x>> /\ Append(s, x) \in Seq(LinePiece)
    OBVIOUS
  <2> QED
    BY <1>1, <1>2, <2>1, Zenon DEF y
<1> QED
  BY <1>9, <1>10 DEF w, t, e, z

LEMMA WrittenLines ==
    ASSUME NEW q \in Seq(Commands)
    PROVE  Lines(Written(q)) = q
<1> DEFINE N == Len(q)
           S == {n \in 0..N : Lines(Written(SubSeq(q, 1, n))) = SubSeq(q, 1, n)}
<1>1. N \in Nat /\ SubSeq(q, 1, N) = q /\ SubSeq(q, 1, 0) = <<>>
  OBVIOUS
<1>2. 0 \in S
  <2>1. Written(<<>>) = <<>>
    BY DEF Written
  <2>2. Lines(Written(SubSeq(q, 1, 0))) = SubSeq(q, 1, 0)
    BY <1>1, <2>1, LinesOfEmpty, Zenon
  <2>3. 0 \in 0..N
    BY <1>1
  <2> QED
    BY <2>2, <2>3
<1>3. ASSUME NEW n \in 1..N, n - 1 \in S
      PROVE  n \in S
  <2> DEFINE p == SubSeq(q, 1, n - 1)
             c == q[n]
             t == <<[cmd |-> c, part |-> 1]>>
             e == <<[cmd |-> c, part |-> 2]>>
  <2>1. p \in Seq(Commands) /\ c \in Commands /\ SubSeq(q, 1, n) = Append(p, c)
        /\ p \o <<c>> = Append(p, c) /\ n \in 0..N
    BY <1>3
  <2>2. Lines(Written(p)) = p
    BY <1>3
  <2>3. t \in Seq(LinePiece) /\ e \in Seq(LinePiece) /\ Lines(t) = <<>> /\ Lines(e) = <<c>>
    <3>1. [cmd |-> c, part |-> 1] \in LinePiece /\ [cmd |-> c, part |-> 2] \in LinePiece
      BY <2>1 DEF LinePiece
    <3>2. Lines(t) = <<>> /\ Lines(e) = <<c>>
      <4>1. \A d \in Commands : \A k \in {1, 2} :
               Lines(<<[cmd |-> d, part |-> k]>>) = IF k = 2 THEN <<d>> ELSE <<>>
        BY LinesOfPiece
      <4>2. 1 \in {1, 2} /\ 2 \in {1, 2} /\ 1 # 2
        OBVIOUS
      <4> QED
        BY <2>1, <4>1, <4>2, Zenon
    <3> QED
      BY <3>1, <3>2
  <2>4. Written(p) \in Seq(LinePiece)
    BY <2>1, WrittenIsSeq
  <2>5. Written(Append(p, c)) = (Written(p) \o t) \o e
    BY <2>1, WrittenOneMore
  <2> HIDE DEF p, c, t, e
  <2>6. Written(p) \o t \in Seq(LinePiece)
    BY <2>3, <2>4
  <2>7. Lines((Written(p) \o t) \o e) = Lines(Written(p) \o t) \o <<c>>
    BY <2>3, <2>6, LinesOfConcat
  <2>8. Lines(Written(p) \o t) = p \o <<>>
    BY <2>2, <2>3, <2>4, LinesOfConcat
  <2>9. p \o <<>> = p
    BY <2>1
  <2>10. Lines(Written(Append(p, c))) = Append(p, c)
    BY <2>1, <2>5, <2>7, <2>8, <2>9, Zenon
  <2> QED
    BY <2>1, <2>10
<1> HIDE DEF S
<1>4. \A n \in 0..N : n \in S
  BY <1>1, <1>2, <1>3, InductionTo
<1>5. N \in S
  BY <1>1, <1>4
<1> QED
  BY <1>1, <1>5 DEF S

LEMMA HeadsIsSeq ==
    ASSUME NEW p \in Seq(AimPiece)
    PROVE  Heads(p) \in Seq(Nat)
<1>1. Labels(p, Headers, idOf) \in Seq(Nat)
  BY LabelsAre, LabelsIsSeq
<1> QED
  BY <1>1, LabelsAre, Zenon

LEMMA HeadsOfConcat ==
    ASSUME NEW p \in Seq(AimPiece), NEW q \in Seq(AimPiece)
    PROVE  Heads(p \o q) = Heads(p) \o Heads(q)
<1>1. p \o q \in Seq(AimPiece)
  OBVIOUS
<1>2. idOf \in [AimPiece -> Nat]
  BY LabelsAre
<1>3. Labels(p \o q, Headers, idOf) = Labels(p, Headers, idOf) \o Labels(q, Headers, idOf)
  <2>1. LabelsJoin(p, q, Headers, idOf)
    BY <1>2, LabelsOfConcat
  <2> QED
    BY <2>1 DEF LabelsJoin
<1> QED
  BY <1>1, <1>3, LabelsAre, Zenon

LEMMA HeadsOfEmpty == Heads(<<>>) = <<>>
<1>1. <<>> \in Seq(AimPiece)
  OBVIOUS
<1> QED
  BY <1>1, LabelsOfEmpty, LabelsAre, Zenon

LEMMA HeadsOfPiece ==
    ASSUME NEW x \in AimPiece
    PROVE  Heads(<<x>>) = IF x.part = 1 THEN <<x.id>> ELSE <<>>
<1>1. x \in Headers <=> x.part = 1
  BY DEF AimPiece, Headers
<1>2. idOf[x] = x.id
  BY DEF idOf
<1>3. idOf \in [AimPiece -> Nat] /\ <<x>> \in Seq(AimPiece)
  BY LabelsAre
<1>4. Labels(<<x>>, Headers, idOf) = IF x \in Headers THEN <<idOf[x]>> ELSE <<>>
  BY <1>3, LabelsOfOne
<1> QED
  BY <1>1, <1>2, <1>3, <1>4, LabelsAre

-----------------------------------------------------------------------------
(* The way of a command.                                                     *)

\* The finished lines on their way in connection i.
OnLine(i) == IF i \in DOMAIN conns THEN Lines(conns[i].up) ELSE <<>>

FirstLines == OnLine(1)
SecondLines == OnLine(2)

LEMMA WayParts == CommandsOnTheWay = cmd_queue_ \o FirstLines \o SecondLines \o m_sendQueue
  BY DEF CommandsOnTheWay, OnLine, FirstLines, SecondLines

LEMMA OnLineIsSeq ==
    ASSUME ConnsTypeOK, NEW i
    PROVE  OnLine(i) \in Seq(Commands)
<1>1. <<>> \in Seq(Commands)
  OBVIOUS
<1>2. i \in DOMAIN conns => Lines(conns[i].up) \in Seq(Commands)
  BY ConnParts, LinesIsSeq
<1> QED
  BY <1>1, <1>2 DEF OnLine

LEMMA WayIsSeq ==
    LinkTypeInv =>
           /\ cmd_queue_ \in Seq(Commands) /\ m_sendQueue \in Seq(Commands)
           /\ FirstLines \in Seq(Commands) /\ SecondLines \in Seq(Commands)
           /\ CommandsOnTheWay \in Seq(Commands)
<1> SUFFICES ASSUME LinkTypeInv
             PROVE  /\ cmd_queue_ \in Seq(Commands) /\ m_sendQueue \in Seq(Commands)
                    /\ FirstLines \in Seq(Commands) /\ SecondLines \in Seq(Commands)
                    /\ CommandsOnTheWay \in Seq(Commands)
  OBVIOUS
<1>1. cmd_queue_ \in Seq(Commands) /\ m_sendQueue \in Seq(Commands) /\ ConnsTypeOK
  BY DEF LinkTypeInv, LinkTypeOK, ServerTypeOK, ConsoleTypeOK
<1>2. FirstLines \in Seq(Commands) /\ SecondLines \in Seq(Commands)
  BY <1>1, OnLineIsSeq DEF FirstLines, SecondLines
<1>3. \A p, q \in Seq(Commands) : p \o q \in Seq(Commands)
  OBVIOUS
<1> QED
  BY <1>1, <1>2, <1>3, WayParts, Zenon

LEMMA NextWayParts ==
    CommandsOnTheWay' = cmd_queue_' \o FirstLines' \o SecondLines' \o m_sendQueue'
<1>1. (CommandsOnTheWay = cmd_queue_ \o FirstLines \o SecondLines \o m_sendQueue)'
  BY WayParts, PTL
<1> QED
  BY <1>1

LEMMA NextWayIsSeq ==
    LinkTypeInv' =>
           /\ cmd_queue_' \in Seq(Commands) /\ m_sendQueue' \in Seq(Commands)
           /\ FirstLines' \in Seq(Commands) /\ SecondLines' \in Seq(Commands)
           /\ CommandsOnTheWay' \in Seq(Commands)
<1>1. (LinkTypeInv =>
           /\ cmd_queue_ \in Seq(Commands) /\ m_sendQueue \in Seq(Commands)
           /\ FirstLines \in Seq(Commands) /\ SecondLines \in Seq(Commands)
           /\ CommandsOnTheWay \in Seq(Commands))'
  BY WayIsSeq, PTL
<1> QED
  BY <1>1

\* Each part of the way may lose some.
LEMMA PartsLose ==
    ASSUME LinkTypeInv, LinkTypeInv',
           LeftOf(cmd_queue_', cmd_queue_), LeftOf(FirstLines', FirstLines),
           LeftOf(SecondLines', SecondLines), LeftOf(m_sendQueue', m_sendQueue)
    PROVE  LeftOf(CommandsOnTheWay', CommandsOnTheWay)
<1>1. /\ cmd_queue_ \in Seq(Commands) /\ m_sendQueue \in Seq(Commands)
      /\ FirstLines \in Seq(Commands) /\ SecondLines \in Seq(Commands)
  BY WayIsSeq
<1>2. /\ cmd_queue_' \in Seq(Commands) /\ m_sendQueue' \in Seq(Commands)
      /\ FirstLines' \in Seq(Commands) /\ SecondLines' \in Seq(Commands)
  BY NextWayIsSeq
<1>3. CommandsOnTheWay' = cmd_queue_' \o FirstLines' \o SecondLines' \o m_sendQueue'
  BY NextWayParts
<1>4. LeftOf(cmd_queue_' \o FirstLines' \o SecondLines' \o m_sendQueue',
             cmd_queue_ \o FirstLines \o SecondLines \o m_sendQueue)
  BY <1>1, <1>2, LeftOfFour
<1> QED
  BY <1>3, <1>4, WayParts, Zenon

\* What the client writes and the server reads is the only change to the lines.
LEMMA UpKept ==
    ASSUME ConnsTypeOK, NEW i \in DOMAIN conns, NEW c \in Conn, Becomes(i, c),
           c.up = conns[i].up
    PROVE  FirstLines' = FirstLines /\ SecondLines' = SecondLines
<1>1. DOMAIN conns' = DOMAIN conns /\ conns'[i] = c
      /\ \A j \in DOMAIN conns : j # i => conns'[j] = conns[j]
  BY ConnBecomes
<1>2. \A j \in DOMAIN conns : conns'[j].up = conns[j].up
  BY <1>1
<1> QED
  BY <1>1, <1>2 DEF OnLine, FirstLines, SecondLines

\* The first connection is closed, and what was in it is gone.
LEMMA ClosingLoses ==
    ASSUME LinkTypeInv, LinkTypeInv', CloseClient, conns # <<>>,
           UNCHANGED <<cmd_queue_, m_sendQueue>>
    PROVE  LeftOf(CommandsOnTheWay', CommandsOnTheWay)
<1>1. /\ cmd_queue_ \in Seq(Commands) /\ m_sendQueue \in Seq(Commands)
      /\ FirstLines \in Seq(Commands) /\ SecondLines \in Seq(Commands)
  BY WayIsSeq
<1>2. FirstLines' = SecondLines /\ SecondLines' = <<>>
  <2>1. conns \in Seq(Conn) /\ Len(conns) <= 2 /\ conns' = Tail(conns)
    BY DEF LinkTypeInv, LinkTypeOK, ConnsTypeOK, CommandLinkOK, CloseClient
  <2>2. DOMAIN conns = 1..Len(conns) /\ DOMAIN conns' = 1..(Len(conns) - 1)
    BY <2>1
  <2>3. 2 \in DOMAIN conns => 1 \in DOMAIN conns' /\ conns'[1] = conns[2]
    BY <2>1, <2>2
  <2>4. 2 \notin DOMAIN conns'
    BY <2>1, <2>2
  <2>5. 2 \notin DOMAIN conns => 1 \notin DOMAIN conns'
    BY <2>1, <2>2
  <2> QED
    BY <2>3, <2>4, <2>5 DEF OnLine, FirstLines, SecondLines
<1>3. CommandsOnTheWay' = cmd_queue_ \o SecondLines \o <<>> \o m_sendQueue
  <2>1. CommandsOnTheWay' = cmd_queue_' \o FirstLines' \o SecondLines' \o m_sendQueue'
    BY NextWayParts
  <2>2. cmd_queue_' = cmd_queue_ /\ m_sendQueue' = m_sendQueue
    OBVIOUS
  <2> QED
    BY <1>2, <2>1, <2>2, Zenon
<1>4. cmd_queue_ \o SecondLines \o <<>> \o m_sendQueue
         = cmd_queue_ \o <<>> \o SecondLines \o m_sendQueue
  <2>1. \A p, q \in Seq(Commands) : p \o q \o <<>> = p \o q /\ p \o <<>> = p
    OBVIOUS
  <2>2. cmd_queue_ \o SecondLines \o <<>> = cmd_queue_ \o SecondLines /\ cmd_queue_ \o <<>> = cmd_queue_
    BY <1>1, <2>1, Zenon
  <2> QED
    BY <2>2, Zenon
<1>5. <<>> \in Seq(Commands) /\ LeftOf(<<>>, FirstLines)
  BY <1>1, LeftOfEmpty
<1>6. LeftOf(cmd_queue_ \o <<>> \o SecondLines \o m_sendQueue,
             cmd_queue_ \o FirstLines \o SecondLines \o m_sendQueue)
  BY <1>1, <1>5, LeftOfSelf, LeftOfFour
<1> QED
  BY <1>3, <1>4, <1>6, WayParts, Zenon

\* Everything in the Pi and in the connections is gone.
LEMMA DyingLoses ==
    ASSUME LinkTypeInv, LinkTypeInv', conns' = <<>>, cmd_queue_' = cmd_queue_ \/ cmd_queue_' = <<>>,
           UNCHANGED m_sendQueue
    PROVE  LeftOf(CommandsOnTheWay', CommandsOnTheWay)
<1>1. /\ cmd_queue_ \in Seq(Commands) /\ FirstLines \in Seq(Commands) /\ SecondLines \in Seq(Commands)
  BY WayIsSeq
<1>2. FirstLines' = <<>> /\ SecondLines' = <<>>
  BY DEF OnLine, FirstLines, SecondLines
<1>3. LeftOf(<<>>, FirstLines) /\ LeftOf(<<>>, SecondLines) /\ LeftOf(<<>>, cmd_queue_)
  BY <1>1, LeftOfEmpty
<1>4. LeftOf(cmd_queue_', cmd_queue_) /\ LeftOf(m_sendQueue', m_sendQueue)
  BY <1>3, LeftOfSelf
<1>5. LeftOf(FirstLines', FirstLines) /\ LeftOf(SecondLines', SecondLines)
  BY <1>2, <1>3
<1> QED
  BY <1>4, <1>5, PartsLose

\* Four ways to put four sequences together.
GroupsFour(a, b, c, d, e) ==
    /\ a \o b \o c \o (d \o e) = (a \o b \o c \o d) \o e
    /\ (a \o b) \o c \o d \o e = a \o (b \o c) \o d \o e
    /\ a \o (b \o e) \o <<>> \o <<>> = a \o b \o <<>> \o e
    /\ a \o b \o (c \o e) \o <<>> = a \o b \o c \o e

LEMMA FourGroup ==
    ASSUME NEW V, NEW a \in Seq(V), NEW b \in Seq(V), NEW c \in Seq(V), NEW d \in Seq(V),
           NEW e \in Seq(V)
    PROVE  GroupsFour(a, b, c, d, e)
<1>1. \A p, q, r \in Seq(V) : p \o (q \o r) = (p \o q) \o r
  <2> SUFFICES ASSUME NEW p \in Seq(V), NEW q \in Seq(V), NEW r \in Seq(V)
               PROVE  p \o (q \o r) = (p \o q) \o r
    OBVIOUS
  <2>1. Regroups(p, q, r)
    BY ConcatRegroups
  <2> QED
    BY <2>1, Zenon DEF Regroups
<1>2. \A p, q \in Seq(V) : p \o q \in Seq(V) /\ p \o <<>> = p
  OBVIOUS
<1>3. a \o b \in Seq(V) /\ a \o b \o c \in Seq(V) /\ b \o e \in Seq(V)
      /\ a \o (b \o e) \in Seq(V) /\ a \o b \o (c \o e) \in Seq(V) /\ c \o e \in Seq(V)
  BY <1>2, Zenon
<1>4. a \o b \o c \o (d \o e) = (a \o b \o c \o d) \o e
  <2> DEFINE p == a \o b \o c
  <2> HIDE DEF p
  <2>0. p \in Seq(V)
    BY <1>3 DEF p
  <2>1. p \o (d \o e) = (p \o d) \o e
    BY <1>1, <2>0, ZenonT(60)
  <2> QED
    BY <2>1, Zenon DEF p
<1>5. (a \o b) \o c \o d \o e = a \o (b \o c) \o d \o e
  BY <1>1, ZenonT(60)
<1>6. a \o (b \o e) \o <<>> \o <<>> = a \o b \o <<>> \o e
  <2>1. a \o (b \o e) \o <<>> = a \o (b \o e)
    BY <1>2, <1>3, Zenon
  <2>2. a \o b \o <<>> = a \o b
    BY <1>2, <1>3, Zenon
  <2>3. a \o (b \o e) = (a \o b) \o e
    BY <1>1, ZenonT(60)
  <2> QED
    BY <2>1, <2>2, <2>3, Zenon
<1>7. a \o b \o (c \o e) \o <<>> = a \o b \o c \o e
  <2> DEFINE p == a \o b
  <2> HIDE DEF p
  <2>0. p \in Seq(V)
    BY <1>3 DEF p
  <2>1. p \o (c \o e) = (p \o c) \o e
    BY <1>1, <2>0, ZenonT(60)
  <2>2. p \o (c \o e) \o <<>> = p \o (c \o e)
    BY <1>2, <1>3, Zenon DEF p
  <2> QED
    BY <2>1, <2>2, Zenon DEF p
<1> QED
  BY <1>4, <1>5, <1>6, <1>7 DEF GroupsFour

\* What a step can do to the commands: issue some, lose some, obey one.
Issues ==
    /\ \E cmds \in Requests : /\ IssuesAll(cmds)
                              /\ CommandsOnTheWay' = CommandsOnTheWay \o Issue(cmds)
    /\ UNCHANGED <<handled, applied>>

Loses ==
    /\ LeftOf(CommandsOnTheWay', CommandsOnTheWay)
    /\ UNCHANGED <<issued, handled>> /\ applied' \in {applied, {}}

Obeys ==
    /\ CommandsOnTheWay # <<>> /\ CommandsOnTheWay' = Tail(CommandsOnTheWay)
    /\ handled' = Append(handled, Head(CommandsOnTheWay))
    /\ applied' = applied \cup {Head(CommandsOnTheWay).n}
    /\ UNCHANGED issued

LEMMA ConsolePasses ==
    ASSUME LinkTypeInv, LinkTypeInv', ConsoleActs
    PROVE  Issues
<1>1. ConsoleTypeOK /\ ConsoleStep
  BY DEF LinkTypeInv, LinkTypeOK, ConsoleActs
<1>2. PICK cmds \in Requests : IssuesAll(cmds)
  BY <1>1, ConsoleIssues
<1>3. /\ cmd_queue_ \in Seq(Commands) /\ m_sendQueue \in Seq(Commands)
      /\ FirstLines \in Seq(Commands) /\ SecondLines \in Seq(Commands)
  BY WayIsSeq
<1>4. Issue(cmds) \in Seq(Commands)
  BY <1>1, <1>2, IssueIsSeq, RequestsAreNames DEF ConsoleTypeOK
<1>5. UNCHANGED <<cmd_queue_, FirstLines, SecondLines, handled, applied>>
  BY DEF ConsoleActs, server_vars, pi_queues, FirstLines, SecondLines, OnLine
<1>6. m_sendQueue' = m_sendQueue \o Issue(cmds)
  BY <1>2 DEF IssuesAll
<1>7. GroupsFour(cmd_queue_, FirstLines, SecondLines, m_sendQueue, Issue(cmds))
  BY <1>3, <1>4, FourGroup
<1>8. CommandsOnTheWay' = CommandsOnTheWay \o Issue(cmds)
  <2>1. CommandsOnTheWay' = cmd_queue_ \o FirstLines \o SecondLines \o (m_sendQueue \o Issue(cmds))
    BY <1>5, <1>6, NextWayParts, Zenon
  <2> QED
    BY <1>7, <2>1, WayParts, Zenon DEF GroupsFour
<1> QED
  BY <1>2, <1>5, <1>8 DEF Issues

LEMMA WayUnchanged ==
    ASSUME UNCHANGED <<cmd_queue_, conns, m_sendQueue, issued, handled, applied>>
    PROVE  Loses
<1>1. CommandsOnTheWay' = CommandsOnTheWay
  BY DEF CommandsOnTheWay
<1> QED
  BY <1>1, LeftOfSelf DEF Loses

\* A connection changes, but not what is on its way to the Pi.
LEMMA WayKept ==
    ASSUME LinkTypeInv, NEW i \in DOMAIN conns, NEW c \in Conn, Becomes(i, c),
           c.up = conns[i].up, UNCHANGED <<cmd_queue_, m_sendQueue, issued, handled, applied>>
    PROVE  Loses
<1>1. FirstLines' = FirstLines /\ SecondLines' = SecondLines
  BY UpKept DEF LinkTypeInv, LinkTypeOK
<1>2. cmd_queue_' = cmd_queue_ /\ m_sendQueue' = m_sendQueue
  OBVIOUS
<1>3. CommandsOnTheWay' = CommandsOnTheWay
  BY <1>1, <1>2, WayParts, NextWayParts, Zenon
<1> QED
  BY <1>3, LeftOfSelf DEF Loses

LEMMA SendLatestPasses ==
    ASSUME LinkTypeInv, LinkTypeInv', SendLatest, UNCHANGED m_sendQueue, UNCHANGED issued
    PROVE  Loses
<1>1. /\ ConnsTypeOK /\ ServerTypeOK /\ conns # <<>>
      /\ UNCHANGED <<cmd_queue_, issued, m_sendQueue, handled, applied>>
  BY DEF SendLatest, LinkTypeInv, LinkTypeOK, CommandLinkOK
<1>2. 1 \in DOMAIN conns
  BY <1>1, MineIsThere
<1> DEFINE c == [conns[1] EXCEPT !.down = @ \o FramePieces(out_queue_)]
<1>3. c \in Conn /\ c.up = conns[1].up
  <2>1. FramePieces(out_queue_) \in Seq(AimPiece)
    BY <1>1, FrameIsPieces DEF ServerTypeOK
  <2>2. conns[1] \in Conn /\ conns[1].down \in Seq(AimPiece)
    BY <1>1, <1>2, ConnParts
  <2>3. conns[1].down \o FramePieces(out_queue_) \in Seq(AimPiece)
    BY <2>1, <2>2
  <2> QED
    BY <2>2, <2>3 DEF Conn
<1>4. CloseClient \/ conns' = conns \/ Becomes(1, c) \/ conns' = <<>>
  <2>1. conns[1].st \in {"up", "down", "told"}
    BY <1>1, <1>2, ConnParts
  <2> QED
    BY <2>1 DEF SendLatest, Becomes
<1>5. Becomes(1, c) => Loses
  BY <1>1, <1>2, <1>3, WayKept
<1>6. conns' = conns => Loses
  BY <1>1, WayUnchanged
<1>7. CloseClient => Loses
  BY <1>1, ClosingLoses DEF Loses
<1>8. conns' = <<>> => Loses
  BY <1>1, DyingLoses DEF Loses
<1> QED
  BY <1>4, <1>5, <1>6, <1>7, <1>8

LEMMA ReceiveNothingPasses ==
    ASSUME LinkTypeInv, LinkTypeInv', ReceiveNothing, UNCHANGED m_sendQueue, UNCHANGED issued
    PROVE  Loses
<1>1. /\ ConnsTypeOK /\ conns # <<>>
      /\ UNCHANGED <<cmd_queue_, issued, m_sendQueue, handled, applied>>
  BY DEF ReceiveNothing, LinkTypeInv, LinkTypeOK, CommandLinkOK
<1>2. 1 \in DOMAIN conns
  BY <1>1, MineIsThere
<1>3. Told \in Conn /\ Told.up = conns[1].up
  <2>1. conns[1] \in Conn
    BY <1>1, <1>2, ConnParts
  <2> QED
    BY <2>1 DEF Told, Conn
<1>4. CloseClient \/ conns' = conns \/ Becomes(1, Told)
  BY DEF ReceiveNothing, Becomes, Told
<1>5. Becomes(1, Told) => Loses
  BY <1>1, <1>2, <1>3, WayKept
<1>6. conns' = conns => Loses
  BY <1>1, WayUnchanged
<1>7. CloseClient => Loses
  BY <1>1, ClosingLoses DEF Loses
<1> QED
  BY <1>4, <1>5, <1>6, <1>7

LEMMA ReceiveCommandsPasses ==
    ASSUME LinkTypeInv, LinkTypeInv', ReceiveCommands, UNCHANGED m_sendQueue, UNCHANGED issued
    PROVE  Loses
<1>1. /\ ServerTypeOK /\ ConnsTypeOK /\ conns # <<>> /\ Len(inLineBuf) <= 1
      /\ UNCHANGED <<issued, m_sendQueue, handled, applied>>
  BY DEF ReceiveCommands, LinkTypeInv, LinkTypeOK, CommandLinkOK
<1>2. PICK n \in 1..Len(conns[1].up) :
        Becomes(1, Rest(n)) /\ cmd_queue_' = Enqueued(Lines(Received(n)))
  BY DEF ReceiveCommands, Becomes, Rest, Received, Enqueued, enqueueCommand
<1> DEFINE a == SubSeq(conns[1].up, 1, n)
           z == SubSeq(conns[1].up, n + 1, Len(conns[1].up))
<1>3. /\ inLineBuf \in Seq(LinePiece) /\ a \in Seq(LinePiece) /\ z \in Seq(LinePiece)
      /\ conns[1].up = a \o z /\ Received(n) = inLineBuf \o a
  BY <1>1, ReceivedIsSeq DEF Received
<1>4. 1 \in DOMAIN conns /\ conns[1] \in Conn
  BY <1>1, MineIsThere, ConnParts
<1>5. Rest(n) \in Conn /\ Rest(n).up = z
  BY <1>3, <1>4 DEF Rest, Conn
<1> HIDE DEF a, z
<1>6. Lines(Received(n)) = Lines(a)
  <2>1. Lines(inLineBuf) = <<>>
    BY <1>1, LinesOfText DEF ServerTypeOK
  <2>2. Lines(inLineBuf \o a) = Lines(inLineBuf) \o Lines(a)
    BY <1>3, LinesOfConcat
  <2>3. Lines(a) \in Seq(Commands)
    BY <1>3, LinesIsSeq
  <2>4. \A s \in Seq(Commands) : <<>> \o s = s
    OBVIOUS
  <2> QED
    BY <1>3, <2>1, <2>2, <2>3, <2>4, Zenon
<1>7. /\ Lines(a) \in Seq(Commands) /\ Lines(z) \in Seq(Commands)
      /\ FirstLines = Lines(a) \o Lines(z)
  <2>1. Lines(a \o z) = Lines(a) \o Lines(z)
    BY <1>3, LinesOfConcat
  <2>2. Lines(a) \in Seq(Commands) /\ Lines(z) \in Seq(Commands)
    BY <1>3, LinesIsSeq
  <2>3. FirstLines = Lines(conns[1].up)
    BY <1>4 DEF FirstLines, OnLine
  <2> QED
    BY <1>3, <2>1, <2>2, <2>3, Zenon
<1>8. FirstLines' = Lines(z) /\ SecondLines' = SecondLines
  <2>1. DOMAIN conns' = DOMAIN conns /\ conns'[1] = Rest(n)
        /\ \A j \in DOMAIN conns : j # 1 => conns'[j] = conns[j]
    BY <1>1, <1>2, <1>4, <1>5, ConnBecomes
  <2>3. 2 \in DOMAIN conns => conns'[2] = conns[2]
    BY <2>1
  <2> QED
    BY <1>4, <1>5, <2>1, <2>3 DEF FirstLines, SecondLines, OnLine
<1>9. cmd_queue_ \in Seq(Commands) /\ m_sendQueue \in Seq(Commands) /\ SecondLines \in Seq(Commands)
  BY WayIsSeq
<1>10. cmd_queue_' \in Seq(Commands) /\ LeftOf(cmd_queue_', cmd_queue_ \o Lines(a))
  <2>1. /\ Enqueued(Lines(a)) \in Seq(Commands)
        /\ LeftOf(Enqueued(Lines(a)), cmd_queue_ \o Lines(a))
    BY <1>1, <1>7, EnqueuedFits
  <2> QED
    BY <1>2, <1>6, <2>1, Zenon
<1>11. cmd_queue_ \o Lines(a) \in Seq(Commands)
  BY <1>7, <1>9
<1>12. LeftOf(cmd_queue_' \o Lines(z) \o SecondLines \o m_sendQueue,
              (cmd_queue_ \o Lines(a)) \o Lines(z) \o SecondLines \o m_sendQueue)
  BY <1>7, <1>9, <1>10, <1>11, LeftOfSelf, LeftOfFour
<1>13. (cmd_queue_ \o Lines(a)) \o Lines(z) \o SecondLines \o m_sendQueue = CommandsOnTheWay
  <2>2. \A p, q, r \in Seq(Commands) : Regroups(p, q, r)
    BY ConcatRegroups
  <2>3. (cmd_queue_ \o Lines(a)) \o Lines(z) = cmd_queue_ \o FirstLines
    BY <1>7, <1>9, <2>2, ZenonT(60) DEF Regroups
  <2> QED
    BY <2>3, WayParts, Zenon
<1>14. CommandsOnTheWay' = cmd_queue_' \o Lines(z) \o SecondLines \o m_sendQueue
  <2>1. m_sendQueue' = m_sendQueue
    BY <1>1
  <2> QED
    BY <1>8, <2>1, NextWayParts, Zenon
<1> QED
  BY <1>1, <1>12, <1>13, <1>14 DEF Loses

LEMMA HandlingObeys ==
    ASSUME LinkTypeInv, LinkTypeInv', handleNetworkCommand, UNCHANGED m_sendQueue, UNCHANGED issued
    PROVE  Obeys /\ Head(CommandsOnTheWay) = Head(cmd_queue_)
<1>1. /\ cmd_queue_ \in Seq(Commands) /\ m_sendQueue \in Seq(Commands)
      /\ FirstLines \in Seq(Commands) /\ SecondLines \in Seq(Commands)
  BY WayIsSeq
<1>2. /\ cmd_queue_ # <<>> /\ cmd_queue_' = Tail(cmd_queue_)
      /\ handled' = Append(handled, Head(cmd_queue_))
      /\ applied' = applied \cup {Head(cmd_queue_).n} /\ conns' = conns
  BY DEF handleNetworkCommand
<1>3. FirstLines' = FirstLines /\ SecondLines' = SecondLines /\ m_sendQueue' = m_sendQueue
  BY <1>2 DEF FirstLines, SecondLines, OnLine
<1> DEFINE r == FirstLines \o SecondLines \o m_sendQueue
<1>4. r \in Seq(Commands)
  BY <1>1
<1>5. /\ CommandsOnTheWay = cmd_queue_ \o r
      /\ CommandsOnTheWay' = Tail(cmd_queue_) \o r
  <2>1. \A p, q, s \in Seq(Commands) : (p \o q) \o s = p \o (q \o s)
    <3> SUFFICES ASSUME NEW p \in Seq(Commands), NEW q \in Seq(Commands), NEW s \in Seq(Commands)
                 PROVE  (p \o q) \o s = p \o (q \o s)
      OBVIOUS
    <3>1. Regroups(p, q, s)
      BY ConcatRegroups
    <3> QED
      BY <3>1, Zenon DEF Regroups
  <2>2. \A p, q \in Seq(Commands) : p \o q \in Seq(Commands)
    OBVIOUS
  <2>3. Tail(cmd_queue_) \in Seq(Commands)
    BY <1>1, <1>2
  <2>4. \A p \in Seq(Commands) : p \o FirstLines \o SecondLines \o m_sendQueue = p \o r
    <3> SUFFICES ASSUME NEW p \in Seq(Commands)
                 PROVE  p \o FirstLines \o SecondLines \o m_sendQueue = p \o r
      OBVIOUS
    <3>1. FirstLines \o SecondLines \in Seq(Commands)
      BY <1>1, <2>2, Zenon
    <3>2. (p \o FirstLines) \o SecondLines = p \o (FirstLines \o SecondLines)
      BY <1>1, <2>1, Zenon
    <3>3. (p \o (FirstLines \o SecondLines)) \o m_sendQueue = p \o r
      BY <1>1, <3>1, <2>1, ZenonT(60)
    <3> QED
      BY <3>2, <3>3, Zenon
  <2> QED
    BY <1>1, <1>2, <1>3, <2>3, <2>4, WayParts, NextWayParts, Zenon
<1> HIDE DEF r
<1>6. \A q \in Seq(Commands) : q # <<>> =>
         q \o r # <<>> /\ Tail(q \o r) = Tail(q) \o r /\ Head(q \o r) = Head(q)
  BY <1>4
<1>7. CommandsOnTheWay # <<>> /\ Head(CommandsOnTheWay) = Head(cmd_queue_)
      /\ CommandsOnTheWay' = Tail(CommandsOnTheWay)
  BY <1>1, <1>2, <1>5, <1>6, Zenon
<1> QED
  BY <1>2, <1>7 DEF Obeys

LEMMA PiPasses ==
    ASSUME LinkTypeInv, LinkTypeInv', PiActs
    PROVE  Loses \/ (handleNetworkCommand /\ Obeys)
<1>1. UNCHANGED m_sendQueue /\ UNCHANGED issued
  BY DEF PiActs, console_vars
<1>2. CASE PiStarts
  <2>1. conns' = <<>> /\ cmd_queue_' = <<>> /\ handled' = handled /\ applied' = {}
    BY <1>2 DEF PiStarts
  <2> QED
    BY <1>1, <2>1, DyingLoses DEF Loses
<1>3. CASE publishAimResult \/ accept
  <2>1. UNCHANGED <<cmd_queue_, conns, handled, applied>>
    BY <1>3 DEF publishAimResult, accept, pi_queues
  <2> QED
    BY <1>1, <2>1, WayUnchanged
<1> QED
  BY <1>1, <1>2, <1>3, SendLatestPasses, ReceiveNothingPasses, ReceiveCommandsPasses,
     HandlingObeys DEF PiActs

LEMMA LeavePasses ==
    ASSUME LinkTypeInv, Leave, UNCHANGED <<cmd_queue_, handled, applied>>
    PROVE  FirstLines' = FirstLines /\ SecondLines' = SecondLines
<1>1. ConnsTypeOK
  BY DEF LinkTypeInv, LinkTypeOK
<1>2. IF conns = <<>> THEN conns' = conns ELSE Becomes(Mine, Left) /\ Left \in Conn
  BY <1>1, LeaveTypes
<1>3. CASE conns = <<>>
  BY <1>2, <1>3 DEF FirstLines, SecondLines, OnLine
<1>4. CASE conns # <<>>
  <2>1. Mine \in DOMAIN conns
    BY <1>1, <1>4, MineIsThere
  <2>2. Left.up = conns[Mine].up
    <3>1. conns[Mine] \in Conn
      BY <1>1, <2>1, ConnParts
    <3> QED
      BY <3>1 DEF Left, Conn
  <2> QED
    BY <1>1, <1>2, <1>4, <2>1, <2>2, UpKept
<1> QED
  BY <1>3, <1>4

\* What is written is now in the connection, in the place of the queue.
LEMMA WritingKeepsWay ==
    ASSUME LinkTypeInv, LinkTypeInv', Becomes(Mine, Sent), Sent \in Conn, Mine \in DOMAIN conns,
           m_sendQueue' = <<>>, UNCHANGED cmd_queue_
    PROVE  CommandsOnTheWay' = CommandsOnTheWay
<1>1. /\ cmd_queue_ \in Seq(Commands) /\ m_sendQueue \in Seq(Commands)
      /\ FirstLines \in Seq(Commands) /\ SecondLines \in Seq(Commands)
  BY WayIsSeq
<1>2. ConnsTypeOK /\ Len(conns) \in Nat /\ Len(conns) <= 2 /\ DOMAIN conns = 1..Len(conns)
  BY DEF LinkTypeInv, LinkTypeOK, ConnsTypeOK, CommandLinkOK
<1>3. DOMAIN conns' = DOMAIN conns /\ conns'[Mine] = Sent
      /\ \A j \in DOMAIN conns : j # Mine => conns'[j] = conns[j]
  BY <1>2, ConnBecomes
<1> DEFINE u == conns[Mine].up
<1>4. u \in Seq(LinePiece) /\ Sent.up = u \o Written(m_sendQueue)
  <2>1. conns[Mine] \in Conn /\ u \in Seq(LinePiece)
    BY <1>2, ConnParts
  <2> QED
    BY <2>1 DEF Sent, Conn
<1> HIDE DEF u
<1>5. Lines(Sent.up) = Lines(u) \o m_sendQueue
  <2>1. Written(m_sendQueue) \in Seq(LinePiece) /\ Lines(Written(m_sendQueue)) = m_sendQueue
    BY <1>1, WrittenIsSeq, WrittenLines
  <2>2. Lines(u \o Written(m_sendQueue)) = Lines(u) \o Lines(Written(m_sendQueue))
    BY <1>4, <2>1, LinesOfConcat
  <2> QED
    BY <1>4, <2>1, <2>2, Zenon
<1>6. m_sendQueue' = <<>> /\ cmd_queue_' = cmd_queue_
  OBVIOUS
<1>7. GroupsFour(cmd_queue_, FirstLines, SecondLines, m_sendQueue, m_sendQueue)
  BY <1>1, FourGroup
<1>8. CASE Mine = 1
  <2>1. 1 \in DOMAIN conns /\ 2 \notin DOMAIN conns
    BY <1>2, <1>8 DEF Mine
  <2>2. FirstLines = Lines(u) /\ FirstLines' = Lines(Sent.up)
    BY <1>3, <1>8, <2>1 DEF FirstLines, OnLine, u
  <2>3. SecondLines = <<>> /\ SecondLines' = <<>>
    BY <1>3, <2>1 DEF SecondLines, OnLine
  <2> QED
    BY <1>5, <1>6, <1>7, <2>2, <2>3, WayParts, NextWayParts, Zenon DEF GroupsFour
<1>9. CASE Mine = 2
  <2>1. 1 \in DOMAIN conns /\ 2 \in DOMAIN conns
    BY <1>2, <1>9 DEF Mine
  <2>2. SecondLines = Lines(u) /\ SecondLines' = Lines(Sent.up)
    BY <1>3, <1>9, <2>1 DEF SecondLines, OnLine, u
  <2>3. FirstLines' = FirstLines
    <3>1. conns'[1] = conns[1]
      BY <1>3, <1>9, <2>1
    <3> QED
      BY <1>3, <2>1, <3>1 DEF FirstLines, OnLine
  <2> QED
    BY <1>5, <1>6, <1>7, <2>2, <2>3, WayParts, NextWayParts, Zenon DEF GroupsFour
<1>10. Mine = 1 \/ Mine = 2
  BY <1>2 DEF Mine
<1> QED
  BY <1>8, <1>9, <1>10

LEMMA SendQueuedPasses ==
    ASSUME LinkTypeInv, LinkTypeInv', SendQueued
    PROVE  Loses
<1>1. ConsoleTypeOK /\ ConnsTypeOK /\ UNCHANGED <<cmd_queue_, issued, handled, applied>>
  BY DEF SendQueued, LinkTypeInv, LinkTypeOK, pi_queues
<1>2. PICK k \in 0..Len(m_sendQueue) :
         /\ k < Len(m_sendQueue) => Gone
         /\ m_sendQueue' = SubSeq(m_sendQueue, k + 1, Len(m_sendQueue))
         /\ \/ /\ k < Len(m_sendQueue) /\ Leave /\ c_at' = c_at
            \/ /\ k = Len(m_sendQueue) /\ c_at' = "recv" /\ UNCHANGED <<m_state, attached>>
               /\ Gone /\ conns' = conns
            \/ /\ k = Len(m_sendQueue) /\ c_at' = "recv" /\ UNCHANGED <<m_state, attached>>
               /\ ~Gone /\ Becomes(Mine, Sent) /\ Sent \in Conn /\ Mine \in DOMAIN conns
  BY <1>1, SendQueuedFacts
<1>3. LeftOf(m_sendQueue', m_sendQueue)
  <2>1. m_sendQueue \in Seq(Commands)
    BY <1>1 DEF ConsoleTypeOK
  <2>2. k + 1 \in 1..(Len(m_sendQueue) + 1)
        /\ Len(m_sendQueue) \in (k + 1 - 1)..Len(m_sendQueue)
    BY <2>1
  <2>3. LeftOf(SubSeq(m_sendQueue, k + 1, Len(m_sendQueue)), m_sendQueue)
    BY <2>1, <2>2, LeftOfSubSeq
  <2> QED
    BY <1>2, <2>3
<1>4. FirstLines' = FirstLines /\ SecondLines' = SecondLines => Loses
  <2> SUFFICES ASSUME FirstLines' = FirstLines, SecondLines' = SecondLines
               PROVE  LeftOf(CommandsOnTheWay', CommandsOnTheWay)
    BY <1>1 DEF Loses
  <2>1. LeftOf(FirstLines', FirstLines) /\ LeftOf(SecondLines', SecondLines)
        /\ LeftOf(cmd_queue_', cmd_queue_)
    BY <1>1, LeftOfSelf
  <2> QED
    BY <1>3, <2>1, PartsLose
<1>5. CASE Leave
  BY <1>1, <1>4, <1>5, LeavePasses
<1>6. CASE conns' = conns
  <2>1. FirstLines' = FirstLines /\ SecondLines' = SecondLines
    BY <1>6 DEF FirstLines, SecondLines, OnLine
  <2> QED
    BY <1>4, <2>1
<1>7. CASE k = Len(m_sendQueue) /\ Becomes(Mine, Sent) /\ Sent \in Conn /\ Mine \in DOMAIN conns
  <2>1. m_sendQueue' = <<>>
    BY <1>1, <1>2, <1>7 DEF ConsoleTypeOK
  <2>2. CommandsOnTheWay' = CommandsOnTheWay
    BY <1>1, <1>7, <2>1, WritingKeepsWay
  <2> QED
    BY <1>1, <2>2, LeftOfSelf DEF Loses
<1> QED
  BY <1>2, <1>5, <1>6, <1>7

LEMMA ConnectPasses ==
    ASSUME LinkTypeInv, connect
    PROVE  Loses
<1>1. /\ conns' = Append(conns, NewConn) /\ conns \in Seq(Conn)
      /\ UNCHANGED <<cmd_queue_, m_sendQueue, issued, handled, applied>>
  BY DEF connect, LinkTypeInv, LinkTypeOK, ConnsTypeOK, console_vars, pi_queues
<1>2. ASSUME NEW i \in {1, 2}
      PROVE  (IF i \in DOMAIN conns' THEN Lines(conns'[i].up) ELSE <<>>) = OnLine(i)
  <2>1. CASE i \in DOMAIN conns
    BY <1>1, <2>1 DEF OnLine
  <2>2. CASE i \notin DOMAIN conns /\ i \in DOMAIN conns'
    <3>1. conns'[i] = NewConn
      BY <1>1, <2>2
    <3>2. conns'[i].up = <<>>
      BY <3>1 DEF NewConn
    <3>3. OnLine(i) = <<>>
      BY <2>2 DEF OnLine
    <3> QED
      BY <2>2, <3>2, <3>3, LinesOfEmpty
  <2>3. CASE i \notin DOMAIN conns /\ i \notin DOMAIN conns'
    BY <2>3 DEF OnLine
  <2> QED
    BY <2>1, <2>2, <2>3
<1>3. FirstLines' = FirstLines /\ SecondLines' = SecondLines
  <2>1. OnLine(1)' = OnLine(1) /\ OnLine(2)' = OnLine(2)
    BY <1>2 DEF OnLine
  <2> QED
    BY <2>1 DEF FirstLines, SecondLines
<1>4. CommandsOnTheWay' = CommandsOnTheWay
  BY <1>1, <1>3, WayParts, NextWayParts
<1> QED
  BY <1>1, <1>4, LeftOfSelf DEF Loses

LEMMA ClientPasses ==
    ASSUME LinkTypeInv, LinkTypeInv', ClientActs
    PROVE  Loses
<1>1. ConnsTypeOK /\ ClientTypeOK
  BY DEF LinkTypeInv, LinkTypeOK
<1>2. CASE tryAgain \/ connectFails \/ getLatestAimResult
  <2>1. UNCHANGED <<console_vars, server_vars>>
    BY <1>2 DEF tryAgain, connectFails, getLatestAimResult
  <2> QED
    BY <2>1, WayUnchanged DEF console_vars, server_vars, pi_queues
<1>3. CASE Parse
  <2>1. UNCHANGED <<console_vars, server_vars>>
    BY <1>3 DEF Parse
  <2> QED
    BY <2>1, WayUnchanged DEF console_vars, server_vars, pi_queues
<1>4. CASE ReceiveChunk
  <2>1. /\ conns # <<>> /\ UNCHANGED <<cmd_queue_, m_sendQueue, issued, handled, applied>>
    BY <1>4 DEF ReceiveChunk, console_vars, pi_queues
  <2>2. PICK n \in 1..Len(conns[Mine].down) : Becomes(Mine, ReadUpTo(n))
    BY <1>4 DEF ReceiveChunk, Becomes, ReadUpTo
  <2>3. /\ Mine \in DOMAIN conns
        /\ SubSeq(conns[Mine].down, n + 1, Len(conns[Mine].down)) \in Seq(AimPiece)
    BY <1>1, <2>1, MineIsRead
  <2>4. ReadUpTo(n) \in Conn /\ ReadUpTo(n).up = conns[Mine].up
    <3>1. conns[Mine] \in Conn
      BY <1>1, <2>3, ConnParts
    <3> QED
      BY <2>3, <3>1 DEF ReadUpTo, Conn
  <2> QED
    BY <2>1, <2>2, <2>3, <2>4, WayKept
<1>5. CASE ReceiveFails
  <2>1. UNCHANGED <<cmd_queue_, m_sendQueue, issued, handled, applied>>
        /\ (Leave \/ conns' = conns)
    BY <1>5 DEF ReceiveFails, console_vars, pi_queues
  <2>2. CASE conns' = conns
    BY <2>1, <2>2, WayUnchanged
  <2>3. CASE Leave
    <3>1. FirstLines' = FirstLines /\ SecondLines' = SecondLines
      BY <2>1, <2>3, LeavePasses
    <3>2. CommandsOnTheWay' = CommandsOnTheWay
      BY <2>1, <3>1, WayParts, NextWayParts
    <3> QED
      BY <2>1, <3>2, LeftOfSelf DEF Loses
  <2> QED
    BY <2>1, <2>2, <2>3
<1> QED
  BY <1>2, <1>3, <1>4, <1>5, SendQueuedPasses, ConnectPasses DEF ClientActs

LEMMA DroppingPasses ==
    ASSUME LinkTypeInv, LinkTypeInv', ConnectionDrops
    PROVE  Loses
<1>1. ConnsTypeOK /\ UNCHANGED <<cmd_queue_, m_sendQueue, issued, handled, applied>>
  BY DEF LinkTypeInv, LinkTypeOK, ConnectionDrops, console_vars, pi_queues
<1>2. PICK i \in 0..Len(conns[Mine].up), j \in 0..Len(conns[Mine].down) :
             /\ Becomes(Mine, Cut(i, j)) /\ Cut(i, j) \in Conn /\ Mine \in DOMAIN conns
  BY <1>1, CutFacts
<1> DEFINE u == conns[Mine].up
           a == SubSeq(u, 1, i)
           z == SubSeq(u, i + 1, Len(u))
<1>3. u \in Seq(LinePiece) /\ i \in 0..Len(u) /\ Cut(i, j).up = a
  BY <1>1, <1>2, ConnParts DEF Cut
<1> HIDE DEF u
<1>4. a \in Seq(LinePiece) /\ z \in Seq(LinePiece) /\ u = a \o z
  <2>1. i \in Nat /\ i <= Len(u)
    BY <1>3
  <2>2. a \in Seq(LinePiece)
    BY <1>3, <2>1
  <2>3. z \in Seq(LinePiece)
    BY <1>3, <2>1
  <2>4. Splits(u, i)
    BY <1>3, <2>1, SeqSplits
  <2> QED
    BY <2>2, <2>3, <2>4, Zenon DEF Splits
<1> HIDE DEF a, z
<1>5. LeftOf(Lines(a), Lines(u))
  <2>1. Lines(a) \in Seq(Commands) /\ Lines(z) \in Seq(Commands)
        /\ Lines(a \o z) = Lines(a) \o Lines(z)
    BY <1>4, LinesIsSeq, LinesOfConcat
  <2>2. <<>> \in Seq(Commands) /\ LeftOf(<<>>, Lines(z))
    BY <2>1, LeftOfEmpty
  <2>3. LeftOf(Lines(a) \o <<>>, Lines(a) \o Lines(z))
    BY <2>1, <2>2, LeftOfSelf, LeftOfConcat
  <2>4. \A s \in Seq(Commands) : s \o <<>> = s
    OBVIOUS
  <2> QED
    BY <1>4, <2>1, <2>3, <2>4, Zenon
<1>6. DOMAIN conns' = DOMAIN conns /\ conns'[Mine] = Cut(i, j)
      /\ \A m \in DOMAIN conns : m # Mine => conns'[m] = conns[m]
  BY <1>1, <1>2, ConnBecomes
<1>7. ASSUME NEW m
      PROVE  LeftOf(IF m \in DOMAIN conns' THEN Lines(conns'[m].up) ELSE <<>>, OnLine(m))
  <2>1. CASE m = Mine
    BY <1>2, <1>3, <1>5, <1>6, <2>1 DEF OnLine, u
  <2>2. CASE m # Mine
    BY <1>6, <2>2, LeftOfSelf DEF OnLine
  <2> QED
    BY <2>1, <2>2
<1>8. LeftOf(FirstLines', FirstLines) /\ LeftOf(SecondLines', SecondLines)
  BY <1>7 DEF FirstLines, SecondLines, OnLine
<1>9. LeftOf(cmd_queue_', cmd_queue_) /\ LeftOf(m_sendQueue', m_sendQueue)
  BY <1>1, LeftOfSelf
<1> QED
  BY <1>1, <1>8, <1>9, PartsLose DEF Loses

LEMMA CommandsPass ==
    ASSUME LinkTypeInv, [CommandNext]_command_vars
    PROVE  Issues \/ Loses \/ (handleNetworkCommand /\ Obeys)
<1>1. LinkTypeInv'
  BY CommandTypesStep
<1>2. Stutters => Loses
  BY WayUnchanged DEF Stutters, console_vars, server_vars, pi_queues
<1> QED
  BY <1>1, <1>2, CommandSteps, ConsolePasses, PiPasses, ClientPasses, DroppingPasses

LEMMA CommandsMapSteps ==
    ASSUME LinkTypeInv, Issues \/ Loses \/ Obeys
    PROVE  CommandChannel!Send \/ CommandChannel!Lose \/ CommandChannel!Deliver
<1>1. CommandsOnTheWay \in Seq(Commands) /\ issued \in Seq(Commands)
  BY WayIsSeq DEF LinkTypeInv, LinkTypeOK, ConsoleTypeOK
<1> DEFINE way == CommandsOnTheWay
           next == CommandsOnTheWay'
<1>2. \/ Sends(issued, issued', way, next) /\ UNCHANGED handled
      \/ LeftOf(next, way) /\ UNCHANGED <<issued, handled>>
      \/ \E e : Delivers(way, next, e) /\ handled' = Append(handled, e) /\ UNCHANGED issued
  <2>1. CASE Issues
    <3>1. PICK cmds \in Requests : IssuesAll(cmds) /\ next = way \o Issue(cmds)
      BY <2>1 DEF Issues
    <3>2. issued' = issued \o Issue(cmds) /\ UNCHANGED handled
      BY <2>1, <3>1 DEF Issues, IssuesAll
    <3> DEFINE new == Issue(cmds)
    <3>3. new \in Seq(Commands)
      BY <1>1, <3>1, IssueIsSeq, RequestsAreNames
    <3> HIDE DEF new, way, next
    <3>4. CASE new = <<>>
      <4>1. issued \o <<>> = issued /\ way \o <<>> = way
        BY <1>1 DEF way
      <4>2. next = way /\ issued' = issued
        BY <3>1, <3>2, <3>4, <4>1 DEF new
      <4> QED
        BY <3>2, <4>2, LeftOfSelf
    <3>5. CASE new # <<>>
      <4>1. LeftOf(next, way \o new)
        BY <3>1, LeftOfSelf DEF new
      <4>2. Sends(issued, issued \o new, way, next)
        BY <1>1, <3>3, <3>5, <4>1, SendsSeveral DEF way
      <4> QED
        BY <3>2, <4>2 DEF new
    <3> QED
      BY <3>4, <3>5
  <2>2. CASE Loses
    BY <2>2 DEF Loses
  <2>3. CASE Obeys
    <3>1. way # <<>> /\ next = Tail(way) /\ handled' = Append(handled, Head(way))
          /\ UNCHANGED issued
      BY <2>3 DEF Obeys
    <3> HIDE DEF way, next
    <3>2. Delivers(way, next, Head(way))
      <4>1. way \in Seq(Commands)
        BY <1>1 DEF way
      <4>2. 1 \in DOMAIN way /\ Head(way) = way[1] /\ Tail(way) = SubSeq(way, 1 + 1, Len(way))
        BY <3>1, <4>1
      <4>3. LeftOf(next, SubSeq(way, 1 + 1, Len(way)))
        BY <3>1, <4>2, LeftOfSelf
      <4> QED
        BY <4>2, <4>3 DEF Delivers
    <3> QED
      BY <3>1, <3>2
  <2> QED
    BY <2>1, <2>2, <2>3
<1> QED
  BY <1>2 DEF LeftOf, Sends, Delivers, IsStrictPrefix, IsPrefix,
     CommandChannel!Send, CommandChannel!Lose, CommandChannel!Deliver,
     CommandChannel!LeftOf, CommandChannel!IsStrictPrefix, CommandChannel!IsPrefix

-----------------------------------------------------------------------------
(* The way of an aim result.                                                 *)

\* The pieces on their way to the client's parser.
Down == IF attached /\ conns # <<>> THEN conns[Mine].down ELSE <<>>
Stream == recvBuffer \o Down
Pending == IF out_queue_ = 0 THEN <<>> ELSE <<out_queue_>>
IsUp == attached /\ conns # <<>> /\ conns[Mine].st = "up"

\* After a header come the rest of its frame, as far as there is a rest.
WellFormed(s) ==
    \A i \in DOMAIN s : s[i].part = 1 =>
        \A j \in {1, 2} : i + j \in DOMAIN s => s[i + j] = [id |-> s[i].id, part |-> j + 1]

\* No frame is cut short.
Complete(s) == \A i \in DOMAIN s : s[i].part = 1 => i + 2 \in DOMAIN s

\* A frame is cut short only where a connection broke; and its number is not 0.
StreamInv == WellFormed(Stream) /\ (IsUp => Complete(Stream)) /\ net_frame_id_ # 0

LEMMA StreamIsSeq ==
    LinkTypeInv => /\ recvBuffer \in Seq(AimPiece) /\ Down \in Seq(AimPiece)
                   /\ Stream \in Seq(AimPiece) /\ Pending \in Seq(Nat)
<1> SUFFICES ASSUME LinkTypeInv
             PROVE  /\ recvBuffer \in Seq(AimPiece) /\ Down \in Seq(AimPiece)
                    /\ Stream \in Seq(AimPiece) /\ Pending \in Seq(Nat)
  OBVIOUS
<1>1. ConnsTypeOK /\ recvBuffer \in Seq(AimPiece) /\ out_queue_ \in Nat
  BY DEF LinkTypeInv, LinkTypeOK, ClientTypeOK, ServerTypeOK
<1>2. Down \in Seq(AimPiece)
  <2>1. <<>> \in Seq(AimPiece)
    OBVIOUS
  <2>2. conns # <<>> => conns[Mine].down \in Seq(AimPiece)
    BY <1>1, MineIsThere, ConnParts
  <2> QED
    BY <2>1, <2>2 DEF Down
<1>3. Pending \in Seq(Nat)
  BY <1>1 DEF Pending
<1> QED
  BY <1>1, <1>2, <1>3 DEF Stream

LEMMA NextStreamIsSeq ==
    LinkTypeInv' => /\ recvBuffer' \in Seq(AimPiece) /\ Down' \in Seq(AimPiece)
                    /\ Stream' \in Seq(AimPiece) /\ Pending' \in Seq(Nat)
<1>1. (LinkTypeInv => /\ recvBuffer \in Seq(AimPiece) /\ Down \in Seq(AimPiece)
                      /\ Stream \in Seq(AimPiece) /\ Pending \in Seq(Nat))'
  BY StreamIsSeq, PTL
<1> QED
  BY <1>1

LEMMA AimsParts ==
    LinkTypeInv => AimsOnTheWay = Heads(Stream) \o Pending
<1> SUFFICES ASSUME LinkTypeInv PROVE AimsOnTheWay = Heads(Stream) \o Pending
  OBVIOUS
<1>1. Heads(Stream) = Heads(recvBuffer) \o Heads(Down)
  BY StreamIsSeq, HeadsOfConcat DEF Stream
<1>2. Heads(Down) = IF attached /\ conns # <<>> THEN Heads(conns[Mine].down) ELSE <<>>
  BY HeadsOfEmpty DEF Down
<1>3. AimsOnTheWay = Heads(recvBuffer) \o Heads(Down) \o Pending
  BY <1>2 DEF AimsOnTheWay, Pending
<1> QED
  BY <1>1, <1>3, Zenon

LEMMA NextAimsParts ==
    LinkTypeInv' => AimsOnTheWay' = Heads(Stream') \o Pending'
<1>1. (LinkTypeInv => AimsOnTheWay = Heads(Stream) \o Pending)'
  BY AimsParts, PTL
<1>2. (Heads(Stream))' = Heads(Stream')
  BY DEF Heads
<1> QED
  BY <1>1, <1>2

\* What is cut off at the end, or at the front, cuts no other frame.
LEMMA PrefixWellFormed ==
    ASSUME NEW s \in Seq(AimPiece), NEW t \in Seq(AimPiece), WellFormed(s \o t)
    PROVE  WellFormed(s)
<1> DEFINE r == s \o t
<1>1. /\ DOMAIN s \subseteq DOMAIN r /\ \A i \in DOMAIN s : r[i] = s[i]
  OBVIOUS
<1> HIDE DEF r
<1>2. WellFormed(r)
  BY DEF r
<1> QED
  BY <1>1, <1>2 DEF WellFormed

LEMMA SuffixWellFormed ==
    ASSUME NEW s \in Seq(AimPiece), NEW t \in Seq(AimPiece), WellFormed(s \o t)
    PROVE  WellFormed(t) /\ (Complete(s \o t) => Complete(t))
<1> DEFINE r == s \o t
           k == Len(s)
<1>1. /\ k \in Nat /\ DOMAIN t \subseteq Nat /\ \A i \in DOMAIN t : r[k + i] = t[i]
      /\ \A i \in Nat : i # 0 => (i \in DOMAIN t <=> k + i \in DOMAIN r)
      /\ \A i \in DOMAIN t : i # 0
  OBVIOUS
<1> HIDE DEF r, k
<1>2. WellFormed(r)
  BY DEF r
<1>3. WellFormed(t)
  <2> SUFFICES ASSUME NEW i \in DOMAIN t, t[i].part = 1, NEW j \in {1, 2}, i + j \in DOMAIN t
               PROVE  t[i + j] = [id |-> t[i].id, part |-> j + 1]
    BY DEF WellFormed
  <2>1. /\ k + i \in DOMAIN r /\ r[k + i] = t[i] /\ k + (i + j) = (k + i) + j
        /\ k + (i + j) \in DOMAIN r /\ r[k + (i + j)] = t[i + j]
    BY <1>1, SMTT(30)
  <2> QED
    BY <1>2, <2>1 DEF WellFormed
<1>4. ASSUME Complete(r)
      PROVE  Complete(t)
  <2> SUFFICES ASSUME NEW i \in DOMAIN t, t[i].part = 1
               PROVE  i + 2 \in DOMAIN t
    BY DEF Complete
  <2>0. i \in Nat /\ k + i \in DOMAIN r /\ r[k + i] = t[i]
    BY <1>1
  <2>1. k + (i + 2) = (k + i) + 2 /\ i + 2 \in Nat /\ i + 2 # 0
    <3>1. \A a, b \in Nat : a + (b + 2) = (a + b) + 2 /\ b + 2 \in Nat /\ b + 2 # 0
      OBVIOUS
    <3> QED
      BY <1>1, <2>0, <3>1, Zenon
  <2>2. k + (i + 2) \in DOMAIN r
    BY <1>4, <2>0, <2>1 DEF Complete
  <2> QED
    BY <1>1, <2>1, <2>2
<1> QED
  BY <1>3, <1>4 DEF r

LEMMA FrameJoins ==
    ASSUME NEW s \in Seq(AimPiece), WellFormed(s), Complete(s), NEW id \in Nat
    PROVE  WellFormed(s \o FramePieces(id)) /\ Complete(s \o FramePieces(id))
<1> DEFINE f == FramePieces(id)
           r == s \o f
           k == Len(s)
<1>1. f \in Seq(AimPiece) /\ Len(f) = 3 /\ \A i \in 1..3 : f[i] = [id |-> id, part |-> i]
  BY FrameIsPieces DEF FramePieces
<1>2. k \in Nat /\ DOMAIN s = 1..k
  OBVIOUS
<1> HIDE DEF f
<1>3. /\ DOMAIN r = 1..(k + 3) /\ \A i \in 1..k : r[i] = s[i]
      /\ r[k + 1] = f[1] /\ r[k + 2] = f[2] /\ r[k + 3] = f[3]
  <2>0. \A u, w \in Seq(AimPiece) :
           /\ u \o w \in Seq(AimPiece) /\ Len(u \o w) = Len(u) + Len(w)
           /\ \A j \in 1..Len(w) : (u \o w)[Len(u) + j] = w[j]
    OBVIOUS
  <2>1. /\ r \in Seq(AimPiece) /\ Len(r) = k + Len(f)
        /\ \A j \in 1..Len(f) : r[k + j] = f[j]
    <3>1. f \in Seq(AimPiece) /\ s \in Seq(AimPiece)
      BY <1>1
    <3> QED
      BY <2>0, <3>1, Zenon
  <2>2. \A i \in 1..k : r[i] = s[i]
    OBVIOUS
  <2>3. Len(r) = k + 3 /\ \A j \in 1..3 : r[k + j] = f[j]
    <3> HIDE DEF r, k
    <3> QED
      BY <1>1, <2>1, Zenon
  <2> HIDE DEF r, k
  <2>5. 1 \in 1..3 /\ 2 \in 1..3 /\ 3 \in 1..3 /\ DOMAIN r = 1..(k + 3)
    BY <2>1, <2>3
  <2> QED
    BY <2>2, <2>3, <2>5, Zenon
<1> HIDE DEF r, k
<1>4. /\ r[k + 1] = [id |-> id, part |-> 1] /\ r[k + 2] = [id |-> id, part |-> 2]
      /\ r[k + 3] = [id |-> id, part |-> 3]
  BY <1>1, <1>3
<1>5. ASSUME NEW i \in DOMAIN r, r[i].part = 1
      PROVE  (i \in 1..k /\ i + 2 \in 1..k) \/ i = k + 1
  <2>1. i \in 1..k \/ i = k + 1 \/ i = k + 2 \/ i = k + 3
    BY <1>2, <1>3
  <2>2. CASE i \in 1..k
    BY <1>2, <1>3, <1>5, <2>2 DEF Complete
  <2> QED
    BY <1>4, <1>5, <2>1, <2>2
<1>6. Complete(r)
  BY <1>2, <1>3, <1>5 DEF Complete
<1>7. WellFormed(r)
  <2> SUFFICES ASSUME NEW i \in DOMAIN r, r[i].part = 1, NEW j \in {1, 2}, i + j \in DOMAIN r
               PROVE  r[i + j] = [id |-> r[i].id, part |-> j + 1]
    BY DEF WellFormed
  <2>1. CASE i \in 1..k /\ i + 2 \in 1..k
    <3>1. i + j \in 1..k
      BY <1>2, <2>1
    <3> QED
      BY <1>2, <1>3, <2>1, <3>1 DEF WellFormed
  <2>2. CASE i = k + 1 /\ j = 1
    <3>1. i + j = k + 2 /\ j + 1 = 2
      BY <1>2, <2>2
    <3> QED
      BY <1>4, <2>2, <3>1
  <2>3. CASE i = k + 1 /\ j = 2
    <3>1. i + j = k + 3 /\ j + 1 = 3
      BY <1>2, <2>3
    <3> QED
      BY <1>4, <2>3, <3>1
  <2> QED
    BY <1>5, <2>1, <2>2, <2>3
<1> QED
  BY <1>6, <1>7 DEF r, f

LEMMA HeadsOfFrame ==
    ASSUME NEW id \in Nat
    PROVE  Heads(FramePieces(id)) = <<id>>
<1> DEFINE p(i) == [id |-> id, part |-> i]
<1>1. p(1) \in AimPiece /\ p(2) \in AimPiece /\ p(3) \in AimPiece
  BY DEF AimPiece
<1>2. FramePieces(id) = (<<p(1)>> \o <<p(2)>>) \o <<p(3)>>
  <2> DEFINE f == FramePieces(id)
             g == Append(Append(<<p(1)>>, p(2)), p(3))
  <2>1. f \in Seq(AimPiece) /\ Len(f) = 3 /\ f[1] = p(1) /\ f[2] = p(2) /\ f[3] = p(3)
    BY FrameIsPieces DEF FramePieces
  <2> DEFINE x == p(1)
             y == p(2)
             z == p(3)
  <2> HIDE DEF x, y, z
  <2>2. LET h == Append(Append(<<x>>, y), z)
        IN  h \in Seq(AimPiece) /\ Len(h) = 3 /\ h[1] = x /\ h[2] = y /\ h[3] = z
    BY <1>1 DEF x, y, z
  <2>3. g \in Seq(AimPiece) /\ Len(g) = 3 /\ g[1] = p(1) /\ g[2] = p(2) /\ g[3] = p(3)
    BY <2>2, Zenon DEF x, y, z
  <2> HIDE DEF f, g
  <2>4. f = g
    <3>1. \A i \in 1..3 : i = 1 \/ i = 2 \/ i = 3
      OBVIOUS
    <3>2. \A i \in 1..3 : f[i] = g[i]
      BY <2>1, <2>3, <3>1
    <3> QED
      BY <2>1, <2>3, <3>2
  <2>5. g = (<<p(1)>> \o <<p(2)>>) \o <<p(3)>>
    <3>1. \A s \in Seq(AimPiece) : \A e \in AimPiece :
             Append(s, e) = s \o <<e>> /\ Append(s, e) \in Seq(AimPiece) /\ <<e>> \in Seq(AimPiece)
      OBVIOUS
    <3>2. <<p(1)>> \in Seq(AimPiece)
      BY <1>1
    <3> QED
      BY <1>1, <3>1, <3>2, Zenon DEF g
  <2> QED
    BY <2>4, <2>5 DEF f
<1>3. Heads(<<p(1)>>) = <<id>> /\ Heads(<<p(2)>>) = <<>> /\ Heads(<<p(3)>>) = <<>>
  <2>1. \A x \in AimPiece : Heads(<<x>>) = IF x.part = 1 THEN <<x.id>> ELSE <<>>
    BY HeadsOfPiece
  <2>2. p(1).part = 1 /\ p(2).part # 1 /\ p(3).part # 1 /\ p(1).id = id
    OBVIOUS
  <2> QED
    BY <1>1, <2>1, <2>2, Zenon
<1>4. <<p(1)>> \in Seq(AimPiece) /\ <<p(2)>> \in Seq(AimPiece) /\ <<p(3)>> \in Seq(AimPiece)
      /\ <<p(1)>> \o <<p(2)>> \in Seq(AimPiece)
  BY <1>1
<1>5. Heads((<<p(1)>> \o <<p(2)>>) \o <<p(3)>>) = (<<id>> \o <<>>) \o <<>>
  <2> DEFINE a == <<p(1)>>
             b == <<p(2)>>
             c == <<p(3)>>
  <2> HIDE DEF a, b, c
  <2>1. Heads((a \o b) \o c) = Heads(a \o b) \o Heads(c) /\ Heads(a \o b) = Heads(a) \o Heads(b)
    BY <1>4, HeadsOfConcat DEF a, b, c
  <2> QED
    BY <1>3, <2>1, Zenon DEF a, b, c
<1>6. (<<id>> \o <<>>) \o <<>> = <<id>>
  OBVIOUS
<1> QED
  BY <1>2, <1>5, <1>6, Zenon

\* What a step can do to the stream: nothing, cut its end, which breaks the connection,
\* or its front, clear it, or put a frame into it.
EndIsCut == ~IsUp' /\ \E z \in Seq(AimPiece) : Stream = Stream' \o z
FrontIsCut == (IsUp' => IsUp) /\ \E z \in Seq(AimPiece) : Stream = z \o Stream'
FrameIsPut == IsUp /\ out_queue_ # 0 /\ out_queue_' = 0
              /\ Stream' = Stream \o FramePieces(out_queue_)
StreamKept == Stream' = Stream /\ (IsUp' => IsUp)
StreamMoves == StreamKept \/ EndIsCut \/ FrontIsCut \/ FrameIsPut \/ Stream' = <<>>

LEMMA StreamUnchanged ==
    ASSUME UNCHANGED <<conns, attached, recvBuffer>>
    PROVE  StreamKept
  BY DEF StreamKept, Stream, Down, IsUp, Mine

LEMMA DownKept ==
    ASSUME LinkTypeInv, NEW i \in DOMAIN conns, NEW c \in Conn, Becomes(i, c),
           c.down = conns[i].down, c.st = "up" => conns[i].st = "up",
           UNCHANGED <<attached, recvBuffer>>
    PROVE  StreamKept
<1>1. ConnsTypeOK
  BY DEF LinkTypeInv, LinkTypeOK
<1>2. /\ Len(conns') = Len(conns) /\ DOMAIN conns' = DOMAIN conns
      /\ conns'[i] = c /\ \A j \in DOMAIN conns : j # i => conns'[j] = conns[j]
  BY <1>1, ConnBecomes
<1>3. conns # <<>> /\ conns' # <<>> /\ Mine' = Mine /\ Mine \in DOMAIN conns
  <2>1. conns # <<>> /\ conns' # <<>>
    BY <1>2
  <2> QED
    BY <1>1, <1>2, <2>1, MineIsThere DEF Mine
<1>4. conns'[Mine].down = conns[Mine].down /\ (conns'[Mine].st = "up" => conns[Mine].st = "up")
  BY <1>2, <1>3
<1>5. Down' = Down /\ (IsUp' => IsUp)
  BY <1>3, <1>4 DEF Down, IsUp
<1> QED
  BY <1>5 DEF StreamKept, Stream

\* What was on its way from the Pi is gone.
LEMMA StreamEnds ==
    ASSUME LinkTypeInv, conns' = <<>> \/ attached' = FALSE, recvBuffer' = recvBuffer
    PROVE  EndIsCut
<1>1. recvBuffer \in Seq(AimPiece) /\ Down \in Seq(AimPiece)
  BY StreamIsSeq
<1>2. Down' = <<>> /\ ~IsUp'
  BY DEF Down, IsUp
<1>3. Stream' = recvBuffer
  <2>1. recvBuffer \o <<>> = recvBuffer
    BY <1>1
  <2> QED
    BY <1>2, <2>1 DEF Stream
<1>4. Stream = Stream' \o Down
  BY <1>3 DEF Stream
<1> QED
  BY <1>1, <1>2, <1>4 DEF EndIsCut

LEMMA ClosingMoves ==
    ASSUME LinkTypeInv, CloseClient, conns # <<>>, UNCHANGED <<attached, recvBuffer>>
    PROVE  StreamKept \/ EndIsCut
<1>1. conns \in Seq(Conn) /\ Len(conns) <= 2 /\ conns' = Tail(conns)
  BY DEF LinkTypeInv, LinkTypeOK, ConnsTypeOK, CommandLinkOK, CloseClient
<1>2. CASE Len(conns) = 1
  <2>1. conns' = <<>>
    BY <1>1, <1>2
  <2> QED
    BY <2>1, StreamEnds
<1>3. CASE Len(conns) = 2
  <2>0. Mine' = 1 /\ Mine = 2 /\ conns'[1] = conns[2] /\ Len(conns') = 1
    <3>1. Len(Tail(conns)) = 1 /\ Tail(conns)[1] = conns[2]
      BY <1>1, <1>3, SMTT(30)
    <3> QED
      BY <1>1, <1>3, <3>1 DEF Mine
  <2>1. Mine' = 1 /\ Mine = 2 /\ conns' # <<>> /\ conns'[1] = conns[2]
    BY <2>0
  <2>2. conns'[Mine'] = conns[Mine]
    BY <2>1, Zenon
  <2>3. Down' = Down /\ IsUp' = IsUp
    BY <2>1, <2>2 DEF Down, IsUp
  <2> QED
    BY <2>3 DEF StreamKept, Stream
<1>4. Len(conns) = 1 \/ Len(conns) = 2
  <2>1. Len(conns) \in Nat /\ Len(conns) # 0 /\ Len(conns) <= 2
    BY <1>1
  <2>2. \A n \in Nat : n # 0 /\ n <= 2 => n = 1 \/ n = 2
    OBVIOUS
  <2> QED
    BY <2>1, <2>2, Zenon
<1> QED
  BY <1>2, <1>3, <1>4

LEMMA SendLatestMoves ==
    ASSUME LinkTypeInv, SendLatest, UNCHANGED <<attached, recvBuffer>>
    PROVE  StreamMoves
<1>1. ConnsTypeOK /\ ServerTypeOK /\ conns # <<>> /\ out_queue_' = 0
  BY DEF SendLatest, LinkTypeInv, LinkTypeOK, CommandLinkOK
<1>2. 1 \in DOMAIN conns
  BY <1>1, MineIsThere
<1> DEFINE c == [conns[1] EXCEPT !.down = @ \o FramePieces(out_queue_)]
<1>3. \/ CloseClient \/ conns' = conns \/ conns' = <<>>
      \/ out_queue_ # 0 /\ conns[1].st = "up" /\ Becomes(1, c)
  <2>1. conns[1].st \in {"up", "down", "told"}
    BY <1>1, <1>2, ConnParts
  <2> QED
    BY <2>1 DEF SendLatest, Becomes
<1>4. conns' = conns => StreamMoves
  BY StreamUnchanged DEF StreamMoves
<1>5. CloseClient \/ conns' = <<>> => StreamMoves
  BY <1>1, ClosingMoves, StreamEnds DEF StreamMoves
<1>6. CASE out_queue_ # 0 /\ conns[1].st = "up" /\ Becomes(1, c)
  <2> DEFINE f == FramePieces(out_queue_)
  <2>1. f \in Seq(AimPiece)
    BY <1>1, FrameIsPieces DEF ServerTypeOK
  <2>2. conns[1] \in Conn /\ conns[1].down \in Seq(AimPiece)
    BY <1>1, <1>2, ConnParts
  <2> HIDE DEF f
  <2>3. c \in Conn /\ c.down = conns[1].down \o f /\ c.st = conns[1].st
    <3>1. conns[1].down \o f \in Seq(AimPiece)
      BY <2>1, <2>2
    <3> QED
      BY <2>2, <3>1 DEF Conn, f
  <2> HIDE DEF c
  <2>4. /\ Len(conns') = Len(conns) /\ DOMAIN conns' = DOMAIN conns
        /\ conns'[1] = c /\ \A j \in DOMAIN conns : j # 1 => conns'[j] = conns[j]
    BY <1>1, <1>2, <1>6, <2>3, ConnBecomes DEF c
  <2>5. conns' # <<>> /\ Mine' = Mine /\ Mine \in DOMAIN conns
    <3>1. conns' # <<>>
      BY <1>2, <2>4
    <3> QED
      BY <1>1, <2>4, <3>1, MineIsThere DEF Mine
  <2>6. CASE attached /\ Mine = 1
    <3>1. IsUp
      BY <1>1, <1>6, <2>6 DEF IsUp
    <3>2. Down = conns[1].down /\ Down' = conns[1].down \o f
      <4>1. Down = conns[1].down
        BY <1>1, <2>6 DEF Down
      <4>2. Down' = c.down
        BY <2>4, <2>5, <2>6 DEF Down
      <4> QED
        BY <2>3, <4>1, <4>2
    <3>3. Stream' = Stream \o f
      <4>1. recvBuffer \in Seq(AimPiece) /\ recvBuffer' = recvBuffer
        BY StreamIsSeq
      <4>2. Regroups(recvBuffer, conns[1].down, f)
        BY <2>1, <2>2, <4>1, ConcatRegroups
      <4> QED
        BY <3>2, <4>1, <4>2, Zenon DEF Stream, Regroups
    <3> QED
      BY <1>1, <1>6, <3>1, <3>3 DEF StreamMoves, FrameIsPut, f
  <2>7. CASE attached /\ Mine # 1
    <3>1. conns'[Mine] = conns[Mine]
      BY <2>4, <2>5, <2>7
    <3>2. Down' = Down /\ IsUp' = IsUp
      BY <1>1, <2>5, <3>1 DEF Down, IsUp
    <3> QED
      BY <3>2 DEF StreamMoves, StreamKept, Stream
  <2>8. CASE ~attached
    BY <2>8 DEF StreamMoves, StreamKept, Stream, Down, IsUp
  <2> QED
    BY <2>6, <2>7, <2>8
<1> QED
  BY <1>3, <1>4, <1>5, <1>6

LEMMA PiMovesStream ==
    ASSUME LinkTypeInv, PiActs
    PROVE  StreamMoves
<1>1. UNCHANGED <<attached, recvBuffer>> /\ ConnsTypeOK /\ ServerTypeOK
  BY DEF PiActs, client_vars, LinkTypeInv, LinkTypeOK
<1>2. CASE SendLatest
  BY <1>1, <1>2, SendLatestMoves
<1>3. CASE ReceiveCommands
  <2>1. conns # <<>>
    BY <1>3 DEF ReceiveCommands, LinkTypeInv, CommandLinkOK
  <2>2. PICK n \in 1..Len(conns[1].up) : Becomes(1, Rest(n))
    BY <1>3 DEF ReceiveCommands, Becomes, Rest
  <2>3. /\ 1 \in DOMAIN conns /\ conns[1] \in Conn
        /\ SubSeq(conns[1].up, n + 1, Len(conns[1].up)) \in Seq(LinePiece)
    BY <1>1, <2>1, MineIsThere, ConnParts, ReceivedIsSeq
  <2>4. Rest(n) \in Conn /\ Rest(n).down = conns[1].down /\ Rest(n).st = conns[1].st
    BY <2>3 DEF Rest, Conn
  <2> QED
    BY <1>1, <2>2, <2>3, <2>4, DownKept DEF StreamMoves
<1>4. CASE ReceiveNothing
  <2>1. conns # <<>>
    BY <1>4 DEF ReceiveNothing, LinkTypeInv, CommandLinkOK
  <2>2. CloseClient \/ conns' = conns \/ Becomes(1, Told)
    BY <1>4 DEF ReceiveNothing, Becomes, Told
  <2>3. 1 \in DOMAIN conns /\ conns[1] \in Conn
    BY <1>1, <2>1, MineIsThere, ConnParts
  <2>4. Told \in Conn /\ Told.down = conns[1].down /\ Told.st # "up"
    BY <2>3 DEF Told, Conn
  <2>5. Becomes(1, Told) => StreamKept
    BY <1>1, <2>3, <2>4, DownKept
  <2> QED
    BY <1>1, <2>1, <2>2, <2>5, ClosingMoves, StreamUnchanged DEF StreamMoves
<1>5. CASE PiStarts
  BY <1>1, <1>5, StreamEnds DEF PiStarts, StreamMoves
<1>6. CASE handleNetworkCommand \/ publishAimResult \/ accept
  <2>1. conns' = conns
    BY <1>6 DEF handleNetworkCommand, publishAimResult, accept
  <2> QED
    BY <1>1, <2>1, StreamUnchanged DEF StreamMoves
<1> QED
  BY <1>2, <1>3, <1>4, <1>5, <1>6 DEF PiActs

LEMMA ParseMovesStream ==
    ASSUME LinkTypeInv, LinkTypeInv', Parse
    PROVE  FrontIsCut
<1>1. ClientTypeOK /\ recvBuffer \in Seq(AimPiece) /\ Down \in Seq(AimPiece)
  BY StreamIsSeq DEF LinkTypeInv, LinkTypeOK
<1>2. RestOf(recvBuffer', recvBuffer) /\ UNCHANGED <<conns, attached>>
  BY <1>1, ParseFacts DEF server_vars
<1>3. Down' = Down /\ IsUp' = IsUp
  BY <1>2 DEF Down, IsUp, Mine
<1>4. PICK i \in 1..(Len(recvBuffer) + 1) : recvBuffer' = SubSeq(recvBuffer, i, Len(recvBuffer))
  BY <1>2 DEF RestOf
<1> DEFINE z == SubSeq(recvBuffer, 1, i - 1)
           r == recvBuffer'
<1>5. z \in Seq(AimPiece) /\ r \in Seq(AimPiece) /\ recvBuffer = z \o r
  <2> DEFINE b == recvBuffer
             k == Len(b)
             j == i - 1
  <2>1. k \in Nat /\ j \in Nat /\ j <= k /\ b \in Seq(AimPiece)
    BY <1>1
  <2>2. i = j + 1 /\ r = SubSeq(b, j + 1, k) /\ z = SubSeq(b, 1, j)
    BY <1>4
  <2> HIDE DEF b, k, j
  <2>3. \A u \in Seq(AimPiece) : \A m \in Nat : m <= Len(u) => Splits(u, m)
    BY SeqSplits
  <2>4. Splits(b, j)
    BY <2>1, <2>3, Zenon DEF k
  <2>5. b = SubSeq(b, 1, j) \o SubSeq(b, j + 1, k)
    BY <2>4, Zenon DEF Splits, k
  <2>6. r \in Seq(AimPiece)
    BY NextStreamIsSeq
  <2>7. z \in Seq(AimPiece)
    BY <2>1, <2>2 DEF k
  <2> QED
    BY <2>2, <2>5, <2>6, <2>7 DEF b
<1> HIDE DEF z, r
<1>6. Stream = z \o (r \o Down)
  <2>1. Regroups(z, r, Down)
    BY <1>1, <1>5, ConcatRegroups
  <2> QED
    BY <1>5, <2>1, Zenon DEF Stream, Regroups
<1>7. Stream' = r \o Down
  BY <1>3 DEF Stream, r
<1> QED
  BY <1>3, <1>5, <1>6, <1>7 DEF FrontIsCut

LEMMA ClientMovesStream ==
    ASSUME LinkTypeInv, LinkTypeInv', ClientActs
    PROVE  StreamMoves
<1>1. ConsoleTypeOK /\ ConnsTypeOK
  BY DEF LinkTypeInv, LinkTypeOK
<1>2. CASE tryAgain \/ connectFails \/ getLatestAimResult
  <2>1. UNCHANGED <<conns, attached, recvBuffer>>
    BY <1>2 DEF tryAgain, connectFails, getLatestAimResult, server_vars
  <2> QED
    BY <2>1, StreamUnchanged DEF StreamMoves
<1>3. CASE Parse
  BY <1>3, ParseMovesStream DEF StreamMoves
<1>4. CASE ReceiveChunk
  <2>1. /\ attached /\ conns # <<>> /\ UNCHANGED attached
    BY <1>4 DEF ReceiveChunk
  <2>2. PICK n \in 1..Len(conns[Mine].down) :
          /\ recvBuffer' = recvBuffer \o SubSeq(conns[Mine].down, 1, n)
          /\ Becomes(Mine, ReadUpTo(n))
    BY <1>4 DEF ReceiveChunk, Becomes, ReadUpTo
  <2> DEFINE d == conns[Mine].down
             a == SubSeq(d, 1, n)
             z == SubSeq(d, n + 1, Len(d))
  <2>3. /\ Mine \in DOMAIN conns /\ a \in Seq(AimPiece) /\ z \in Seq(AimPiece) /\ d = a \o z
    BY <1>1, <2>1, MineIsRead
  <2>4. ReadUpTo(n) \in Conn /\ ReadUpTo(n).down = z /\ ReadUpTo(n).st = conns[Mine].st
    <3>1. conns[Mine] \in Conn
      BY <1>1, <2>3, ConnParts
    <3> QED
      BY <2>3, <3>1 DEF ReadUpTo, Conn
  <2>5. /\ Len(conns') = Len(conns) /\ DOMAIN conns' = DOMAIN conns
        /\ conns'[Mine] = ReadUpTo(n)
    BY <1>1, <2>2, <2>3, <2>4, ConnBecomes
  <2>6. conns' # <<>> /\ Mine' = Mine
    <3>1. conns' # <<>>
      BY <2>3, <2>5
    <3> QED
      BY <2>5, <3>1 DEF Mine
  <2>7. Down = d /\ Down' = z /\ IsUp' = IsUp
    BY <2>1, <2>4, <2>5, <2>6 DEF Down, IsUp
  <2> HIDE DEF a, z, d
  <2>8. recvBuffer \in Seq(AimPiece)
    BY StreamIsSeq
  <2>9. Regroups(recvBuffer, a, z)
    BY <2>3, <2>8, ConcatRegroups
  <2>10. recvBuffer' = recvBuffer \o a
    BY <2>2 DEF a, d
  <2>11. Stream' = Stream
    BY <2>3, <2>7, <2>9, <2>10, Zenon DEF Stream, Regroups
  <2> QED
    BY <2>7, <2>11 DEF StreamMoves, StreamKept
<1>5. CASE ReceiveFails
  <2>1. UNCHANGED recvBuffer /\ (Leave \/ UNCHANGED <<conns, attached>>)
    BY <1>5 DEF ReceiveFails
  <2> QED
    BY <1>1, <2>1, LeaveTypes, StreamEnds, StreamUnchanged DEF StreamMoves
<1>6. CASE SendQueued
  <2>1. recvBuffer' = recvBuffer
    BY <1>6 DEF SendQueued
  <2>2. \/ Leave \/ UNCHANGED <<conns, attached>>
        \/ UNCHANGED attached /\ Becomes(Mine, Sent) /\ Sent \in Conn /\ Mine \in DOMAIN conns
    BY <1>1, <1>6, SendQueuedFacts
  <2>3. Mine \in DOMAIN conns => Sent.down = conns[Mine].down /\ Sent.st = conns[Mine].st
    <3> SUFFICES ASSUME Mine \in DOMAIN conns
                 PROVE  Sent.down = conns[Mine].down /\ Sent.st = conns[Mine].st
      OBVIOUS
    <3>1. conns[Mine] \in Conn
      BY <1>1, ConnParts
    <3> QED
      BY <3>1 DEF Sent, Conn
  <2>4. CASE UNCHANGED attached /\ Becomes(Mine, Sent) /\ Sent \in Conn /\ Mine \in DOMAIN conns
    BY <2>1, <2>3, <2>4, DownKept DEF StreamMoves
  <2> QED
    BY <1>1, <2>1, <2>2, <2>4, LeaveTypes, StreamEnds, StreamUnchanged DEF StreamMoves
<1>7. CASE connect
  <2>1. conns' = Append(conns, NewConn) /\ recvBuffer' = <<>>
    BY <1>7 DEF connect
  <2>2. Len(conns') = Len(conns) + 1 /\ conns'[Len(conns) + 1] = NewConn /\ conns' # <<>>
    BY <1>1, <2>1 DEF ConnsTypeOK
  <2>3. conns'[Mine'].down = <<>>
    BY <2>2 DEF Mine, NewConn
  <2>4. Down' = <<>>
    BY <2>3 DEF Down
  <2>5. Stream' = <<>>
    <3>1. <<>> \o <<>> = <<>>
      OBVIOUS
    <3> QED
      BY <2>1, <2>4, <3>1, Zenon DEF Stream
  <2> QED
    BY <2>5 DEF StreamMoves
<1> QED
  BY <1>2, <1>3, <1>4, <1>5, <1>6, <1>7 DEF ClientActs

LEMMA DroppingMovesStream ==
    ASSUME LinkTypeInv, ConnectionDrops
    PROVE  EndIsCut
<1>1. ConnsTypeOK /\ UNCHANGED <<recvBuffer, attached>>
  BY DEF LinkTypeInv, LinkTypeOK, ConnectionDrops, client_vars
<1>2. PICK i \in 0..Len(conns[Mine].up), j \in 0..Len(conns[Mine].down) :
             /\ Becomes(Mine, Cut(i, j)) /\ Cut(i, j) \in Conn /\ Mine \in DOMAIN conns
             /\ attached /\ conns # <<>>
  BY <1>1, CutFacts
<1> DEFINE d == conns[Mine].down
           a == SubSeq(d, 1, j)
           z == SubSeq(d, j + 1, Len(d))
<1>3. d \in Seq(AimPiece)
  BY <1>1, <1>2, ConnParts
<1>4. /\ Len(conns') = Len(conns) /\ DOMAIN conns' = DOMAIN conns /\ conns'[Mine] = Cut(i, j)
  BY <1>1, <1>2, ConnBecomes
<1>5. conns' # <<>> /\ Mine' = Mine
  <2>1. conns' # <<>>
    BY <1>2, <1>4
  <2> QED
    BY <1>4, <2>1 DEF Mine
<1>6. Cut(i, j).down = a /\ Cut(i, j).st = "down"
  BY DEF Cut
<1>7. Down = d /\ Down' = a /\ ~IsUp'
  BY <1>1, <1>2, <1>4, <1>5, <1>6 DEF Down, IsUp
<1>8. a \in Seq(AimPiece) /\ z \in Seq(AimPiece) /\ d = a \o z
  <2> HIDE DEF d
  <2>1. j \in Nat /\ j <= Len(d)
    BY <1>2, <1>3 DEF d
  <2>2. a \in Seq(AimPiece)
    BY <1>3, <2>1
  <2>3. z \in Seq(AimPiece)
    BY <1>3, <2>1
  <2>4. Splits(d, j)
    BY <1>3, <2>1, SeqSplits
  <2> QED
    BY <2>2, <2>3, <2>4, Zenon DEF Splits
<1> HIDE DEF d, a, z
<1>9. recvBuffer \in Seq(AimPiece)
  BY StreamIsSeq
<1>10. Regroups(recvBuffer, a, z)
  BY <1>8, <1>9, ConcatRegroups
<1>11. Stream = Stream' \o z
  BY <1>1, <1>7, <1>8, <1>10, Zenon DEF Stream, Regroups
<1> QED
  BY <1>7, <1>8, <1>11 DEF EndIsCut

LEMMA StreamStepMoves ==
    ASSUME LinkTypeInv, [CommandNext]_command_vars
    PROVE  StreamMoves
<1>1. LinkTypeInv'
  BY CommandTypesStep
<1>2. Stutters \/ ConsoleActs => StreamMoves
  BY StreamUnchanged DEF Stutters, ConsoleActs, server_vars, client_vars, StreamMoves
<1>3. ConnectionDrops => StreamMoves
  BY DroppingMovesStream DEF StreamMoves
<1> QED
  BY <1>1, <1>2, <1>3, CommandSteps, PiMovesStream, ClientMovesStream

LEMMA EmptyIsComplete == WellFormed(<<>>) /\ Complete(<<>>)
  BY DEF WellFormed, Complete

LEMMA FrameNumbersCount ==
    ASSUME net_frame_id_ \in Nat, net_frame_id_ # 0, [CommandNext]_command_vars
    PROVE  net_frame_id_' # 0
<1>1. \/ net_frame_id_' = net_frame_id_ \/ net_frame_id_' = net_frame_id_ + 1
      \/ net_frame_id_' = 1
  <2>1. CASE PiActs
    <3>1. CASE SendLatest
      BY <3>1 DEF SendLatest
    <3>2. CASE ReceiveCommands \/ ReceiveNothing \/ handleNetworkCommand \/ accept
      BY <3>2 DEF ReceiveCommands, ReceiveNothing, handleNetworkCommand, accept, pi_frames
    <3>3. CASE publishAimResult \/ PiStarts
      BY <3>3 DEF publishAimResult, PiStarts
    <3> QED
      BY <2>1, <3>1, <3>2, <3>3 DEF PiActs
  <2>2. CASE ClientActs
    <3>1. CASE tryAgain \/ connectFails \/ getLatestAimResult \/ Parse
      BY <3>1 DEF tryAgain, connectFails, getLatestAimResult, Parse, server_vars, pi_frames
    <3>2. CASE connect \/ SendQueued \/ ReceiveChunk \/ ReceiveFails
      BY <3>2 DEF connect, SendQueued, ReceiveChunk, ReceiveFails, pi_frames
    <3> QED
      BY <2>2, <3>1, <3>2 DEF ClientActs
  <2>3. Stutters \/ ConsoleActs \/ ConnectionDrops => net_frame_id_' = net_frame_id_
    BY DEF Stutters, ConsoleActs, ConnectionDrops, server_vars, pi_frames
  <2> QED
    BY <2>1, <2>2, <2>3, CommandSteps
<1> QED
  BY <1>1

LEMMA StreamStaysWhole ==
    ASSUME LinkTypeInv, StreamInv, [CommandNext]_command_vars
    PROVE  StreamInv'
<1>1. LinkTypeInv' /\ ServerTypeOK
  BY CommandTypesStep DEF LinkTypeInv, LinkTypeOK
<1>2. Stream \in Seq(AimPiece) /\ Stream' \in Seq(AimPiece)
  BY <1>1, StreamIsSeq, NextStreamIsSeq
<1>3. WellFormed(Stream) /\ (IsUp => Complete(Stream)) /\ net_frame_id_ # 0
  BY DEF StreamInv
<1>4. StreamMoves
  BY StreamStepMoves
<1>5. WellFormed(Stream') /\ (IsUp' => Complete(Stream'))
  <2>1. CASE StreamKept
    BY <1>3, <2>1 DEF StreamKept
  <2>2. CASE EndIsCut
    <3>1. PICK z \in Seq(AimPiece) : Stream = Stream' \o z
      BY <2>2 DEF EndIsCut
    <3>2. WellFormed(Stream' \o z)
      BY <1>3, <3>1, Zenon
    <3>3. \A s, t \in Seq(AimPiece) : WellFormed(s \o t) => WellFormed(s)
      BY PrefixWellFormed
    <3>4. WellFormed(Stream')
      BY <1>2, <3>2, <3>3, Zenon
    <3> QED
      BY <2>2, <3>4 DEF EndIsCut
  <2>3. CASE FrontIsCut
    <3>1. PICK z \in Seq(AimPiece) : Stream = z \o Stream'
      BY <2>3 DEF FrontIsCut
    <3>2. WellFormed(z \o Stream') /\ (IsUp => Complete(z \o Stream'))
      BY <1>3, <3>1, Zenon
    <3>3. \A s, t \in Seq(AimPiece) : WellFormed(s \o t) =>
             WellFormed(t) /\ (Complete(s \o t) => Complete(t))
      BY SuffixWellFormed
    <3>4. WellFormed(Stream') /\ (IsUp => Complete(Stream'))
      BY <1>2, <3>2, <3>3, Zenon
    <3> QED
      BY <2>3, <3>4 DEF FrontIsCut
  <2>4. CASE FrameIsPut
    <3>1. Complete(Stream) /\ Stream' = Stream \o FramePieces(out_queue_)
      BY <1>3, <2>4 DEF FrameIsPut
    <3>2. out_queue_ \in Nat
      BY <1>1 DEF ServerTypeOK
    <3>3. WellFormed(Stream \o FramePieces(out_queue_))
          /\ Complete(Stream \o FramePieces(out_queue_))
      BY <1>2, <1>3, <3>1, <3>2, FrameJoins
    <3> QED
      BY <3>1, <3>3, Zenon
  <2>5. CASE Stream' = <<>>
    BY <2>5, EmptyIsComplete
  <2> QED
    BY <1>4, <2>1, <2>2, <2>3, <2>4, <2>5 DEF StreamMoves
<1>6. net_frame_id_' # 0
  BY <1>1, <1>3, FrameNumbersCount DEF ServerTypeOK
<1> QED
  BY <1>5, <1>6 DEF StreamInv

\* Without a frame put into it, the stream can only lose headers.
LEMMA MovesLoseHeads ==
    ASSUME LinkTypeInv, LinkTypeInv', StreamMoves, ~FrameIsPut
    PROVE  LeftOf(Heads(Stream'), Heads(Stream))
<1>1. Stream \in Seq(AimPiece) /\ Stream' \in Seq(AimPiece)
  BY StreamIsSeq, NextStreamIsSeq
<1>2. \A s, t \in Seq(AimPiece) : Heads(s \o t) = Heads(s) \o Heads(t)
  BY HeadsOfConcat
<1>3. \A s \in Seq(AimPiece) : Heads(s) \in Seq(Nat)
  BY HeadsIsSeq
<1>4. ASSUME NEW s \in Seq(Nat), NEW t \in Seq(Nat)
      PROVE  LeftOf(s, s \o t) /\ LeftOf(t, s \o t)
  <2>1. <<>> \in Seq(Nat)
    OBVIOUS
  <2>2. LeftOf(<<>>, s) /\ LeftOf(<<>>, t) /\ LeftOf(s, s) /\ LeftOf(t, t)
    BY LeftOfEmpty, LeftOfSelf
  <2>3. LeftOf(s \o <<>>, s \o t) /\ LeftOf(<<>> \o t, s \o t)
    BY <2>1, <2>2, LeftOfConcat
  <2>4. s \o <<>> = s /\ <<>> \o t = t
    OBVIOUS
  <2> QED
    BY <2>3, <2>4, Zenon
<1>5. CASE StreamKept
  BY <1>5, LeftOfSelf DEF StreamKept
<1>6. CASE EndIsCut
  <2>1. PICK z \in Seq(AimPiece) : Stream = Stream' \o z
    BY <1>6 DEF EndIsCut
  <2> DEFINE r == Stream'
  <2>2. r \in Seq(AimPiece) /\ Stream = r \o z
    BY <1>1, <2>1
  <2> HIDE DEF r
  <2>3. Heads(Stream) = Heads(r) \o Heads(z) /\ Heads(r) \in Seq(Nat) /\ Heads(z) \in Seq(Nat)
    BY <1>2, <1>3, <2>2, Zenon
  <2>4. LeftOf(Heads(r), Heads(r) \o Heads(z))
    BY <1>4, <2>3
  <2> QED
    BY <2>3, <2>4 DEF r
<1>7. CASE FrontIsCut
  <2>1. PICK z \in Seq(AimPiece) : Stream = z \o Stream'
    BY <1>7 DEF FrontIsCut
  <2> DEFINE r == Stream'
  <2>2. r \in Seq(AimPiece) /\ Stream = z \o r
    BY <1>1, <2>1
  <2> HIDE DEF r
  <2>3. Heads(Stream) = Heads(z) \o Heads(r) /\ Heads(r) \in Seq(Nat) /\ Heads(z) \in Seq(Nat)
    BY <1>2, <1>3, <2>2, Zenon
  <2>4. LeftOf(Heads(r), Heads(z) \o Heads(r))
    BY <1>4, <2>3
  <2> QED
    BY <2>3, <2>4 DEF r
<1>8. CASE Stream' = <<>>
  <2>1. Heads(Stream') = <<>>
    BY <1>8, HeadsOfEmpty
  <2>2. LeftOf(<<>>, Heads(Stream))
    BY <1>1, <1>3, LeftOfEmpty
  <2> QED
    BY <2>1, <2>2
<1> QED
  BY <1>5, <1>6, <1>7, <1>8 DEF StreamMoves

\* What a step can do to the aim results: publish one, lose some, take one.
AimsSent == Sends(published, published', AimsOnTheWay, AimsOnTheWay') /\ UNCHANGED m_aims
AimsLost == LeftOf(AimsOnTheWay', AimsOnTheWay) /\ UNCHANGED <<published, m_aims>>
AimTaken == \E e : /\ Delivers(AimsOnTheWay, AimsOnTheWay', e)
                   /\ m_aims' = Append(m_aims, e) /\ UNCHANGED published

LEMMA AimSteps ==
    ASSUME ClientTypeOK, [CommandNext]_command_vars
    PROVE  \/ publishAimResult /\ UNCHANGED client_vars
           \/ Parse /\ tryParseAimFrame
           \/ UNCHANGED <<published, m_aims>> /\ out_queue_' \in {out_queue_, 0}
<1>1. CASE Stutters \/ ConsoleActs \/ ConnectionDrops
  BY <1>1 DEF Stutters, ConsoleActs, ConnectionDrops, server_vars, client_vars, pi_frames
<1>2. CASE PiActs
  <2>1. CASE SendLatest \/ PiStarts
    BY <1>2, <2>1 DEF PiActs, SendLatest, PiStarts, client_vars
  <2>2. CASE ReceiveCommands \/ ReceiveNothing \/ handleNetworkCommand \/ accept
    BY <1>2, <2>2 DEF PiActs, ReceiveCommands, ReceiveNothing, handleNetworkCommand, accept,
                      pi_frames, client_vars
  <2> QED
    BY <1>2, <2>1, <2>2 DEF PiActs
<1>3. CASE ClientActs
  <2>1. CASE tryAgain \/ connectFails \/ getLatestAimResult
    BY <2>1 DEF tryAgain, connectFails, getLatestAimResult, server_vars, pi_frames
  <2>2. CASE connect \/ SendQueued \/ ReceiveChunk \/ ReceiveFails
    BY <2>2 DEF connect, SendQueued, ReceiveChunk, ReceiveFails, pi_frames
  <2>3. CASE Parse
    BY <2>3, ParseFacts DEF server_vars, pi_frames
  <2> QED
    BY <1>3, <2>1, <2>2, <2>3 DEF ClientActs
<1> QED
  BY <1>1, <1>2, <1>3, CommandSteps

LEMMA PublishingSends ==
    ASSUME LinkTypeInv, LinkTypeInv', StreamInv, publishAimResult, UNCHANGED client_vars
    PROVE  AimsSent
<1>1. /\ UNCHANGED <<conns, attached, recvBuffer, m_aims>> /\ out_queue_' = net_frame_id_
      /\ published' = Append(published, net_frame_id_)
  BY DEF publishAimResult, client_vars
<1>2. net_frame_id_ \in Nat /\ net_frame_id_ # 0 /\ published \in Seq(Nat)
  BY DEF StreamInv, LinkTypeInv, LinkTypeOK, ServerTypeOK
<1> DEFINE n == net_frame_id_
           h == Heads(Stream)
<1>3. Stream' = Stream
  BY <1>1, StreamUnchanged DEF StreamKept
<1>4. Pending' = <<n>>
  BY <1>1, <1>2 DEF Pending
<1>5. AimsOnTheWay = h \o Pending /\ AimsOnTheWay' = h \o <<n>>
  <2>1. AimsOnTheWay' = Heads(Stream') \o Pending'
    BY NextAimsParts
  <2> QED
    BY <1>3, <1>4, <2>1, AimsParts, Zenon
<1>6. h \in Seq(Nat) /\ Pending \in Seq(Nat) /\ <<n>> \in Seq(Nat) /\ h \o Pending \in Seq(Nat)
  <2>1. h \in Seq(Nat) /\ Pending \in Seq(Nat)
    BY StreamIsSeq, HeadsIsSeq
  <2> HIDE DEF h
  <2> QED
    BY <1>2, <2>1
<1> HIDE DEF h, n
<1>7. LeftOf(h \o <<n>>, (h \o Pending) \o <<n>>)
  <2>1. <<>> \in Seq(Nat) /\ h \o <<>> = h /\ LeftOf(<<>>, Pending) /\ LeftOf(h, h)
    BY <1>6, LeftOfEmpty, LeftOfSelf
  <2>2. LeftOf(h \o <<>>, h \o Pending)
    BY <1>6, <2>1, LeftOfConcat
  <2>3. LeftOf(h, h \o Pending) /\ LeftOf(<<n>>, <<n>>)
    BY <2>1, <2>2, LeftOfSelf
  <2> QED
    BY <1>6, <2>3, LeftOfConcat
<1>8. Sends(published, Append(published, n), h \o Pending, h \o <<n>>)
  BY <1>2, <1>6, <1>7, SendsOne DEF n
<1> QED
  BY <1>1, <1>5, <1>8, Zenon DEF AimsSent, n

LEMMA ParsingTakes ==
    ASSUME LinkTypeInv, LinkTypeInv', StreamInv, Parse, tryParseAimFrame
    PROVE  AimTaken
<1> DEFINE b == recvBuffer
           id == b[1].id
           a == SubSeq(b, 1, 3)
           r == SubSeq(b, 4, Len(b))
<1>1. /\ b \in Seq(AimPiece) /\ Down \in Seq(AimPiece) /\ Len(b) >= 3
      /\ UNCHANGED <<conns, attached, published, out_queue_>> /\ recvBuffer' = r
  BY StreamIsSeq DEF Parse, tryParseAimFrame, server_vars, pi_frames
<1>2. Down' = Down /\ Pending' = Pending
  BY <1>1 DEF Down, Mine, Pending
<1>3. b[1].part = 1
  BY DEF tryParseAimFrame, IsHeader
<1>4. b[1] \in AimPiece /\ id \in Nat
  <2>1. b[1] \in AimPiece
    BY <1>1
  <2> QED
    BY <2>1 DEF AimPiece
<1>5. b[1] = [id |-> id, part |-> 1] /\ b[2] = [id |-> id, part |-> 2]
      /\ b[3] = [id |-> id, part |-> 3]
  <2> DEFINE s == Stream
  <2>1. WellFormed(s) /\ 1 \in DOMAIN s /\ 1 + 1 \in DOMAIN s /\ 1 + 2 \in DOMAIN s
        /\ s[1] = b[1] /\ s[1 + 1] = b[2] /\ s[1 + 2] = b[3]
    BY <1>1 DEF StreamInv, Stream
  <2> HIDE DEF s, b
  <2>2. s[1 + 1] = [id |-> s[1].id, part |-> 1 + 1] /\ s[1 + 2] = [id |-> s[1].id, part |-> 2 + 1]
    BY <1>3, <2>1 DEF WellFormed
  <2>3. b[1] = [id |-> id, part |-> 1]
    BY <1>3, <1>4 DEF AimPiece
  <2> QED
    BY <2>1, <2>2, <2>3
<1>6. m_aims' = Append(m_aims, id)
  <2>1. \A i \in 2..3 : b[i] = [b[1] EXCEPT !.part = i]
    <3>1. \A i \in 2..3 : i = 2 \/ i = 3
      OBVIOUS
    <3> HIDE DEF id, b
    <3>2. \A i \in 2..3 : [b[1] EXCEPT !.part = i] = [id |-> id, part |-> i]
      BY <1>5
    <3> QED
      BY <1>5, <3>1, <3>2
  <2> QED
    BY <2>1 DEF tryParseAimFrame
<1>7. a \in Seq(AimPiece) /\ r \in Seq(AimPiece) /\ b = a \o r
  <2> HIDE DEF b
  <2>1. Splits(b, 3)
    BY <1>1, SeqSplits
  <2>2. a \in Seq(AimPiece) /\ r \in Seq(AimPiece) /\ 3 + 1 = 4
    BY <1>1
  <2> QED
    BY <2>1, <2>2, Zenon DEF Splits
<1>8. a = FramePieces(id)
  <2> DEFINE f == FramePieces(id)
  <2>1. Len(a) = 3 /\ a[1] = b[1] /\ a[2] = b[2] /\ a[3] = b[3]
    BY <1>1
  <2>2. f \in Seq(AimPiece) /\ Len(f) = 3 /\ f[1] = [id |-> id, part |-> 1]
        /\ f[2] = [id |-> id, part |-> 2] /\ f[3] = [id |-> id, part |-> 3]
    <3> HIDE DEF id
    <3> QED
      BY <1>4, FrameIsPieces DEF FramePieces
  <2> HIDE DEF a, b, f, id
  <2>3. \A i \in 1..3 : i = 1 \/ i = 2 \/ i = 3
    OBVIOUS
  <2>4. \A i \in 1..3 : a[i] = f[i]
    BY <1>5, <2>1, <2>2, <2>3
  <2>5. a = f
    BY <1>7, <2>1, <2>2, <2>4
  <2> QED
    BY <2>5 DEF f
<1> HIDE DEF a, r, b, id
<1>9. Heads(Stream) = <<id>> \o Heads(Stream') /\ Heads(Stream') \in Seq(Nat)
  <2>1. Regroups(a, r, Down)
    BY <1>1, <1>7, ConcatRegroups
  <2>2. Stream' = r \o Down
    BY <1>1, <1>2 DEF Stream
  <2>3. Stream = a \o (r \o Down)
    BY <1>7, <2>1, Zenon DEF Stream, Regroups, b
  <2>4. r \o Down \in Seq(AimPiece)
    BY <1>1, <1>7
  <2>5. Heads(a \o (r \o Down)) = Heads(a) \o Heads(r \o Down) /\ Heads(r \o Down) \in Seq(Nat)
    BY <1>7, <2>4, HeadsOfConcat, HeadsIsSeq
  <2>6. Heads(a) = <<id>>
    BY <1>4, <1>8, HeadsOfFrame
  <2> QED
    BY <2>2, <2>3, <2>5, <2>6, Zenon
<1> DEFINE q == Heads(Stream') \o Pending
<1>10. AimsOnTheWay' = q /\ AimsOnTheWay = <<id>> \o q
  <2>1. AimsOnTheWay' = Heads(Stream') \o Pending' /\ AimsOnTheWay = Heads(Stream) \o Pending
    BY AimsParts, NextAimsParts
  <2>2. <<id>> \in Seq(Nat) /\ Pending \in Seq(Nat)
    BY <1>4, StreamIsSeq
  <2>3. Regroups(<<id>>, Heads(Stream'), Pending)
    BY <1>9, <2>2, ConcatRegroups
  <2> QED
    BY <1>2, <1>9, <2>1, <2>3, Zenon DEF Regroups
<1>11. Delivers(<<id>> \o q, q, id)
  <2>1. Pending \in Seq(Nat)
    BY StreamIsSeq
  <2>2. q \in Seq(Nat)
    BY <1>9, <2>1
  <2> HIDE DEF q
  <2> QED
    BY <1>4, <2>2, HeadLeaves
<1> HIDE DEF q
<1>12. Delivers(AimsOnTheWay, AimsOnTheWay', id)
  BY <1>10, <1>11, Zenon
<1> QED
  BY <1>1, <1>6, <1>12 DEF AimTaken

LEMMA OthersLose ==
    ASSUME LinkTypeInv, LinkTypeInv', StreamMoves,
           UNCHANGED <<published, m_aims>>, out_queue_' \in {out_queue_, 0}
    PROVE  AimsLost
<1> DEFINE h == Heads(Stream)
           g == Heads(Stream')
<1>1. h \in Seq(Nat) /\ g \in Seq(Nat) /\ Pending \in Seq(Nat) /\ Pending' \in Seq(Nat)
  BY StreamIsSeq, NextStreamIsSeq, HeadsIsSeq
<1>2. AimsOnTheWay = h \o Pending /\ AimsOnTheWay' = g \o Pending'
  BY AimsParts, NextAimsParts
<1>3. CASE FrameIsPut
  <2>1. /\ out_queue_ # 0 /\ out_queue_' = 0 /\ Stream' = Stream \o FramePieces(out_queue_)
        /\ out_queue_ \in Nat
    BY <1>3 DEF FrameIsPut, LinkTypeInv, LinkTypeOK, ServerTypeOK
  <2>2. Pending = <<out_queue_>> /\ Pending' = <<>>
    BY <2>1 DEF Pending
  <2>3. g = h \o <<out_queue_>>
    <3>1. FramePieces(out_queue_) \in Seq(AimPiece) /\ Heads(FramePieces(out_queue_)) = <<out_queue_>>
      BY <2>1, FrameIsPieces, HeadsOfFrame
    <3>2. Heads(Stream \o FramePieces(out_queue_)) = Heads(Stream) \o Heads(FramePieces(out_queue_))
      BY <3>1, StreamIsSeq, HeadsOfConcat
    <3> QED
      BY <2>1, <3>1, <3>2, Zenon
  <2> HIDE DEF g, h
  <2>4. g \o <<>> = g
    BY <1>1
  <2>5. AimsOnTheWay' = AimsOnTheWay
    BY <1>2, <2>2, <2>3, <2>4, Zenon
  <2> QED
    BY <2>5, LeftOfSelf DEF AimsLost
<1>4. CASE ~FrameIsPut
  <2>1. LeftOf(g, h)
    BY <1>4, MovesLoseHeads
  <2>2. LeftOf(Pending', Pending)
    <3>1. Pending' = Pending \/ Pending' = <<>>
      BY DEF Pending
    <3> QED
      BY <1>1, <3>1, LeftOfEmpty, LeftOfSelf
  <2> HIDE DEF g, h
  <2>3. LeftOf(g \o Pending', h \o Pending)
    BY <1>1, <2>1, <2>2, LeftOfConcat
  <2> QED
    BY <1>2, <2>3 DEF AimsLost
<1> QED
  BY <1>3, <1>4

LEMMA AimsMapSteps ==
    ASSUME LinkTypeInv, StreamInv, [CommandNext]_command_vars
    PROVE  AimChannel!Send \/ AimChannel!Lose \/ AimChannel!Deliver
<1>1. LinkTypeInv' /\ ClientTypeOK /\ StreamMoves
  BY CommandTypesStep, StreamStepMoves DEF LinkTypeInv, LinkTypeOK
<1>2. AimsSent \/ AimsLost \/ AimTaken
  BY <1>1, AimSteps, PublishingSends, ParsingTakes, OthersLose
<1> QED
  BY <1>2 DEF AimsSent, AimsLost, AimTaken, LeftOf, Sends, Delivers, IsStrictPrefix, IsPrefix,
     AimChannel!Send, AimChannel!Lose, AimChannel!Deliver,
     AimChannel!LeftOf, AimChannel!IsStrictPrefix, AimChannel!IsPrefix

LEMMA StreamAlways == CommandSpec => [](LinkTypeInv /\ StreamInv)
<1>1. CommandInit => StreamInv
  <2> SUFFICES ASSUME CommandInit PROVE StreamInv
    OBVIOUS
  <2>1. recvBuffer = <<>> /\ Down = <<>> /\ ~IsUp /\ net_frame_id_ # 0
    BY DEF CommandInit, ClientInit, ServerInit, Down, IsUp
  <2>2. Stream = <<>>
    <3>1. <<>> \o <<>> = <<>>
      OBVIOUS
    <3> QED
      BY <2>1, <3>1, Zenon DEF Stream
  <2> QED
    BY <2>1, <2>2, EmptyIsComplete DEF StreamInv
<1>2. LinkTypeInv /\ StreamInv /\ [CommandNext]_command_vars => StreamInv'
  BY StreamStaysWhole
<1> QED
  BY <1>1, <1>2, CommandTypes, PTL DEF CommandSpec

LEMMA ChannelsInitially ==
    CommandInit => CommandChannel!ChannelInit /\ AimChannel!ChannelInit
<1> SUFFICES ASSUME CommandInit
             PROVE  CommandChannel!ChannelInit /\ AimChannel!ChannelInit
  OBVIOUS
<1> USE DEF CommandInit, ConsoleInit, ServerInit, ClientInit
<1>1. <<>> \o <<>> = <<>>
  OBVIOUS
<1>2. CommandsOnTheWay = <<>>
  <2>1. OnLine(1) = <<>> /\ OnLine(2) = <<>>
    BY DEF OnLine
  <2> QED
    BY <1>1, <2>1, WayParts, Zenon DEF FirstLines, SecondLines
<1>3. AimsOnTheWay = <<>>
  <2>1. Heads(recvBuffer) = <<>>
    BY HeadsOfEmpty
  <2>2. ~attached /\ out_queue_ = 0
    OBVIOUS
  <2> QED
    BY <1>1, <2>1, <2>2, Zenon DEF AimsOnTheWay
<1>4. issued = <<>> /\ handled = <<>> /\ published = <<>> /\ m_aims = <<>>
  OBVIOUS
<1> QED
  BY <1>2, <1>3, <1>4 DEF CommandChannel!ChannelInit, AimChannel!ChannelInit

(* Commands and aim results are lossy channels: what breaks with a            *)
(* connection, overflows a queue or dies with the Pi's program is lost, but   *)
(* nothing that arrives was not sent, comes twice, overtakes or is made of    *)
(* two frames, wherever the stream is cut and the parser cuts it again.       *)
THEOREM BothPathsAreLossyChannels == CommandSpec => BothWaysKeepOrder
<1> DEFINE CommandStep ==
               CommandChannel!Send \/ CommandChannel!Lose \/ CommandChannel!Deliver
           AimStep == AimChannel!Send \/ AimChannel!Lose \/ AimChannel!Deliver
<1>1. LinkTypeInv /\ StreamInv /\ [CommandNext]_command_vars => CommandStep
  BY CommandsPass, CommandsMapSteps
<1>2. LinkTypeInv /\ StreamInv /\ [CommandNext]_command_vars => AimStep
  BY AimsMapSteps
<1> QED
  BY <1>1, <1>2, StreamAlways, ChannelsInitially, PTL
     DEF CommandSpec, BothWaysKeepOrder, CommandChannel!ChannelSpec, AimChannel!ChannelSpec

-----------------------------------------------------------------------------
(* Commands arrive in the order of their numbers.                            *)

\* way holds commands of sent, in order, and none of those in done or before them.
InOrder(sent, way, done) ==
    /\ \A i \in DOMAIN sent : sent[i].n = i
    /\ \A i \in DOMAIN way : way[i].n \in DOMAIN sent /\ sent[way[i].n] = way[i]
    /\ \A i, j \in DOMAIN way : i < j => way[i].n < way[j].n
    /\ done \subseteq DOMAIN sent
    /\ \A m \in done : \A i \in DOMAIN way : m < way[i].n

LinkInOrder == InOrder(issued, CommandsOnTheWay, applied)

LEMMA SentInOrder ==
    ASSUME NEW sent \in Seq(Commands), NEW way \in Seq(Commands), NEW done,
           InOrder(sent, way, done), NEW new \in Seq(Commands),
           \A i \in DOMAIN new : new[i].n = Len(sent) + i
    PROVE  InOrder(sent \o new, way \o new, done)
<1> DEFINE s == sent \o new
           w == way \o new
           k == Len(sent)
           m == Len(way)
           l == Len(new)
<1>1. k \in Nat /\ m \in Nat /\ l \in Nat
      /\ DOMAIN sent = 1..k /\ DOMAIN way = 1..m /\ DOMAIN new = 1..l
  OBVIOUS
<1>2. DOMAIN s = 1..(k + l) /\ \A i \in 1..(k + l) : s[i] = IF i <= k THEN sent[i] ELSE new[i - k]
  OBVIOUS
<1>3. DOMAIN w = 1..(m + l) /\ \A i \in 1..(m + l) : w[i] = IF i <= m THEN way[i] ELSE new[i - m]
  OBVIOUS
<1>4. \A i \in 1..l : new[i].n = k + i
  BY <1>1
<1> HIDE DEF s, w, k, m, l
<1>5. /\ \A i \in 1..k : sent[i].n = i
      /\ \A i \in 1..m : way[i].n \in 1..k /\ sent[way[i].n] = way[i]
      /\ \A i, j \in 1..m : i < j => way[i].n < way[j].n
      /\ done \subseteq 1..k /\ \A d \in done : \A i \in 1..m : d < way[i].n
  BY <1>1 DEF InOrder
<1>6. ASSUME NEW i \in 1..(k + l)
      PROVE  s[i].n = i
  <2>1. CASE i <= k
    BY <1>1, <1>2, <1>5, <2>1
  <2>2. CASE ~(i <= k)
    <3>1. i - k \in 1..l /\ k + (i - k) = i
      BY <1>1, <2>2
    <3> QED
      BY <1>2, <1>4, <2>2, <3>1
  <2> QED
    BY <2>1, <2>2
<1>7. ASSUME NEW i \in 1..(m + l)
      PROVE  /\ w[i].n \in 1..(k + l) /\ s[w[i].n] = w[i]
             /\ i <= m => w[i] = way[i] /\ w[i].n \in 1..k
             /\ ~(i <= m) => w[i].n = k + (i - m)
  <2>1. CASE i <= m
    <3>1. w[i] = way[i] /\ way[i].n \in 1..k /\ sent[way[i].n] = way[i]
      BY <1>1, <1>3, <1>5, <2>1
    <3>2. way[i].n \in 1..(k + l) /\ way[i].n <= k
      BY <1>1, <3>1
    <3> QED
      BY <1>2, <2>1, <3>1, <3>2
  <2>2. CASE ~(i <= m)
    <3>1. i - m \in 1..l /\ w[i] = new[i - m]
      BY <1>1, <1>3, <2>2
    <3>2. w[i].n = k + (i - m)
      BY <1>4, <3>1
    <3>3. k + (i - m) \in 1..(k + l) /\ ~(k + (i - m) <= k) /\ (k + (i - m)) - k = i - m
      BY <1>1, <3>1
    <3>4. s[k + (i - m)] = new[i - m]
      <4> DEFINE p == k + (i - m)
      <4>1. p \in 1..(k + l) /\ ~(p <= k) /\ p - k = i - m
        BY <3>3
      <4> HIDE DEF p
      <4>2. s[p] = new[p - k]
        BY <1>2, <4>1
      <4> QED
        BY <4>1, <4>2 DEF p
    <3> QED
      BY <2>2, <3>1, <3>2, <3>3, <3>4
  <2> QED
    BY <2>1, <2>2
<1>8. ASSUME NEW i \in 1..(m + l), NEW j \in 1..(m + l), i < j
      PROVE  w[i].n < w[j].n
  <2>1. CASE j <= m
    BY <1>1, <1>5, <1>7, <1>8, <2>1
  <2>2. CASE ~(j <= m) /\ i <= m
    <3>1. w[i].n \in 1..k /\ w[j].n = k + (j - m)
      BY <1>7, <2>2
    <3> QED
      BY <1>1, <2>2, <3>1
  <2>3. CASE ~(j <= m) /\ ~(i <= m)
    <3>1. w[i].n = k + (i - m) /\ w[j].n = k + (j - m)
      BY <1>7, <2>3
    <3> QED
      BY <1>1, <1>8, <3>1
  <2> QED
    BY <2>1, <2>2, <2>3
<1>9. done \subseteq 1..(k + l)
  BY <1>1, <1>5
<1>10. ASSUME NEW d \in done, NEW i \in 1..(m + l)
       PROVE  d < w[i].n
  <2>1. d \in 1..k
    BY <1>5
  <2>2. CASE i <= m
    BY <1>1, <1>5, <1>7, <2>2
  <2>3. CASE ~(i <= m)
    <3>1. w[i].n = k + (i - m)
      BY <1>7, <2>3
    <3> QED
      BY <1>1, <2>1, <2>3, <3>1
  <2> QED
    BY <2>2, <2>3
<1>11. InOrder(s, w, done)
  BY <1>2, <1>3, <1>6, <1>7, <1>8, <1>9, <1>10 DEF InOrder
<1> QED
  BY <1>11 DEF s, w

LEMMA LostInOrder ==
    ASSUME NEW sent, NEW way \in Seq(Commands), NEW left \in Seq(Commands), NEW done,
           InOrder(sent, way, done), LeftOf(left, way), NEW d, d \subseteq done
    PROVE  InOrder(sent, left, d)
<1>1. PICK at : Places(at, left, way)
  BY LeftOfPlaces
<1>2. /\ \A i \in DOMAIN left : at[i] \in DOMAIN way /\ left[i] = way[at[i]]
      /\ \A i, j \in DOMAIN left : i < j => at[i] < at[j]
  BY <1>1 DEF Places
<1>3. \A i \in DOMAIN left : left[i].n \in DOMAIN sent /\ sent[left[i].n] = left[i]
  BY <1>2 DEF InOrder
<1>4. \A i, j \in DOMAIN left : i < j => left[i].n < left[j].n
  <2> SUFFICES ASSUME NEW i \in DOMAIN left, NEW j \in DOMAIN left, i < j
               PROVE  left[i].n < left[j].n
    OBVIOUS
  <2>1. at[i] < at[j] /\ at[i] \in DOMAIN way /\ at[j] \in DOMAIN way
    BY <1>2
  <2>2. way[at[i]].n < way[at[j]].n
    BY <2>1 DEF InOrder
  <2> QED
    BY <1>2, <2>2
<1>5. \A m \in d : \A i \in DOMAIN left : m < left[i].n
  BY <1>2, ZenonT(60) DEF InOrder
<1> QED
  BY <1>3, <1>4, <1>5 DEF InOrder

LEMMA ObeyedInOrder ==
    ASSUME NEW sent, NEW way \in Seq(Commands), NEW done, InOrder(sent, way, done), way # <<>>,
           DOMAIN sent \subseteq Nat
    PROVE  InOrder(sent, Tail(way), done \cup {Head(way).n})
<1> DEFINE t == Tail(way)
           h == Head(way)
<1>1. /\ h = way[1] /\ 1 \in DOMAIN way
      /\ \A i \in DOMAIN t : i \in Nat /\ i + 1 \in DOMAIN way /\ t[i] = way[i + 1] /\ 1 < i + 1
  OBVIOUS
<1> HIDE DEF t, h
<1>2. \A i \in DOMAIN t : h.n < t[i].n
  BY <1>1 DEF InOrder
<1>3. \A i, j \in DOMAIN t : i < j => t[i].n < t[j].n
  <2> SUFFICES ASSUME NEW i \in DOMAIN t, NEW j \in DOMAIN t, i < j
               PROVE  t[i].n < t[j].n
    OBVIOUS
  <2>1. i + 1 < j + 1
    BY <1>1
  <2> QED
    BY <1>1, <2>1 DEF InOrder
<1>4. InOrder(sent, t, done \cup {h.n})
  BY <1>1, <1>2, <1>3 DEF InOrder
<1> QED
  BY <1>4 DEF t, h

LEMMA CommandsStayInOrder ==
    ASSUME LinkTypeInv, LinkInOrder, [CommandNext]_command_vars
    PROVE  LinkInOrder'
<1>1. /\ CommandsOnTheWay \in Seq(Commands) /\ issued \in Seq(Commands)
  BY WayIsSeq DEF LinkTypeInv, LinkTypeOK, ConsoleTypeOK
<1>2. CommandsOnTheWay' \in Seq(Commands)
  BY CommandTypesStep, NextWayIsSeq
<1>3. InOrder(issued, CommandsOnTheWay, applied)
  BY DEF LinkInOrder
<1>4. InOrder(issued', CommandsOnTheWay', applied')
  <2>1. CASE Issues
    <3>1. PICK cmds \in Requests :
            /\ issued' = issued \o Issue(cmds) /\ applied' = applied
            /\ CommandsOnTheWay' = CommandsOnTheWay \o Issue(cmds)
      BY <2>1 DEF Issues, IssuesAll
    <3>2. Issue(cmds) \in Seq(Commands)
      BY <1>1, IssueIsSeq, RequestsAreNames
    <3>3. \A i \in DOMAIN Issue(cmds) : Issue(cmds)[i].n = Len(issued) + i
      BY DEF Issue
    <3> DEFINE new == Issue(cmds)
    <3> HIDE DEF new
    <3>4. InOrder(issued \o new, CommandsOnTheWay \o new, applied)
      BY <1>1, <1>3, <3>2, <3>3, SentInOrder DEF new
    <3> QED
      BY <3>1, <3>4, Zenon DEF new
  <2>2. CASE Loses
    <3>1. /\ LeftOf(CommandsOnTheWay', CommandsOnTheWay) /\ issued' = issued
          /\ applied' \subseteq applied
      BY <2>2 DEF Loses
    <3>2. InOrder(issued, CommandsOnTheWay', applied')
      BY <1>1, <1>2, <1>3, <3>1, LostInOrder
    <3> QED
      BY <3>1, <3>2
  <2>3. CASE Obeys
    <3>1. /\ CommandsOnTheWay # <<>> /\ CommandsOnTheWay' = Tail(CommandsOnTheWay)
          /\ applied' = applied \cup {Head(CommandsOnTheWay).n} /\ issued' = issued
      BY <2>3 DEF Obeys
    <3>2. InOrder(issued, Tail(CommandsOnTheWay), applied \cup {Head(CommandsOnTheWay).n})
      BY <1>1, <1>3, <3>1, ObeyedInOrder
    <3> QED
      BY <3>1, <3>2, Zenon
  <2> QED
    BY <2>1, <2>2, <2>3, CommandsPass
<1> QED
  BY <1>4 DEF LinkInOrder

-----------------------------------------------------------------------------
(* The last word counts.                                                     *)

\* The number of the last command of a kind in s.
LastOf(s, kind) ==
    LET of == {i \in DOMAIN s : s[i].cmd \in kind}
    IN  IF of = {} THEN 0 ELSE CHOOSE i \in of : \A j \in of : j <= i

IsLast(s, kind, m) ==
    /\ m \in Nat /\ (m # 0 => m \in DOMAIN s /\ s[m].cmd \in kind)
    /\ \A i \in DOMAIN s : s[i].cmd \in kind => i <= m

LEMMA LastIsUnique ==
    ASSUME NEW s \in Seq(Commands), NEW kind, NEW m, IsLast(s, kind, m)
    PROVE  LastOf(s, kind) = m
<1> DEFINE of == {i \in DOMAIN s : s[i].cmd \in kind}
<1>1. DOMAIN s \subseteq Nat /\ \A i \in DOMAIN s : i # 0
  OBVIOUS
<1>2. LastOf(s, kind) = IF of = {} THEN 0 ELSE CHOOSE i \in of : \A j \in of : j <= i
  BY DEF LastOf
<1>3. CASE m = 0
  <2>1. of = {}
    <3>1. \A i \in of : i <= 0 /\ i \in Nat /\ i # 0
      BY <1>1, <1>3 DEF IsLast
    <3> QED
      BY <3>1
  <2> QED
    BY <1>2, <1>3, <2>1
<1>4. CASE m # 0
  <2>1. m \in of /\ \A j \in of : j <= m
    BY <1>4 DEF IsLast
  <2>2. \A i, j \in of : i <= j /\ j <= i => i = j
    BY <1>1
  <2> HIDE DEF of
  <2>3. PICK n \in of : (\A j \in of : j <= n) /\ LastOf(s, kind) = n
    BY <1>2, <2>1
  <2>4. n <= m /\ m <= n
    BY <2>1, <2>3
  <2> QED
    BY <2>1, <2>2, <2>3, <2>4
<1> QED
  BY <1>3, <1>4

\* One more command.
LEMMA LastOfMore ==
    ASSUME NEW s \in Seq(Commands), NEW kind, IsLast(s, kind, LastOf(s, kind)),
           NEW c \in Commands
    PROVE  /\ IsLast(Append(s, c), kind, LastOf(Append(s, c), kind))
           /\ LastOf(Append(s, c), kind) = IF c.cmd \in kind THEN Len(s) + 1 ELSE LastOf(s, kind)
<1> DEFINE t == Append(s, c)
           k == Len(s)
           m == LastOf(s, kind)
           n == IF c.cmd \in kind THEN k + 1 ELSE m
<1>1. /\ k \in Nat /\ DOMAIN s = 1..k /\ t \in Seq(Commands)
      /\ DOMAIN t = 1..(k + 1) /\ t[k + 1] = c /\ \A i \in 1..k : t[i] = s[i]
  OBVIOUS
<1> HIDE DEF t, k, m
<1>2. IsLast(s, kind, m)
  BY DEF m
<1>3. IsLast(t, kind, n)
  <2>1. CASE c.cmd \in kind
    BY <1>1, <2>1 DEF IsLast
  <2>2. CASE c.cmd \notin kind
    <3>1. \A i \in 1..(k + 1) : i \in 1..k \/ i = k + 1
      BY <1>1
    <3>2. m \in Nat /\ (m # 0 => m \in 1..k /\ m \in 1..(k + 1) /\ s[m].cmd \in kind)
      BY <1>1, <1>2 DEF IsLast
    <3>3. \A i \in 1..k : s[i].cmd \in kind => i <= m
      BY <1>1, <1>2 DEF IsLast
    <3> QED
      BY <1>1, <2>2, <3>1, <3>2, <3>3 DEF IsLast
  <2> QED
    BY <2>1, <2>2
<1>4. LastOf(t, kind) = n
  BY <1>1, <1>3, LastIsUnique
<1> QED
  BY <1>3, <1>4 DEF t, k, m

\* What the operator's switches say of the commands s; of those the Pi has obeyed, done,
\* detect and auto are the Pi's word.
Says(s, connected, full) ==
    /\ IsLast(s, DetectCommands, LastOf(s, DetectCommands))
    /\ IsLast(s, ModeCommands, LastOf(s, ModeCommands))
    /\ connected <=> LastOf(s, DetectCommands) # 0
                     /\ s[LastOf(s, DetectCommands)].cmd = "DETECT:START"
    /\ full <=> LastOf(s, ModeCommands) # 0 /\ s[LastOf(s, ModeCommands)].cmd = "MODE:FULL_AUTO"
    /\ \A i \in DOMAIN s :
          LastOf(s, DetectCommands) < i /\ s[i].cmd = "MODE:FULL_AUTO" => connected

Follows(s, connected, full, done, detect, auto) ==
    /\ done \subseteq DOMAIN s
    /\ LastOf(s, DetectCommands) \in done => (detect <=> connected)
    /\ LastOf(s, ModeCommands) \in done => (auto <=> full)

\* The switches after a command.
Turns(c, connected, full, connected_, full_) ==
    CASE c.cmd = "DETECT:START"   -> connected_ /\ (full_ <=> full)
      [] c.cmd = "DETECT:STOP"    -> ~connected_ /\ (full_ <=> full)
      [] c.cmd = "MODE:FULL_AUTO" -> connected /\ connected_ /\ full_
      [] c.cmd = "MODE:MANUAL"    -> (connected_ <=> connected) /\ ~full_
      [] OTHER                    -> (connected_ <=> connected) /\ (full_ <=> full)

LEMMA MoreIsSaid ==
    ASSUME NEW s \in Seq(Commands), NEW connected, NEW full, NEW connected_, NEW full_,
           NEW done, NEW detect, NEW auto, NEW c \in Commands,
           Says(s, connected, full), Follows(s, connected, full, done, detect, auto),
           Turns(c, connected, full, connected_, full_)
    PROVE  /\ Says(Append(s, c), connected_, full_)
           /\ Follows(Append(s, c), connected_, full_, done, detect, auto)
<1> DEFINE t == Append(s, c)
           k == Len(s)
           d == LastOf(s, DetectCommands)
           m == LastOf(s, ModeCommands)
           e == LastOf(t, DetectCommands)
           n == LastOf(t, ModeCommands)
<1>1. /\ k \in Nat /\ DOMAIN s = 1..k /\ DOMAIN t = 1..(k + 1)
      /\ t[k + 1] = c /\ \A i \in 1..k : t[i] = s[i]
  OBVIOUS
<1>2. /\ IsLast(t, DetectCommands, e) /\ e = IF c.cmd \in DetectCommands THEN k + 1 ELSE d
      /\ IsLast(t, ModeCommands, n) /\ n = IF c.cmd \in ModeCommands THEN k + 1 ELSE m
  BY LastOfMore DEF Says
<1>3. /\ d \in 0..k /\ m \in 0..k
      /\ d # 0 => d \in 1..k /\ t[d] = s[d]
      /\ m # 0 => m \in 1..k /\ t[m] = s[m]
  BY <1>1 DEF Says, IsLast
<1>4. /\ connected <=> d # 0 /\ s[d].cmd = "DETECT:START"
      /\ full <=> m # 0 /\ s[m].cmd = "MODE:FULL_AUTO"
      /\ \A i \in 1..k : d < i /\ s[i].cmd = "MODE:FULL_AUTO" => connected
      /\ done \subseteq 1..k
      /\ d \in done => (detect <=> connected)
      /\ m \in done => (auto <=> full)
  BY <1>1 DEF Says, Follows
<1> HIDE DEF t, k, d, m, e, n
<1>5. k + 1 # 0 /\ k + 1 \notin done
  BY <1>1, <1>4
<1>6. connected_ <=> e # 0 /\ t[e].cmd = "DETECT:START"
  <2>1. CASE c.cmd \in DetectCommands
    BY <1>1, <1>2, <1>5, <2>1 DEF Turns, DetectCommands
  <2>2. CASE c.cmd \notin DetectCommands
    <3>1. connected_ <=> connected
      BY <2>2 DEF Turns, DetectCommands
    <3> QED
      BY <1>2, <1>3, <1>4, <2>2, <3>1
  <2> QED
    BY <2>1, <2>2
<1>7. full_ <=> n # 0 /\ t[n].cmd = "MODE:FULL_AUTO"
  <2>1. CASE c.cmd \in ModeCommands
    BY <1>1, <1>2, <1>5, <2>1 DEF Turns, ModeCommands
  <2>2. CASE c.cmd \notin ModeCommands
    <3>1. full_ <=> full
      BY <2>2 DEF Turns, ModeCommands
    <3> QED
      BY <1>2, <1>3, <1>4, <2>2, <3>1
  <2> QED
    BY <2>1, <2>2
<1>8. ASSUME NEW i \in 1..(k + 1), e < i, t[i].cmd = "MODE:FULL_AUTO"
      PROVE  connected_
  <2>1. CASE i = k + 1
    BY <1>1, <1>8, <2>1 DEF Turns
  <2>2. CASE i # k + 1
    <3>1. i \in 1..k /\ t[i] = s[i]
      BY <1>1, <2>2
    <3>2. c.cmd \notin DetectCommands
      BY <1>1, <1>2, <1>8, <3>1
    <3>3. connected
      BY <1>2, <1>4, <1>8, <3>1, <3>2
    <3> QED
      BY <3>2, <3>3 DEF Turns, DetectCommands
  <2> QED
    BY <2>1, <2>2
<1>9. Says(t, connected_, full_)
  BY <1>1, <1>2, <1>6, <1>7, <1>8 DEF Says, e, n
<1>10. done \subseteq 1..(k + 1)
  BY <1>1, <1>4
<1>11. e \in done => (detect <=> connected_)
  <2>1. CASE c.cmd \in DetectCommands
    BY <1>2, <1>5, <2>1
  <2>2. CASE c.cmd \notin DetectCommands
    BY <1>2, <1>4, <2>2 DEF Turns, DetectCommands
  <2> QED
    BY <2>1, <2>2
<1>12. n \in done => (auto <=> full_)
  <2>1. CASE c.cmd \in ModeCommands
    BY <1>2, <1>5, <2>1
  <2>2. CASE c.cmd \notin ModeCommands
    BY <1>2, <1>4, <2>2 DEF Turns, ModeCommands
  <2> QED
    BY <2>1, <2>2
<1> QED
  BY <1>1, <1>9, <1>10, <1>11, <1>12 DEF Follows, t, e, n

Numbered(x, n) == [cmd |-> x, n |-> n]

LEMMA OneIsIssued ==
    ASSUME issued \in Seq(Commands), NEW x \in CommandTexts, IssuesAll(<<x>>)
    PROVE  /\ Numbered(x, Len(issued) + 1) \in Commands
           /\ issued' = Append(issued, Numbered(x, Len(issued) + 1))
<1> DEFINE c == Numbered(x, Len(issued) + 1)
           new == Issue(<<x>>)
<1>1. c \in Commands
  BY DEF Numbered, Commands
<1>2. new \in Seq(Commands) /\ Len(new) = 1
  <2>1. <<x>> \in Seq(CommandTexts) /\ Len(<<x>>) = 1
    OBVIOUS
  <2>2. \A q \in Seq(CommandTexts) : Issue(q) \in Seq(Commands) /\ Len(Issue(q)) = Len(q)
    BY IssueIsSeq
  <2> QED
    BY <2>1, <2>2, Zenon
<1>3. new[1] = c
  BY DEF Issue, Numbered
<1>4. issued' = issued \o new
  BY DEF IssuesAll
<1> HIDE DEF c, new
<1>5. issued \o new = Append(issued, c)
  <2>1. new = <<c>>
    BY <1>1, <1>2, <1>3
  <2>2. \A s \in Seq(Commands), e \in Commands : s \o <<e>> = Append(s, e)
    OBVIOUS
  <2> QED
    BY <1>1, <2>1, <2>2, Zenon
<1> QED
  BY <1>1, <1>4, <1>5 DEF c

LEMMA TwoAreIssued ==
    ASSUME issued \in Seq(Commands), NEW x \in CommandTexts, NEW y \in CommandTexts,
           IssuesAll(<<x, y>>)
    PROVE  /\ Numbered(x, Len(issued) + 1) \in Commands
           /\ Numbered(y, Len(issued) + 2) \in Commands
           /\ issued' = Append(Append(issued, Numbered(x, Len(issued) + 1)),
                               Numbered(y, Len(issued) + 2))
<1> DEFINE c == Numbered(x, Len(issued) + 1)
           d == Numbered(y, Len(issued) + 2)
           new == Issue(<<x, y>>)
<1>1. c \in Commands /\ d \in Commands
  BY DEF Numbered, Commands
<1>2. new \in Seq(Commands) /\ Len(new) = 2
  <2>1. <<x, y>> \in Seq(CommandTexts) /\ Len(<<x, y>>) = 2
    OBVIOUS
  <2>2. \A q \in Seq(CommandTexts) : Issue(q) \in Seq(Commands) /\ Len(Issue(q)) = Len(q)
    BY IssueIsSeq
  <2> QED
    BY <2>1, <2>2, Zenon
<1>3. new[1] = c /\ new[2] = d
  BY DEF Issue, Numbered
<1>4. issued' = issued \o new
  BY DEF IssuesAll
<1> HIDE DEF c, d, new
<1>5. issued \o new = Append(Append(issued, c), d)
  <2> DEFINE k == Len(issued)
             u == issued \o new
             w == Append(Append(issued, c), d)
  <2>1. u \in Seq(Commands) /\ Len(u) = k + 2 /\ (\A i \in 1..k : u[i] = issued[i])
        /\ u[k + 1] = c /\ u[k + 2] = d
    <3>1. \A p, q \in Seq(Commands) :
             /\ p \o q \in Seq(Commands) /\ Len(p \o q) = Len(p) + Len(q)
             /\ \A i \in 1..Len(p) : (p \o q)[i] = p[i]
             /\ \A j \in 1..Len(q) : (p \o q)[Len(p) + j] = q[j]
      OBVIOUS
    <3>2. /\ u \in Seq(Commands) /\ Len(u) = k + Len(new)
          /\ \A i \in 1..k : u[i] = issued[i]
          /\ \A j \in 1..Len(new) : u[k + j] = new[j]
      BY <1>2, <3>1, Zenon
    <3>3. 1 \in 1..2 /\ 2 \in 1..2
      OBVIOUS
    <3> HIDE DEF u, k
    <3> QED
      BY <1>2, <1>3, <3>2, <3>3
  <2>2. w \in Seq(Commands) /\ Len(w) = k + 2 /\ (\A i \in 1..k : w[i] = issued[i])
        /\ w[k + 1] = c /\ w[k + 2] = d
    BY <1>1
  <2>3. k \in Nat
    OBVIOUS
  <2> HIDE DEF u, w, k
  <2>4. \A i \in 1..(k + 2) : i \in 1..k \/ i = k + 1 \/ i = k + 2
    BY <2>3
  <2>5. \A i \in 1..(k + 2) : u[i] = w[i]
    BY <2>1, <2>2, <2>4
  <2>6. u = w
    BY <2>1, <2>2, <2>5
  <2> QED
    BY <2>6 DEF u, w
<1> QED
  BY <1>1, <1>4, <1>5 DEF c, d

\* A click turns the switches as the commands it sends say.
LEMMA ClicksTurn ==
    ASSUME LinkTypeInv, ConsoleStep
    PROVE  \/ /\ UNCHANGED <<issued, m_connected, m_fullAuto>>
           \/ \E x \in CommandTexts :
                 /\ IssuesAll(<<x>>)
                 /\ Turns(Numbered(x, Len(issued) + 1),
                          m_connected, m_fullAuto, m_connected', m_fullAuto')
           \/ /\ IssuesAll(<<"DETECT:START", "MODE:FULL_AUTO">>)
              /\ m_connected' = TRUE /\ m_fullAuto' = TRUE
<1>0. m_connected \in BOOLEAN /\ m_fullAuto \in BOOLEAN
  BY DEF LinkTypeInv, LinkTypeOK, ConsoleTypeOK
<1> USE DEF Turns, Numbered, IssuesAll, Issue
<1>1. CASE toggleAutonomousDetection
  <2>1. CASE m_connected
    <3>1. IssuesAll(<<"DETECT:STOP">>) /\ ~m_connected' /\ m_fullAuto' = m_fullAuto
      BY <1>1, <2>1 DEF toggleAutonomousDetection, sendCommand
    <3>2. "DETECT:STOP" \in CommandTexts
      BY DEF CommandTexts
    <3>3. Turns(Numbered("DETECT:STOP", Len(issued) + 1),
                m_connected, m_fullAuto, m_connected', m_fullAuto')
      BY <3>1
    <3> QED
      BY <3>1, <3>2, <3>3
  <2>2. CASE ~m_connected
    <3>1. IssuesAll(<<"DETECT:START">>) /\ m_connected' /\ m_fullAuto' = m_fullAuto
      BY <1>1, <2>2 DEF toggleAutonomousDetection, sendCommand
    <3>2. "DETECT:START" \in CommandTexts
      BY DEF CommandTexts
    <3>3. Turns(Numbered("DETECT:START", Len(issued) + 1),
                m_connected, m_fullAuto, m_connected', m_fullAuto')
      BY <3>1
    <3> QED
      BY <3>1, <3>2, <3>3
  <2> QED
    BY <2>1, <2>2
<1>2. CASE toggleFullAutonomous
  <2>1. CASE m_fullAuto
    <3>1. IssuesAll(<<"MODE:MANUAL">>) /\ m_connected' = m_connected /\ ~m_fullAuto'
      BY <1>2, <2>1 DEF toggleFullAutonomous, sendCommand
    <3>2. "MODE:MANUAL" \in CommandTexts
      BY DEF CommandTexts
    <3>3. Turns(Numbered("MODE:MANUAL", Len(issued) + 1),
                m_connected, m_fullAuto, m_connected', m_fullAuto')
      BY <3>1
    <3> QED
      BY <3>1, <3>2, <3>3
  <2>2. CASE ~m_fullAuto /\ m_connected
    <3>1. IssuesAll(<<"MODE:FULL_AUTO">>) /\ m_connected' = m_connected /\ m_fullAuto'
      BY <1>2, <2>2 DEF toggleFullAutonomous, sendCommand
    <3>2. "MODE:FULL_AUTO" \in CommandTexts
      BY DEF CommandTexts
    <3>3. Turns(Numbered("MODE:FULL_AUTO", Len(issued) + 1),
                m_connected, m_fullAuto, m_connected', m_fullAuto')
      BY <2>2, <3>1
    <3> QED
      BY <3>1, <3>2, <3>3
  <2>3. CASE ~m_fullAuto /\ ~m_connected
    <3>1. IssuesAll(<<"DETECT:START", "MODE:FULL_AUTO">>) /\ m_connected' = TRUE
      BY <1>2, <2>3 DEF toggleFullAutonomous, sendCommand
    <3>2. m_fullAuto' = TRUE
      BY <1>0, <1>2, <2>3 DEF toggleFullAutonomous
    <3> QED
      BY <3>1, <3>2
  <2> QED
    BY <2>1, <2>2, <2>3
<1>3. CASE fp16Checkbox(m_state) \/ renderStatusBar(m_state)
  <2>1. /\ m_connected' = m_connected /\ m_fullAuto' = m_fullAuto
        /\ \/ UNCHANGED issued \/ \E b : sendCommand(<<Fp16(b)>>)
    BY <1>3 DEF fp16Checkbox, renderStatusBar, switches
  <2>2. CASE UNCHANGED issued
    BY <2>1, <2>2
  <2>3. CASE \E b : sendCommand(<<Fp16(b)>>)
    <3>1. PICK b : sendCommand(<<Fp16(b)>>)
      BY <2>3
    <3> DEFINE x == Fp16(b)
    <3>2. x \in {"FP16:ON", "FP16:OFF"}
      BY DEF Fp16
    <3>3. IssuesAll(<<x>>)
      BY <3>1 DEF sendCommand
    <3> HIDE DEF x
    <3>4. x \in CommandTexts
      BY <3>2 DEF CommandTexts
    <3>5. Turns(Numbered(x, Len(issued) + 1),
                m_connected, m_fullAuto, m_connected', m_fullAuto')
      BY <2>1, <3>2
    <3> QED
      BY <3>3, <3>4, <3>5
  <2> QED
    BY <2>1, <2>2, <2>3
<1> QED
  BY <1>1, <1>2, <1>3 DEF ConsoleStep

\* What the switches say, and what the Pi does of it.
LinkSays ==
    /\ Says(issued, m_connected, m_fullAuto)
    /\ Follows(issued, m_connected, m_fullAuto, applied, detection_enabled_, autonomous)

LEMMA ClicksAreSaid ==
    ASSUME LinkTypeInv, LinkSays, ConsoleActs
    PROVE  LinkSays'
<1>1. ConsoleStep /\ UNCHANGED <<applied, detection_enabled_, autonomous>>
  BY DEF ConsoleActs, server_vars, pi_modes
<1>2. issued \in Seq(Commands)
  BY DEF LinkTypeInv, LinkTypeOK, ConsoleTypeOK
<1>3. /\ Says(issued, m_connected, m_fullAuto)
      /\ Follows(issued, m_connected, m_fullAuto, applied, detection_enabled_, autonomous)
  BY DEF LinkSays
<1>4. /\ Says(issued', m_connected', m_fullAuto')
      /\ Follows(issued', m_connected', m_fullAuto', applied, detection_enabled_, autonomous)
  <2>1. CASE UNCHANGED <<issued, m_connected, m_fullAuto>>
    BY <1>3, <2>1
  <2>2. ASSUME NEW x \in CommandTexts, IssuesAll(<<x>>),
               Turns(Numbered(x, Len(issued) + 1),
                     m_connected, m_fullAuto, m_connected', m_fullAuto')
        PROVE  /\ Says(issued', m_connected', m_fullAuto')
               /\ Follows(issued', m_connected', m_fullAuto', applied, detection_enabled_,
                          autonomous)
    <3> DEFINE c == Numbered(x, Len(issued) + 1)
    <3>1. c \in Commands /\ issued' = Append(issued, c)
      BY <1>2, <2>2, OneIsIssued
    <3>2. Turns(c, m_connected, m_fullAuto, m_connected', m_fullAuto')
      BY <2>2
    <3> HIDE DEF c
    <3>3. /\ Says(Append(issued, c), m_connected', m_fullAuto')
          /\ Follows(Append(issued, c), m_connected', m_fullAuto', applied, detection_enabled_,
                     autonomous)
      BY <1>2, <1>3, <3>1, <3>2, MoreIsSaid
    <3> QED
      BY <3>1, <3>3, Zenon
  <2>3. ASSUME IssuesAll(<<"DETECT:START", "MODE:FULL_AUTO">>),
               m_connected' = TRUE, m_fullAuto' = TRUE
        PROVE  /\ Says(issued', m_connected', m_fullAuto')
               /\ Follows(issued', m_connected', m_fullAuto', applied, detection_enabled_,
                          autonomous)
    <3> DEFINE c == Numbered("DETECT:START", Len(issued) + 1)
               d == Numbered("MODE:FULL_AUTO", Len(issued) + 2)
               s == Append(issued, c)
    <3>1. c \in Commands /\ d \in Commands /\ issued' = Append(s, d)
      <4>1. "DETECT:START" \in CommandTexts /\ "MODE:FULL_AUTO" \in CommandTexts
        BY DEF CommandTexts
      <4> QED
        BY <1>2, <2>3, <4>1, TwoAreIssued
    <3>2. Turns(c, m_connected, m_fullAuto, TRUE, m_fullAuto) /\ Turns(d, TRUE, m_fullAuto, TRUE, TRUE)
      BY DEF Turns, Numbered
    <3> HIDE DEF c, d
    <3>3. s \in Seq(Commands)
      BY <1>2, <3>1
    <3>4. /\ Says(s, TRUE, m_fullAuto)
          /\ Follows(s, TRUE, m_fullAuto, applied, detection_enabled_, autonomous)
      BY <1>2, <1>3, <3>1, <3>2, MoreIsSaid
    <3> HIDE DEF s
    <3>5. /\ Says(Append(s, d), TRUE, TRUE)
          /\ Follows(Append(s, d), TRUE, TRUE, applied, detection_enabled_, autonomous)
      BY <3>1, <3>2, <3>3, <3>4, MoreIsSaid
    <3> QED
      BY <2>3, <3>1, <3>5, Zenon
  <2> QED
    BY <1>1, <2>1, <2>2, <2>3, ClicksTurn
<1> QED
  BY <1>1, <1>4 DEF LinkSays

\* What obeying a command makes of the Pi's modes.
Does(c, detect, auto, detect_, auto_) ==
    \/ c.cmd = "DETECT:START" /\ detect_ /\ (auto_ <=> auto)
    \/ c.cmd = "DETECT:STOP" /\ ~detect_ /\ (auto_ <=> auto)
    \/ c.cmd = "MODE:FULL_AUTO" /\ detect_ /\ auto_
    \/ c.cmd = "MODE:MANUAL" /\ (detect_ <=> detect) /\ ~auto_
    \/ c.cmd \notin DetectCommands \cup ModeCommands /\ (detect_ <=> detect) /\ (auto_ <=> auto)

LEMMA OneMoreIsDone ==
    ASSUME NEW s \in Seq(Commands), NEW connected, NEW full, NEW done, NEW detect, NEW auto,
           NEW detect_, NEW auto_, NEW c, c.n \in DOMAIN s, s[c.n] = c,
           \A k \in done : k < c.n,
           Says(s, connected, full), Follows(s, connected, full, done, detect, auto),
           Does(c, detect, auto, detect_, auto_)
    PROVE  Follows(s, connected, full, done \cup {c.n}, detect_, auto_)
<1> DEFINE n == c.n
           d == LastOf(s, DetectCommands)
           m == LastOf(s, ModeCommands)
<1>1. n \in DOMAIN s /\ n \in Nat /\ n # 0 /\ s[n] = c
  OBVIOUS
<1>2. \A k \in done : k \in Nat /\ k < n
  BY DEF Follows
<1>3. /\ d \in Nat /\ (d # 0 => s[d].cmd \in DetectCommands)
      /\ c.cmd \in DetectCommands => n <= d
  BY <1>1 DEF Says, IsLast
<1>4. /\ m \in Nat /\ (m # 0 => s[m].cmd \in ModeCommands)
      /\ c.cmd \in ModeCommands => n <= m
  BY <1>1 DEF Says, IsLast
<1>5. /\ connected <=> d # 0 /\ s[d].cmd = "DETECT:START"
      /\ full <=> m # 0 /\ s[m].cmd = "MODE:FULL_AUTO"
      /\ d < n /\ c.cmd = "MODE:FULL_AUTO" => connected
      /\ done \subseteq DOMAIN s
      /\ d \in done => (detect <=> connected)
      /\ m \in done => (auto <=> full)
  BY <1>1 DEF Says, Follows
<1> HIDE DEF n, d, m
<1>6. c.cmd \in DetectCommands => d \notin done /\ d # 0
  BY <1>1, <1>2, <1>3
<1>7. c.cmd \in ModeCommands => m \notin done /\ m # 0
  BY <1>1, <1>2, <1>4
<1>8. c.cmd \notin DetectCommands => d # n
  BY <1>1, <1>3
<1>9. c.cmd \notin ModeCommands => m # n
  BY <1>1, <1>4
<1>10. ASSUME d \in done \cup {n}
       PROVE  detect_ <=> connected
  <2>1. CASE c.cmd \in DetectCommands
    <3>1. d = n /\ (connected <=> c.cmd = "DETECT:START")
      BY <1>1, <1>5, <1>6, <1>10, <2>1
    <3> QED
      BY <2>1, <3>1 DEF Does, DetectCommands, ModeCommands
  <2>2. CASE c.cmd \notin DetectCommands
    <3>1. d \in done /\ d < n /\ (detect <=> connected)
      BY <1>2, <1>5, <1>8, <1>10, <2>2
    <3> QED
      BY <1>5, <2>2, <3>1 DEF Does, DetectCommands, ModeCommands
  <2> QED
    BY <2>1, <2>2
<1>11. ASSUME m \in done \cup {n}
       PROVE  auto_ <=> full
  <2>1. CASE c.cmd \in ModeCommands
    <3>1. m = n /\ (full <=> c.cmd = "MODE:FULL_AUTO")
      BY <1>1, <1>5, <1>7, <1>11, <2>1
    <3> QED
      BY <2>1, <3>1 DEF Does, DetectCommands, ModeCommands
  <2>2. CASE c.cmd \notin ModeCommands
    <3>1. m \in done /\ (auto <=> full)
      BY <1>5, <1>9, <1>11, <2>2
    <3> QED
      BY <2>2, <3>1 DEF Does, DetectCommands, ModeCommands
  <2> QED
    BY <2>1, <2>2
<1>12. done \cup {n} \subseteq DOMAIN s
  BY <1>1, <1>5
<1> QED
  BY <1>10, <1>11, <1>12 DEF Follows, n, d, m

LEMMA ObeyingIsSaid ==
    ASSUME LinkTypeInv, LinkTypeInv', LinkInOrder, LinkSays, handleNetworkCommand,
           UNCHANGED <<console_vars, client_vars>>
    PROVE  LinkSays'
<1> DEFINE c == Head(cmd_queue_)
<1>1. /\ UNCHANGED <<m_sendQueue, issued, m_connected, m_fullAuto>>
      /\ applied' = applied \cup {c.n}
      /\ DETECT(c.cmd) \/ MODE(c.cmd) \/ FP16(c.cmd)
  BY DEF handleNetworkCommand, console_vars, switches
<1>2. CommandsOnTheWay # <<>> /\ c = Head(CommandsOnTheWay)
  BY <1>1, HandlingObeys DEF Obeys
<1>3. /\ CommandsOnTheWay \in Seq(Commands) /\ issued \in Seq(Commands)
  BY WayIsSeq DEF LinkTypeInv, LinkTypeOK, ConsoleTypeOK
<1>4. c = CommandsOnTheWay[1] /\ 1 \in DOMAIN CommandsOnTheWay
  <2>1. \A s \in Seq(Commands) : s # <<>> => Head(s) = s[1] /\ 1 \in DOMAIN s
    OBVIOUS
  <2> QED
    BY <1>2, <1>3, <2>1, Zenon
<1> HIDE DEF c
<1>5. c.n \in DOMAIN issued /\ issued[c.n] = c /\ \A k \in applied : k < c.n
  BY <1>4 DEF LinkInOrder, InOrder
<1>6. Does(c, detection_enabled_, autonomous, detection_enabled_', autonomous')
  <2>1. CASE DETECT(c.cmd)
    BY <2>1 DEF DETECT, Does
  <2>2. CASE MODE(c.cmd)
    BY <2>2 DEF MODE, Does
  <2>3. CASE FP16(c.cmd)
    BY <2>3 DEF FP16, Does, DetectCommands, ModeCommands
  <2> QED
    BY <1>1, <2>1, <2>2, <2>3
<1>7. /\ Says(issued, m_connected, m_fullAuto)
      /\ Follows(issued, m_connected, m_fullAuto, applied, detection_enabled_, autonomous)
  BY DEF LinkSays
<1>8. Follows(issued, m_connected, m_fullAuto, applied \cup {c.n}, detection_enabled_',
              autonomous')
  BY <1>3, <1>5, <1>6, <1>7, OneMoreIsDone
<1> QED
  BY <1>1, <1>7, <1>8 DEF LinkSays

\* The other steps leave the switches and the Pi's modes alone, or the Pi starts again.
LEMMA OthersSaySame ==
    ASSUME LinkSays,
           \/ Stutters \/ ClientActs \/ ConnectionDrops
           \/ PiActs /\ ~handleNetworkCommand
    PROVE  LinkSays'
<1>1. UNCHANGED <<issued, m_connected, m_fullAuto>>
  <2>1. CASE PiActs \/ Stutters
    BY <2>1 DEF PiActs, Stutters, console_vars, switches
  <2>2. CASE ConnectionDrops
    BY <2>2 DEF ConnectionDrops, console_vars, switches
  <2>3. CASE ClientActs
    BY <2>3 DEF ClientActs, tryAgain, connectFails, getLatestAimResult, connect, SendQueued,
                ReceiveChunk, ReceiveFails, Parse, console_vars, switches
  <2> QED
    BY <2>1, <2>2, <2>3
<1>2. applied' = {} \/ UNCHANGED <<applied, detection_enabled_, autonomous>>
  <2>1. CASE Stutters
    BY <2>1 DEF Stutters, server_vars, pi_modes
  <2>2. CASE ConnectionDrops
    BY <2>2 DEF ConnectionDrops, pi_modes
  <2>3. CASE ClientActs
    BY <2>3 DEF ClientActs, tryAgain, connectFails, getLatestAimResult, connect, SendQueued,
                ReceiveChunk, ReceiveFails, Parse, server_vars, pi_modes
  <2>4. CASE PiActs /\ ~handleNetworkCommand
    BY <2>4 DEF PiActs, SendLatest, ReceiveCommands, ReceiveNothing, publishAimResult, accept,
                PiStarts, pi_modes
  <2> QED
    BY <2>1, <2>2, <2>3, <2>4
<1>3. CASE applied' = {}
  BY <1>1, <1>3 DEF LinkSays, Follows
<1>4. CASE UNCHANGED <<applied, detection_enabled_, autonomous>>
  BY <1>1, <1>4 DEF LinkSays
<1> QED
  BY <1>2, <1>3, <1>4

LEMMA SaysStep ==
    ASSUME LinkTypeInv, LinkInOrder, LinkSays, [CommandNext]_command_vars
    PROVE  LinkSays'
<1>1. LinkTypeInv'
  BY CommandTypesStep
<1>2. CASE ConsoleActs
  BY <1>2, ClicksAreSaid
<1>3. CASE handleNetworkCommand /\ PiActs
  BY <1>1, <1>3, ObeyingIsSaid DEF PiActs
<1> QED
  BY <1>2, <1>3, CommandSteps, OthersSaySame

\* At the start nothing has been said.
LEMMA LinkSaysInitially ==
    CommandInit => LinkInOrder /\ LinkSays
<1> SUFFICES ASSUME CommandInit
             PROVE  LinkInOrder /\ LinkSays
  OBVIOUS
<1>1. issued = <<>> /\ applied = {} /\ m_connected = FALSE /\ m_fullAuto = FALSE
  BY DEF CommandInit, ConsoleInit, ServerInit
<1>2. CommandsOnTheWay = <<>>
  BY ChannelsInitially DEF CommandChannel!ChannelInit
<1>3. issued \in Seq(Commands) /\ DOMAIN issued = {}
  <2>1. \A V : <<>> \in Seq(V) /\ DOMAIN <<>> = {}
    OBVIOUS
  <2> QED
    BY <1>1, <2>1, Zenon
<1>4. DOMAIN CommandsOnTheWay = {}
  BY <1>2
<1>5. LinkInOrder
  BY <1>1, <1>3, <1>4 DEF LinkInOrder, InOrder
<1>6. \A kind : IsLast(issued, kind, 0)
  BY <1>3 DEF IsLast
<1>7. \A kind : LastOf(issued, kind) = 0
  BY <1>3, <1>6, LastIsUnique
<1>8. Says(issued, m_connected, m_fullAuto)
  BY <1>1, <1>3, <1>6, <1>7 DEF Says
<1>9. LinkSays
  BY <1>1, <1>8 DEF LinkSays, Follows
<1> QED
  BY <1>5, <1>9

LEMMA LastWordHolds ==
    LinkTypeInv /\ LinkSays => LastWordCounts
<1> SUFFICES ASSUME LinkTypeInv, LinkSays
             PROVE  LastWordCounts
  OBVIOUS
<1>1. \A kind : LastIssued(kind) = LastOf(issued, kind)
  BY DEF LastIssued, LastOf
<1>2. /\ LastOf(issued, DetectCommands) \in applied => (detection_enabled_ <=> m_connected)
      /\ LastOf(issued, ModeCommands) \in applied => (autonomous <=> m_fullAuto)
  BY DEF LinkSays, Follows
<1>3. /\ detection_enabled_ \in BOOLEAN /\ m_connected \in BOOLEAN
      /\ autonomous \in BOOLEAN /\ m_fullAuto \in BOOLEAN
  BY DEF LinkTypeInv, LinkTypeOK, ModesTypeOK, ConsoleTypeOK
<1>4. /\ (detection_enabled_ <=> m_connected) => detection_enabled_ = m_connected
      /\ (autonomous <=> m_fullAuto) => autonomous = m_fullAuto
  BY <1>3
<1> QED
  BY <1>1, <1>2, <1>4 DEF LastWordCounts

(* The last word counts: whatever was lost, dropped or restarted, a Pi that   *)
(* has obeyed the last DETECT (MODE) command is in the mode the operator's    *)
(* switch shows.  It rests on the order of the commands on the way, and on    *)
(* FULL_AUTO being sent only behind, or together with, a DETECT:START.        *)
THEOREM LastWordIsObeyed == CommandSpec => []LastWordCounts
<1>1. CommandInit => LinkInOrder /\ LinkSays
  BY LinkSaysInitially
<1>2. LinkTypeInv /\ LinkInOrder /\ [CommandNext]_command_vars => LinkInOrder'
  BY CommandsStayInOrder
<1>3. LinkTypeInv /\ LinkInOrder /\ LinkSays /\ [CommandNext]_command_vars => LinkSays'
  BY SaysStep
<1>4. LinkTypeInv /\ LinkSays => LastWordCounts
  BY LastWordHolds
<1> QED
  BY <1>1, <1>2, <1>3, <1>4, StreamAlways, PTL DEF CommandSpec
=============================================================================
