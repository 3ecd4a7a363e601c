----------------------------- MODULE ServoBoard -----------------------------
(***************************************************************************)
(* The turret firmware of arduino.cpp: text commands, two servos, a fire   *)
(* relay with a timed pulse.  serialEvent() collects whatever has arrived, *)
(* end of line or not, before loop() looks at it: commands that arrive     *)
(* together are glued into one line, and a line whose beginning arrives    *)
(* together with an earlier end of line is cut off there.                  *)
(*                                                                         *)
(* A line is three pieces: two parts of its text and the end of line, so   *)
(* that it can arrive, and be read, in pieces.  Where a line is cut is     *)
(* chosen when the first part of its text is looked at alone.              *)
(***************************************************************************)
EXTENDS Subsequences, SequencesExt

CONSTANTS BoardCommands, \* commands sent: [kind, dx, dy]
          MaxLines,      \* bound on the commands sent
          fireDuration   \* 500 ms

BoardInt == (1 - 2^15)..(2^15 - 1)   \* int of 16 bits, its least value aside

ASSUME BoardAssumption ==
    /\ BoardCommands \subseteq [kind : {"FIRE", "MOVE", "TARGET"}, dx : BoardInt, dy : BoardInt]
    /\ MaxLines \in Nat /\ fireDuration \in Nat

VARIABLES
    arriving,       \* pieces on the line or in the serial buffer
    inputString,    \* pieces collected
    stringComplete,
    panPos, tiltPos,
    isFiring,       \* the relay (FIRE_PIN) follows it
    fire_age,       \* millis() - fireTimer, saturating
    lines,          \* history: the commands sent
    obeyed          \* history: the commands carried out: [line, dy], dy: the number read

servo_vars == <<panPos, tiltPos>>
fire_vars  == <<isFiring, fire_age>>
text_vars  == <<inputString, stringComplete>>
board_vars == <<arriving, text_vars, servo_vars, fire_vars, lines, obeyed>>

PAN_MIN == 0
PAN_MAX == 180
TILT_MIN == 20
TILT_MAX == 160
manualSpeed == 5

Piece(c, n) == [cmd |-> c, part |-> n]
Text(c)     == <<Piece(c, 1), Piece(c, 2), Piece(c, 3)>>
Ends        == [cmd : BoardCommands, part : {3}]
TextParts   == [cmd : BoardCommands, part : {1, 2}]

BoardInit ==
    /\ arriving = <<>> /\ inputString = <<>> /\ stringComplete = FALSE
    /\ panPos = 90 /\ tiltPos = 90
    /\ isFiring = FALSE /\ fire_age = 0
    /\ lines = <<>> /\ obeyed = <<>>

LineSent ==
    /\ Len(lines) < MaxLines
    /\ \E c \in BoardCommands :
          arriving' = arriving \o Text(c) /\ lines' = Append(lines, c)
    /\ UNCHANGED <<text_vars, servo_vars, fire_vars, obeyed>>

\* Everything that has arrived by now, ends of line dropped.
serialEvent ==
    \E n \in 1..Len(arriving) :
        LET got == SubSeq(arriving, 1, n)
        IN  /\ inputString' = inputString \o Only(got, TextParts)
            /\ stringComplete' = (stringComplete \/ \E i \in 1..n : got[i] \in Ends)
            /\ arriving' = SubSeq(arriving, n + 1, Len(arriving))
            /\ UNCHANGED <<servo_vars, fire_vars, lines, obeyed>>

Clip(x, lo, hi) == IF x < lo THEN lo ELSE IF x > hi THEN hi ELSE x

\* Conversion of hundredths to int drops the fraction.
Truncated(x) == IF x >= 0 THEN x \div 100 ELSE -((-x) \div 100)

applyServos(pan, tilt) ==
    /\ panPos'  = Clip(pan, PAN_MIN, PAN_MAX)
    /\ tiltPos' = Clip(tilt, TILT_MIN, TILT_MAX)

\* What the collected text starts with, and whether that is all of it.
Starts(c) == IsPrefix(<<Piece(c, 1), Piece(c, 2)>>, inputString)
Exactly(c) == inputString = <<Piece(c, 1), Piece(c, 2)>>

\* FIRE must be the whole line; during a pulse it changes nothing.
FIRE(c) ==
    /\ c.kind = "FIRE" /\ Exactly(c)
    /\ IF isFiring THEN UNCHANGED fire_vars ELSE isFiring' = TRUE /\ fire_age' = 0
    /\ obeyed' = Append(obeyed, [line |-> c, dy |-> c.dy])
    /\ UNCHANGED servo_vars

\* MOVE:W, S, A or D steps manualSpeed degrees; what follows is not looked at.
MOVE(c) ==
    /\ c.kind = "MOVE" /\ Starts(c)
    /\ applyServos(panPos + manualSpeed * c.dx, tiltPos + manualSpeed * c.dy)
    /\ obeyed' = Append(obeyed, [line |-> c, dy |-> c.dy])
    /\ UNCHANGED fire_vars

\* What toInt() makes of a number that is cut off: its first digits, 0 if there is none.
Shortened(y) ==
    LET first(k) == IF y >= 0 THEN y \div k ELSE -((-y) \div k)
    IN  {first(10), first(100), first(1000), first(10000), first(100000)}

\* The second number of an aim line.  Glued text does not change it: toInt() stops at
\* the first character that is no digit.  A line cut after the comma is read all the same.
NumberRead(c) ==
    IF Starts(c) THEN {c.dy}
    ELSE IF inputString = <<Piece(c, 1)>> THEN Shortened(c.dy) ELSE {}

\* TARGET:x,y turns by 0.12 degrees per pixel.
TARGET(c) ==
    /\ c.kind = "TARGET"
    /\ \E y \in NumberRead(c) :
          /\ applyServos(Truncated(100 * panPos - 12 * c.dx), Truncated(100 * tiltPos - 12 * y))
          /\ obeyed' = Append(obeyed, [line |-> c, dy |-> y])
    /\ UNCHANGED fire_vars

\* Among others: a FIRE with anything after it, a MOVE without its direction, a TARGET
\* cut before its comma.
NotUnderstood ==
    /\ \A c \in BoardCommands : IF c.kind = "FIRE" THEN ~Exactly(c) ELSE ~Starts(c)
    /\ UNCHANGED <<servo_vars, fire_vars, obeyed>>

\* Faulty variant: the collected text is not cleared.
parseCommandKept ==
    /\ stringComplete
    /\ \/ \E c \in BoardCommands : FIRE(c) \/ MOVE(c) \/ TARGET(c)
       \/ NotUnderstood
    /\ stringComplete' = FALSE
    /\ UNCHANGED <<inputString, arriving, lines>>

\* The first half of loop().
parseCommand ==
    /\ stringComplete
    /\ \/ \E c \in BoardCommands : FIRE(c) \/ MOVE(c) \/ TARGET(c)
       \/ NotUnderstood
    /\ inputString' = <<>> /\ stringComplete' = FALSE
    /\ UNCHANGED <<arriving, lines>>

\* Faulty variant: the end of the pulse is compared for equality.
PulseOverExact ==
    /\ isFiring /\ fire_age = fireDuration
    /\ isFiring' = FALSE
    /\ UNCHANGED <<fire_age, arriving, text_vars, servo_vars, lines, obeyed>>

\* The second half of loop().
PulseOver ==
    /\ isFiring /\ fire_age > fireDuration
    /\ isFiring' = FALSE
    /\ UNCHANGED <<fire_age, arriving, text_vars, servo_vars, lines, obeyed>>

Millis ==
    /\ fire_age <= fireDuration
    /\ fire_age' = fire_age + 1
    /\ UNCHANGED <<isFiring, arriving, text_vars, servo_vars, lines, obeyed>>

BoardNext == LineSent \/ serialEvent \/ parseCommand \/ PulseOver \/ Millis

BoardSpec == BoardInit /\ [][BoardNext]_board_vars

-----------------------------------------------------------------------------
\* The servos stay inside their mechanical limits.
BoardOK ==
    /\ panPos \in PAN_MIN..PAN_MAX /\ tiltPos \in TILT_MIN..TILT_MAX
    /\ isFiring \in BOOLEAN /\ fire_age \in 0..(fireDuration + 1)

\* The commands whose beginning is still around.
Firsts == [cmd : BoardCommands, part : {1}]
Begun(q) == LET firsts == Only(q, Firsts)
            IN  [i \in DOMAIN firsts |-> firsts[i].cmd]

\* The sent lines carried out.
LinesObeyed == [i \in DOMAIN obeyed |-> obeyed[i].line]

CommandChannel == INSTANCE LossyChannel
    WITH sent <- lines, inTransit <- Begun(inputString \o arriving), delivered <- LinesObeyed

\* y is what was asked for, or less of it.
NoMoreThan(y, asked) == (0 <= y /\ y <= asked) \/ (asked <= y /\ y <= 0)

NeverFurther ==
    \A i \in DOMAIN obeyed :
        /\ NoMoreThan(obeyed[i].dy, obeyed[i].line.dy)
        /\ obeyed[i].line.kind # "TARGET" => obeyed[i].dy = obeyed[i].line.dy

(***************************************************************************)
(* However the pieces of several commands are glued together, cut off or   *)
(* read in between: whatever the board carries out is a line that was      *)
(* sent, in order, none twice.  A cut aim line may lose last digits of its *)
(* vertical error, so that the turret turns less far than it was told, but *)
(* never further and never the other way.                                  *)
(***************************************************************************)
BoardObeysInOrder == CommandChannel!ChannelSpec /\ []NeverFurther
=============================================================================
