---------------------------- MODULE Services_proofs ----------------------------
(***************************************************************************)
(* The small services for any number of commands, frames, items, restarts  *)
(* and any size of queue, JPEG and datagram: TLC checks a few of each.     *)
(***************************************************************************)
EXTENDS Services, Subsequences_proofs, FiniteSetTheorems

-----------------------------------------------------------------------------
(* The servo board.                                                          *)

Pieces == [cmd : BoardCommands, part : 1..3]

BoardTypeOK ==
    /\ arriving \in Seq(Pieces) /\ inputString \in Seq(Pieces)
    /\ stringComplete \in BOOLEAN
    /\ lines \in Seq(BoardCommands) /\ obeyed \in Seq([line : BoardCommands, dy : Int])

BoardInv == BoardTypeOK /\ BoardOK /\ NeverFurther

LEMMA BoardInitially == BoardInit => BoardInv
<1> SUFFICES ASSUME BoardInit PROVE BoardInv
  OBVIOUS
<1>1. stringComplete \in BOOLEAN /\ isFiring \in BOOLEAN
  BY DEF BoardInit
<1>2. panPos \in PAN_MIN..PAN_MAX /\ tiltPos \in TILT_MIN..TILT_MAX
  BY DEF BoardInit, PAN_MIN, PAN_MAX, TILT_MIN, TILT_MAX
<1>3. fire_age \in 0..(fireDuration + 1)
  BY BoardAssumption DEF BoardInit
<1>4. BoardTypeOK
  BY <1>1 DEF BoardInit, BoardTypeOK
<1>5. NeverFurther
  BY DEF BoardInit, NeverFurther
<1> QED
  BY <1>1, <1>2, <1>3, <1>4, <1>5 DEF BoardInv, BoardOK

LEMMA ClipIsBetween ==
    ASSUME NEW lo \in Int, NEW hi \in Int, lo <= hi, NEW x \in Int
    PROVE  Clip(x, lo, hi) \in lo..hi
  BY DEF Clip

LEMMA TruncatedIsInt ==
    ASSUME NEW x \in Int
    PROVE  Truncated(x) \in Int
  BY DEF Truncated

LEMMA ServosStayInside ==
    ASSUME NEW pan \in Int, NEW tilt \in Int, applyServos(pan, tilt)
    PROVE  panPos' \in PAN_MIN..PAN_MAX /\ tiltPos' \in TILT_MIN..TILT_MAX
<1> /\ PAN_MIN \in Int /\ PAN_MAX \in Int /\ PAN_MIN <= PAN_MAX
    /\ TILT_MIN \in Int /\ TILT_MAX \in Int /\ TILT_MIN <= TILT_MAX
  BY DEF PAN_MIN, PAN_MAX, TILT_MIN, TILT_MAX
<1> QED
  BY ClipIsBetween, Zenon DEF applyServos

LEMMA CommandFields ==
    ASSUME NEW c \in BoardCommands
    PROVE  c.dx \in Int /\ c.dy \in Int
<1>2. BoardCommands \subseteq [kind : {"FIRE", "MOVE", "TARGET"}, dx : BoardInt, dy : BoardInt]
  BY BoardAssumption, Zenon
<1>3. \A A, B : \A r \in [kind : A, dx : B, dy : B] : r.dx \in B /\ r.dy \in B
  OBVIOUS
<1>1. c.dx \in BoardInt /\ c.dy \in BoardInt
  BY <1>2, <1>3, Zenon
<1>4. \A x \in BoardInt : x \in Int
  BY DEF BoardInt
<1> QED
  BY <1>1, <1>4, Zenon

\* A number that is cut off is no larger and of no other sign.
LEMMA ShortenedIsLess ==
    ASSUME NEW y \in Int, NEW z \in Shortened(y)
    PROVE  z \in Int /\ NoMoreThan(z, y)
<1> DEFINE first(k) == IF y >= 0 THEN y \div k ELSE -((-y) \div k)
<1>1. \A a \in Nat :
          /\ a \div 10 \in 0..a /\ a \div 100 \in 0..a /\ a \div 1000 \in 0..a
          /\ a \div 10000 \in 0..a /\ a \div 100000 \in 0..a
  OBVIOUS
<1>2. z \in {first(10), first(100), first(1000), first(10000), first(100000)}
  BY DEF Shortened
<1>3. CASE y >= 0
  BY <1>1, <1>2, <1>3 DEF NoMoreThan
<1>4. CASE ~(y >= 0)
  <2>1. -y \in Nat
    BY <1>4
  <2> QED
    BY <1>1, <1>2, <1>4, <2>1 DEF NoMoreThan
<1> QED
  BY <1>3, <1>4

LEMMA NumberIsLess ==
    ASSUME NEW c \in BoardCommands, NEW y \in NumberRead(c)
    PROVE  y \in Int /\ NoMoreThan(y, c.dy)
<1>1. c.dy \in Int
  BY CommandFields
<1>2. CASE Starts(c)
  BY <1>1, <1>2 DEF NumberRead, NoMoreThan
<1>3. CASE ~Starts(c)
  <2>1. y \in Shortened(c.dy)
    BY <1>3 DEF NumberRead
  <2> QED
    BY <1>1, <2>1, ShortenedIsLess
<1> QED
  BY <1>2, <1>3

\* One more line carried out as it says, or an aim line with less.
LEMMA OneMoreObeyed ==
    ASSUME BoardInv, NEW c \in BoardCommands, NEW y \in Int, NoMoreThan(y, c.dy),
           c.kind # "TARGET" => y = c.dy,
           obeyed' = Append(obeyed, [line |-> c, dy |-> y])
    PROVE  /\ NeverFurther'
           /\ obeyed' \in Seq([line : BoardCommands, dy : Int])
           /\ LinesObeyed' = Append(LinesObeyed, c)
<1> DEFINE e == [line |-> c, dy |-> y]
           Entries == [line : BoardCommands, dy : Int]
<1>1. obeyed \in Seq(Entries) /\ e \in Entries
  BY DEF BoardInv, BoardTypeOK
<1>2. e.line = c /\ e.dy = y
  OBVIOUS
<1>3. obeyed' = Append(obeyed, e)
  OBVIOUS
<1> HIDE DEF e
<1>4. /\ obeyed' \in Seq(Entries) /\ DOMAIN obeyed = 1..Len(obeyed)
      /\ DOMAIN obeyed' = 1..(Len(obeyed) + 1)
      /\ \A i \in DOMAIN obeyed : obeyed'[i] = obeyed[i]
      /\ obeyed'[Len(obeyed) + 1] = e /\ Len(obeyed) \in Nat
  BY <1>1, <1>3
<1>5. \A i \in DOMAIN obeyed' : i \in DOMAIN obeyed \/ i = Len(obeyed) + 1
  BY <1>4
<1>6. NeverFurther'
  <2> SUFFICES ASSUME NEW i \in DOMAIN obeyed'
               PROVE  /\ NoMoreThan(obeyed'[i].dy, obeyed'[i].line.dy)
                      /\ obeyed'[i].line.kind # "TARGET"
                            => obeyed'[i].dy = obeyed'[i].line.dy
    BY DEF NeverFurther, NoMoreThan
  <2>1. CASE i \in DOMAIN obeyed
    BY <1>4, <2>1 DEF BoardInv, NeverFurther
  <2>2. CASE i = Len(obeyed) + 1
    <3>1. obeyed'[i].dy = y /\ obeyed'[i].line = c
      BY <1>2, <1>4, <2>2
    <3> QED
      BY <3>1 DEF NoMoreThan
  <2> QED
    BY <1>5, <2>1, <2>2
<1>7. LinesObeyed' = Append(LinesObeyed, c)
  <2> DEFINE lineOf == [x \in Entries |-> x.line]
  <2>1. lineOf \in [Entries -> BoardCommands] /\ lineOf[e] = c
    BY <1>1, <1>2
  <2>9. \A s \in Seq(Entries) : \A i \in DOMAIN s : lineOf[s[i]] = s[i].line
    <3>1. \A s \in Seq(Entries) : \A i \in DOMAIN s : s[i] \in Entries
      <4> HIDE DEF Entries
      <4> QED
        OBVIOUS
    <3>2. \A x \in Entries : lineOf[x] = x.line
      OBVIOUS
    <3> QED
      BY <3>1, <3>2, Zenon
  <2>10. \A s \in Seq(Entries) : Each(s, lineOf) = [i \in DOMAIN s |-> s[i].line]
    <3> HIDE DEF lineOf, Entries
    <3> QED
      BY <2>9 DEF Each
  <2>2. LinesObeyed = Each(obeyed, lineOf)
    BY <1>1, <2>10, Zenon DEF LinesObeyed
  <2>3. LinesObeyed' = Each(obeyed', lineOf)
    BY <1>4, <2>10, Zenon DEF LinesObeyed
  <2> HIDE DEF lineOf, Entries
  <2>4. <<e>> \in Seq(Entries) /\ obeyed' = obeyed \o <<e>>
    BY <1>1, <1>3
  <2>5. Each(<<e>>, lineOf) = <<c>>
    BY <2>1 DEF Each
  <2>6. Each(obeyed \o <<e>>, lineOf) = Each(obeyed, lineOf) \o Each(<<e>>, lineOf)
    BY <1>1, <2>1, <2>4, EachOfConcat, ZenonT(60)
  <2>7. Each(obeyed, lineOf) \in Seq(BoardCommands)
    BY <1>1, <2>1, EachIsSeq, ZenonT(60)
  <2>8. \A s \in Seq(BoardCommands) : s \o <<c>> = Append(s, c)
    OBVIOUS
  <2> QED
    BY <2>2, <2>3, <2>4, <2>5, <2>6, <2>7, <2>8, Zenon
<1> QED
  BY <1>4, <1>6, <1>7

\* A command carried out leaves servos and relay in order, and is remembered.
LEMMA CommandCarriedOut ==
    ASSUME BoardInv, NEW c \in BoardCommands, FIRE(c) \/ MOVE(c) \/ TARGET(c)
    PROVE  /\ BoardOK' /\ NeverFurther'
           /\ obeyed' \in Seq([line : BoardCommands, dy : Int])
           /\ LinesObeyed' = Append(LinesObeyed, c)
<1> panPos \in Int /\ tiltPos \in Int
  BY DEF BoardInv, BoardOK, PAN_MIN, PAN_MAX, TILT_MIN, TILT_MAX
<1>4. NoMoreThan(c.dy, c.dy) /\ c.dy \in Int
  BY CommandFields DEF NoMoreThan
<1> USE DEF BoardOK, servo_vars, fire_vars
<1>1. CASE FIRE(c)
  <2>1. /\ obeyed' = Append(obeyed, [line |-> c, dy |-> c.dy])
        /\ panPos' = panPos /\ tiltPos' = tiltPos
    BY <1>1 DEF FIRE
  <2>2. isFiring' \in BOOLEAN /\ fire_age' \in 0..(fireDuration + 1)
    <3>1. CASE isFiring
      BY <1>1, <3>1 DEF FIRE, BoardInv
    <3>2. CASE ~isFiring
      BY <1>1, <3>2, BoardAssumption DEF FIRE
    <3> QED
      BY <3>1, <3>2
  <2>3. BoardOK'
    BY <2>1, <2>2 DEF BoardInv
  <2> QED
    BY <1>4, <2>1, <2>3, OneMoreObeyed
<1>2. CASE MOVE(c)
  <2>1. panPos + manualSpeed * c.dx \in Int /\ tiltPos + manualSpeed * c.dy \in Int
    BY CommandFields DEF manualSpeed
  <2>2. panPos' \in PAN_MIN..PAN_MAX /\ tiltPos' \in TILT_MIN..TILT_MAX
    BY <1>2, <2>1, ServosStayInside DEF MOVE
  <2>3. BoardOK' /\ obeyed' = Append(obeyed, [line |-> c, dy |-> c.dy])
    BY <1>2, <2>2 DEF MOVE, BoardInv
  <2> QED
    BY <1>4, <2>3, OneMoreObeyed
<1>3. CASE TARGET(c)
  <2>1. PICK y \in NumberRead(c) :
          /\ applyServos(Truncated(100 * panPos - 12 * c.dx), Truncated(100 * tiltPos - 12 * y))
          /\ obeyed' = Append(obeyed, [line |-> c, dy |-> y])
    BY <1>3 DEF TARGET
  <2>2. y \in Int /\ NoMoreThan(y, c.dy)
    BY NumberIsLess
  <2>3. 100 * panPos - 12 * c.dx \in Int /\ 100 * tiltPos - 12 * y \in Int
    BY <2>2, CommandFields
  <2>4. panPos' \in PAN_MIN..PAN_MAX /\ tiltPos' \in TILT_MIN..TILT_MAX
    BY <2>1, <2>3, TruncatedIsInt, ServosStayInside
  <2>5. BoardOK'
    BY <1>3, <2>4 DEF TARGET, BoardInv
  <2>6. c.kind = "TARGET"
    BY <1>3 DEF TARGET
  <2> QED
    BY <2>1, <2>2, <2>5, <2>6, OneMoreObeyed
<1> QED
  BY <1>1, <1>2, <1>3

LEMMA BoardStep ==
    ASSUME BoardInv, [BoardNext]_board_vars
    PROVE  BoardInv'
<1> USE DEF BoardInv, BoardTypeOK, text_vars, servo_vars, fire_vars
<1>1. CASE LineSent
  <2>1. PICK c \in BoardCommands :
          arriving' = arriving \o Text(c) /\ lines' = Append(lines, c)
    BY <1>1 DEF LineSent
  <2>2. Text(c) \in Seq(Pieces)
    BY DEF Text, Piece, Pieces
  <2> QED
    BY <1>1, <2>1, <2>2 DEF LineSent, BoardOK, NeverFurther
<1>2. CASE serialEvent
  <2>1. PICK n \in 1..Len(arriving) :
          /\ inputString' = inputString \o Only(SubSeq(arriving, 1, n), TextParts)
          /\ arriving' = SubSeq(arriving, n + 1, Len(arriving))
          /\ stringComplete' = (stringComplete \/ \E i \in 1..n : SubSeq(arriving, 1, n)[i] \in Ends)
    BY <1>2 DEF serialEvent
  <2>2. SubSeq(arriving, 1, n) \in Seq(Pieces) /\ arriving' \in Seq(Pieces)
    BY <2>1
  <2>3. Only(SubSeq(arriving, 1, n), TextParts) \in Seq(Pieces)
    BY <2>2, OnlyIsSeq
  <2>4. inputString' \in Seq(Pieces) /\ stringComplete' \in BOOLEAN
    BY <2>1, <2>3
  <2> QED
    BY <1>2, <2>2, <2>4 DEF serialEvent, BoardOK, NeverFurther
<1>3. CASE parseCommand
  <2>1. BoardOK' /\ NeverFurther' /\ obeyed' \in Seq([line : BoardCommands, dy : Int])
    <3>1. CASE NotUnderstood
      BY <3>1 DEF NotUnderstood, BoardOK, NeverFurther
    <3>2. ASSUME NEW c \in BoardCommands, FIRE(c) \/ MOVE(c) \/ TARGET(c)
          PROVE  BoardOK' /\ NeverFurther' /\ obeyed' \in Seq([line : BoardCommands, dy : Int])
      BY <3>2, CommandCarriedOut
    <3> QED
      BY <1>3, <3>1, <3>2 DEF parseCommand
  <2>2. stringComplete' \in BOOLEAN
    BY <1>3 DEF parseCommand
  <2>3. BoardTypeOK'
    BY <1>3, <2>1, <2>2 DEF parseCommand
  <2> QED
    BY <2>1, <2>3
<1>4. CASE PulseOver
  BY <1>4 DEF PulseOver, BoardOK, NeverFurther
<1>5. CASE Millis
  BY <1>5, BoardAssumption DEF Millis, BoardOK, NeverFurther
<1>6. CASE UNCHANGED board_vars
  BY <1>6 DEF board_vars, BoardOK, NeverFurther
<1> QED
  BY <1>1, <1>2, <1>3, <1>4, <1>5, <1>6 DEF BoardNext

LEMMA PieceHasCommand ==
    ASSUME NEW s \in Seq(Pieces), NEW i \in DOMAIN s
    PROVE  s[i].cmd \in BoardCommands
<1>1. s[i] \in Pieces
  OBVIOUS
<1> QED
  BY <1>1 DEF Pieces

\* The commands begun on the line and in the buffer.
LEMMA BegunIsSeq ==
    ASSUME NEW p \in Seq(Pieces)
    PROVE  Begun(p) \in Seq(BoardCommands)
<1>1. Only(p, Firsts) \in Seq(Pieces)
  BY OnlyIsSeq
<1> DEFINE a == Only(p, Firsts)
<1>2. \A i \in DOMAIN a : a[i].cmd \in BoardCommands
  BY <1>1, PieceHasCommand
<1> QED
  BY <1>1, <1>2 DEF Begun

LEMMA BegunOfConcat ==
    ASSUME NEW p \in Seq(Pieces), NEW q \in Seq(Pieces)
    PROVE  Begun(p \o q) = Begun(p) \o Begun(q)
<1> DEFINE a == Only(p, Firsts)
           b == Only(q, Firsts)
           Cmds(s) == [i \in DOMAIN s |-> s[i].cmd]
<1>1. a \in Seq(Pieces) /\ b \in Seq(Pieces)
  BY OnlyIsSeq
<1>2. Only(p \o q, Firsts) = a \o b
  BY OnlyOfConcat
<1>3. Begun(p \o q) = Cmds(a \o b) /\ Begun(p) = Cmds(a) /\ Begun(q) = Cmds(b)
  BY <1>2 DEF Begun
<1> HIDE DEF a, b
<1>4. \A s \in Seq(Pieces) : Cmds(s) \in Seq(BoardCommands) /\ Len(Cmds(s)) = Len(s)
  <2> SUFFICES ASSUME NEW s \in Seq(Pieces)
               PROVE  Cmds(s) \in Seq(BoardCommands) /\ Len(Cmds(s)) = Len(s)
    OBVIOUS
  <2>1. DOMAIN s = 1..Len(s) /\ \A i \in 1..Len(s) : s[i].cmd \in BoardCommands
    BY PieceHasCommand
  <2> QED
    BY <2>1
<1>5. a \o b \in Seq(Pieces) /\ Len(a \o b) = Len(a) + Len(b)
      /\ \A i \in 1..Len(a) + Len(b) : (a \o b)[i] = IF i <= Len(a) THEN a[i] ELSE b[i - Len(a)]
  BY <1>1
<1>6. \A i \in 1..Len(a) + Len(b) : Cmds(a \o b)[i] = (Cmds(a) \o Cmds(b))[i]
  <2> SUFFICES ASSUME NEW i \in 1..Len(a) + Len(b)
               PROVE  Cmds(a \o b)[i] = (Cmds(a) \o Cmds(b))[i]
    OBVIOUS
  <2>1. DOMAIN (a \o b) = 1..Len(a) + Len(b) /\ DOMAIN a = 1..Len(a) /\ DOMAIN b = 1..Len(b)
    BY <1>1, <1>5
  <2>2. Cmds(a \o b)[i] = (a \o b)[i].cmd
    BY <2>1
  <2>3. CASE i <= Len(a)
    <3>1. (Cmds(a) \o Cmds(b))[i] = Cmds(a)[i]
      BY <1>1, <1>4, <2>3
    <3> QED
      BY <1>1, <1>5, <2>1, <2>2, <2>3, <3>1
  <2>4. CASE i > Len(a)
    <3>1. (Cmds(a) \o Cmds(b))[i] = Cmds(b)[i - Len(a)] /\ i - Len(a) \in 1..Len(b)
      BY <1>1, <1>4, <2>4
    <3> QED
      BY <1>1, <1>5, <2>1, <2>2, <2>4, <3>1
  <2> QED
    BY <1>1, <2>3, <2>4
<1> HIDE DEF Cmds
<1>7. Cmds(a \o b) \in Seq(BoardCommands) /\ Cmds(a) \o Cmds(b) \in Seq(BoardCommands)
      /\ Len(Cmds(a \o b)) = Len(a) + Len(b) /\ Len(Cmds(a) \o Cmds(b)) = Len(a) + Len(b)
  <2>1. Cmds(a \o b) \in Seq(BoardCommands) /\ Len(Cmds(a \o b)) = Len(a) + Len(b)
    BY <1>4, <1>5
  <2>2. /\ Cmds(a) \in Seq(BoardCommands) /\ Len(Cmds(a)) = Len(a)
        /\ Cmds(b) \in Seq(BoardCommands) /\ Len(Cmds(b)) = Len(b)
    BY <1>1, <1>4
  <2>3. \A u, w \in Seq(BoardCommands) :
            u \o w \in Seq(BoardCommands) /\ Len(u \o w) = Len(u) + Len(w)
    OBVIOUS
  <2> QED
    BY <2>1, <2>2, <2>3, Zenon
<1>8. Cmds(a \o b) = Cmds(a) \o Cmds(b)
  BY <1>6, <1>7, SMTT(30)
<1> QED
  BY <1>3, <1>8, Zenon

\* Of a command's three pieces, the first counts.
LEMMA BegunOfText ==
    ASSUME NEW c \in BoardCommands
    PROVE  Text(c) \in Seq(Pieces) /\ Begun(Text(c)) = <<c>>
<1>1. Piece(c, 1) \in Firsts /\ Piece(c, 2) \notin Firsts /\ Piece(c, 3) \notin Firsts
  BY DEF Piece, Firsts
<1>2. Piece(c, 1) \in Pieces /\ Piece(c, 2) \in Pieces /\ Piece(c, 3) \in Pieces
  BY DEF Piece, Pieces
<1>3. <<>> \in Seq(Pieces)
  OBVIOUS
<1>13. \A s \in Seq(Pieces) : \A x \in Pieces :
          Only(Append(s, x), Firsts)
             = IF x \in Firsts THEN Append(Only(s, Firsts), x) ELSE Only(s, Firsts)
  BY OnlyOfAppend
<1>14. \A s \in Seq(Pieces) : \A x \in Pieces :
          /\ x \in Firsts => Only(Append(s, x), Firsts) = Append(Only(s, Firsts), x)
          /\ x \notin Firsts => Only(Append(s, x), Firsts) = Only(s, Firsts)
  BY <1>13, Zenon
<1>4. Only(Append(<<>>, Piece(c, 1)), Firsts) = Append(<<>>, Piece(c, 1))
  BY <1>1, <1>2, <1>3, <1>14, OnlyOfEmpty, Zenon
<1>5. Append(<<>>, Piece(c, 1)) \in Seq(Pieces)
  BY <1>2
<1>6. Only(Append(Append(<<>>, Piece(c, 1)), Piece(c, 2)), Firsts) = Append(<<>>, Piece(c, 1))
  BY <1>1, <1>2, <1>4, <1>5, <1>14, Zenon
<1>7. Append(Append(<<>>, Piece(c, 1)), Piece(c, 2)) \in Seq(Pieces)
  BY <1>2, <1>5
<1>8. Only(Append(Append(Append(<<>>, Piece(c, 1)), Piece(c, 2)), Piece(c, 3)), Firsts)
         = Append(<<>>, Piece(c, 1))
  BY <1>1, <1>2, <1>6, <1>7, <1>14, Zenon
<1>9. Text(c) = Append(Append(Append(<<>>, Piece(c, 1)), Piece(c, 2)), Piece(c, 3))
  BY DEF Text
<1>10. Only(Text(c), Firsts) = <<Piece(c, 1)>>
  BY <1>2, <1>8, <1>9
<1>11. Piece(c, 1).cmd = c
  BY DEF Piece
<1>12. Begun(Text(c)) = <<c>>
  <2>1. Begun(Text(c)) = [i \in DOMAIN <<Piece(c, 1)>> |-> <<Piece(c, 1)>>[i].cmd]
    BY <1>10 DEF Begun
  <2> QED
    BY <1>11, <2>1
<1> QED
  BY <1>2, <1>12 DEF Text

\* A step sends a command, obeys one, or drops some.
Way == Begun(inputString \o arriving)
BoardPasses ==
    \/ Sends(lines, lines', Way, Way') /\ LinesObeyed' = LinesObeyed
    \/ LeftOf(Way', Way) /\ UNCHANGED <<lines, LinesObeyed>>
    \/ \E e : /\ Delivers(Way, Way', e)
              /\ LinesObeyed' = Append(LinesObeyed, e) /\ lines' = lines

LEMMA WayIsSeq ==
    ASSUME BoardInv
    PROVE  /\ arriving \in Seq(Pieces) /\ inputString \in Seq(Pieces)
           /\ lines \in Seq(BoardCommands) /\ Way \in Seq(BoardCommands)
<1>1. /\ arriving \in Seq(Pieces) /\ inputString \in Seq(Pieces)
      /\ lines \in Seq(BoardCommands)
  BY DEF BoardInv, BoardTypeOK
<1>2. inputString \o arriving \in Seq(Pieces)
  BY <1>1
<1> QED
  BY <1>1, <1>2, BegunIsSeq DEF Way

\* A collected text that starts with a command begins with it.
LEMMA StartsBegin ==
    ASSUME NEW p \in Seq(Pieces), NEW c \in BoardCommands,
           Len(p) >= 1, p[1] = Piece(c, 1)
    PROVE  Begun(p) # <<>> /\ Begun(p)[1] = c
<1> DEFINE h == <<Piece(c, 1)>>
           t == Tail(p)
<1>1. Len(p) >= 1 /\ p[1] = Piece(c, 1)
  OBVIOUS
<1>2. Piece(c, 1) \in Pieces /\ Piece(c, 1) \in Firsts /\ Piece(c, 1).cmd = c
  BY DEF Piece, Pieces, Firsts
<1>3. h \in Seq(Pieces) /\ t \in Seq(Pieces) /\ p = h \o t
  BY <1>1, <1>2
<1>4. Begun(h) = <<c>>
  <2>1. <<>> \in Seq(Pieces) /\ h = Append(<<>>, Piece(c, 1))
    OBVIOUS
  <2>2. Only(Append(<<>>, Piece(c, 1)), Firsts)
           = IF Piece(c, 1) \in Firsts THEN Append(Only(<<>>, Firsts), Piece(c, 1))
                                       ELSE Only(<<>>, Firsts)
    BY <1>2, <2>1, OnlyOfAppend, ZenonT(60)
  <2>3. Only(h, Firsts) = h
    BY <1>2, <2>1, <2>2, OnlyOfEmpty
  <2> QED
    BY <1>2, <2>3 DEF Begun
<1>5. Begun(p) = <<c>> \o Begun(t) /\ Begun(t) \in Seq(BoardCommands)
  <2> HIDE DEF h, t
  <2>1. Begun(h \o t) = Begun(h) \o Begun(t)
    BY <1>3, BegunOfConcat
  <2> QED
    BY <1>3, <1>4, <2>1, BegunIsSeq, Zenon
<1> HIDE DEF t
<1> QED
  BY <1>5

LEMMA BoardKeepsPath ==
    ASSUME BoardInv, [BoardNext]_board_vars
    PROVE  BoardPasses
<1>1. ASSUME Way' = Way, UNCHANGED <<lines, obeyed>>
      PROVE  BoardPasses
  BY <1>1, LeftOfSelf DEF BoardPasses, LinesObeyed
<1>2. CASE LineSent
  <2>1. PICK c \in BoardCommands :
          arriving' = arriving \o Text(c) /\ lines' = Append(lines, c)
    BY <1>2 DEF LineSent
  <2>2. Text(c) \in Seq(Pieces) /\ Begun(Text(c)) = <<c>>
    BY BegunOfText
  <2>3. inputString \o (arriving \o Text(c)) = (inputString \o arriving) \o Text(c)
        /\ inputString \o arriving \in Seq(Pieces)
    BY <2>2, WayIsSeq
  <2>4. Begun((inputString \o arriving) \o Text(c)) = Begun(inputString \o arriving) \o <<c>>
    BY <2>2, <2>3, BegunOfConcat
  <2>5. Way' = Way \o <<c>>
    BY <1>2, <2>1, <2>3, <2>4 DEF LineSent, Way, text_vars
  <2>6. LeftOf(Way', Way \o <<c>>)
    BY <2>5, LeftOfSelf, Zenon
  <2>7. Sends(lines, Append(lines, c), Way, Way')
    BY <2>6, WayIsSeq, SendsOne
  <2> QED
    BY <1>2, <2>1, <2>7 DEF LineSent, BoardPasses, LinesObeyed
<1>3. CASE serialEvent
  <2>1. PICK n \in 1..Len(arriving) :
          /\ inputString' = inputString \o Only(SubSeq(arriving, 1, n), TextParts)
          /\ arriving' = SubSeq(arriving, n + 1, Len(arriving))
    BY <1>3 DEF serialEvent
  <2> DEFINE got == SubSeq(arriving, 1, n)
             text == Only(got, TextParts)
             rest == SubSeq(arriving, n + 1, Len(arriving))
  <2>2. got \in Seq(Pieces) /\ rest \in Seq(Pieces) /\ arriving = got \o rest
    BY WayIsSeq
  <2>3. text \in Seq(Pieces)
    BY <2>2, OnlyIsSeq
  <2>4. Begun(text) = Begun(got)
    <3>1. Firsts \subseteq TextParts
      BY DEF Firsts, TextParts
    <3>2. Only(Only(got, TextParts), Firsts) = Only(got, Firsts)
      BY <2>2, <3>1, OnlyOfOnly
    <3> QED
      BY <3>2 DEF Begun
  <2> HIDE DEF got, text, rest
  <2>5. Begun((inputString \o text) \o rest) = (Begun(inputString) \o Begun(got)) \o Begun(rest)
    <3>1. inputString \o text \in Seq(Pieces)
      BY <2>3, WayIsSeq
    <3>2. Begun((inputString \o text) \o rest) = Begun(inputString \o text) \o Begun(rest)
      BY <2>2, <3>1, BegunOfConcat
    <3>3. Begun(inputString \o text) = Begun(inputString) \o Begun(text)
      BY <2>3, WayIsSeq, BegunOfConcat
    <3> QED
      BY <2>4, <3>2, <3>3, Zenon
  <2>6. Begun(inputString \o (got \o rest)) = Begun(inputString) \o (Begun(got) \o Begun(rest))
    <3>1. got \o rest \in Seq(Pieces)
      BY <2>2
    <3>2. Begun(inputString \o (got \o rest)) = Begun(inputString) \o Begun(got \o rest)
      BY <3>1, WayIsSeq, BegunOfConcat
    <3>3. Begun(got \o rest) = Begun(got) \o Begun(rest)
      BY <2>2, BegunOfConcat
    <3> QED
      BY <3>2, <3>3, Zenon
  <2>7. (Begun(inputString) \o Begun(got)) \o Begun(rest)
           = Begun(inputString) \o (Begun(got) \o Begun(rest))
    <3>1. /\ Begun(inputString) \in Seq(BoardCommands)
          /\ Begun(got) \in Seq(BoardCommands) /\ Begun(rest) \in Seq(BoardCommands)
      BY <2>2, WayIsSeq, BegunIsSeq
    <3> QED
      BY <3>1
  <2>8. Way' = Way
    BY <2>1, <2>2, <2>5, <2>6, <2>7 DEF Way, got, text, rest
  <2> QED
    BY <1>1, <1>3, <2>8 DEF serialEvent
<1>4. CASE parseCommand
  <2>1. Way' = Begun(arriving) /\ lines' = lines
    <3>1. <<>> \o arriving = arriving
      BY WayIsSeq
    <3> QED
      BY <1>4, <3>1 DEF parseCommand, Way
  <2>2. Way = Begun(inputString) \o Begun(arriving)
    BY WayIsSeq, BegunOfConcat DEF Way
  <2>3. Begun(inputString) \in Seq(BoardCommands) /\ Begun(arriving) \in Seq(BoardCommands)
    BY WayIsSeq, BegunIsSeq
  <2>4. CASE NotUnderstood
    <3>1. LeftOf(<<>>, Begun(inputString))
      BY <2>3, LeftOfEmpty
    <3>2. LeftOf(<<>> \o Begun(arriving), Begun(inputString) \o Begun(arriving))
      <4>1. <<>> \in Seq(BoardCommands)
        OBVIOUS
      <4> QED
        BY <4>1, <2>3, <3>1, LeftOfSelf, LeftOfConcat
    <3>3. <<>> \o Begun(arriving) = Begun(arriving)
      BY <2>3
    <3>4. LeftOf(Way', Way)
      BY <2>1, <2>2, <3>2, <3>3, Zenon
    <3> QED
      BY <2>1, <2>4, <3>4 DEF NotUnderstood, BoardPasses, LinesObeyed
  <2>5. ASSUME NEW c \in BoardCommands, FIRE(c) \/ MOVE(c) \/ TARGET(c)
        PROVE  BoardPasses
    <3>1. Len(inputString) >= 1 /\ inputString[1] = Piece(c, 1)
      <4>1. Starts(c) \/ inputString = <<Piece(c, 1)>>
        <5>1. CASE FIRE(c)
          BY <5>1 DEF FIRE, Exactly, Starts, IsPrefix
        <5>2. CASE MOVE(c)
          BY <5>2 DEF MOVE
        <5>3. CASE TARGET(c)
          <6>1. NumberRead(c) # {}
            BY <5>3 DEF TARGET
          <6> QED
            BY <6>1 DEF NumberRead
        <5> QED
          BY <2>5, <5>1, <5>2, <5>3
      <4> QED
        BY <4>1, WayIsSeq DEF Starts, IsPrefix
    <3>2. Begun(inputString) # <<>> /\ Begun(inputString)[1] = c
      BY <3>1, WayIsSeq, StartsBegin
    <3>3. Delivers(Begun(inputString) \o Begun(arriving), Begun(arriving), Begun(inputString)[1])
      BY <2>3, <3>2, DeliversFirst
    <3>4. Delivers(Way, Way', c)
      BY <2>1, <2>2, <3>2, <3>3, Zenon
    <3>5. LinesObeyed' = Append(LinesObeyed, c)
      BY <2>5, CommandCarriedOut
    <3> QED
      BY <2>1, <3>4, <3>5 DEF BoardPasses
  <2> QED
    BY <1>4, <2>4, <2>5 DEF parseCommand
<1>5. CASE PulseOver
  BY <1>1, <1>5 DEF PulseOver, Way, text_vars
<1>6. CASE Millis
  BY <1>1, <1>6 DEF Millis, Way, text_vars
<1>7. CASE UNCHANGED board_vars
  BY <1>1, <1>7 DEF board_vars, Way, text_vars
<1> QED
  BY <1>2, <1>3, <1>4, <1>5, <1>6, <1>7 DEF BoardNext

LEMMA BoardMapsSteps ==
    ASSUME BoardPasses
    PROVE  CommandChannel!Send \/ CommandChannel!Lose \/ CommandChannel!Deliver
  BY DEF BoardPasses, Way, Sends, Delivers, IsStrictPrefix, IsPrefix, LeftOf,
     CommandChannel!Send, CommandChannel!Lose, CommandChannel!Deliver,
     CommandChannel!LeftOf, CommandChannel!IsStrictPrefix, CommandChannel!IsPrefix

-----------------------------------------------------------------------------
(* The inference worker.                                                     *)

WorkerTypeOK ==
    /\ iw_running \in BOOLEAN /\ stop_flag_ \in BOOLEAN
    /\ pushes \in Nat /\ latest_frame_ \in Nat /\ latest_result_ \in Nat
    /\ iw_frame \in 0..pushes

\* stop_flag_ is set only for a worker that is being stopped; a worker that is
\* not running and not being stopped has been joined.
WorkerControl ==
    /\ iw_owner # "idle" => ~iw_running
    /\ iw_owner = "idle" /\ ~iw_running => iw_worker = "none"

WorkerInv == WorkerOK /\ WorkerTypeOK /\ WorkerControl

LEMMA WorkerInitially == WorkerInit => WorkerInv
<1> SUFFICES ASSUME WorkerInit PROVE WorkerInv
  OBVIOUS
<1>1. WorkerTypeOK
  <2>1. iw_running \in BOOLEAN /\ stop_flag_ \in BOOLEAN
    BY DEF WorkerInit
  <2> QED
    BY <2>1 DEF WorkerInit, WorkerTypeOK
<1>2.  WorkerControl
  BY DEF WorkerInit, WorkerControl
<1>3.  WorkerOK
  BY DEF WorkerInit, WorkerOK
<1> QED
  BY <1>1, <1>2, <1>3 DEF WorkerInv

LEMMA WorkerStep ==
    ASSUME WorkerInv, [WorkerNext]_iw_vars
    PROVE  WorkerInv'
<1> USE DEF WorkerInv
<1>1. WorkerTypeOK'
  <2> USE DEF WorkerTypeOK, iw_flags, iw_slots
  <2>1. CASE iw_start 
    BY <2>1 DEF iw_start
  <2>2. CASE iw_stop 
    BY <2>2 DEF iw_stop
  <2>3. CASE iw_notify 
    BY <2>3 DEF iw_notify
  <2>4. CASE iw_joined 
    BY <2>4 DEF iw_joined
  <2>5. CASE pushFrame 
    BY <2>5 DEF pushFrame
  <2>6. CASE TestFrame 
    BY <2>6 DEF TestFrame, WorkerOK
  <2>7. CASE Detect 
    BY <2>7 DEF Detect
  <2>8. CASE UNCHANGED iw_vars
    BY <2>8 DEF iw_vars
  <2> QED
    BY <2>1, <2>2, <2>3, <2>4, <2>5, <2>6, <2>7, <2>8 DEF WorkerNext, WorkerStop, WorkerThread
<1>2. WorkerControl'
  <2> USE DEF WorkerControl, iw_flags, iw_slots
  <2>1. CASE iw_start 
    BY <2>1 DEF iw_start
  <2>2. CASE iw_stop 
    BY <2>2 DEF iw_stop
  <2>3. CASE iw_notify 
    BY <2>3 DEF iw_notify, Woken
  <2>4. CASE iw_joined 
    BY <2>4 DEF iw_joined
  <2>5. CASE pushFrame 
    BY <2>5 DEF pushFrame, Woken
  <2>6. CASE TestFrame 
    BY <2>6 DEF TestFrame, WorkerOK
  <2>7. CASE Detect 
    BY <2>7 DEF Detect
  <2>8. CASE UNCHANGED iw_vars
    BY <2>8 DEF iw_vars
  <2> QED
    BY <2>1, <2>2, <2>3, <2>4, <2>5, <2>6, <2>7, <2>8 DEF WorkerNext, WorkerStop, WorkerThread
<1>3. WorkerOK'
  <2> USE DEF WorkerControl, iw_flags, iw_slots, WorkerTypeOK, WorkerOK
  <2>1. CASE iw_start 
    BY <2>1 DEF iw_start
  <2>2. CASE iw_stop 
    BY <2>2 DEF iw_stop
  <2>3. CASE iw_notify 
    BY <2>3 DEF iw_notify, Woken
  <2>4. CASE iw_joined 
    BY <2>4 DEF iw_joined
  <2>5. CASE pushFrame 
    BY <2>5 DEF pushFrame, Woken
  <2>6. CASE TestFrame 
    BY <2>6 DEF TestFrame, WorkerOK
  <2>7. CASE Detect 
    BY <2>7 DEF Detect
  <2>8. CASE UNCHANGED iw_vars
    BY <2>8 DEF iw_vars
  <2> QED
    BY <2>1, <2>2, <2>3, <2>4, <2>5, <2>6, <2>7, <2>8 DEF WorkerNext, WorkerStop, WorkerThread
<1> QED
  BY <1>1, <1>2, <1>3

-----------------------------------------------------------------------------
(* The example UART sender.                                                  *)

UartTypeOK ==
    /\ u_running \in BOOLEAN /\ enqueued \in Nat
    /\ u_frame \in Nat /\ written \in Seq(Nat)

UartInv == UartOK /\ UartTypeOK /\ (u_owner = "idle" /\ ~u_running => u_worker = "none")

LEMMA UartInitially == UartInit => UartInv
<1> SUFFICES ASSUME UartInit PROVE UartInv
  OBVIOUS
<1> USE DEF UartInit
<1>1. UartTypeOK
  <2>1. u_running \in BOOLEAN
    OBVIOUS
  <2> QED
    BY <2>1 DEF UartTypeOK
<1>2. UartOK
  BY DEF UartOK
<1> QED
  BY <1>1, <1>2 DEF UartInv

LEMMA UartStep ==
    ASSUME UartInv, [UartNext]_u_vars
    PROVE  UartInv'
<1> USE DEF UartInv, UartTypeOK, UartOK, u_control, u_data
<1>1. CASE u_start
  <2>1. UartTypeOK'
    BY <1>1 DEF u_start
  <2>2. UartOK' 
    BY <1>1 DEF u_start
  <2> QED
    BY <1>1, <2>1, <2>2 DEF u_start
<1>2. CASE u_stop
  <2>1. UartTypeOK'
    BY <1>2 DEF u_stop
  <2>2. UartOK'
    BY <1>2 DEF u_stop
  <2> QED
    BY <1>2, <2>1, <2>2 DEF u_stop
<1>3. CASE enqueue
  <2>1. q_' \in Seq(1..enqueued')
    BY <1>3 DEF enqueue
  <2>2. UartTypeOK'
    BY <1>3 DEF enqueue
  <2>3. UartOK'
    BY <1>3, <2>1 DEF enqueue
  <2> QED
    BY <1>3, <2>2, <2>3 DEF enqueue
<1>4. CASE LoopHead
  <2>1. q_ # <<>> => Head(q_) \in Nat /\ Tail(q_) \in Seq(1..enqueued)
    OBVIOUS
  <2>2. UartTypeOK'
    BY <1>4, <2>1 DEF LoopHead
  <2>3. UartOK'
    BY <1>4, <2>1 DEF LoopHead
  <2> QED
    BY <1>4, <2>2, <2>3 DEF LoopHead
<1>5. CASE FallAsleep
  BY <1>5 DEF FallAsleep
<1>6. CASE WriteFrame
  <2>1. written' \in Seq(Nat)
    <3>1. Append(written, u_frame) \in Seq(Nat)
      OBVIOUS
    <3> QED
      BY <1>6, <3>1 DEF WriteFrame
  <2>3. UartTypeOK'
    BY <1>6, <2>1 DEF WriteFrame
  <2>2. UartOK'
    BY <1>6 DEF WriteFrame
  <2> QED
    BY <1>6, <2>2, <2>3 DEF WriteFrame
<1>7. CASE u_notify
  <2>1. UartTypeOK'
    BY <1>7 DEF u_notify
  <2>2. UartOK'
    BY <1>7 DEF u_notify
  <2> QED
    BY <1>7, <2>1, <2>2 DEF u_notify
<1>8. CASE u_joined
  <2>1. UartTypeOK'
    BY <1>8 DEF u_joined
  <2>2. UartOK'
    BY <1>8 DEF u_joined
  <2> QED
    BY <1>8, <2>1, <2>2 DEF u_joined
<1>9. CASE UNCHANGED u_vars
  BY <1>9 DEF u_vars
<1> QED
  BY <1>1, <1>2, <1>3, <1>4, <1>5, <1>6, <1>7, <1>8, <1>9 DEF UartNext, UartStop, UartThread

\* A step hands a frame over, writes one, or drops some.
UartPasses ==
    \/ Sends(Count(enqueued), Count(enqueued'), UartPath, UartPath') /\ written' = written
    \/ LeftOf(UartPath', UartPath) /\ UNCHANGED <<enqueued, written>>
    \/ \E e : Delivers(UartPath, UartPath', e) /\ written' = Append(written, e)
              /\ enqueued' = enqueued

LEMMA UartPathGrows ==
    ASSUME NEW q \in Seq(Nat), NEW f \in Nat, NEW e \in Nat
    PROVE  <<f>> \o Append(q, e) = (<<f>> \o q) \o <<e>>
  OBVIOUS

LEMMA UartKeepsPath ==
    ASSUME UartInv, [UartNext]_u_vars
    PROVE  UartPasses
<1>0. q_ \in Seq(Nat) /\ u_frame \in Nat /\ enqueued \in Nat /\ UartPath \in Seq(Nat)
  <2>1. q_ \in Seq(1..enqueued) /\ u_frame \in Nat /\ enqueued \in Nat
    BY DEF UartInv, UartOK, UartTypeOK
  <2>2. q_ \in Seq(Nat)
    BY <2>1
  <2> QED
    BY <2>1, <2>2 DEF UartPath
<1>1. ASSUME UartPath' = UartPath, UNCHANGED <<enqueued, written>>
      PROVE  UartPasses
  BY <1>1, LeftOfSelf DEF UartPasses
<1>2. CASE u_start
  <2>1. u_worker = "none"
    BY <1>2 DEF u_start, UartInv
  <2> QED
    BY <1>1, <1>2, <2>1 DEF u_start, UartPath, u_data
<1>3. CASE u_stop
  BY <1>1, <1>3 DEF u_stop, UartPath, u_data
<1>4. CASE enqueue
  <2>1. /\ enqueued' = enqueued + 1 /\ written' = written
        /\ q_' = Append(q_, enqueued + 1) /\ u_frame' = u_frame
        /\ (u_worker' = "writing") = (u_worker = "writing")
    BY <1>4 DEF enqueue
  <2>2. UartPath' = UartPath \o <<enqueued + 1>>
    <3>1. CASE u_worker = "writing"
      BY <1>0, <2>1, <3>1, UartPathGrows DEF UartPath
    <3>2. CASE u_worker # "writing"
      BY <1>0, <2>1, <3>2 DEF UartPath
    <3> QED
      BY <3>1, <3>2
  <2>3. LeftOf(UartPath', UartPath \o <<enqueued + 1>>)
    BY <2>2, LeftOfSelf, Zenon
  <2>4. Sends(Count(enqueued), Count(enqueued + 1), UartPath, UartPath')
    BY <1>0, <2>3, SendsNext
  <2> QED
    BY <2>1, <2>4 DEF UartPasses
<1>5. CASE u_notify
  BY <1>1, <1>5 DEF u_notify, UartPath, u_data
<1>6. CASE u_joined
  <2>1. UartPath' = <<>>
    BY <1>6 DEF u_joined, UartPath
  <2>2. LeftOf(<<>>, UartPath)
    BY <1>0, LeftOfEmpty
  <2>3. LeftOf(UartPath', UartPath)
    BY <2>1, <2>2, Zenon
  <2> QED
    BY <1>6, <2>3 DEF u_joined, UartPasses
<1>7. CASE LoopHead
  <2>1. CASE u_running /\ q_ # <<>>
    <3>1. <<Head(q_)>> \o Tail(q_) = q_
      BY <1>0, <2>1
    <3> QED
      BY <1>1, <1>7, <2>1, <3>1 DEF LoopHead, UartPath
  <2>2. CASE ~(u_running /\ q_ # <<>>)
    BY <1>1, <1>7, <2>2 DEF LoopHead, UartPath
  <2> QED
    BY <2>1, <2>2
<1>8. CASE FallAsleep
  BY <1>1, <1>8 DEF FallAsleep, UartPath, u_data
<1>9. CASE WriteFrame
  <2>1. /\ UartPath = <<u_frame>> \o q_ /\ UartPath' = q_ /\ enqueued' = enqueued
        /\ written' = written \/ written' = Append(written, u_frame)
    BY <1>9 DEF WriteFrame, UartPath
  <2>2. LeftOf(UartPath', UartPath) /\ Delivers(UartPath, UartPath', u_frame)
    BY <1>0, <2>1, HeadLeaves, Zenon
  <2> QED
    BY <2>1, <2>2 DEF UartPasses
<1>10. CASE UNCHANGED u_vars
  BY <1>1, <1>10 DEF u_vars, UartPath, u_data
<1> QED
  BY <1>2, <1>3, <1>4, <1>5, <1>6, <1>7, <1>8, <1>9, <1>10 DEF UartNext, UartStop, UartThread

LEMMA UartMapsSteps ==
    ASSUME UartPasses
    PROVE  UartChannel!Send \/ UartChannel!Lose \/ UartChannel!Deliver
  BY DEF UartPasses, Sends, Delivers, Count, UartChannel!Send, UartChannel!Lose, UartChannel!Deliver,
     UartChannel!LeftOf, LeftOf, UartChannel!IsStrictPrefix, IsStrictPrefix, UartChannel!IsPrefix, IsPrefix
-----------------------------------------------------------------------------
(* The telemetry sender.                                                     *)

SenderTypeOK ==
    /\ t_running \in BOOLEAN /\ peer \in BOOLEAN /\ sock_ \in {"none", "live", "dead"}
    /\ t_queue \in Seq(Nat) /\ t_item \in Nat /\ submitted \in Nat /\ received \in Seq(Nat)

SenderControl ==
    /\ t_owner = "idle" /\ ~t_running => t_worker = "none"
    /\ t_running => t_owner = "idle"
    /\ t_worker = "pop" => sock_ # "none"

SenderInv == SenderOK /\ SenderTypeOK /\ SenderControl

LEMMA SenderInitially == SenderInit => SenderInv
<1> SUFFICES ASSUME SenderInit PROVE SenderInv
  OBVIOUS
<1>1. SenderTypeOK
  <2>1. t_running \in BOOLEAN /\ peer \in BOOLEAN
    BY DEF SenderInit
  <2>2. sock_ \in {"none", "live", "dead"}
    BY DEF SenderInit
  <2> QED
    BY <2>1, <2>2 DEF SenderTypeOK, SenderInit
<1>2. SenderControl
  BY DEF SenderInit, SenderControl
<1>3. SenderOK
  BY SenderAssumption DEF SenderInit, SenderOK
<1> QED
  BY <1>1, <1>2, <1>3 DEF SenderInv

LEMMA SenderStep ==
    ASSUME SenderInv, [SenderNext]_t_vars
    PROVE  SenderInv'
<1> USE SenderAssumption DEF SenderInv
<1>1. SenderTypeOK'
  <2> USE DEF SenderTypeOK, t_control, t_net
  <2>1. CASE t_start
    BY <2>1 DEF t_start
  <2>2. CASE t_stop
    BY <2>2 DEF t_stop
  <2>3. CASE t_joined
    BY <2>3 DEF t_joined
  <2>4. CASE sendTelemetry
    BY <2>4 DEF sendTelemetry
  <2>5. CASE SenderHead
    BY <2>5 DEF SenderHead
  <2>6. CASE SenderPop
    <3>1. t_queue # <<>> => Head(t_queue) \in Nat /\ Tail(t_queue) \in Seq(Nat)
      OBVIOUS
    <3>2. sock_' \in {"none", "live", "dead"}
      BY <2>6 DEF SenderPop
    <3> QED
      BY <2>6, <3>1, <3>2 DEF SenderPop
  <2>7. CASE SenderSend
    <3>1. received' \in Seq(Nat)
      BY <2>7, SMTT(30) DEF SenderSend
    <3>2. sock_' \in {"none", "live", "dead"}
      BY <2>7 DEF SenderSend
    <3> QED
      BY <2>7, <3>1, <3>2 DEF SenderSend
  <2>8. CASE PeerChanges
    <3>1. peer' \in BOOLEAN
      BY <2>8 DEF PeerChanges
    <3>2. sock_' \in {"none", "live", "dead"}
      BY <2>8 DEF PeerChanges
    <3> QED
      BY <2>8, <3>1, <3>2 DEF PeerChanges
  <2>9. CASE UNCHANGED t_vars
    BY <2>9 DEF t_vars
  <2> QED
    BY <2>1, <2>2, <2>3, <2>4, <2>5, <2>6, <2>7, <2>8, <2>9 DEF SenderNext, SenderThread
<1>2. SenderControl'
  <2> USE DEF SenderControl, SenderOK, SenderTypeOK, t_control, t_net
  <2>1. CASE t_start
    BY <2>1 DEF t_start
  <2>2. CASE t_stop
    BY <2>2 DEF t_stop
  <2>3. CASE t_joined
    BY <2>3 DEF t_joined
  <2>4. CASE sendTelemetry
    BY <2>4 DEF sendTelemetry
  <2>5. CASE SenderHead
    BY <2>5 DEF SenderHead
  <2>6. CASE SenderPop
    BY <2>6 DEF SenderPop
  <2>7. CASE SenderSend
    BY <2>7 DEF SenderSend
  <2>8. CASE PeerChanges
    BY <2>8 DEF PeerChanges
  <2>9. CASE UNCHANGED t_vars
    BY <2>9 DEF t_vars
  <2> QED
    BY <2>1, <2>2, <2>3, <2>4, <2>5, <2>6, <2>7, <2>8, <2>9 DEF SenderNext, SenderThread
<1>3. SenderOK'
  <2> USE DEF SenderControl, SenderOK, SenderTypeOK, t_control, t_net
  <2>1. CASE t_start
    BY <2>1 DEF t_start
  <2>2. CASE t_stop
    BY <2>2 DEF t_stop
  <2>3. CASE t_joined
    BY <2>3 DEF t_joined
  <2>4. CASE sendTelemetry
    BY <2>4 DEF sendTelemetry
  <2>5. CASE SenderHead
    BY <2>5 DEF SenderHead
  <2>6. CASE SenderPop
    BY <2>6 DEF SenderPop
  <2>7. CASE SenderSend
    BY <2>7 DEF SenderSend
  <2>8. CASE PeerChanges
    BY <2>8 DEF PeerChanges
  <2>9. CASE UNCHANGED t_vars
    BY <2>9 DEF t_vars
  <2> QED
    BY <2>1, <2>2, <2>3, <2>4, <2>5, <2>6, <2>7, <2>8, <2>9 DEF SenderNext, SenderThread
<1> QED
  BY <1>1, <1>2, <1>3

\* A step hands an item over, delivers one, or drops some.
TelemetryPasses ==
    \/ Sends(Count(submitted), Count(submitted'), SenderPath, SenderPath')
       /\ received' = received
    \/ LeftOf(SenderPath', SenderPath) /\ UNCHANGED <<submitted, received>>
    \/ \E e : Delivers(SenderPath, SenderPath', e) /\ received' = Append(received, e)
              /\ submitted' = submitted

LEMMA TelemetryKeepsPath ==
    ASSUME SenderInv, [SenderNext]_t_vars
    PROVE  TelemetryPasses
<1>0. t_queue \in Seq(Nat) /\ t_item \in Nat /\ submitted \in Nat /\ SenderPath \in Seq(Nat)
  <2>1. t_queue \in Seq(Nat) /\ t_item \in Nat /\ submitted \in Nat
    BY DEF SenderInv, SenderTypeOK
  <2> QED
    BY <2>1 DEF SenderPath
<1>1. ASSUME SenderPath' = SenderPath, UNCHANGED <<submitted, received>>
      PROVE  TelemetryPasses
  BY <1>1, LeftOfSelf DEF TelemetryPasses
<1>2. CASE t_start
  <2>1. t_worker = "none"
    BY <1>2 DEF t_start, SenderInv, SenderControl
  <2> QED
    BY <1>1, <1>2, <2>1 DEF t_start, SenderPath
<1>3. CASE t_stop
  BY <1>1, <1>3 DEF t_stop, SenderPath
<1>4. CASE t_joined
  <2>1. SenderPath' = <<>>
    BY <1>4 DEF t_joined, SenderPath
  <2>2. LeftOf(<<>>, SenderPath)
    BY <1>0, LeftOfEmpty
  <2>3. LeftOf(SenderPath', SenderPath)
    BY <2>1, <2>2, Zenon
  <2> QED
    BY <1>4, <2>3 DEF t_joined, TelemetryPasses
<1>5. CASE sendTelemetry
  <2> DEFINE e == submitted + 1
             rest == IF Len(t_queue) >= max_queue_ THEN Tail(t_queue) ELSE t_queue
             first == IF t_worker = "send" THEN <<t_item>> ELSE <<>>
  <2>1. /\ submitted' = e /\ received' = received /\ t_queue' = Append(rest, e)
        /\ t_item' = t_item /\ t_worker' = t_worker
    BY <1>5 DEF sendTelemetry
  <2>2. rest \in Seq(Nat) /\ e \in Nat /\ first \in Seq(Nat) /\ <<e>> \in Seq(Nat)
        /\ rest \o <<e>> \in Seq(Nat) /\ t_queue \o <<e>> \in Seq(Nat)
    <3>1. Len(t_queue) >= max_queue_ => t_queue # <<>>
      BY <1>0, SenderAssumption
    <3> QED
      BY <1>0, <3>1
  <2>3. LeftOf(rest, t_queue)
    <3>1. CASE Len(t_queue) >= max_queue_
      <4>1. t_queue # <<>>
        BY <1>0, <3>1, SenderAssumption
      <4>2. LeftOf(Tail(t_queue), t_queue)
        BY <1>0, <4>1, LeftOfTail
      <4> QED
        BY <3>1, <4>2
    <3>2. CASE ~(Len(t_queue) >= max_queue_)
      BY <3>2, LeftOfSelf
    <3> QED
      BY <3>1, <3>2
  <2> HIDE DEF rest, first, e
  <2>4. LeftOf(rest \o <<e>>, t_queue \o <<e>>)
    BY <1>0, <2>2, <2>3, LeftOfSelf, LeftOfConcat
  <2>5. LeftOf(first \o (rest \o <<e>>), first \o (t_queue \o <<e>>))
    BY <1>0, <2>2, <2>4, LeftOfSelf, LeftOfConcat
  <2>6. SenderPath' = first \o (rest \o <<e>>)
    <3>1. Append(rest, e) = rest \o <<e>> /\ <<>> \o (rest \o <<e>>) = rest \o <<e>>
      BY <2>2
    <3>2. SenderPath' = first \o Append(rest, e)
      BY <2>1, <2>2, <3>1 DEF SenderPath, first
    <3> QED
      BY <3>1, <3>2
  <2>7. SenderPath \o <<e>> = first \o (t_queue \o <<e>>)
    <3>1. SenderPath = first \o t_queue
      BY <1>0 DEF SenderPath, first
    <3>2. first \in Seq(Nat) /\ t_queue \in Seq(Nat) /\ <<e>> \in Seq(Nat)
      BY <1>0, <2>2
    <3>3. Regroups(first, t_queue, <<e>>)
      BY <3>2, ConcatRegroups
    <3> QED
      BY <3>1, <3>3, Zenon DEF Regroups
  <2>8. LeftOf(SenderPath', SenderPath \o <<submitted + 1>>)
    BY <2>5, <2>6, <2>7, Zenon DEF e
  <2>9. Sends(Count(submitted), Count(submitted + 1), SenderPath, SenderPath')
    BY <1>0, <2>8, SendsNext
  <2> QED
    BY <2>1, <2>9 DEF TelemetryPasses, e
<1>6. CASE SenderHead
  BY <1>1, <1>6 DEF SenderHead, SenderPath
<1>7. CASE SenderPop
  <2>1. CASE t_running /\ t_queue # <<>>
    <3>1. <<Head(t_queue)>> \o Tail(t_queue) = t_queue
      BY <1>0, <2>1
    <3> QED
      BY <1>1, <1>7, <2>1, <3>1 DEF SenderPop, SenderPath
  <2>2. CASE ~(t_running /\ t_queue # <<>>)
    BY <1>1, <1>7, <2>2 DEF SenderPop, SenderPath
  <2> QED
    BY <2>1, <2>2
<1>8. CASE SenderSend
  <2>1. /\ SenderPath = <<t_item>> \o t_queue /\ SenderPath' = t_queue /\ submitted' = submitted
        /\ received' = received \/ received' = Append(received, t_item)
    BY <1>8 DEF SenderSend, SenderPath
  <2>2. LeftOf(SenderPath', SenderPath) /\ Delivers(SenderPath, SenderPath', t_item)
    BY <1>0, <2>1, HeadLeaves, Zenon
  <2> QED
    BY <2>1, <2>2 DEF TelemetryPasses
<1>9. CASE PeerChanges
  BY <1>1, <1>9 DEF PeerChanges, SenderPath
<1>10. CASE UNCHANGED t_vars
  BY <1>1, <1>10 DEF t_vars, SenderPath
<1> QED
  BY <1>2, <1>3, <1>4, <1>5, <1>6, <1>7, <1>8, <1>9, <1>10 DEF SenderNext, SenderThread

LEMMA TelemetryMapsSteps ==
    ASSUME TelemetryPasses
    PROVE  TelemetryChannel!Send \/ TelemetryChannel!Lose \/ TelemetryChannel!Deliver
  BY DEF TelemetryPasses, Sends, Delivers, Count, IsStrictPrefix, IsPrefix, LeftOf,
     TelemetryChannel!Send, TelemetryChannel!Lose, TelemetryChannel!Deliver,
     TelemetryChannel!LeftOf, TelemetryChannel!IsStrictPrefix, TelemetryChannel!IsPrefix

-----------------------------------------------------------------------------
(* The video path.                                                           *)

Datagrams ==
    {d \in [id : Nat, bytes : Nat, idx : Nat, count : Nat, pic : Nat \ {0}] : d.idx < d.count}

StreamerTypeOK ==
    /\ v_running \in BOOLEAN /\ v_submits \in Nat /\ v_slot \in Nat /\ frame_id_ \in Nat
    /\ v_restarts \in Nat /\ air \subseteq Datagrams

\* While a JPEG is sent, its next fragment is one of its fragments.
StreamerControl ==
    /\ v_owner = "idle" /\ ~v_running => v_worker = "none"
    /\ v_worker = "send" =>
          /\ v_jpeg \in [pic : Nat \ {0}, id : Nat, bytes : JpegSizes, next : Nat]
          /\ v_jpeg.next < chunkCount(v_jpeg.bytes)

\* Until the Pi restarts a frame number stands for one picture.
NumbersAreFresh ==
    v_restarts = 0 =>
        /\ \A d \in air : d.id < frame_id_
        /\ v_worker = "send" => v_jpeg.id < frame_id_
        /\ \A d, e \in air : d.id = e.id => d.pic = e.pic
        /\ \A d \in air : v_worker = "send" /\ d.id = v_jpeg.id => d.pic = v_jpeg.pic

StreamerInv == StreamerOK /\ StreamerTypeOK /\ StreamerControl /\ NumbersAreFresh

LEMMA ChunksAreCounted ==
    ASSUME NEW b \in JpegSizes
    PROVE  chunkCount(b) \in Nat \ {0}
<1>1. b \in Nat \ {0} /\ maxPayload \in Nat \ {0}
  BY StreamerAssumption
<1>2. \A a \in Nat, m \in Nat \ {0} : a >= m => a \div m \in Nat /\ a \div m >= 1
  <2> SUFFICES ASSUME NEW a \in Nat, NEW m \in Nat \ {0}, a >= m
               PROVE  a \div m \in Nat /\ a \div m >= 1
    OBVIOUS
  <2>1. a = m * (a \div m) + (a % m) /\ a % m \in 0..(m - 1) /\ a \div m \in Int
    OBVIOUS
  <2>2. CASE a \div m >= 1
    BY <2>1, <2>2
  <2>3. CASE a \div m <= 0
    <3>1. m * (a \div m) <= 0
      BY <2>1, <2>3
    <3> QED
      BY <2>1, <3>1
  <2> QED
    BY <2>1, <2>2, <2>3
<1>3. b + maxPayload - 1 \in Nat /\ b + maxPayload - 1 >= maxPayload
  BY <1>1
<1> QED
  BY <1>1, <1>2, <1>3 DEF chunkCount

LEMMA StreamerInitially == StreamerInit => StreamerInv
<1> SUFFICES ASSUME StreamerInit PROVE StreamerInv
  OBVIOUS
<1>1. v_running \in BOOLEAN
  BY DEF StreamerInit
<1>2. StreamerTypeOK
  BY <1>1 DEF StreamerInit, StreamerTypeOK
<1>3. StreamerControl
  BY DEF StreamerInit, StreamerControl
<1>4. StreamerOK
  BY DEF StreamerInit, StreamerOK
<1>5. NumbersAreFresh
  BY DEF StreamerInit, NumbersAreFresh
<1> QED
  BY <1>2, <1>3, <1>4, <1>5 DEF StreamerInv

LEMMA StreamerStep ==
    ASSUME StreamerInv, [StreamerNext]_v_vars
    PROVE  StreamerOK' /\ StreamerTypeOK' /\ StreamerControl'
<1> USE DEF StreamerInv
<1>1. CASE v_start
  <2> USE <1>1 DEF v_start, v_counts, v_out
  <2>1. StreamerTypeOK'
    BY DEF StreamerTypeOK
  <2>2. StreamerControl'
    BY DEF StreamerControl
  <2>3. StreamerOK'
    BY DEF StreamerOK
  <2> QED
    BY <2>1, <2>2, <2>3
<1>2. CASE v_stop
  <2> USE <1>2 DEF v_stop, v_counts, v_out
  <2>1. StreamerTypeOK'
    BY DEF StreamerTypeOK
  <2>2. StreamerControl'
    BY DEF StreamerControl, chunkCount
  <2>3. StreamerOK'
    BY DEF StreamerOK, StreamerControl
  <2> QED
    BY <2>1, <2>2, <2>3
<1>3. CASE v_joined
  <2> USE <1>3 DEF v_joined, v_counts, v_out
  <2>1. StreamerTypeOK'
    BY DEF StreamerTypeOK
  <2>2. StreamerControl'
    BY DEF StreamerControl, chunkCount
  <2>3. StreamerOK'
    BY DEF StreamerOK, StreamerControl, StreamerTypeOK
  <2> QED
    BY <2>1, <2>2, <2>3
<1>4. CASE submit
  <2> USE <1>4 DEF submit, v_control, v_out
  <2>1. StreamerTypeOK'
    BY DEF StreamerTypeOK
  <2>2. StreamerControl'
    BY DEF StreamerControl, chunkCount
  <2>3. StreamerOK'
    BY DEF StreamerOK, StreamerControl, StreamerTypeOK
  <2> QED
    BY <2>1, <2>2, <2>3
<1>5. CASE WaitEnds
  <2> USE <1>5 DEF WaitEnds, v_control, v_counts, v_out
  <2>1. StreamerTypeOK'
    BY DEF StreamerTypeOK
  <2>2. StreamerControl'
    BY DEF StreamerControl, StreamerOK
  <2>3. StreamerOK'
    BY DEF StreamerOK, StreamerControl, StreamerTypeOK
  <2> QED
    BY <2>1, <2>2, <2>3
<1>6. CASE TakeFrame
  <2>1. StreamerTypeOK'
    BY <1>6 DEF TakeFrame, v_control, v_counts, StreamerTypeOK
  <2>2. StreamerControl'
    <3>1. ASSUME v_worker' = "send"
          PROVE  /\ v_jpeg' \in [pic : Nat \ {0}, id : Nat, bytes : JpegSizes, next : Nat]
                 /\ v_jpeg'.next < chunkCount(v_jpeg'.bytes)
      <4>1. PICK b \in JpegSizes :
               v_jpeg' = [pic |-> v_slot, id |-> frame_id_, bytes |-> b, next |-> 0]
        BY <1>6, <3>1 DEF TakeFrame
      <4>2. v_slot \in Nat \ {0} /\ frame_id_ \in Nat
        BY <1>6, <3>1 DEF TakeFrame, StreamerTypeOK
      <4>3. 0 < chunkCount(b)
        BY ChunksAreCounted
      <4> QED
        BY <4>1, <4>2, <4>3
    <3>2. v_owner' = "idle" /\ ~v_running' => v_worker' = "none"
      BY <1>6 DEF TakeFrame, v_control, StreamerControl
    <3> QED
      BY <3>1, <3>2 DEF StreamerControl, chunkCount
  <2>3. StreamerOK'
    BY <1>6 DEF TakeFrame, v_control, v_counts, StreamerOK, StreamerTypeOK
  <2> QED
    BY <2>1, <2>2, <2>3
<1>7. CASE sendJpeg
  <2> DEFINE d == [id |-> v_jpeg.id, bytes |-> v_jpeg.bytes, idx |-> v_jpeg.next,
                   count |-> chunkCount(v_jpeg.bytes), pic |-> v_jpeg.pic]
  <2>1. /\ v_jpeg \in [pic : Nat \ {0}, id : Nat, bytes : JpegSizes, next : Nat]
        /\ v_jpeg.next < chunkCount(v_jpeg.bytes)
    BY <1>7 DEF sendJpeg, StreamerControl
  <2>2. d \in Datagrams
    <3>1. v_jpeg.bytes \in JpegSizes /\ v_jpeg.bytes \in Nat
      BY <2>1, StreamerAssumption
    <3>2. chunkCount(v_jpeg.bytes) \in Nat
      BY <3>1, ChunksAreCounted
    <3> QED
      BY <2>1, <3>1, <3>2 DEF Datagrams
  <2>3. air' = air \cup {d}
    BY <1>7 DEF sendJpeg
  <2>4. StreamerTypeOK'
    BY <1>7, <2>2, <2>3 DEF sendJpeg, v_control, v_counts, StreamerTypeOK
  <2>5. StreamerControl'
    <3>1. ASSUME v_worker' = "send"
          PROVE  /\ v_jpeg' \in [pic : Nat \ {0}, id : Nat, bytes : JpegSizes, next : Nat]
                 /\ v_jpeg'.next < chunkCount(v_jpeg'.bytes)
      <4>1. v_jpeg' = [v_jpeg EXCEPT !.next = @ + 1]
            /\ v_jpeg.next + 1 < chunkCount(v_jpeg.bytes)
        BY <1>7, <3>1 DEF sendJpeg
      <4> QED
        BY <2>1, <4>1
    <3>2. v_owner' = "idle" /\ ~v_running' => v_worker' = "none"
      BY <1>7 DEF sendJpeg, v_control, StreamerControl
    <3> QED
      BY <3>1, <3>2 DEF StreamerControl, chunkCount
  <2>6. StreamerOK'
    BY <1>7 DEF sendJpeg, v_control, v_counts, StreamerOK
  <2> QED
    BY <2>4, <2>5, <2>6
<1>8. CASE PiRestarts
  <2> USE <1>8 DEF PiRestarts
  <2>1. v_running' \in BOOLEAN
    OBVIOUS
  <2>2. StreamerTypeOK'
    BY <2>1 DEF StreamerTypeOK
  <2>3. StreamerControl'
    BY DEF StreamerControl
  <2>4. StreamerOK'
    BY DEF StreamerOK, StreamerTypeOK
  <2> QED
    BY <2>2, <2>3, <2>4
<1>9. CASE UNCHANGED v_vars
  <2> USE <1>9 DEF v_vars, v_control, v_counts, v_out
  <2>1. StreamerTypeOK'
    BY DEF StreamerTypeOK
  <2>2. StreamerControl'
    BY DEF StreamerControl, chunkCount
  <2>3. StreamerOK'
    BY DEF StreamerOK
  <2> QED
    BY <2>1, <2>2, <2>3
<1> QED
  BY <1>1, <1>2, <1>3, <1>4, <1>5, <1>6, <1>7, <1>8, <1>9 DEF StreamerNext, StreamerThread

LEMMA NumbersStayFresh ==
    ASSUME StreamerInv, [StreamerNext]_v_vars
    PROVE  NumbersAreFresh'
<1> SUFFICES ASSUME v_restarts' = 0
             PROVE  /\ \A d \in air' : d.id < frame_id_'
                    /\ v_worker' = "send" => v_jpeg'.id < frame_id_'
                    /\ \A d, e \in air' : d.id = e.id => d.pic = e.pic
                    /\ \A d \in air' :
                          v_worker' = "send" /\ d.id = v_jpeg'.id => d.pic = v_jpeg'.pic
  BY DEF NumbersAreFresh
<1>1. v_restarts \in Nat /\ frame_id_ \in Nat /\ \A d \in air : d.id \in Nat
  BY DEF StreamerInv, StreamerTypeOK, Datagrams
<1>2. ~PiRestarts
  BY <1>1 DEF PiRestarts
<1>3. v_restarts = 0
  BY <1>2 DEF StreamerNext, StreamerThread, v_vars, v_counts, v_start, v_stop, v_joined,
     submit, WaitEnds, TakeFrame, sendJpeg
<1>4. /\ \A d \in air : d.id < frame_id_
      /\ v_worker = "send" => v_jpeg.id < frame_id_
      /\ \A d, e \in air : d.id = e.id => d.pic = e.pic
      /\ \A d \in air : v_worker = "send" /\ d.id = v_jpeg.id => d.pic = v_jpeg.pic
  BY <1>3 DEF StreamerInv, NumbersAreFresh
<1>5. ASSUME UNCHANGED <<air, frame_id_, v_jpeg>>, v_worker' = "send" => v_worker = "send"
      PROVE  /\ \A d \in air' : d.id < frame_id_'
             /\ v_worker' = "send" => v_jpeg'.id < frame_id_'
             /\ \A d, e \in air' : d.id = e.id => d.pic = e.pic
             /\ \A d \in air' :
                   v_worker' = "send" /\ d.id = v_jpeg'.id => d.pic = v_jpeg'.pic
  BY <1>4, <1>5
<1>6. CASE v_start \/ v_stop \/ v_joined \/ submit
  BY <1>5, <1>6 DEF v_start, v_stop, v_joined, submit, v_out
<1>7. CASE WaitEnds
  BY <1>5, <1>7 DEF WaitEnds, v_out
<1>8. CASE TakeFrame
  <2>1. CASE v_worker' = "waiting" /\ UNCHANGED <<frame_id_, v_jpeg>>
    BY <1>4, <1>8, <2>1 DEF TakeFrame
  <2>2. CASE v_worker' = "send" /\ frame_id_' = frame_id_ + 1 /\ v_jpeg'.id = frame_id_
    <3>1. air' = air
      BY <1>8 DEF TakeFrame
    <3> QED
      BY <1>1, <1>4, <2>2, <3>1
  <2> QED
    BY <1>8, <2>1, <2>2 DEF TakeFrame
<1>9. CASE sendJpeg
  <2> DEFINE d == [id |-> v_jpeg.id, bytes |-> v_jpeg.bytes, idx |-> v_jpeg.next,
                   count |-> chunkCount(v_jpeg.bytes), pic |-> v_jpeg.pic]
  <2>1. /\ v_worker = "send" /\ air' = air \cup {d} /\ frame_id_' = frame_id_
        /\ v_jpeg \in [pic : Nat \ {0}, id : Nat, bytes : JpegSizes, next : Nat]
    BY <1>9 DEF sendJpeg, StreamerInv, StreamerControl
  <2>2. v_worker' = "send" => v_jpeg'.id = v_jpeg.id /\ v_jpeg'.pic = v_jpeg.pic
    <3>1. v_worker' = "send" => v_jpeg' = [v_jpeg EXCEPT !.next = @ + 1]
      BY <1>9 DEF sendJpeg
    <3> QED
      BY <2>1, <3>1
  <2>3. d.id = v_jpeg.id /\ d.pic = v_jpeg.pic
    OBVIOUS
  <2> HIDE DEF d
  <2> QED
    BY <1>4, <2>1, <2>2, <2>3
<1>10. CASE UNCHANGED v_vars
  BY <1>5, <1>10 DEF v_vars, v_out
<1> QED
  BY <1>2, <1>6, <1>7, <1>8, <1>9, <1>10 DEF StreamerNext, StreamerThread

LEMMA AirGrows ==
    ASSUME [StreamerNext]_v_vars
    PROVE  air \subseteq air'
<1>1. CASE PiRestarts
  BY <1>1 DEF PiRestarts
<1>2. CASE sendJpeg
  BY <1>2 DEF sendJpeg
<1>3. CASE v_start \/ v_stop \/ v_joined
  BY <1>3 DEF v_start, v_stop, v_joined, v_out
<1>4. CASE submit \/ WaitEnds \/ TakeFrame
  BY <1>4 DEF submit, WaitEnds, TakeFrame, v_out
<1>5. CASE UNCHANGED v_vars
  BY <1>5 DEF v_vars, v_out
<1> QED
  BY <1>1, <1>2, <1>3, <1>4, <1>5 DEF StreamerNext, StreamerThread

\* Picture p's chunk i was sent in a datagram of A that announces frame id of b bytes
\* in c chunks.
Sent(A, id, b, c, i, p) ==
    \E d \in A : d.id = id /\ d.bytes = b /\ d.count = c /\ d.idx = i /\ d.pic = p

\* f is frame id of b bytes in c chunks, of which those in g have come: chunks are
\* counted once each, and those that came hold what was sent for their places.
Builds(A, f, id, b, c, g, j, o) ==
    /\ b \in Nat /\ c \in Nat /\ g \in SUBSET (0..(c - 1)) /\ j \in [0..(c - 1) -> Nat]
    /\ f = [bytes |-> b, count |-> c, gotCount |-> Cardinality(g), got |-> g,
            jpeg |-> j, old |-> o]
    /\ \A i \in g : Sent(A, id, b, c, i, j[i])

IsBuilding(A, f, id) == \E b, c, g, j, o : Builds(A, f, id, b, c, g, j, o)

\* A finite number of them, each incomplete.
FramesOK(A, fs) ==
    /\ IsFiniteSet(DOMAIN fs)
    /\ \A id \in DOMAIN fs : IsBuilding(A, fs[id], id) /\ fs[id].got # 0..(fs[id].count - 1)

\* Each chunk shown was sent for its place of the frame.
ShownSent ==
    \A i \in DOMAIN shown.of :
        Sent(air, shown.id, shown.bytes, Cardinality(DOMAIN shown.of), i, shown.of[i])

ReceiverInv ==
    /\ FramesOK(air, frames) /\ Cardinality(DOMAIN frames) <= FrameCap
    /\ r_thread # "recv" => frames = <<>>
    /\ ShownSent

\* What was sent stays sent.
LEMMA ReceiverStays ==
    ASSUME ReceiverInv, air \subseteq air', UNCHANGED <<r_thread, frames, shown>>
    PROVE  ReceiverInv'
<1>1. \A id, b, c, i, p : Sent(air, id, b, c, i, p) => Sent(air', id, b, c, i, p)
  BY DEF Sent
<1>2. \A f, id, b, c, g, j, o :
          Builds(air, f, id, b, c, g, j, o) => Builds(air', f, id, b, c, g, j, o)
  BY <1>1 DEF Builds
<1>3. \A f, id : IsBuilding(air, f, id) => IsBuilding(air', f, id)
  BY <1>2 DEF IsBuilding
<1>4. FramesOK(air', frames)
  BY <1>3 DEF ReceiverInv, FramesOK
<1>5. ShownSent'
  BY <1>1 DEF ReceiverInv, ShownSent
<1> QED
  BY <1>4, <1>5 DEF ReceiverInv

LEMMA BuildingCounts ==
    ASSUME NEW A, NEW f, NEW id, IsBuilding(A, f, id)
    PROVE  f.gotCount = Cardinality(f.got)
  BY DEF IsBuilding, Builds

LEMMA ReceiverIsOK == ReceiverInv => ReassemblyOK
  BY BuildingCounts DEF ReceiverInv, FramesOK, ReassemblyOK

\* Chunks received number as many as announced only when they are all there.
LEMMA AllChunks ==
    ASSUME NEW c \in Nat, NEW g \in SUBSET (0..(c - 1))
    PROVE  /\ IsFiniteSet(g) /\ Cardinality(g) \in Nat
           /\ Cardinality(g) = c <=> g = 0..(c - 1)
           /\ Cardinality(0..(c - 1)) = c
<1>1. IsFiniteSet(0..(c - 1)) /\ Cardinality(0..(c - 1)) = c
  <2>1. 0 \in Int /\ c - 1 \in Int
    OBVIOUS
  <2>2. IsFiniteSet(0..(c - 1))
        /\ Cardinality(0..(c - 1)) = IF 0 > c - 1 THEN 0 ELSE (c - 1) - 0 + 1
    BY <2>1, FS_Interval
  <2> QED
    BY <2>2
<1>2. IsFiniteSet(g) /\ (Cardinality(0..(c - 1)) = Cardinality(g) => 0..(c - 1) = g)
  BY <1>1, FS_Subset
<1>3. Cardinality(g) \in Nat
  BY <1>2, FS_CardinalityType
<1> QED
  BY <1>1, <1>2, <1>3

\* A datagram is stored in a frame under construction: its own, or a new one.
LEMMA StoredIsBuilding ==
    ASSUME FramesOK(air, frames), NEW d \in Datagrams, d \in air
    PROVE  IsBuilding(air, Stored(d), d.id)
<1> DEFINE e == EntryFor(d)
<1>1. /\ d.count \in Nat /\ d.bytes \in Nat /\ d.idx \in 0..(d.count - 1)
      /\ d.pic \in Nat /\ d.pic # 0
  BY DEF Datagrams
<1>2. IsBuilding(air, e, d.id) /\ e.count = d.count /\ e.bytes = d.bytes
  <2>1. CASE d.id \in DOMAIN frames /\ frames[d.id].bytes = d.bytes
             /\ frames[d.id].count = d.count
    BY <2>1 DEF EntryFor, FramesOK
  <2>2. CASE ~(d.id \in DOMAIN frames /\ frames[d.id].bytes = d.bytes
               /\ frames[d.id].count = d.count)
    <3>1. e = Fresh(d)
      BY <2>2 DEF EntryFor
    <3>2. Builds(air, Fresh(d), d.id, d.bytes, d.count, {}, [i \in 0..(d.count - 1) |-> 0], FALSE)
      BY <1>1, FS_EmptySet DEF Fresh, Builds
    <3>3. IsBuilding(air, Fresh(d), d.id)
      BY <3>2 DEF IsBuilding
    <3> QED
      BY <3>1, <3>3 DEF Fresh
  <2> QED
    BY <2>1, <2>2
<1>3. PICK b, c, g, j, o : Builds(air, e, d.id, b, c, g, j, o)
  BY <1>2 DEF IsBuilding
<1> DEFINE k == g \cup {d.idx}
           p == [j EXCEPT ![d.idx] = d.pic]
<1>4. c = d.count /\ b = d.bytes
  BY <1>2, <1>3 DEF Builds
<1>5. Stored(d) = [bytes |-> b, count |-> c, gotCount |-> Cardinality(k), got |-> k,
                    jpeg |-> p, old |-> FALSE]
  <2>1. IsFiniteSet(g)
    BY <1>3, AllChunks DEF Builds
  <2>2. Cardinality(k) = IF d.idx \in g THEN Cardinality(g) ELSE Cardinality(g) + 1
    BY <2>1, FS_AddElement
  <2>3. Stored(d) = [e EXCEPT !.gotCount = IF d.idx \in e.got THEN @ ELSE @ + 1,
                              !.got = @ \cup {d.idx}, !.jpeg[d.idx] = d.pic, !.old = FALSE]
    BY DEF Stored
  <2> HIDE DEF e
  <2> QED
    BY <1>3, <2>2, <2>3 DEF Builds
<1>6. /\ b \in Nat /\ c \in Nat /\ k \in SUBSET (0..(c - 1)) /\ p \in [0..(c - 1) -> Nat]
      /\ \A i \in k : p[i] = IF i = d.idx THEN d.pic ELSE j[i]
  BY <1>1, <1>3, <1>4 DEF Builds
<1>8. \A i \in k : Sent(air, d.id, b, c, i, p[i])
  <2>1. Sent(air, d.id, b, c, d.idx, d.pic)
    BY <1>4 DEF Sent
  <2>2. \A i \in g : Sent(air, d.id, b, c, i, j[i])
    BY <1>3 DEF Builds
  <2>3. \A i \in k : i = d.idx \/ i \in g
    OBVIOUS
  <2> HIDE DEF p, k
  <2> QED
    BY <1>6, <2>1, <2>2, <2>3
<1> HIDE DEF k, p, e
<1>7. Builds(air, Stored(d), d.id, b, c, k, p, FALSE)
  BY <1>5, <1>6, <1>8 DEF Builds
<1> QED
  BY <1>7 DEF IsBuilding

\* The cleanup keeps some frames or none, and no more than the cap.
LEMMA CleanedIsOK ==
    ASSUME NEW A, NEW fs, FramesOK(A, fs)
    PROVE  FramesOK(A, cleanupOld(fs)) /\ Cardinality(DOMAIN cleanupOld(fs)) <= FrameCap
<1> DEFINE kept == {id \in DOMAIN fs : ~fs[id].old}
<1>1. IsFiniteSet(kept) /\ Cardinality(kept) \in Nat
  <2>1. kept \in SUBSET (DOMAIN fs) /\ IsFiniteSet(DOMAIN fs)
    BY DEF FramesOK
  <2>2. IsFiniteSet(kept)
    BY <2>1, FS_Subset
  <2> QED
    BY <2>2, FS_CardinalityType
<1>2. CASE Cardinality(kept) > FrameCap
  <2>1. cleanupOld(fs) = <<>>
    BY <1>2 DEF cleanupOld
  <2>2. DOMAIN cleanupOld(fs) = {}
    BY <2>1
  <2> QED
    BY <2>2, FS_EmptySet, ReceiverCapAssumption DEF FramesOK
<1>3. CASE ~(Cardinality(kept) > FrameCap)
  <2>1. cleanupOld(fs) = [id \in kept |-> fs[id]]
    BY <1>3 DEF cleanupOld
  <2>2. DOMAIN cleanupOld(fs) = kept /\ \A id \in kept : cleanupOld(fs)[id] = fs[id]
    BY <2>1
  <2>3. Cardinality(kept) <= FrameCap
    BY <1>1, <1>3, ReceiverCapAssumption
  <2> QED
    BY <1>1, <2>2, <2>3 DEF FramesOK
<1> QED
  BY <1>2, <1>3

LEMMA FragmentStep ==
    ASSUME ReceiverInv, NEW d \in Datagrams, d \in air, HandleFragment(d), air' = air
    PROVE  ReceiverInv'
<1> DEFINE st == Stored(d)
           others == DOMAIN frames \ {d.id}
<1>1. IsBuilding(air, st, d.id)
  BY StoredIsBuilding DEF ReceiverInv
<1>2. IsFiniteSet(others) /\ IsFiniteSet(others \cup {d.id})
  <2>1. IsFiniteSet(DOMAIN frames) /\ others \in SUBSET (DOMAIN frames)
    BY DEF ReceiverInv, FramesOK
  <2>2. IsFiniteSet(others)
    BY <2>1, FS_Subset
  <2> QED
    BY <2>2, FS_AddElement
<1>3. r_thread' = "recv"
  BY DEF HandleFragment
<1>4. \A id \in others : IsBuilding(air, frames[id], id) /\ frames[id].got # 0..(frames[id].count - 1)
  BY DEF ReceiverInv, FramesOK
<1>5. CASE st.gotCount = st.count
  <2> DEFINE fs == [id \in others |-> frames[id]]
  <2>1. shown' = [id |-> d.id, bytes |-> st.bytes, of |-> st.jpeg] /\ frames' = cleanupOld(fs)
    BY <1>5 DEF HandleFragment
  <2>2. FramesOK(air, fs)
    BY <1>2, <1>4 DEF FramesOK
  <2>3. FramesOK(air, frames') /\ Cardinality(DOMAIN frames') <= FrameCap
    <3> HIDE DEF fs
    <3> QED
      BY <2>1, <2>2, CleanedIsOK
  <2>4. ShownSent'
    <3>1. PICK b, c, g, j, o : Builds(air, st, d.id, b, c, g, j, o)
      BY <1>1 DEF IsBuilding
    <3>2. Cardinality(g) = c /\ st.jpeg = j /\ st.bytes = b
      BY <1>5, <3>1 DEF Builds
    <3>3. g = 0..(c - 1) /\ Cardinality(0..(c - 1)) = c
      BY <3>1, <3>2, AllChunks DEF Builds
    <3>4. shown'.of = j /\ shown'.id = d.id /\ shown'.bytes = b
      BY <2>1, <3>2
    <3>5. DOMAIN j = 0..(c - 1) /\ \A i \in g : Sent(air, d.id, b, c, i, j[i])
      BY <3>1 DEF Builds
    <3> QED
      BY <3>3, <3>4, <3>5 DEF ShownSent
  <2> QED
    BY <1>3, <2>3, <2>4 DEF ReceiverInv
<1>6. CASE st.gotCount # st.count
  <2> DEFINE fs == [id \in others \cup {d.id} |-> IF id = d.id THEN st ELSE frames[id]]
  <2>1. shown' = shown /\ frames' = cleanupOld(fs)
    BY <1>6 DEF HandleFragment
  <2>2. st.got # 0..(st.count - 1)
    <3>1. PICK b, c, g, j, o : Builds(air, st, d.id, b, c, g, j, o)
      BY <1>1 DEF IsBuilding
    <3>2. st.gotCount = Cardinality(g) /\ st.count = c /\ st.got = g
      BY <3>1 DEF Builds
    <3> QED
      BY <1>6, <3>1, <3>2, AllChunks DEF Builds
  <2>3. FramesOK(air, fs)
    BY <1>1, <1>2, <1>4, <2>2 DEF FramesOK
  <2>4. FramesOK(air, frames') /\ Cardinality(DOMAIN frames') <= FrameCap
    <3> HIDE DEF fs
    <3> QED
      BY <2>1, <2>3, CleanedIsOK
  <2> QED
    BY <1>3, <2>1, <2>4 DEF ReceiverInv, ShownSent
<1> QED
  BY <1>5, <1>6

LEMMA NoFrames == FramesOK(air, <<>>) /\ Cardinality(DOMAIN <<>>) <= FrameCap
<1>1. DOMAIN <<>> = {}
  OBVIOUS
<1> QED
  BY <1>1, FS_EmptySet, ReceiverCapAssumption DEF FramesOK

LEMMA ReceiverInitially == VideoReceiverInit => ReceiverInv
<1> SUFFICES ASSUME VideoReceiverInit PROVE ReceiverInv
  OBVIOUS
<1>1. shown.of = <<>>
  BY DEF VideoReceiverInit, NothingShown
<1>2. ShownSent
  BY <1>1 DEF ShownSent
<1>3. frames = <<>>
  BY DEF VideoReceiverInit
<1> QED
  BY <1>2, <1>3, NoFrames DEF ReceiverInv

LEMMA TimePasses ==
    ASSUME ReceiverInv, HalfASecond, air' = air
    PROVE  ReceiverInv'
<1>1. /\ DOMAIN frames' = DOMAIN frames
      /\ \A id \in DOMAIN frames : frames'[id] = [frames[id] EXCEPT !.old = TRUE]
      /\ r_thread' = "recv" /\ shown' = shown
  BY DEF HalfASecond, r_control
<1>2. ASSUME NEW id \in DOMAIN frames
      PROVE  IsBuilding(air, frames'[id], id) /\ frames'[id].got # 0..(frames'[id].count - 1)
  <2>1. IsBuilding(air, frames[id], id) /\ frames[id].got # 0..(frames[id].count - 1)
    BY <1>2 DEF ReceiverInv, FramesOK
  <2>2. PICK b, c, g, j, o : Builds(air, frames[id], id, b, c, g, j, o)
    BY <2>1 DEF IsBuilding
  <2>3. Builds(air, frames'[id], id, b, c, g, j, TRUE)
    BY <1>1, <1>2, <2>2 DEF Builds
  <2>4. frames'[id].got = frames[id].got /\ frames'[id].count = frames[id].count
    BY <2>2, <2>3 DEF Builds
  <2> QED
    BY <2>1, <2>2, <2>3, <2>4 DEF IsBuilding
<1> QED
  BY <1>1, <1>2 DEF ReceiverInv, FramesOK, ShownSent

VideoInv == StreamerInv /\ ReceiverInv

LEMMA VideoStep ==
    ASSUME VideoInv, [VideoNext]_video_vars
    PROVE  VideoInv'
<1>1. StreamerInv'
  BY StreamerStep, NumbersStayFresh
     DEF VideoInv, VideoNext, Streamer, Receiver, FragmentArrives, video_vars, StreamerInv
<1>2. ReceiverInv'
  <2> USE DEF VideoInv
  <2>1. ASSUME UNCHANGED v_vars
        PROVE  air' = air
    BY <2>1 DEF v_vars, v_out
  <2>2. CASE Streamer(StreamerNext)
    BY <2>2, AirGrows, ReceiverStays DEF Streamer, r_vars, r_control
  <2>3. CASE FragmentArrives
    BY <2>1, <2>3, FragmentStep DEF FragmentArrives, StreamerInv, StreamerTypeOK
  <2>4. ASSUME UNCHANGED v_vars, r_start \/ OpenSocket \/ r_joined
        PROVE  ReceiverInv'
    BY <2>1, <2>4 DEF r_start, OpenSocket, r_joined, ReceiverInv, ShownSent
  <2>5. ASSUME UNCHANGED v_vars, r_stop
        PROVE  ReceiverInv'
    BY <2>1, <2>5, ReceiverStays DEF r_stop
  <2>7. ASSUME UNCHANGED v_vars, LoopEnds
        PROVE  ReceiverInv'
    BY <2>1, <2>7, NoFrames DEF LoopEnds, ReceiverInv, ShownSent
  <2>8. ASSUME UNCHANGED v_vars, HalfASecond
        PROVE  ReceiverInv'
    BY <2>1, <2>8, TimePasses
  <2>9. CASE UNCHANGED video_vars
    BY <2>1, <2>9, ReceiverStays DEF video_vars, r_vars, r_control
  <2> QED
    BY <2>2, <2>3, <2>4, <2>5, <2>7, <2>8, <2>9 DEF VideoNext, Receiver, ReceiverThread
<1> QED
  BY <1>1, <1>2 DEF VideoInv

\* While no number stands for two pictures, the chunks of a number are of one.
LEMMA VideoIsWhole == VideoInv => ShownWhole
<1> SUFFICES ASSUME VideoInv PROVE ShownWhole
  OBVIOUS
<1>1. \A i \in DOMAIN shown.of : \E d \in air :
          /\ d.id = shown.id /\ d.bytes = shown.bytes /\ d.idx = i
          /\ d.count = Cardinality(DOMAIN shown.of) /\ d.pic = shown.of[i]
  BY DEF VideoInv, ReceiverInv, ShownSent, Sent
<1>2. ASSUME v_restarts = 0, NEW i \in DOMAIN shown.of, NEW j \in DOMAIN shown.of
      PROVE  shown.of[i] = shown.of[j]
  <2>1. PICK d \in air : d.id = shown.id /\ d.pic = shown.of[i]
    BY <1>1
  <2>2. PICK e \in air : e.id = shown.id /\ e.pic = shown.of[j]
    BY <1>1
  <2>3. \A x, y \in air : x.id = y.id => x.pic = y.pic
    BY <1>2 DEF VideoInv, StreamerInv, NumbersAreFresh
  <2>4. d.pic = e.pic
    BY <2>1, <2>2, <2>3
  <2> QED
    BY <2>1, <2>2, <2>4
<1> QED
  BY <1>1, <1>2 DEF ShownWhole

-----------------------------------------------------------------------------
(* The services side by side.                                                *)

ServicesInv == BoardInv /\ WorkerInv /\ UartInv /\ SenderInv /\ VideoInv

LEMMA ServicesInitially == ServicesInit => ServicesInv
<1> SUFFICES ASSUME ServicesInit PROVE ServicesInv
  OBVIOUS
<1>1. BoardInv /\ WorkerInv /\ UartInv /\ SenderInv
  BY BoardInitially, WorkerInitially, UartInitially, SenderInitially DEF ServicesInit
<1>2. VideoInv
  BY StreamerInitially, ReceiverInitially DEF ServicesInit, VideoInit, VideoInv
<1> QED
  BY <1>1, <1>2 DEF ServicesInv

\* Whichever service steps, the others rest.
LEMMA OneServiceSteps ==
    ASSUME [ServicesNext]_services_vars
    PROVE  /\ [BoardNext]_board_vars /\ [WorkerNext]_iw_vars /\ [UartNext]_u_vars
           /\ [SenderNext]_t_vars /\ [VideoNext]_video_vars
  BY DEF ServicesNext, services_vars, Servo, Inference, Uart, Telemetry, Video

LEMMA ServicesStep == ServicesInv /\ [ServicesNext]_services_vars => ServicesInv'
<1> SUFFICES ASSUME ServicesInv, [ServicesNext]_services_vars PROVE ServicesInv'
  OBVIOUS
<1> QED
  BY OneServiceSteps, BoardStep, WorkerStep, UartStep, SenderStep, VideoStep DEF ServicesInv

LEMMA ServicesInvImplies == ServicesInv => ServicesOK /\ ShownWhole
  BY ReceiverIsOK, VideoIsWhole
     DEF ServicesInv, ServicesOK, BoardInv, WorkerInv, UartInv, SenderInv, VideoInv,
         StreamerInv, ReceiverInv

LEMMA ServicesAlways == ServicesSpec => []ServicesInv
<1>1. ServicesInit => ServicesInv
  BY ServicesInitially
<1>2. ServicesInv /\ [ServicesNext]_services_vars => ServicesInv'
  BY ServicesStep
<1> QED
  BY <1>1, <1>2, PTL DEF ServicesSpec

\* The servos stay inside their limits, the queues and the frames under construction
\* within their bounds, and every thread has an owner who knows of it.
THEOREM ServicesInvariant == ServicesSpec => []ServicesOK
  BY ServicesAlways, ServicesInvImplies, PTL

\* Whatever datagrams are lost, late or doubled and whenever the Pi restarts: each chunk
\* of a picture on the PC's screen was sent for that place of a frame of that number and
\* size, so that no part is missing; and until the Pi restarts, which lets it use a number
\* and a size again, the chunks all are of one picture.
THEOREM PicturesAreWhole == ServicesSpec => []ShownWhole
  BY ServicesAlways, ServicesInvImplies, PTL

LEMMA ChannelsInitially ==
    ServicesInit => /\ CommandChannel!ChannelInit /\ UartChannel!ChannelInit
                    /\ TelemetryChannel!ChannelInit
<1> SUFFICES ASSUME ServicesInit
             PROVE  /\ CommandChannel!ChannelInit /\ UartChannel!ChannelInit
                    /\ TelemetryChannel!ChannelInit
  OBVIOUS
<1>1. CommandChannel!ChannelInit
  <2>1. inputString = <<>> /\ arriving = <<>> /\ lines = <<>> /\ obeyed = <<>>
    BY DEF ServicesInit, BoardInit
  <2>2. inputString \o arriving = <<>>
    BY <2>1
  <2>3. Begun(<<>>) = <<>>
    BY OnlyOfEmpty DEF Begun
  <2>4. LinesObeyed = <<>>
    BY <2>1 DEF LinesObeyed
  <2> QED
    BY <2>1, <2>2, <2>3, <2>4 DEF CommandChannel!ChannelInit
<1>2. UartChannel!ChannelInit
  BY DEF ServicesInit, UartInit, UartPath, UartChannel!ChannelInit
<1>3. TelemetryChannel!ChannelInit
  BY DEF ServicesInit, SenderInit, SenderPath, TelemetryChannel!ChannelInit
<1> QED
  BY <1>1, <1>2, <1>3

\* Three paths, one promise: a text command to the servo board, a frame to the UART
\* and an aim result to the PC may get lost, but nothing that arrives was not sent,
\* comes twice or overtakes what was sent before it.  Each path implements the
\* lossy channel.  The servo board carries out an aim line that was cut off with less
\* of its vertical error, never with more nor the other way.
THEOREM PathsAreLossyChannels == ServicesSpec => PathsKeepOrder
<1> DEFINE CommandStep ==
               CommandChannel!Send \/ CommandChannel!Lose \/ CommandChannel!Deliver
           UartStepped == UartChannel!Send \/ UartChannel!Lose \/ UartChannel!Deliver
           TelemetryStep ==
               TelemetryChannel!Send \/ TelemetryChannel!Lose \/ TelemetryChannel!Deliver
<1>1. ServicesInv /\ [ServicesNext]_services_vars => CommandStep
  <2> SUFFICES ASSUME ServicesInv, [ServicesNext]_services_vars PROVE CommandStep
    OBVIOUS
  <2> QED
    BY OneServiceSteps, BoardKeepsPath, BoardMapsSteps DEF ServicesInv
<1>2. ServicesInv /\ [ServicesNext]_services_vars => UartStepped
  <2> SUFFICES ASSUME ServicesInv, [ServicesNext]_services_vars PROVE UartStepped
    OBVIOUS
  <2> QED
    BY OneServiceSteps, UartKeepsPath, UartMapsSteps DEF ServicesInv
<1>3. ServicesInv /\ [ServicesNext]_services_vars => TelemetryStep
  <2> SUFFICES ASSUME ServicesInv, [ServicesNext]_services_vars PROVE TelemetryStep
    OBVIOUS
  <2> QED
    BY OneServiceSteps, TelemetryKeepsPath, TelemetryMapsSteps DEF ServicesInv
<1>4. ServicesInv => NeverFurther
  BY DEF ServicesInv, BoardInv
<1> QED
  BY <1>1, <1>2, <1>3, <1>4, ServicesAlways, ChannelsInitially, PTL
     DEF ServicesSpec, PathsKeepOrder, BoardObeysInOrder, UartKeepsOrder, TelemetryKeepsOrder,
         CommandChannel!ChannelSpec, UartChannel!ChannelSpec, TelemetryChannel!ChannelSpec
=============================================================================
