--------------------------- MODULE SerialLink_proofs ---------------------------
(***************************************************************************)
(* The serial link for every CRC table, every set of packets that fit the  *)
(* microcontroller's buffer and any number of frames and faults: neither   *)
(* parser leaves its buffer, and both deliver what was framed and nothing  *)
(* else.                                                                   *)
(***************************************************************************)
EXTENDS SerialLink, Subsequences_proofs

-----------------------------------------------------------------------------
(* The checksum.                                                             *)

LEMMA ByteIsNumber ==
    ASSUME NEW x
    PROVE  x \in Bytes <=> x \in Nat /\ x < 256
  BY DEF Bytes

\* A word is two bytes.
LEMMA WordHalves ==
    ASSUME NEW x \in Words
    PROVE  /\ x \div 256 \in Bytes /\ x % 256 \in Bytes
           /\ x = 256 * (x \div 256) + (x % 256)
<1>1. x \in Nat /\ x < 65536
  BY DEF Words
<1>2. x \div 256 \in Nat /\ x \div 256 < 256 /\ x % 256 \in Nat /\ x % 256 < 256
  BY <1>1
<1>3. x = 256 * (x \div 256) + (x % 256)
  BY <1>1
<1> QED
  BY <1>2, <1>3, ByteIsNumber, Zenon

LEMMA TwoBytes ==
    ASSUME NEW h \in Bytes, NEW l \in Bytes
    PROVE  /\ h * 256 + l \in Words
           /\ (h * 256 + l) \div 256 = h /\ (h * 256 + l) % 256 = l
<1>1. h \in Nat /\ h < 256 /\ l \in Nat /\ l < 256
  BY ByteIsNumber
<1>2. h * 256 + l \in Nat /\ h * 256 + l < 65536
  BY <1>1
<1>3. (h * 256 + l) \div 256 = h /\ (h * 256 + l) % 256 = l
  BY <1>1
<1> QED
  BY <1>2, <1>3 DEF Words

LEMMA XorIsWord ==
    ASSUME NEW x \in Words, NEW y \in Words
    PROVE  Xor16(x, y) \in Words
<1>1. /\ x \div 256 \in Bytes /\ y \div 256 \in Bytes
      /\ x % 256 \in Bytes /\ y % 256 \in Bytes
  BY WordHalves
<1>2. \A a, b \in Bytes : ByteXor(a, b) \in Bytes
  BY CrcAssumption
<1>3. ByteXor(x \div 256, y \div 256) \in Bytes /\ ByteXor(x % 256, y % 256) \in Bytes
  BY <1>1, <1>2
<1> QED
  BY <1>3, TwoBytes DEF Xor16

LEMMA UpdateIsWord ==
    ASSUME NEW c \in Words, NEW b \in Bytes
    PROVE  crc16_ccitt_false_update(c, b) \in Words
<1>1. c \div 256 \in Bytes
  BY WordHalves
<1>2. (c * 256) % 65536 \in Words
  BY DEF Words
<1>3. ByteXor(c \div 256, b) \in Bytes
  BY <1>1, CrcAssumption
<1>4. CRC16_CCITT_TABLE(ByteXor(c \div 256, b)) \in Words
  BY <1>3, CrcAssumption
<1> QED
  BY <1>2, <1>4, XorIsWord DEF crc16_ccitt_false_update

\* The register after each byte of an array.
Registers(r, s) ==
    /\ r[0] = kCrcInit
    /\ \A n \in 1..Len(s) : r[n] = crc16_ccitt_false_update(r[n - 1], s[n])

LEMMA CrcRuns ==
    ASSUME NEW s \in Seq(Bytes)
    PROVE  \E r \in [0..Len(s) -> Words] : Registers(r, s) /\ crc16_ccitt_false(s) = r[Len(s)]
<1> DEFINE N == Len(s)
           step == [x \in Nat \X Words |->
                       IF x[1] \in 1..N THEN crc16_ccitt_false_update(x[2], s[x[1]]) ELSE x[2]]
           IsRun(f) == f = [n \in 0..N |-> IF n = 0 THEN kCrcInit
                                           ELSE crc16_ccitt_false_update(f[n - 1], s[n])]
           run == CHOOSE f : IsRun(f)
<1>1. N \in Nat /\ kCrcInit \in Words
  BY DEF kCrcInit, Words
<1>2. step \in [Nat \X Words -> Words]
  <2> SUFFICES ASSUME NEW x \in Nat \X Words
               PROVE  step[x] \in Words
    BY Zenon
  <2>1. x[1] \in 1..N => s[x[1]] \in Bytes
    OBVIOUS
  <2> QED
    BY <2>1, UpdateIsWord
<1>3. PICK f \in [0..N -> Words] :
          f[0] = kCrcInit /\ \A n \in 1..N : f[n] = step[<<n, f[n - 1]>>]
  <2>1. Solutions(Words, N, kCrcInit, step) # {}
    <3> HIDE DEF step, N, IsRun, run
    <3> QED
      BY <1>1, <1>2, Recursion
  <2> QED
    BY <2>1 DEF Solutions
<1>4. ASSUME NEW n \in 1..N
      PROVE  f[n] = crc16_ccitt_false_update(f[n - 1], s[n])
  <2>1. n \in Nat /\ f[n - 1] \in Words
    OBVIOUS
  <2> QED
    BY <1>3, <2>1
<1>5. IsRun(f)
  <2>1. \A n \in 0..N : f[n] = IF n = 0 THEN kCrcInit
                               ELSE crc16_ccitt_false_update(f[n - 1], s[n])
    <3> SUFFICES ASSUME NEW n \in 0..N
                 PROVE  f[n] = IF n = 0 THEN kCrcInit
                               ELSE crc16_ccitt_false_update(f[n - 1], s[n])
      OBVIOUS
    <3>1. n = 0 \/ n \in 1..N
      OBVIOUS
    <3> HIDE DEF N
    <3> QED
      BY <1>3, <1>4, <3>1
  <2> HIDE DEF N
  <2> QED
    BY <2>1, Zenon
<1>6. IsRun(run)
  BY <1>5, Zenon
<1>7. crc16_ccitt_false(s) = run[N]
  BY Zenon DEF crc16_ccitt_false
<1> HIDE DEF run, step
<1>8. run[0] = kCrcInit
  BY <1>6
<1>9. ASSUME NEW n \in 1..N
      PROVE  run[n] = crc16_ccitt_false_update(run[n - 1], s[n])
  <2>1. n \in 0..N /\ n # 0
    OBVIOUS
  <2> HIDE DEF N
  <2> QED
    BY <1>6, <2>1, Zenon
<1>10. \A n \in 0..N : run[n] \in Words
  <2> DEFINE S == {n \in 0..N : run[n] \in Words}
  <2>1. 0 \in S
    BY <1>1, <1>8
  <2>2. ASSUME NEW n \in 1..N, n - 1 \in S
        PROVE  n \in S
    <3>1. run[n - 1] \in Words /\ s[n] \in Bytes /\ n \in 0..N
      BY <2>2
    <3>2. run[n] \in Words
      BY <1>9, <3>1, UpdateIsWord
    <3> QED
      BY <3>1, <3>2
  <2> HIDE DEF S
  <2>3. \A n \in 0..N : n \in S
    BY <1>1, <2>1, <2>2, InductionTo
  <2> QED
    BY <2>3 DEF S
<1>11. run \in [0..N -> Words]
  BY <1>6, <1>10
<1> QED
  BY <1>7, <1>8, <1>9, <1>11 DEF Registers

LEMMA CrcOfEmpty == crc16_ccitt_false(<<>>) = kCrcInit
<1>1. <<>> \in Seq(Bytes) /\ Len(<<>>) = 0
  OBVIOUS
<1>2. PICK r \in [0..Len(<<>>) -> Words] :
          Registers(r, <<>>) /\ crc16_ccitt_false(<<>>) = r[Len(<<>>)]
  BY <1>1, CrcRuns
<1> QED
  BY <1>1, <1>2 DEF Registers

LEMMA CrcIsWord ==
    ASSUME NEW s \in Seq(Bytes)
    PROVE  crc16_ccitt_false(s) \in Words
  BY CrcRuns

LEMMA CrcOfAppend ==
    ASSUME NEW s \in Seq(Bytes), NEW b \in Bytes
    PROVE  crc16_ccitt_false(Append(s, b)) = crc16_ccitt_false_update(crc16_ccitt_false(s), b)
<1> DEFINE t == Append(s, b)
<1>1. t \in Seq(Bytes) /\ Len(t) = Len(s) + 1 /\ t[Len(t)] = b
      /\ \A n \in 1..Len(s) : t[n] = s[n]
  OBVIOUS
<1>2. PICK f \in [0..Len(s) -> Words] : Registers(f, s) /\ crc16_ccitt_false(s) = f[Len(s)]
  BY CrcRuns
<1> HIDE DEF t
<1>3. PICK r \in [0..Len(t) -> Words] : Registers(r, t) /\ crc16_ccitt_false(t) = r[Len(t)]
  BY <1>1, CrcRuns
<1>4. \A n \in 0..Len(s) : r[n] = f[n]
  <2> DEFINE S == {n \in 0..Len(s) : r[n] = f[n]}
  <2>1. 0 \in S
    BY <1>2, <1>3 DEF Registers
  <2>2. ASSUME NEW n \in 1..Len(s), n - 1 \in S
        PROVE  n \in S
    <3>1. n \in 1..Len(t) /\ t[n] = s[n] /\ n \in 0..Len(s)
      BY <1>1
    <3>2. r[n] = crc16_ccitt_false_update(r[n - 1], s[n])
          /\ f[n] = crc16_ccitt_false_update(f[n - 1], s[n])
      BY <1>2, <1>3, <3>1 DEF Registers
    <3> QED
      BY <2>2, <3>1, <3>2
  <2>4. Len(s) \in Nat
    OBVIOUS
  <2> HIDE DEF S
  <2>3. \A n \in 0..Len(s) : n \in S
    BY <2>1, <2>2, <2>4, InductionTo
  <2> QED
    BY <2>3 DEF S
<1>5. r[Len(t)] = crc16_ccitt_false_update(r[Len(t) - 1], t[Len(t)])
  BY <1>1, <1>3 DEF Registers
<1>6. r[Len(t) - 1] = f[Len(s)]
  BY <1>1, <1>4
<1> QED
  BY <1>1, <1>2, <1>3, <1>5, <1>6 DEF t

-----------------------------------------------------------------------------
(* What a frame is made of.                                                  *)

\* p \o q, place by place.
Concats(V, p, q, r) ==
    /\ r \in Seq(V) /\ Len(r) = Len(p) + Len(q)
    /\ \A i \in 1..Len(p) : r[i] = p[i]
    /\ \A i \in 1..Len(q) : r[Len(p) + i] = q[i]

LEMMA ConcatPlaces ==
    ASSUME NEW V, NEW p \in Seq(V), NEW q \in Seq(V)
    PROVE  Concats(V, p, q, p \o q)
<1>1. p \o q \in Seq(V) /\ Len(p \o q) = Len(p) + Len(q)
  OBVIOUS
<1>2. \A i \in 1..Len(p) : (p \o q)[i] = p[i]
  OBVIOUS
<1>3. \A i \in 1..Len(q) : (p \o q)[Len(p) + i] = q[i]
  OBVIOUS
<1> QED
  BY <1>1, <1>2, <1>3 DEF Concats

Framed(type, len, payload) == <<UART_H1, UART_H2, type, len>> \o payload

IsFramed(f, type, len, payload) ==
    /\ f \in Seq(Bytes) /\ Len(f) = 4 + Len(payload)
    /\ f[1] = UART_H1 /\ f[2] = UART_H2 /\ f[3] = type /\ f[4] = len
    /\ \A i \in 1..Len(payload) : f[4 + i] = payload[i]

LEMMA FramedIsSeq ==
    ASSUME NEW type \in Bytes, NEW len \in Bytes, NEW payload \in Seq(Bytes)
    PROVE  IsFramed(Framed(type, len, payload), type, len, payload)
<1> DEFINE h == <<UART_H1, UART_H2, type, len>>
<1>1. UART_H1 \in Bytes /\ UART_H2 \in Bytes
  BY ByteIsNumber DEF UART_H1, UART_H2
<1>2. /\ h \in Seq(Bytes) /\ Len(h) = 4
      /\ h[1] = UART_H1 /\ h[2] = UART_H2 /\ h[3] = type /\ h[4] = len
  BY <1>1
<1> HIDE DEF h
<1> DEFINE f == h \o payload
<1>3. Concats(Bytes, h, payload, f)
  <2>1. h \in Seq(Bytes) /\ payload \in Seq(Bytes)
    BY <1>2
  <2> QED
    BY <2>1, ConcatPlaces
<1>4. Framed(type, len, payload) = f
  BY DEF Framed, h
<1> HIDE DEF f
<1>5. 1 \in 1..Len(h) /\ 2 \in 1..Len(h) /\ 3 \in 1..Len(h) /\ 4 \in 1..Len(h)
  BY <1>2
<1>6. /\ f \in Seq(Bytes) /\ Len(f) = 4 + Len(payload)
      /\ f[1] = h[1] /\ f[2] = h[2] /\ f[3] = h[3] /\ f[4] = h[4]
      /\ \A i \in 1..Len(payload) : f[4 + i] = payload[i]
  BY <1>2, <1>3, <1>5 DEF Concats
<1> QED
  BY <1>2, <1>4, <1>6 DEF IsFramed

FramedOf(p) == Framed(p.type, Len(p.payload), p.payload)

LEMMA PacketFits ==
    ASSUME NEW p \in Packets
    PROVE  /\ p \in Packet /\ p.type \in Bytes /\ p.payload \in Seq(Bytes)
           /\ Len(p.payload) \in Bytes /\ Len(p.payload) <= kMaxPayload
<1>1. p \in Packet /\ Len(p.payload) <= kMaxPayload
  BY LinkAssumption
<1>2. p.type \in Bytes /\ p.payload \in Seq(Bytes)
  BY <1>1 DEF Packet
<1>3. Len(p.payload) \in Nat /\ Len(p.payload) < 256
  BY <1>1, <1>2 DEF kMaxPayload
<1> QED
  BY <1>1, <1>2, <1>3, ByteIsNumber, Zenon

\* A frame is what it announces, and the checksum's two bytes.
LEMMA FrameShape ==
    ASSUME NEW p \in Packets
    PROVE  LET f   == Frame[p]
               n   == Len(p.payload)
               crc == crc16_ccitt_false(FramedOf(p))
           IN  /\ f \in Seq(Bytes) /\ Len(f) = n + 6 /\ n \in Nat
               /\ crc \in Words
               /\ \A i \in 1..(n + 4) : f[i] = FramedOf(p)[i]
               /\ f[n + 5] = crc \div 256 /\ f[n + 6] = crc % 256
<1> DEFINE d == FramedOf(p)
           n == Len(p.payload)
           crc == crc16_ccitt_false(d)
           c == <<crc \div 256, crc % 256>>
<1>1. d \in Seq(Bytes) /\ Len(d) = n + 4 /\ n \in Nat
  <2>1. p.type \in Bytes /\ Len(p.payload) \in Bytes /\ p.payload \in Seq(Bytes)
    BY PacketFits
  <2>2. d \in Seq(Bytes) /\ Len(d) = 4 + Len(p.payload)
    <3>1. IsFramed(d, p.type, Len(p.payload), p.payload)
      BY <2>1, FramedIsSeq, Zenon DEF FramedOf
    <3> QED
      BY <3>1 DEF IsFramed
  <2>3. Len(p.payload) \in Nat
    BY <2>1
  <2> QED
    BY <2>2, <2>3
<1>2. crc \in Words
  BY <1>1, CrcIsWord
<1>3. Frame[p] = d \o c
  BY DEF Frame, buildRaw, FramedOf, Framed
<1>4. crc \div 256 \in Bytes /\ crc % 256 \in Bytes
  BY <1>2, WordHalves
<1>5. c \in Seq(Bytes) /\ Len(c) = 2 /\ c[1] = crc \div 256 /\ c[2] = crc % 256
  BY <1>4
<1> HIDE DEF d, c, n
<1>6. /\ d \o c \in Seq(Bytes) /\ Len(d \o c) = n + 6
      /\ \A i \in 1..(n + 4) : (d \o c)[i] = d[i]
      /\ (d \o c)[n + 5] = c[1] /\ (d \o c)[n + 6] = c[2]
  <2>1. Concats(Bytes, d, c, d \o c)
    <3>1. d \in Seq(Bytes) /\ c \in Seq(Bytes)
      BY <1>1, <1>5
    <3> QED
      BY <3>1, ConcatPlaces
  <2>2. 1 \in 1..Len(c) /\ 2 \in 1..Len(c)
    BY <1>5
  <2>3. (d \o c)[Len(d) + 1] = c[1] /\ (d \o c)[Len(d) + 2] = c[2]
    BY <2>1, <2>2 DEF Concats
  <2>4. Len(d) + 1 = n + 5 /\ Len(d) + 2 = n + 6 /\ Len(d) + Len(c) = n + 6
    BY <1>1, <1>5
  <2> QED
    BY <1>1, <2>1, <2>3, <2>4 DEF Concats
<1> QED
  BY <1>1, <1>2, <1>3, <1>5, <1>6 DEF d, n

-----------------------------------------------------------------------------
(* Suffixes, place by place.                                                 *)

EndsIn(s, t) == Len(t) <= Len(s) /\ \A i \in 1..Len(t) : t[i] = s[Len(s) - Len(t) + i]

LEMMA SuffixIsEnd ==
    ASSUME NEW t \in Seq(Bytes), NEW s \in Seq(Bytes)
    PROVE  IsSuffix(t, s) <=> EndsIn(s, t)
<1> DEFINE m == Len(t)
           n == Len(s)
           rt == Reverse(t)
           rs == Reverse(s)
<1>1. /\ rt = [i \in 1..m |-> t[(m - i) + 1]] /\ rs = [i \in 1..n |-> s[(n - i) + 1]]
      /\ m \in Nat /\ n \in Nat
  BY DEF Reverse
<1>2. rt \in Seq(Bytes) /\ Len(rt) = m /\ rs \in Seq(Bytes) /\ Len(rs) = n
  <2> HIDE DEF rt, rs
  <2>1. \A i \in 1..m : t[(m - i) + 1] \in Bytes
    OBVIOUS
  <2>2. \A i \in 1..n : s[(n - i) + 1] \in Bytes
    OBVIOUS
  <2> QED
    BY <1>1, <2>1, <2>2
<1>3. /\ \A i \in 1..m : rt[i] = t[(m - i) + 1]
      /\ \A i \in 1..n : rs[i] = s[(n - i) + 1]
  <2> HIDE DEF rt, rs
  <2> QED
    BY <1>1
<1>4. IsSuffix(t, s) <=> m <= n /\ SubSeq(rt, 1, m) = SubSeq(rs, 1, m)
  BY <1>2 DEF IsSuffix, IsPrefix
<1> HIDE DEF rt, rs
<1>5. ASSUME m <= n
      PROVE  SubSeq(rt, 1, m) = SubSeq(rs, 1, m) <=> \A i \in 1..m : rt[i] = rs[i]
  <2> DEFINE a == SubSeq(rt, 1, m)
             b == SubSeq(rs, 1, m)
  <2>1. a \in Seq(Bytes) /\ Len(a) = m /\ \A i \in 1..m : a[i] = rt[i]
    BY <1>2
  <2>2. b \in Seq(Bytes) /\ Len(b) = m /\ \A i \in 1..m : b[i] = rs[i]
    BY <1>2, <1>5
  <2> HIDE DEF a, b
  <2>3. a = b <=> \A i \in 1..m : a[i] = b[i]
    BY <2>1, <2>2
  <2> QED
    BY <2>1, <2>2, <2>3 DEF a, b
<1>6. ASSUME m <= n
      PROVE  (\A i \in 1..m : rt[i] = rs[i]) <=> EndsIn(s, t)
  <2>1. ASSUME \A i \in 1..m : rt[i] = rs[i], NEW j \in 1..m
        PROVE  t[j] = s[n - m + j]
    <3>1. (m - j) + 1 \in 1..m /\ (m - j) + 1 \in 1..n
      BY <1>1, <1>6
    <3>2. t[(m - ((m - j) + 1)) + 1] = s[(n - ((m - j) + 1)) + 1]
      BY <1>3, <2>1, <3>1
    <3>3. (m - ((m - j) + 1)) + 1 = j /\ (n - ((m - j) + 1)) + 1 = n - m + j
      BY <1>1
    <3> QED
      BY <3>2, <3>3
  <2>2. ASSUME \A j \in 1..m : t[j] = s[n - m + j], NEW i \in 1..m
        PROVE  rt[i] = rs[i]
    <3>1. (m - i) + 1 \in 1..m /\ i \in 1..n /\ n - m + ((m - i) + 1) = (n - i) + 1
      BY <1>1, <1>6
    <3> QED
      BY <1>3, <2>2, <3>1
  <2> QED
    BY <1>6, <2>1, <2>2 DEF EndsIn
<1> QED
  BY <1>4, <1>5, <1>6 DEF EndsIn

-----------------------------------------------------------------------------
(* Neither parser leaves its buffer, and no read thread is left behind.      *)

LineOK ==
    /\ wire \in Seq(Bytes) /\ since \in Seq(Bytes)
    /\ end \in {"board", "pi"}

PortOK ==
    /\ is_open_ \in BOOLEAN /\ running_ \in BOOLEAN
    /\ owner \in {"idle", "join"} /\ closing \in BOOLEAN
    /\ read_thread \in {"none", "select", "feeding", "done"}

\* A received checksum is put together from its first byte on.
HalvesOK ==
    /\ g.state = "GET_CRC_L" => \E h \in Bytes : g.crcRx = h * 256
    /\ rx.state = "GET_PAYLOAD" => rx.crcBytes = <<>>

LinkIInv == LinkInv /\ LineOK /\ PortOK /\ HalvesOK

BoardRecords == [state : RxStates, type : Bytes, len : 0..kMaxPayload, payload : Seq(Bytes),
                 crc : Words, crcRx : Words]
PiRecords == [state : ParsingStates, type : Bytes, len : Bytes, payload : Seq(Bytes),
              crc : Words, crcBytes : Seq(Bytes)]

LEMMA SmallNumbers ==
    /\ kCrcInit \in Words /\ 0 \in Words /\ 0 \in Bytes /\ UART_H1 \in Bytes /\ UART_H2 \in Bytes
    /\ UART_H1 # UART_H2 /\ kMaxPayload \in Nat /\ kMaxPayload \in Bytes
<1>1. kCrcInit \in Words /\ 0 \in Words
  BY DEF kCrcInit, Words
<1>2. 0 \in Bytes /\ UART_H1 \in Bytes /\ UART_H2 \in Bytes /\ kMaxPayload \in Bytes
  BY ByteIsNumber DEF UART_H1, UART_H2, kMaxPayload
<1> QED
  BY <1>1, <1>2 DEF UART_H1, UART_H2, kMaxPayload

LEMMA CrcsAreWords ==
    /\ \A c \in Words, b \in Bytes : crc16_ccitt_false_update(c, b) \in Words
    /\ \A b \in Bytes : crc16_ccitt_false_update(kCrcInit, b) \in Words
  BY UpdateIsWord, SmallNumbers

LEMMA BoardResets ==
    ASSUME g \in BoardRecords
    PROVE  Reset(g) \in BoardRecords /\ Reset(g).state = "WAIT_H1"
<1>1. 0 \in 0..kMaxPayload /\ <<>> \in Seq(Bytes)
  BY DEF kMaxPayload
<1> QED
  BY <1>1, SmallNumbers DEF Reset, BoardRecords, RxStates

LEMMA BoardByteIsSafe ==
    ASSUME ReceiverOK, g.state = "GET_CRC_L" => \E h \in Bytes : g.crcRx = h * 256,
           NEW b \in Bytes, ReceiverByte(b)
    PROVE  ReceiverOK' /\ (g'.state = "GET_CRC_L" => \E h \in Bytes : g'.crcRx = h * 256)
<1>0. /\ g \in BoardRecords /\ g_frames \in Seq(Packet)
      /\ g.state = "GET_PAYLOAD" => Len(g.payload) < g.len
      /\ g.state \in {"GET_CRC_H", "GET_CRC_L"} => Len(g.payload) = g.len
  BY DEF ReceiverOK, BoardRecords
<1>1. /\ crc16_ccitt_false_update(g.crc, b) \in Words
      /\ crc16_ccitt_false_update(kCrcInit, b) \in Words
  BY <1>0, CrcsAreWords DEF BoardRecords
<1>2. Reset(g) \in BoardRecords /\ Reset(g).state = "WAIT_H1"
  BY <1>0, BoardResets
<1> SUFFICES /\ g' \in BoardRecords
             /\ g'.state = "GET_PAYLOAD" => Len(g'.payload) < g'.len
             /\ g'.state \in {"GET_CRC_H", "GET_CRC_L"} => Len(g'.payload) = g'.len
             /\ g_frames' \in Seq(Packet)
             /\ g'.state = "GET_CRC_L" => \E h \in Bytes : g'.crcRx = h * 256
  BY DEF ReceiverOK, BoardRecords
<1>h. /\ Heading(b) \in BoardRecords /\ Heading(b).state = "WAIT_H2"
  BY <1>0, <1>1 DEF Heading, BoardRecords, RxStates
<1>t. ASSUME NEW next \in RxStates
      PROVE  /\ Took(b, next) \in BoardRecords /\ Took(b, next).state = next
             /\ Took(b, next).payload = g.payload /\ Took(b, next).len = g.len
  BY <1>0, <1>1 DEF Took, BoardRecords
<1>3. CASE WaitH1(b)
  BY <1>0, <1>3, <1>h DEF WaitH1
<1>4. CASE WaitH2(b)
  <2>1. Took(b, "GET_TYPE") \in BoardRecords /\ Took(b, "GET_TYPE").state = "GET_TYPE"
    BY <1>t DEF RxStates
  <2> QED
    BY <1>0, <1>2, <1>4, <1>h, <2>1 DEF WaitH2
<1>5. CASE GetType(b)
  <2>1. Took(b, "GET_LEN") \in BoardRecords /\ Took(b, "GET_LEN").state = "GET_LEN"
    BY <1>t DEF RxStates
  <2> QED
    BY <1>0, <1>5, <2>1 DEF GetType, BoardRecords
<1>6. CASE GetLen(b)
  <2>1. CASE b > kMaxPayload
    BY <1>0, <1>2, <1>6, <2>1 DEF GetLen
  <2>2. CASE ~(b > kMaxPayload)
    <3> DEFINE next == IF b = 0 THEN "GET_CRC_H" ELSE "GET_PAYLOAD"
    <3>1. next \in RxStates
      BY DEF RxStates
    <3>2. Took(b, next) \in BoardRecords /\ Took(b, next).state = next
      BY <1>t, <3>1
    <3>3. g' = [Took(b, next) EXCEPT !.len = b, !.payload = <<>>] /\ g_frames' = g_frames
      BY <1>6, <2>2 DEF GetLen
    <3>4. b \in 0..kMaxPayload /\ <<>> \in Seq(Bytes) /\ Len(<<>>) = 0
      BY <2>2, ByteIsNumber DEF kMaxPayload
    <3> HIDE DEF next
    <3>5. g' \in BoardRecords /\ g'.state = next /\ g'.len = b /\ g'.payload = <<>>
      BY <3>2, <3>3, <3>4 DEF BoardRecords
    <3> QED
      BY <1>0, <3>3, <3>4, <3>5 DEF next
  <2> QED
    BY <2>1, <2>2
<1>7. CASE GetPayload(b)
  <2> DEFINE next == IF Len(g.payload) + 1 >= g.len THEN "GET_CRC_H" ELSE "GET_PAYLOAD"
  <2>1. next \in RxStates
    BY DEF RxStates
  <2>2. /\ Took(b, next) \in BoardRecords /\ Took(b, next).state = next
        /\ Took(b, next).payload = g.payload /\ Took(b, next).len = g.len
    BY <1>t, <2>1
  <2>3. g' = [Took(b, next) EXCEPT !.payload = Append(@, b)] /\ g_frames' = g_frames
    BY <1>7 DEF GetPayload
  <2>4. /\ Append(g.payload, b) \in Seq(Bytes) /\ Len(Append(g.payload, b)) = Len(g.payload) + 1
        /\ Len(g.payload) < g.len /\ Len(g.payload) \in Nat /\ g.len \in Nat
    BY <1>0, <1>7 DEF GetPayload, BoardRecords
  <2> HIDE DEF next
  <2>5. g' \in BoardRecords /\ g'.state = next /\ g'.len = g.len
        /\ g'.payload = Append(g.payload, b)
    BY <2>2, <2>3, <2>4 DEF BoardRecords
  <2> QED
    BY <1>0, <2>3, <2>4, <2>5 DEF next
<1>8. CASE GetCrcH(b)
  <2>1. b * 256 \in Words
    BY TwoBytes, SmallNumbers, ByteIsNumber DEF Words
  <2> QED
    BY <1>0, <1>8, <2>1, ZenonT(60) DEF GetCrcH, BoardRecords, RxStates
<1>9. CASE GetCrcL(b)
  <2>1. [type |-> g.type, payload |-> g.payload] \in Packet
    BY <1>0 DEF BoardRecords, Packet
  <2>2. g_frames' \in Seq(Packet)
    BY <1>0, <1>9, <2>1 DEF GetCrcL
  <2> QED
    BY <1>2, <1>9, <2>2 DEF GetCrcL
<1> QED
  BY <1>3, <1>4, <1>5, <1>6, <1>7, <1>8, <1>9 DEF ReceiverByte

LEMMA PiByteIsSafe ==
    ASSUME rx \in PiRecords,
           rx.state = "GET_PAYLOAD" => Len(rx.payload) < rx.len /\ rx.crcBytes = <<>>,
           rx.state = "CHECK_CRC" => Len(rx.payload) = rx.len /\ Len(rx.crcBytes) < 2,
           rx_packets \in Seq(Packet),
           NEW b \in Bytes, feedByte(b)
    PROVE  /\ rx' \in PiRecords /\ rx_packets' \in Seq(Packet)
           /\ rx'.state = "GET_PAYLOAD" => Len(rx'.payload) < rx'.len /\ rx'.crcBytes = <<>>
           /\ rx'.state = "CHECK_CRC" => Len(rx'.payload) = rx'.len /\ Len(rx'.crcBytes) < 2
<1>1. /\ crc16_ccitt_false_update(rx.crc, b) \in Words
      /\ crc16_ccitt_false_update(kCrcInit, b) \in Words
  BY CrcsAreWords DEF PiRecords
<1>2. Fresh \in PiRecords /\ Fresh.state = "WAIT_H1"
  <2>1. <<>> \in Seq(Bytes)
    OBVIOUS
  <2> QED
    BY <2>1, SmallNumbers DEF Fresh, PiRecords, ParsingStates
<1>h. /\ CommHeading(b) \in PiRecords /\ CommHeading(b).state = "WAIT_H2"
  BY <1>1 DEF CommHeading, PiRecords, ParsingStates
<1>t. ASSUME NEW next \in ParsingStates
      PROVE  /\ CommTook(b, next) \in PiRecords /\ CommTook(b, next).state = next
             /\ CommTook(b, next).payload = rx.payload /\ CommTook(b, next).len = rx.len
             /\ CommTook(b, next).crcBytes = rx.crcBytes
  BY <1>1 DEF CommTook, PiRecords, ParsingStates
<1>3. CASE CommWaitH1(b)
  BY <1>3, <1>h DEF CommWaitH1
<1>4. CASE CommWaitH2(b)
  <2>1. CommTook(b, "GET_TYPE") \in PiRecords /\ CommTook(b, "GET_TYPE").state = "GET_TYPE"
    BY <1>t DEF ParsingStates
  <2> QED
    BY <1>2, <1>4, <1>h, <2>1 DEF CommWaitH2
<1>5. CASE CommGetType(b)
  <2>1. CommTook(b, "GET_LEN") \in PiRecords /\ CommTook(b, "GET_LEN").state = "GET_LEN"
    BY <1>t DEF ParsingStates
  <2> QED
    BY <1>5, <2>1 DEF CommGetType, PiRecords
<1>6. CASE CommGetLen(b)
  <2> DEFINE next == IF b = 0 THEN "CHECK_CRC" ELSE "GET_PAYLOAD"
  <2>1. next \in ParsingStates
    BY DEF ParsingStates
  <2>2. CommTook(b, next) \in PiRecords /\ CommTook(b, next).state = next
    BY <1>t, <2>1
  <2>3. /\ rx' = [CommTook(b, next) EXCEPT !.len = b, !.payload = <<>>, !.crcBytes = <<>>]
        /\ rx_packets' = rx_packets
    BY <1>6 DEF CommGetLen
  <2>4. b \in Nat /\ <<>> \in Seq(Bytes) /\ Len(<<>>) = 0
    BY ByteIsNumber
  <2> HIDE DEF next
  <2>5. rx' \in PiRecords /\ rx'.state = next /\ rx'.len = b /\ rx'.payload = <<>>
        /\ rx'.crcBytes = <<>>
    BY <2>2, <2>3, <2>4 DEF PiRecords
  <2> QED
    BY <2>3, <2>4, <2>5 DEF next
<1>7. CASE CommGetPayload(b)
  <2> DEFINE next == IF Len(rx.payload) + 1 >= rx.len THEN "CHECK_CRC" ELSE "GET_PAYLOAD"
  <2>1. next \in ParsingStates
    BY DEF ParsingStates
  <2>2. /\ CommTook(b, next) \in PiRecords /\ CommTook(b, next).state = next
        /\ CommTook(b, next).payload = rx.payload /\ CommTook(b, next).len = rx.len
        /\ CommTook(b, next).crcBytes = rx.crcBytes
    BY <1>t, <2>1
  <2>3. rx' = [CommTook(b, next) EXCEPT !.payload = Append(@, b)] /\ rx_packets' = rx_packets
    BY <1>7 DEF CommGetPayload
  <2>4. /\ Append(rx.payload, b) \in Seq(Bytes)
        /\ Len(Append(rx.payload, b)) = Len(rx.payload) + 1
        /\ Len(rx.payload) < rx.len /\ Len(rx.payload) \in Nat /\ rx.len \in Nat
        /\ rx.crcBytes = <<>> /\ Len(<<>>) = 0
    BY <1>7, ByteIsNumber DEF CommGetPayload, PiRecords
  <2> HIDE DEF next
  <2>5. rx' \in PiRecords /\ rx'.state = next /\ rx'.len = rx.len
        /\ rx'.payload = Append(rx.payload, b) /\ rx'.crcBytes = <<>>
    BY <2>2, <2>3, <2>4 DEF PiRecords
  <2> QED
    BY <2>3, <2>4, <2>5 DEF next
<1>8. CASE CommCrcFirst(b)
  <2>1. <<b>> \in Seq(Bytes) /\ Len(<<b>>) = 1
    OBVIOUS
  <2> DEFINE c == <<b>>
  <2> HIDE DEF c
  <2>2. /\ c \in Seq(Bytes) /\ Len(c) = 1
        /\ rx' = [rx EXCEPT !.crcBytes = c] /\ rx_packets' = rx_packets
        /\ rx.state = "CHECK_CRC"
    BY <1>8, <2>1 DEF CommCrcFirst, c
  <2>3. /\ rx' \in PiRecords /\ rx'.state = "CHECK_CRC" /\ rx'.payload = rx.payload
        /\ rx'.len = rx.len /\ rx'.crcBytes = c
    BY <2>2 DEF PiRecords
  <2> QED
    <3>1. rx'.state # "GET_PAYLOAD"
      BY <2>3
    <3>2. Len(rx'.payload) = rx'.len
      BY <2>2, <2>3
    <3>3. Len(rx'.crcBytes) < 2
      <4>1. Len(rx'.crcBytes) = Len(c) /\ Len(c) = 1
        BY <2>2, <2>3, Zenon
      <4> QED
        BY <4>1
    <3>4. rx' \in PiRecords /\ rx_packets' \in Seq(Packet)
      BY <2>2, <2>3
    <3> QED
      BY <3>1, <3>2, <3>3, <3>4
<1>9. CASE CommCrcSecond(b)
  <2>1. [type |-> rx.type, payload |-> rx.payload] \in Packet
    BY DEF PiRecords, Packet
  <2>2. rx_packets' \in Seq(Packet)
    BY <1>9, <2>1 DEF CommCrcSecond
  <2>3. rx' = Fresh
    BY <1>9 DEF CommCrcSecond, resetParser
  <2> QED
    BY <1>2, <2>2, <2>3
<1> QED
  BY <1>3, <1>4, <1>5, <1>6, <1>7, <1>8, <1>9 DEF feedByte

-----------------------------------------------------------------------------

\* What SerialCommOK says of the parser, and of the thread and its owner.
ParserOK ==
    /\ rx \in PiRecords /\ rx_packets \in Seq(Packet)
    /\ rx.state = "GET_PAYLOAD" => Len(rx.payload) < rx.len /\ rx.crcBytes = <<>>
    /\ rx.state = "CHECK_CRC" => Len(rx.payload) = rx.len /\ Len(rx.crcBytes) < 2

ThreadOK ==
    /\ chunk # <<>> <=> read_thread = "feeding"
    /\ read_thread # "none" => is_open_
    /\ running_ <=> owner = "idle" /\ read_thread # "none"
    /\ owner = "join" => read_thread # "none"

BoardOK == ReceiverOK /\ (g.state = "GET_CRC_L" => \E h \in Bytes : g.crcRx = h * 256)

LEMMA LinkParts ==
    LinkIInv <=> BoardOK /\ ParserOK /\ chunk \in Seq(Bytes) /\ ThreadOK /\ LineOK /\ PortOK
<1>1. SerialCommOK /\ (rx.state = "GET_PAYLOAD" => rx.crcBytes = <<>>)
          <=> ParserOK /\ chunk \in Seq(Bytes) /\ ThreadOK
  BY DEF SerialCommOK, ParserOK, ThreadOK, PiRecords
<1> QED
  BY <1>1 DEF LinkIInv, LinkInv, HalvesOK, BoardOK

LEMMA FreshParses ==
    Fresh \in PiRecords /\ Fresh.state = "WAIT_H1"
<1>1. <<>> \in Seq(Bytes)
  OBVIOUS
<1> QED
  BY <1>1, SmallNumbers DEF Fresh, PiRecords, ParsingStates

LEMMA LinkStarts ==
    ASSUME LinkInit
    PROVE  LinkIInv
<1>1. <<>> \in Seq(Bytes) /\ <<>> \in Seq(Packet) /\ 0 \in 0..kMaxPayload
  BY DEF kMaxPayload
<1>2. BoardOK
  BY <1>1, SmallNumbers DEF LinkInit, ReceiverInit, BoardOK, ReceiverOK, RxStates
<1>3. ParserOK
  BY <1>1, FreshParses DEF LinkInit, SerialInit, ParserOK
<1>4. ThreadOK /\ PortOK
  BY DEF LinkInit, SerialInit, ThreadOK, PortOK
<1>5. LineOK /\ chunk \in Seq(Bytes)
  BY <1>1 DEF LinkInit, SerialInit, LineOK
<1> QED
  BY <1>2, <1>3, <1>4, <1>5, LinkParts

\* Head and rest of what is on the line.
LEMMA ByteTaken ==
    ASSUME NEW s \in Seq(Bytes), s # <<>>
    PROVE  Head(s) \in Bytes /\ Tail(s) \in Seq(Bytes) /\ (Len(s) = 1 <=> Tail(s) = <<>>)
<1>1. Head(s) \in Bytes
  OBVIOUS
<1>2. Tail(s) \in Seq(Bytes) /\ Len(Tail(s)) = Len(s) - 1
  OBVIOUS
<1>3. \A t \in Seq(Bytes) : t = <<>> <=> Len(t) = 0
  OBVIOUS
<1>4. Len(s) \in Nat
  OBVIOUS
<1>5. Tail(s) = <<>> <=> Len(Tail(s)) = 0
  BY <1>2, <1>3, Zenon
<1> QED
  BY <1>1, <1>2, <1>4, <1>5

LEMMA SinceGrows ==
    ASSUME NEW b \in Bytes, since \in Seq(Bytes), Parsed(b)
    PROVE  since' \in Seq(Bytes)
<1>1. <<b>> \in Seq(Bytes) /\ Append(since, b) \in Seq(Bytes)
  OBVIOUS
<1> QED
  BY <1>1 DEF Parsed

LEMMA LinkSteps ==
    ASSUME LinkIInv, [LinkNext]_link_vars
    PROVE  LinkIInv'
<1> USE DEF link_vars, line_vars, serial_vars, comm_vars, parser_vars, receiver_vars
<1>0. BoardOK /\ ParserOK /\ chunk \in Seq(Bytes) /\ ThreadOK /\ LineOK /\ PortOK
  BY LinkParts
<1>p. BoardOK' /\ ParserOK' /\ chunk' \in Seq(Bytes) /\ ThreadOK' /\ LineOK' /\ PortOK'
          => LinkIInv'
  <2>1. LinkIInv' <=> (BoardOK /\ ParserOK /\ chunk \in Seq(Bytes) /\ ThreadOK /\ LineOK /\ PortOK)'
    BY LinkParts, PTL
  <2> QED
    BY <2>1
<1> SUFFICES BoardOK' /\ ParserOK' /\ chunk' \in Seq(Bytes) /\ ThreadOK' /\ LineOK' /\ PortOK'
  BY <1>p
<1>b. UNCHANGED receiver_vars => BoardOK'
  BY <1>0 DEF BoardOK, ReceiverOK
<1>c. UNCHANGED parser_vars => ParserOK'
  BY <1>0 DEF ParserOK
<1>d. UNCHANGED <<comm_vars, chunk>> => ThreadOK' /\ PortOK' /\ chunk' \in Seq(Bytes)
  <2>1. UNCHANGED <<comm_vars, chunk>> => ThreadOK'
    BY <1>0 DEF ThreadOK
  <2>2. UNCHANGED <<comm_vars, chunk>> => PortOK'
    BY <1>0 DEF PortOK
  <2> QED
    BY <1>0, <2>1, <2>2
<1>l. wire \in Seq(Bytes) /\ since \in Seq(Bytes) /\ end \in {"board", "pi"}
  BY <1>0 DEF LineOK
<1>1. CASE Transmit
  <2>1. wire' \in Seq(Bytes)
    <3>1. PICK p \in Packets : wire' = wire \o Frame[p]
      BY <1>1 DEF Transmit
    <3>2. Frame[p] \in Seq(Bytes)
      BY FrameShape
    <3> QED
      BY <1>l, <3>1, <3>2
  <2> QED
    BY <1>1, <1>b, <1>c, <1>d, <1>l, <2>1 DEF Transmit, LineOK
<1>2. CASE LoseByte
  <2>1. wire' \in Seq(Bytes)
    BY <1>2, <1>l, ByteTaken DEF LoseByte
  <2> QED
    BY <1>2, <1>b, <1>c, <1>d, <1>l, <2>1 DEF LoseByte, LineOK
<1>3. CASE Glitch
  <2>1. wire' \in Seq(Bytes)
    BY <1>3, <1>l, SmallNumbers DEF Glitch
  <2> QED
    BY <1>3, <1>b, <1>c, <1>d, <1>l, <2>1 DEF Glitch, LineOK
<1>4. CASE Pause \/ UNCHANGED link_vars
  BY <1>4, <1>b, <1>c, <1>d, <1>l DEF Pause, LineOK
<1>5. CASE BoardReads
  <2>1. Head(wire) \in Bytes /\ Tail(wire) \in Seq(Bytes)
    BY <1>5, <1>l, ByteTaken DEF BoardReads
  <2>2. BoardOK'
    BY <1>0, <1>5, <2>1, BoardByteIsSafe DEF BoardReads, BoardOK
  <2>3. since' \in Seq(Bytes)
    BY <1>5, <1>l, <2>1, SinceGrows DEF BoardReads
  <2> QED
    BY <1>5, <1>c, <1>d, <1>l, <2>1, <2>2, <2>3 DEF BoardReads, LineOK
<1>6. CASE BoardTimeout
  <2>1. g \in BoardRecords /\ g_frames \in Seq(Packet)
    BY <1>0 DEF BoardOK, ReceiverOK, BoardRecords
  <2>2. g' = Reset(g) /\ g_frames' = g_frames
    BY <1>6 DEF BoardTimeout, ReceiverTimeout
  <2>3. g' \in BoardRecords /\ g'.state = "WAIT_H1"
    BY <2>1, <2>2, BoardResets
  <2>4. BoardOK'
    BY <2>1, <2>2, <2>3 DEF BoardOK, ReceiverOK, BoardRecords
  <2>5. <<>> \in Seq(Bytes)
    OBVIOUS
  <2> QED
    BY <1>6, <1>c, <1>d, <1>l, <2>4, <2>5 DEF BoardTimeout, LineOK
<1>7. CASE PiReads
  <2>1. PICK n \in 1..Len(wire) : /\ ReadChunk(SubSeq(wire, 1, n))
                                  /\ wire' = SubSeq(wire, n + 1, Len(wire))
    BY <1>7 DEF PiReads
  <2>2. SubSeq(wire, 1, n) \in Seq(Bytes) /\ SubSeq(wire, 1, n) # <<>>
        /\ SubSeq(wire, n + 1, Len(wire)) \in Seq(Bytes)
    <3>1. n \in Nat /\ Len(wire) \in Nat /\ 1 <= n /\ n <= Len(wire)
      BY <1>l
    <3>2. Len(SubSeq(wire, 1, n)) = n
      BY <1>l, <3>1
    <3> QED
      BY <1>l, <3>1, <3>2
  <2> DEFINE c == SubSeq(wire, 1, n)
  <2> HIDE DEF c
  <2>3. ReadChunk(c) /\ c \in Seq(Bytes) /\ c # <<>>
    BY <2>1, <2>2 DEF c
  <2>4. ThreadOK'
    BY <1>0, <2>3 DEF ReadChunk, ThreadOK
  <2>5. PortOK' /\ chunk' \in Seq(Bytes)
    BY <1>0, <2>3 DEF ReadChunk, PortOK
  <2>6. LineOK'
    BY <1>7, <1>l, <2>1, <2>2 DEF PiReads, LineOK
  <2> QED
    BY <1>7, <1>b, <1>c, <2>3, <2>4, <2>5, <2>6 DEF PiReads, ReadChunk
<1>8. CASE PiFeeds
  <2>1. chunk # <<>> /\ read_thread = "feeding"
    BY <1>8 DEF PiFeeds, FeedOne
  <2>2. Head(chunk) \in Bytes /\ Tail(chunk) \in Seq(Bytes) /\ (Len(chunk) = 1 <=> Tail(chunk) = <<>>)
    BY <1>0, <2>1, ByteTaken
  <2>3. ParserOK'
    <3>1. feedByte(Head(chunk))
      BY <1>8 DEF PiFeeds, FeedOne
    <3> QED
      BY <1>0, <2>2, <3>1, PiByteIsSafe DEF ParserOK
  <2>4. since' \in Seq(Bytes)
    BY <1>8, <1>l, <2>2, SinceGrows DEF PiFeeds
  <2>5. ThreadOK'
    BY <1>0, <1>8, <2>1, <2>2 DEF PiFeeds, FeedOne, ThreadOK
  <2>6. PortOK'
    BY <1>0, <1>8 DEF PiFeeds, FeedOne, PortOK
  <2>7. chunk' \in Seq(Bytes)
    BY <1>8, <2>2 DEF PiFeeds, FeedOne
  <2> QED
    BY <1>8, <1>b, <1>l, <2>3, <2>4, <2>5, <2>6, <2>7 DEF PiFeeds, LineOK
<1>9. ASSUME rx' = Fresh, rx_packets' = rx_packets
      PROVE  ParserOK'
  BY <1>0, <1>9, FreshParses DEF ParserOK
<1>10. CASE PiTimeout
  <2>1. <<>> \in Seq(Bytes)
    OBVIOUS
  <2> QED
    BY <1>10, <1>b, <1>9, <1>d, <1>l, <2>1 DEF PiTimeout, SelectTimeout, resetParser, LineOK
<1>11. CASE PiStarts
  <2>1. <<>> \in Seq(Bytes)
    OBVIOUS
  <2>2. ThreadOK'
    BY <1>0, <1>11 DEF PiStarts, startAsyncRead, ThreadOK
  <2>3. PortOK'
    BY <1>0, <1>11 DEF PiStarts, startAsyncRead, PortOK
  <2> QED
    BY <1>0, <1>11, <1>b, <1>9, <1>l, <2>1, <2>2, <2>3
       DEF PiStarts, startAsyncRead, resetParser, LineOK
<1>12. CASE PiOwner
  <2>1. LineOK' /\ BoardOK'
    BY <1>12, <1>b, <1>l DEF PiOwner, LineOK
  <2>2. CASE open
    <3>1. ThreadOK'
      BY <1>0, <2>2 DEF open, ThreadOK
    <3>2. PortOK'
      BY <1>0, <2>2 DEF open, PortOK
    <3> QED
      BY <1>0, <2>1, <2>2, <1>c, <3>1, <3>2 DEF open
  <2>3. CASE stopAsyncRead
    <3>1. ThreadOK'
      BY <1>0, <2>3 DEF stopAsyncRead, ThreadOK
    <3>2. PortOK'
      BY <1>0, <2>3 DEF stopAsyncRead, PortOK
    <3> QED
      BY <1>0, <2>1, <2>3, <1>c, <3>1, <3>2 DEF stopAsyncRead
  <2>4. CASE Joined
    <3>1. ThreadOK'
      BY <1>0, <2>4 DEF Joined, ThreadOK, PortOK
    <3>2. PortOK'
      BY <1>0, <2>4 DEF Joined, PortOK
    <3> QED
      BY <1>0, <2>1, <2>4, <1>c, <3>1, <3>2 DEF Joined
  <2>5. CASE ReadLoopEnds
    <3>1. ThreadOK'
      BY <1>0, <2>5 DEF ReadLoopEnds, ThreadOK
    <3>2. PortOK'
      BY <1>0, <2>5 DEF ReadLoopEnds, PortOK
    <3> QED
      BY <1>0, <2>1, <2>5, <1>c, <3>1, <3>2 DEF ReadLoopEnds
  <2>6. CASE close
    <3>1. ThreadOK'
      BY <1>0, <2>6 DEF close, ThreadOK
    <3>2. PortOK'
      BY <1>0, <2>6 DEF close, PortOK
    <3> QED
      BY <1>0, <2>1, <2>6, <1>c, <3>1, <3>2 DEF close
  <2> QED
    BY <1>12, <2>2, <2>3, <2>4, <2>5, <2>6 DEF PiOwner, PiStops
<1> QED
  BY <1>1, <1>2, <1>3, <1>4, <1>5, <1>6, <1>7, <1>8, <1>10, <1>11, <1>12 DEF LinkNext

LEMMA LinkStaysOK == LinkSpec => []LinkIInv
<1>1. LinkInit => LinkIInv
  BY LinkStarts
<1>2. LinkIInv /\ [LinkNext]_link_vars => LinkIInv'
  BY LinkSteps
<1> QED
  BY <1>1, <1>2, PTL DEF LinkSpec

(* Neither parser writes outside its payload buffer or mistakes a payload    *)
(* for finished, whatever arrives on the line, and no read thread is left    *)
(* behind (Receiver.ino's loop; serial_comm.cpp's feedByte, readLoop and     *)
(* stopAsyncRead).                                                           *)
THEOREM LinkInvariant == LinkSpec => []LinkInv
<1>1. LinkIInv => LinkInv
  BY DEF LinkIInv
<1> QED
  BY <1>1, LinkStaysOK, PTL

-----------------------------------------------------------------------------
(* Both parsers are one: what its fields mean, and what a byte does to it.   *)

Views == [state : RxStates, type : Bytes, len : Bytes, payload : Seq(Bytes),
          crc : Words, high : Bytes]

Body(v) == Framed(v.type, v.len, v.payload)

\* The bytes of the frame under way.
Taken(v) ==
    CASE v.state = "WAIT_H1"  -> <<>>
      [] v.state = "WAIT_H2"  -> <<UART_H1>>
      [] v.state = "GET_TYPE" -> <<UART_H1, UART_H2>>
      [] v.state = "GET_LEN"  -> <<UART_H1, UART_H2, v.type>>
      [] v.state \in {"GET_PAYLOAD", "GET_CRC_H"} -> Body(v)
      [] v.state = "GET_CRC_L" -> Append(Body(v), v.high)

\* The checksum is that of the bytes taken.
Coherent(v) ==
    /\ v \in Views
    /\ v.state = "GET_PAYLOAD" => Len(v.payload) < v.len
    /\ v.state \in {"GET_CRC_H", "GET_CRC_L"} => Len(v.payload) = v.len
    /\ v.state \in {"WAIT_H2", "GET_TYPE", "GET_LEN", "GET_PAYLOAD", "GET_CRC_H"}
           => v.crc = crc16_ccitt_false(Taken(v))
    /\ v.state = "GET_CRC_L" => v.crc = crc16_ccitt_false(Body(v))

\* From v to w with byte b; out: a packet is delivered.
Parses(v, w, b, out) ==
    \/ /\ v.state = "WAIT_H1" /\ ~out
       /\ \/ b = UART_H1 /\ w.state = "WAIT_H2" /\ w.crc = crc16_ccitt_false_update(kCrcInit, b)
          \/ b # UART_H1 /\ w.state = "WAIT_H1"
    \/ /\ v.state = "WAIT_H2" /\ ~out
       /\ \/ b = UART_H2 /\ w.state = "GET_TYPE" /\ w.crc = crc16_ccitt_false_update(v.crc, b)
          \/ b = UART_H1 /\ w.state = "WAIT_H2" /\ w.crc = crc16_ccitt_false_update(kCrcInit, b)
          \/ b # UART_H1 /\ b # UART_H2 /\ w.state = "WAIT_H1"
    \/ /\ v.state = "GET_TYPE" /\ ~out
       /\ w.state = "GET_LEN" /\ w.type = b /\ w.crc = crc16_ccitt_false_update(v.crc, b)
    \/ /\ v.state = "GET_LEN" /\ ~out
       /\ \/ b > kMaxPayload /\ w.state = "WAIT_H1"
          \/ /\ w.state = IF b = 0 THEN "GET_CRC_H" ELSE "GET_PAYLOAD"
             /\ w.type = v.type /\ w.len = b /\ w.payload = <<>>
             /\ w.crc = crc16_ccitt_false_update(v.crc, b)
    \/ /\ v.state = "GET_PAYLOAD" /\ ~out
       /\ w.state = IF Len(v.payload) + 1 >= v.len THEN "GET_CRC_H" ELSE "GET_PAYLOAD"
       /\ w.type = v.type /\ w.len = v.len /\ w.payload = Append(v.payload, b)
       /\ w.crc = crc16_ccitt_false_update(v.crc, b)
    \/ /\ v.state = "GET_CRC_H" /\ ~out
       /\ w.state = "GET_CRC_L" /\ w.type = v.type /\ w.len = v.len
       /\ w.payload = v.payload /\ w.crc = v.crc /\ w.high = b
    \/ /\ v.state = "GET_CRC_L"
       /\ w.state = "WAIT_H1"
       /\ out <=> v.high * 256 + b = v.crc

\* What that does to the bytes taken.
Moves(v, b, t, t2) ==
    \/ v.state = "WAIT_H1" /\ t = <<>> /\ t2 = IF b = UART_H1 THEN <<UART_H1>> ELSE <<>>
    \/ /\ v.state = "WAIT_H2" /\ t = <<UART_H1>>
       /\ \/ b = UART_H2 /\ t2 = Append(t, b)
          \/ b = UART_H1 /\ t2 = <<UART_H1>>
          \/ b # UART_H1 /\ b # UART_H2 /\ t2 = <<>>
    \/ v.state = "GET_LEN" /\ Len(t) = 3 /\ (t2 = Append(t, b) \/ (b > kMaxPayload /\ t2 = <<>>))
    \/ v.state \in {"GET_TYPE", "GET_PAYLOAD", "GET_CRC_H"} /\ Len(t) >= 2 /\ t2 = Append(t, b)
    \/ v.state = "GET_CRC_L" /\ t = Append(Body(v), v.high) /\ t2 = <<>>

LEMMA FramedGrows ==
    ASSUME NEW type \in Bytes, NEW len \in Bytes, NEW payload \in Seq(Bytes), NEW b \in Bytes
    PROVE  /\ Framed(type, b, <<>>) = Append(<<UART_H1, UART_H2, type>>, b)
           /\ Framed(type, len, Append(payload, b)) = Append(Framed(type, len, payload), b)
<1> DEFINE h == <<UART_H1, UART_H2, type, len>>
<1>1. UART_H1 \in Bytes /\ UART_H2 \in Bytes
  BY SmallNumbers
<1>2. h \in Seq(Bytes)
  BY <1>1
<1> HIDE DEF h
<1>3. h \o Append(payload, b) = Append(h \o payload, b)
  <2>1. Joins(h, payload, b)
    BY <1>2, AppendToConcat
  <2> QED
    BY <2>1, Zenon DEF Joins
<1>4. Framed(type, len, Append(payload, b)) = Append(Framed(type, len, payload), b)
  BY <1>3, Zenon DEF Framed, h
<1>5. <<UART_H1, UART_H2, type, b>> \o <<>> = Append(<<UART_H1, UART_H2, type>>, b)
  BY <1>1
<1> QED
  BY <1>4, <1>5, Zenon DEF Framed

LEMMA TakenIsSeq ==
    ASSUME NEW v, Coherent(v)
    PROVE  /\ Taken(v) \in Seq(Bytes) /\ Body(v) \in Seq(Bytes)
           /\ v.state \in {"GET_TYPE", "GET_PAYLOAD", "GET_CRC_H", "GET_CRC_L"} => Len(Taken(v)) >= 2
           /\ v.state = "GET_LEN" => Len(Taken(v)) = 3
           /\ v.state = "WAIT_H1" <=> Taken(v) = <<>>
<1>1. /\ v.type \in Bytes /\ v.len \in Bytes /\ v.payload \in Seq(Bytes) /\ v.high \in Bytes
      /\ v.state \in RxStates
  BY DEF Coherent, Views
<1>2. Body(v) \in Seq(Bytes) /\ Len(Body(v)) >= 4
  <2>1. Body(v) \in Seq(Bytes) /\ Len(Body(v)) = 4 + Len(v.payload)
    <3>1. IsFramed(Body(v), v.type, v.len, v.payload)
      BY <1>1, FramedIsSeq, Zenon DEF Body
    <3> QED
      BY <3>1 DEF IsFramed
  <2>2. Len(v.payload) \in Nat
    BY <1>1
  <2> QED
    BY <2>1, <2>2
<1>3. UART_H1 \in Bytes /\ UART_H2 \in Bytes
  BY SmallNumbers
<1>4. /\ <<>> \in Seq(Bytes) /\ Len(<<>>) = 0
      /\ <<UART_H1>> \in Seq(Bytes) /\ Len(<<UART_H1>>) = 1
      /\ <<UART_H1, UART_H2>> \in Seq(Bytes) /\ Len(<<UART_H1, UART_H2>>) = 2
      /\ <<UART_H1, UART_H2, v.type>> \in Seq(Bytes) /\ Len(<<UART_H1, UART_H2, v.type>>) = 3
  BY <1>1, <1>3
<1>5. /\ Append(Body(v), v.high) \in Seq(Bytes)
      /\ Len(Append(Body(v), v.high)) = Len(Body(v)) + 1
  BY <1>1, <1>2
<1>6. \/ v.state = "WAIT_H1" /\ Taken(v) = <<>>
      \/ v.state = "WAIT_H2" /\ Taken(v) = <<UART_H1>>
      \/ v.state = "GET_TYPE" /\ Taken(v) = <<UART_H1, UART_H2>>
      \/ v.state = "GET_LEN" /\ Taken(v) = <<UART_H1, UART_H2, v.type>>
      \/ v.state = "GET_PAYLOAD" /\ Taken(v) = Body(v)
      \/ v.state = "GET_CRC_H" /\ Taken(v) = Body(v)
      \/ v.state = "GET_CRC_L" /\ Taken(v) = Append(Body(v), v.high)
  BY <1>1, Zenon DEF Taken, RxStates
<1>7. \/ v.state = "WAIT_H1" /\ Taken(v) \in Seq(Bytes) /\ Len(Taken(v)) = 0
      \/ v.state = "WAIT_H2" /\ Taken(v) \in Seq(Bytes) /\ Len(Taken(v)) = 1
      \/ v.state = "GET_TYPE" /\ Taken(v) \in Seq(Bytes) /\ Len(Taken(v)) = 2
      \/ v.state = "GET_LEN" /\ Taken(v) \in Seq(Bytes) /\ Len(Taken(v)) = 3
      \/ v.state = "GET_PAYLOAD" /\ Taken(v) \in Seq(Bytes) /\ Len(Taken(v)) >= 4
      \/ v.state = "GET_CRC_H" /\ Taken(v) \in Seq(Bytes) /\ Len(Taken(v)) >= 4
      \/ v.state = "GET_CRC_L" /\ Taken(v) \in Seq(Bytes) /\ Len(Taken(v)) >= 4
  <2>1. Len(Body(v)) + 1 >= 4
    BY <1>2
  <2> QED
    BY <1>2, <1>4, <1>5, <1>6, <2>1
<1>8. \A s \in Seq(Bytes) : s = <<>> <=> Len(s) = 0
  OBVIOUS
<1>9. Taken(v) \in Seq(Bytes)
  BY <1>7
<1>10. Taken(v) = <<>> <=> Len(Taken(v)) = 0
  BY <1>8, <1>9, Zenon
<1>11. v.state \in {"GET_TYPE", "GET_PAYLOAD", "GET_CRC_H", "GET_CRC_L"} => Len(Taken(v)) >= 2
  BY <1>7
<1>12. v.state = "GET_LEN" => Len(Taken(v)) = 3
  BY <1>7
<1>13. v.state = "WAIT_H1" <=> Len(Taken(v)) = 0
  BY <1>7
<1> QED
  BY <1>2, <1>9, <1>10, <1>11, <1>12, <1>13, Zenon

\* The checksum keeps up with what is taken.
LEMMA HeaderCrc == crc16_ccitt_false_update(kCrcInit, UART_H1) = crc16_ccitt_false(<<UART_H1>>)
<1>1. <<>> \in Seq(Bytes) /\ UART_H1 \in Bytes /\ Append(<<>>, UART_H1) = <<UART_H1>>
  BY SmallNumbers
<1>2. crc16_ccitt_false(Append(<<>>, UART_H1))
          = crc16_ccitt_false_update(crc16_ccitt_false(<<>>), UART_H1)
  BY <1>1, CrcOfAppend
<1> QED
  BY <1>1, <1>2, CrcOfEmpty

LEMMA ParserMoves ==
    ASSUME NEW v, Coherent(v), NEW w \in Views, NEW b \in Bytes, NEW out \in BOOLEAN,
           Parses(v, w, b, out)
    PROVE  Moves(v, b, Taken(v), Taken(w)) /\ Coherent(w)
<1>0. /\ v.type \in Bytes /\ v.len \in Bytes /\ v.payload \in Seq(Bytes) /\ v.high \in Bytes
      /\ v.crc \in Words /\ v.state \in RxStates
  BY DEF Coherent, Views
<1>1. UART_H1 \in Bytes /\ UART_H2 \in Bytes /\ UART_H1 # UART_H2
  BY SmallNumbers
<1>2. Taken(v) \in Seq(Bytes) /\ Body(v) \in Seq(Bytes)
  BY TakenIsSeq
<1>3. \A s \in Seq(Bytes) :
          crc16_ccitt_false(Append(s, b)) = crc16_ccitt_false_update(crc16_ccitt_false(s), b)
  BY CrcOfAppend
\* What coherence says of w in each of its states.
<1>w. /\ w.state = "WAIT_H1" => Taken(w) = <<>> /\ Coherent(w)
      /\ w.state = "WAIT_H2" => /\ Taken(w) = <<UART_H1>>
                                /\ Coherent(w) <=> w.crc = crc16_ccitt_false(<<UART_H1>>)
      /\ w.state = "GET_TYPE" => /\ Taken(w) = <<UART_H1, UART_H2>>
                                 /\ Coherent(w) <=> w.crc = crc16_ccitt_false(Taken(w))
      /\ w.state = "GET_LEN" => /\ Taken(w) = <<UART_H1, UART_H2, w.type>>
                                /\ Coherent(w) <=> w.crc = crc16_ccitt_false(Taken(w))
      /\ w.state = "GET_PAYLOAD" => /\ Taken(w) = Body(w)
                                    /\ Coherent(w) <=> /\ w.crc = crc16_ccitt_false(Body(w))
                                                       /\ Len(w.payload) < w.len
      /\ w.state = "GET_CRC_H" => /\ Taken(w) = Body(w)
                                  /\ Coherent(w) <=> /\ w.crc = crc16_ccitt_false(Body(w))
                                                     /\ Len(w.payload) = w.len
      /\ w.state = "GET_CRC_L" => /\ Taken(w) = Append(Body(w), w.high)
                                  /\ Coherent(w) <=> /\ w.crc = crc16_ccitt_false(Body(w))
                                                     /\ Len(w.payload) = w.len
  BY Zenon DEF Taken, Coherent
<1>4. CASE v.state = "WAIT_H1"
  <2>1. Taken(v) = <<>>
    BY <1>4 DEF Taken
  <2>2. \/ b = UART_H1 /\ w.state = "WAIT_H2" /\ w.crc = crc16_ccitt_false_update(kCrcInit, b)
        \/ b # UART_H1 /\ w.state = "WAIT_H1"
    BY <1>4 DEF Parses
  <2> QED
    BY <1>4, <1>w, <2>1, <2>2, HeaderCrc, Zenon DEF Moves
<1>5. CASE v.state = "WAIT_H2"
  <2>1. Taken(v) = <<UART_H1>> /\ v.crc = crc16_ccitt_false(Taken(v))
    BY <1>5 DEF Taken, Coherent
  <2>2. \/ b = UART_H2 /\ w.state = "GET_TYPE" /\ w.crc = crc16_ccitt_false_update(v.crc, b)
        \/ b = UART_H1 /\ w.state = "WAIT_H2" /\ w.crc = crc16_ccitt_false_update(kCrcInit, b)
        \/ b # UART_H1 /\ b # UART_H2 /\ w.state = "WAIT_H1"
    BY <1>5 DEF Parses
  <2>3. <<UART_H1, UART_H2>> = Append(<<UART_H1>>, UART_H2)
    BY <1>1
  <2>4. CASE b = UART_H2 /\ w.state = "GET_TYPE" /\ w.crc = crc16_ccitt_false_update(v.crc, b)
    <3>1. Taken(w) = Append(Taken(v), b)
      BY <1>w, <2>1, <2>3, <2>4, Zenon
    <3>2. w.crc = crc16_ccitt_false(Taken(w))
      BY <1>2, <1>3, <2>1, <2>4, <3>1, Zenon
    <3> QED
      BY <1>5, <1>w, <2>1, <2>4, <3>1, <3>2, Zenon DEF Moves
  <2>5. CASE b = UART_H1 /\ w.state = "WAIT_H2" /\ w.crc = crc16_ccitt_false_update(kCrcInit, b)
    BY <1>5, <1>w, <2>1, <2>5, HeaderCrc, Zenon DEF Moves
  <2>6. CASE b # UART_H1 /\ b # UART_H2 /\ w.state = "WAIT_H1"
    BY <1>5, <1>w, <2>1, <2>6, Zenon DEF Moves
  <2> QED
    BY <2>2, <2>4, <2>5, <2>6
<1>6. CASE v.state = "GET_TYPE"
  <2>1. Taken(v) = <<UART_H1, UART_H2>> /\ v.crc = crc16_ccitt_false(Taken(v))
    BY <1>6 DEF Taken, Coherent
  <2>2. w.state = "GET_LEN" /\ w.type = b /\ w.crc = crc16_ccitt_false_update(v.crc, b)
    BY <1>6 DEF Parses
  <2>3. <<UART_H1, UART_H2, b>> = Append(<<UART_H1, UART_H2>>, b)
    BY <1>1
  <2>4. Taken(w) = Append(Taken(v), b)
    BY <1>w, <2>1, <2>2, <2>3, Zenon
  <2>5. w.crc = crc16_ccitt_false(Taken(w))
    BY <1>2, <1>3, <2>1, <2>2, <2>4, Zenon
  <2>6. Len(Taken(v)) >= 2
    BY <1>6, TakenIsSeq
  <2> QED
    BY <1>6, <1>w, <2>2, <2>4, <2>5, <2>6, Zenon DEF Moves
<1>7. CASE v.state = "GET_LEN"
  <2>1. Taken(v) = <<UART_H1, UART_H2, v.type>> /\ v.crc = crc16_ccitt_false(Taken(v))
    BY <1>7 DEF Taken, Coherent
  <2>2. Len(Taken(v)) = 3
    BY <1>7, TakenIsSeq
  <2>3. \/ b > kMaxPayload /\ w.state = "WAIT_H1"
        \/ /\ w.state = IF b = 0 THEN "GET_CRC_H" ELSE "GET_PAYLOAD"
           /\ w.type = v.type /\ w.len = b /\ w.payload = <<>>
           /\ w.crc = crc16_ccitt_false_update(v.crc, b)
    BY <1>7 DEF Parses
  <2>4. CASE b > kMaxPayload /\ w.state = "WAIT_H1"
    BY <1>7, <1>w, <2>2, <2>4, Zenon DEF Moves
  <2>5. CASE /\ w.state = IF b = 0 THEN "GET_CRC_H" ELSE "GET_PAYLOAD"
             /\ w.type = v.type /\ w.len = b /\ w.payload = <<>>
             /\ w.crc = crc16_ccitt_false_update(v.crc, b)
    <3>1. Body(w) = Append(Taken(v), b)
      <4>1. Framed(v.type, b, <<>>) = Append(<<UART_H1, UART_H2, v.type>>, b)
        BY <1>0, FramedGrows
      <4> QED
        BY <2>1, <2>5, <4>1, Zenon DEF Body
    <3>2. w.crc = crc16_ccitt_false(Body(w))
      BY <1>2, <1>3, <2>1, <2>5, <3>1, Zenon
    <3>3. Len(w.payload) = 0 /\ b \in Nat
      BY <2>5, ByteIsNumber
    <3>4. CASE b = 0
      <4>1. w.state = "GET_CRC_H" /\ Len(w.payload) = w.len
        BY <2>5, <3>3, <3>4
      <4> QED
        <5>1. Taken(w) = Append(Taken(v), b) /\ Coherent(w)
          BY <1>w, <3>1, <3>2, <4>1, Zenon
        <5>2. Moves(v, b, Taken(v), Taken(w))
          BY <1>7, <2>2, <5>1, Zenon DEF Moves
        <5> QED
          BY <5>1, <5>2
    <3>5. CASE b # 0
      <4>1. w.state = "GET_PAYLOAD" /\ Len(w.payload) < w.len
        BY <2>5, <3>3, <3>5
      <4> QED
        <5>1. Taken(w) = Append(Taken(v), b) /\ Coherent(w)
          BY <1>w, <3>1, <3>2, <4>1, Zenon
        <5>2. Moves(v, b, Taken(v), Taken(w))
          BY <1>7, <2>2, <5>1, Zenon DEF Moves
        <5> QED
          BY <5>1, <5>2
    <3> QED
      BY <3>4, <3>5
  <2> QED
    BY <2>3, <2>4, <2>5
<1>8. CASE v.state = "GET_PAYLOAD"
  <2>1. Taken(v) = Body(v) /\ v.crc = crc16_ccitt_false(Taken(v)) /\ Len(v.payload) < v.len
    BY <1>8 DEF Taken, Coherent
  <2>2. Len(Taken(v)) >= 2
    BY <1>8, TakenIsSeq
  <2>3. /\ w.state = IF Len(v.payload) + 1 >= v.len THEN "GET_CRC_H" ELSE "GET_PAYLOAD"
        /\ w.type = v.type /\ w.len = v.len /\ w.payload = Append(v.payload, b)
        /\ w.crc = crc16_ccitt_false_update(v.crc, b)
    BY <1>8 DEF Parses
  <2>4. Body(w) = Append(Taken(v), b)
    <3>1. Framed(v.type, v.len, Append(v.payload, b)) = Append(Framed(v.type, v.len, v.payload), b)
      BY <1>0, FramedGrows, ZenonT(60)
    <3> QED
      BY <2>1, <2>3, <3>1, Zenon DEF Body
  <2>5. w.crc = crc16_ccitt_false(Body(w))
    BY <1>2, <1>3, <2>1, <2>3, <2>4, Zenon
  <2>6. Len(w.payload) = Len(v.payload) + 1 /\ Len(v.payload) \in Nat /\ v.len \in Nat
    BY <1>0, <2>3, ByteIsNumber
  <2>7. CASE Len(v.payload) + 1 >= v.len
    <3>1. w.state = "GET_CRC_H" /\ Len(w.payload) = w.len
      BY <2>1, <2>3, <2>6, <2>7
    <3> QED
      BY <1>8, <1>w, <2>2, <2>4, <2>5, <3>1, Zenon DEF Moves
  <2>8. CASE ~(Len(v.payload) + 1 >= v.len)
    <3>1. w.state = "GET_PAYLOAD" /\ Len(w.payload) < w.len
      BY <2>1, <2>3, <2>6, <2>8
    <3> QED
      BY <1>8, <1>w, <2>2, <2>4, <2>5, <3>1, Zenon DEF Moves
  <2> QED
    BY <2>7, <2>8
<1>9. CASE v.state = "GET_CRC_H"
  <2>1. Taken(v) = Body(v) /\ v.crc = crc16_ccitt_false(Taken(v)) /\ Len(v.payload) = v.len
    BY <1>9 DEF Taken, Coherent
  <2>2. Len(Taken(v)) >= 2
    BY <1>9, TakenIsSeq
  <2>3. /\ w.state = "GET_CRC_L" /\ w.type = v.type /\ w.len = v.len
        /\ w.payload = v.payload /\ w.crc = v.crc /\ w.high = b
    BY <1>9 DEF Parses
  <2>4. Body(w) = Body(v)
    BY <2>3, Zenon DEF Body
  <2>5. Len(w.payload) = w.len /\ w.crc = crc16_ccitt_false(Body(w))
    BY <2>1, <2>3, <2>4, Zenon
  <2>6. Taken(w) = Append(Taken(v), b)
    BY <1>w, <2>1, <2>3, <2>4, Zenon
  <2> QED
    BY <1>9, <1>w, <2>2, <2>3, <2>5, <2>6, Zenon DEF Moves
<1>10. CASE v.state = "GET_CRC_L"
  <2>1. Taken(v) = Append(Body(v), v.high)
    BY <1>10, Zenon DEF Taken
  <2>2. w.state = "WAIT_H1"
    BY <1>10 DEF Parses
  <2> QED
    BY <1>10, <1>w, <2>1, <2>2, Zenon DEF Moves
<1> QED
  BY <1>0, <1>4, <1>5, <1>6, <1>7, <1>8, <1>9, <1>10 DEF RxStates

-----------------------------------------------------------------------------
(* A frame's prefix is recognised wherever a frame may begin.                *)

Prefixed(t, f, n) == Len(t) = n /\ \A i \in 1..n : t[i] = f[i]

LEMMA PrefixGrows ==
    ASSUME NEW t \in Seq(Bytes), NEW f, NEW n \in Nat, Prefixed(t, f, n),
           NEW b \in Bytes, b = f[n + 1]
    PROVE  Prefixed(Append(t, b), f, n + 1)
<1> DEFINE a == Append(t, b)
<1>1. Len(a) = n + 1 /\ (\A i \in 1..n : a[i] = t[i]) /\ a[n + 1] = b
  BY DEF Prefixed
<1> HIDE DEF a
<1>2. ASSUME NEW i \in 1..(n + 1)
      PROVE  a[i] = f[i]
  <2>1. i \in 1..n \/ i = n + 1
    OBVIOUS
  <2> QED
    BY <1>1, <2>1 DEF Prefixed
<1>3. Prefixed(a, f, n + 1)
  BY <1>1, <1>2, Zenon DEF Prefixed
<1> QED
  BY <1>3 DEF a

LEMMA Heads ==
    \A t \in Seq(Bytes) : \A p \in Packets :
        /\ Prefixed(t, Frame[p], 0) <=> t = <<>>
        /\ Prefixed(t, Frame[p], 1) <=> t = <<UART_H1>>
        /\ Frame[p][1] = UART_H1 /\ Frame[p][2] = UART_H2
<1> SUFFICES ASSUME NEW t \in Seq(Bytes), NEW p \in Packets
             PROVE  /\ Prefixed(t, Frame[p], 0) <=> t = <<>>
                    /\ Prefixed(t, Frame[p], 1) <=> t = <<UART_H1>>
                    /\ Frame[p][1] = UART_H1 /\ Frame[p][2] = UART_H2
  OBVIOUS
<1>1. p.type \in Bytes /\ p.payload \in Seq(Bytes) /\ Len(p.payload) \in Bytes
  BY PacketFits
<1>2. FramedOf(p)[1] = UART_H1 /\ FramedOf(p)[2] = UART_H2
  <2>1. IsFramed(FramedOf(p), p.type, Len(p.payload), p.payload)
    BY <1>1, FramedIsSeq, Zenon DEF FramedOf
  <2> QED
    BY <2>1 DEF IsFramed
<1>3. Len(p.payload) \in Nat /\ \A i \in 1..(Len(p.payload) + 4) : Frame[p][i] = FramedOf(p)[i]
  BY FrameShape
<1>4. Frame[p][1] = UART_H1 /\ Frame[p][2] = UART_H2
  <2>1. 1 \in 1..(Len(p.payload) + 4) /\ 2 \in 1..(Len(p.payload) + 4)
    BY <1>3
  <2> QED
    BY <1>2, <1>3, <2>1
<1>5. t = <<>> <=> Len(t) = 0
  OBVIOUS
<1>6. t = <<UART_H1>> <=> Len(t) = 1 /\ t[1] = UART_H1
  <2>1. UART_H1 \in Bytes
    BY SmallNumbers
  <2>2. t = <<UART_H1>> => Len(t) = 1 /\ t[1] = UART_H1
    OBVIOUS
  <2>3. Len(t) = 1 /\ t[1] = UART_H1 => t = <<UART_H1>>
    BY <2>1
  <2> QED
    BY <2>2, <2>3
<1>7. Prefixed(t, Frame[p], 0) <=> Len(t) = 0
  BY DEF Prefixed
<1>8. Prefixed(t, Frame[p], 1) <=> Len(t) = 1 /\ t[1] = Frame[p][1]
  BY DEF Prefixed
<1> QED
  BY <1>4, <1>5, <1>6, <1>7, <1>8

\* From the bytes taken to those taken with byte b.
Advances(t, b, t2) ==
    /\ t = <<>> => t2 = IF b = UART_H1 THEN <<UART_H1>> ELSE <<>>
    /\ t = <<UART_H1>> /\ b = UART_H1 => t2 = <<UART_H1>>
    /\ \A p \in Packets : \A n \in Nat :
          n >= 1 /\ n + 1 < Len(Frame[p]) /\ Prefixed(t, Frame[p], n) /\ b = Frame[p][n + 1]
              => Prefixed(t2, Frame[p], n + 1)

LEMMA MovesAdvance ==
    ASSUME NEW v, Coherent(v), NEW b \in Bytes, NEW t2, Moves(v, b, Taken(v), t2)
    PROVE  Advances(Taken(v), b, t2)
<1> DEFINE t == Taken(v)
<1>1. /\ t \in Seq(Bytes) /\ Body(v) \in Seq(Bytes)
      /\ v.state \in {"GET_TYPE", "GET_PAYLOAD", "GET_CRC_H", "GET_CRC_L"} => Len(t) >= 2
      /\ v.state = "GET_LEN" => Len(t) = 3
      /\ v.state = "WAIT_H1" <=> t = <<>>
  BY TakenIsSeq
<1>2. UART_H1 # UART_H2
  BY SmallNumbers
<1> HIDE DEF t
<1>3. t = <<>> => t2 = IF b = UART_H1 THEN <<UART_H1>> ELSE <<>>
  <2>1. t = <<>> => v.state = "WAIT_H1"
    BY <1>1
  <2> QED
    BY <2>1 DEF Moves, t
<1>4. t = <<UART_H1>> /\ b = UART_H1 => t2 = <<UART_H1>>
  <2>1. Len(<<UART_H1>>) = 1 /\ <<UART_H1>> # <<>>
    OBVIOUS
  <2>2. ASSUME t = <<UART_H1>>, b = UART_H1
        PROVE  t2 = <<UART_H1>>
    <3>1. Len(t) = 1 /\ t # <<>>
      BY <2>1, <2>2
    <3>2. /\ v.state # "WAIT_H1" /\ v.state # "GET_LEN"
          /\ v.state \notin {"GET_TYPE", "GET_PAYLOAD", "GET_CRC_H", "GET_CRC_L"}
      BY <1>1, <3>1
    <3>3. \/ b = UART_H2 /\ t2 = Append(t, b)
          \/ b = UART_H1 /\ t2 = <<UART_H1>>
          \/ b # UART_H1 /\ b # UART_H2 /\ t2 = <<>>
      BY <3>2, Zenon DEF Moves, t
    <3> QED
      BY <1>2, <2>2, <3>3, Zenon
  <2> QED
    BY <2>2
<1>5. ASSUME NEW p \in Packets, NEW n \in Nat, n >= 1, n + 1 < Len(Frame[p]),
             Prefixed(t, Frame[p], n), b = Frame[p][n + 1]
      PROVE  Prefixed(t2, Frame[p], n + 1)
  <2> DEFINE k == Len(p.payload)
  <2>1. /\ p.type \in Bytes /\ p.payload \in Seq(Bytes) /\ k \in Bytes /\ k \in Nat
        /\ k <= kMaxPayload /\ kMaxPayload \in Nat
    BY PacketFits, SmallNumbers, ByteIsNumber
  <2>2. Len(Frame[p]) = k + 6
    BY FrameShape
  <2>3. Len(t) = n
    BY <1>5 DEF Prefixed
  <2>4. Prefixed(Append(t, b), Frame[p], n + 1)
    BY <1>1, <1>5, PrefixGrows
  <2>5. Frame[p][4] = k
    <3>1. FramedOf(p)[4] = k
      <4>1. IsFramed(FramedOf(p), p.type, k, p.payload)
        BY <2>1, FramedIsSeq, Zenon DEF FramedOf, k
      <4> QED
        BY <4>1 DEF IsFramed
    <3>2. 4 \in 1..(k + 4) /\ \A i \in 1..(k + 4) : Frame[p][i] = FramedOf(p)[i]
      BY <2>1, FrameShape
    <3> QED
      BY <3>1, <3>2
  <2> HIDE DEF k
  <2> SUFFICES t2 = Append(t, b)
    BY <2>4
  <2>6. CASE v.state = "WAIT_H1"
    <3>1. Len(t) = 0
      BY <1>1, <2>6
    <3> QED
      BY <1>5, <2>3, <3>1
  <2>7. CASE v.state = "WAIT_H2"
    <3>1. t = <<UART_H1>> /\ (b = UART_H2 => t2 = Append(t, b))
      BY <1>2, <2>7 DEF Moves, t
    <3>2. n = 1
      BY <2>3, <3>1
    <3>3. b = UART_H2
      BY <1>1, <1>5, <3>2, Heads
    <3> QED
      BY <3>1, <3>3
  <2>8. CASE v.state = "GET_LEN"
    <3>1. t2 = Append(t, b) \/ b > kMaxPayload
      BY <2>8 DEF Moves, t
    <3>2. b = k
      BY <1>1, <1>5, <2>3, <2>5, <2>8
    <3> QED
      BY <2>1, <3>1, <3>2
  <2>9. CASE v.state \in {"GET_TYPE", "GET_PAYLOAD", "GET_CRC_H"}
    BY <2>9 DEF Moves, t
  <2>10. CASE v.state = "GET_CRC_L"
    <3>1. t = Append(Body(v), v.high)
      BY <2>10 DEF Moves, t
    <3>2. v.type \in Bytes /\ v.len \in Bytes /\ v.payload \in Seq(Bytes) /\ v.high \in Bytes
          /\ Len(v.payload) = v.len
      BY <2>10 DEF Coherent, Views
    <3>3. /\ Body(v)[4] = v.len /\ Len(Body(v)) = 4 + Len(v.payload)
      <4>1. IsFramed(Body(v), v.type, v.len, v.payload)
        BY <3>2, FramedIsSeq, Zenon DEF Body
      <4> QED
        BY <4>1 DEF IsFramed
    <3>4. v.len \in Nat
      BY <3>2, ByteIsNumber
    <3>5. Len(t) = 5 + v.len /\ t[4] = v.len
      BY <1>1, <3>1, <3>2, <3>3, <3>4
    <3>6. t[4] = Frame[p][4]
      BY <1>5, <2>3, <3>4, <3>5 DEF Prefixed
    <3> QED
      BY <1>5, <2>1, <2>2, <2>3, <2>5, <3>4, <3>5, <3>6
  <2> QED
    BY <2>6, <2>7, <2>8, <2>9, <2>10 DEF Moves
<1> QED
  BY <1>3, <1>4, <1>5, Zenon DEF Advances, t

\* s: k stray header bytes and the first n bytes of frame f.
Leads(s, k, f, n) ==
    /\ Len(s) = k + n
    /\ \A i \in 1..k : s[i] = UART_H1
    /\ \A i \in 1..n : s[k + i] = f[i]

\* How much of the frame has been taken then: of stray header bytes, one.
Seen(k, n) == IF n > 1 THEN n ELSE IF k + n > 0 THEN 1 ELSE 0

Follows(t, s) ==
    \A p \in Packets : \A k, n \in Nat :
        n < Len(Frame[p]) /\ Leads(s, k, Frame[p], n) => Prefixed(t, Frame[p], Seen(k, n))

LEMMA FollowsByte ==
    ASSUME NEW t \in Seq(Bytes), NEW t2 \in Seq(Bytes), NEW s \in Seq(Bytes), NEW b \in Bytes,
           NEW s2, Follows(t, s), Advances(t, b, t2),
           s2 = Append(s, b) \/ (t = <<>> /\ s2 = <<b>>)
    PROVE  Follows(t2, s2)
<1> SUFFICES ASSUME NEW p \in Packets, NEW k \in Nat, NEW n \in Nat,
                    n < Len(Frame[p]), Leads(s2, k, Frame[p], n)
             PROVE  Prefixed(t2, Frame[p], Seen(k, n))
  BY Zenon DEF Follows
<1> DEFINE f == Frame[p]
<1>1. /\ f[1] = UART_H1 /\ f[2] = UART_H2
      /\ \A u \in Seq(Bytes) : /\ Prefixed(u, f, 0) <=> u = <<>>
                               /\ Prefixed(u, f, 1) <=> u = <<UART_H1>>
  <2>1. \A u \in Seq(Bytes) : /\ Prefixed(u, f, 0) <=> u = <<>>
                              /\ Prefixed(u, f, 1) <=> u = <<UART_H1>>
    BY Heads, Zenon
  <2>2. f[1] = UART_H1 /\ f[2] = UART_H2
    BY Heads, Zenon
  <2> QED
    BY <2>1, <2>2
<1>2. Len(f) \in Nat /\ Len(f) >= 6
  <2>1. Len(f) = Len(p.payload) + 6 /\ Len(p.payload) \in Nat
    BY FrameShape
  <2> QED
    BY <2>1
<1> HIDE DEF f
<1>3. n < Len(f) /\ Leads(s2, k, f, n)
  BY DEF f
\* The step itself, by what has been taken.
<1>4. t = <<>> /\ b = UART_H1 => t2 = <<UART_H1>>
  BY DEF Advances
<1>5. t = <<UART_H1>> /\ b = UART_H1 => t2 = <<UART_H1>>
  BY DEF Advances
<1>6. \A m \in Nat : m >= 1 /\ m + 1 < Len(f) /\ Prefixed(t, f, m) /\ b = f[m + 1]
                         => Prefixed(t2, f, m + 1)
  BY DEF Advances, f
<1>7. \A i, m \in Nat : m < Len(f) /\ Leads(s, i, f, m) => Prefixed(t, f, Seen(i, m))
  BY DEF Follows, f
<1> SUFFICES Prefixed(t2, f, Seen(k, n))
  BY DEF f
<1>8. CASE t = <<>> /\ s2 = <<b>>
  <2>1. k + n = 1 /\ b = UART_H1
    <3>1. Len(s2) = 1 /\ s2[1] = b
      BY <1>8
    <3>2. k + n = 1
      BY <1>3, <3>1 DEF Leads
    <3>3. CASE k = 1 /\ n = 0
      <4>1. 1 \in 1..k
        BY <3>3
      <4> QED
        BY <1>3, <3>1, <3>2, <4>1 DEF Leads
    <3>4. CASE k = 0 /\ n = 1
      <4>1. 1 \in 1..n /\ k + 1 = 1
        BY <3>4
      <4> QED
        BY <1>1, <1>3, <3>1, <3>2, <4>1 DEF Leads
    <3> QED
      BY <3>2, <3>3, <3>4
  <2>2. Seen(k, n) = 1
    BY <2>1 DEF Seen
  <2> QED
    BY <1>1, <1>4, <1>8, <2>1, <2>2
<1>9. CASE s2 = Append(s, b)
  <2>1. /\ Len(s2) = Len(s) + 1 /\ s2[Len(s) + 1] = b /\ Len(s) \in Nat
        /\ \A i \in 1..Len(s) : s2[i] = s[i]
    BY <1>9
  <2>2. Len(s) + 1 = k + n
    BY <1>3, <2>1 DEF Leads
  <2>3. CASE n = 0
    <3>1. k \in 1..k /\ k = Len(s) + 1 /\ k - 1 \in Nat
      BY <2>1, <2>2, <2>3
    <3>2. b = UART_H1
      BY <1>3, <2>1, <3>1 DEF Leads
    <3>3. Leads(s, k - 1, f, 0)
      <4>1. Len(s) = (k - 1) + 0
        BY <3>1
      <4>2. \A i \in 1..(k - 1) : i \in 1..k /\ i \in 1..Len(s)
        BY <3>1
      <4>3. \A i \in 1..(k - 1) : s[i] = UART_H1
        BY <1>3, <2>1, <4>2 DEF Leads
      <4> QED
        BY <4>1, <4>3 DEF Leads
    <3>4. Prefixed(t, f, Seen(k - 1, 0))
      BY <1>2, <1>7, <3>1, <3>3
    <3>5. Seen(k - 1, 0) = 0 \/ Seen(k - 1, 0) = 1
      BY <3>1 DEF Seen
    <3>6. t = <<>> \/ t = <<UART_H1>>
      BY <1>1, <3>4, <3>5
    <3>7. Seen(k, n) = 1
      BY <2>3, <3>1 DEF Seen
    <3> QED
      BY <1>1, <1>4, <1>5, <3>2, <3>6, <3>7
  <2>4. CASE n = 1
    <3>1. k = Len(s) /\ 1 \in 1..n /\ k + 1 = Len(s) + 1
      BY <2>1, <2>2, <2>4
    <3>2. b = UART_H1
      BY <1>1, <1>3, <2>1, <3>1 DEF Leads
    <3>3. Leads(s, k, f, 0)
      <4>1. Len(s) = k + 0
        BY <3>1
      <4>2. \A i \in 1..k : s[i] = UART_H1
        BY <1>3, <2>1, <3>1 DEF Leads
      <4> QED
        BY <4>1, <4>2 DEF Leads
    <3>4. Prefixed(t, f, Seen(k, 0))
      BY <1>2, <1>7, <3>3
    <3>5. Seen(k, 0) = 0 \/ Seen(k, 0) = 1
      BY DEF Seen
    <3>6. t = <<>> \/ t = <<UART_H1>>
      BY <1>1, <3>4, <3>5
    <3>7. Seen(k, n) = 1
      BY <2>4 DEF Seen
    <3> QED
      BY <1>1, <1>4, <1>5, <3>2, <3>6, <3>7
  <2>5. CASE n >= 2
    <3> DEFINE m == n - 1
    <3>1. m \in Nat /\ m >= 1 /\ m + 1 = n /\ m < Len(f) /\ m + 1 < Len(f)
      BY <1>2, <1>3, <2>5
    <3> HIDE DEF m
    <3>2. n \in 1..n /\ k + n = Len(s) + 1
      BY <2>2, <2>5
    <3>3. b = f[m + 1]
      BY <1>3, <2>1, <3>1, <3>2 DEF Leads
    <3>4. Leads(s, k, f, m)
      <4>1. Len(s) = k + m
        BY <2>1, <2>2, <3>1
      <4>2. \A i \in 1..k : i \in 1..Len(s)
        BY <4>1, <3>1
      <4>3. \A i \in 1..k : s[i] = UART_H1
        BY <1>3, <2>1, <4>2 DEF Leads
      <4>4. \A i \in 1..m : k + i \in 1..Len(s) /\ i \in 1..n
        BY <4>1, <3>1
      <4>5. \A i \in 1..m : s[k + i] = f[i]
        BY <1>3, <2>1, <4>4 DEF Leads
      <4> QED
        BY <4>1, <4>3, <4>5 DEF Leads
    <3>5. Prefixed(t, f, Seen(k, m))
      BY <1>7, <3>1, <3>4
    <3>6. Seen(k, m) = m /\ Seen(k, n) = n
      BY <2>5, <3>1 DEF Seen
    <3>7. Prefixed(t2, f, m + 1)
      BY <1>6, <3>1, <3>3, <3>5, <3>6
    <3> QED
      BY <3>1, <3>6, <3>7
  <2> QED
    BY <2>3, <2>4, <2>5
<1> QED
  BY <1>8, <1>9

\* A parser that has taken nothing follows nothing.
LEMMA FollowsNothing == Follows(<<>>, <<>>)
<1> SUFFICES ASSUME NEW p \in Packets, NEW k \in Nat, NEW n \in Nat,
                    Leads(<<>>, k, Frame[p], n)
             PROVE  Prefixed(<<>>, Frame[p], Seen(k, n))
  BY Zenon DEF Follows
<1>1. k = 0 /\ n = 0
  BY DEF Leads
<1>2. Seen(k, n) = 0
  BY <1>1 DEF Seen
<1>3. <<>> \in Seq(Bytes)
  OBVIOUS
<1>4. Prefixed(<<>>, Frame[p], 0)
  BY <1>3, Heads, Zenon
<1> QED
  BY <1>2, <1>4

\* The end of what has been parsed is what has been taken.
LEMMA EndsByte ==
    ASSUME NEW t \in Seq(Bytes), NEW s \in Seq(Bytes), NEW b \in Bytes, EndsIn(s, t)
    PROVE  EndsIn(Append(s, b), Append(t, b))
<1> DEFINE s2 == Append(s, b)
           t2 == Append(t, b)
<1>1. /\ Len(s2) = Len(s) + 1 /\ s2[Len(s) + 1] = b /\ Len(s) \in Nat
      /\ \A i \in 1..Len(s) : s2[i] = s[i]
  OBVIOUS
<1>2. /\ Len(t2) = Len(t) + 1 /\ t2[Len(t) + 1] = b /\ Len(t) \in Nat
      /\ \A i \in 1..Len(t) : t2[i] = t[i]
  OBVIOUS
<1> HIDE DEF s2, t2
<1>3. Len(t2) <= Len(s2)
  BY <1>1, <1>2 DEF EndsIn
<1>4. ASSUME NEW i \in 1..Len(t2)
      PROVE  t2[i] = s2[Len(s2) - Len(t2) + i]
  <2>1. Len(s2) - Len(t2) = Len(s) - Len(t)
    BY <1>1, <1>2
  <2>2. CASE i \in 1..Len(t)
    <3>1. Len(s) - Len(t) + i \in 1..Len(s)
      BY <1>1, <1>2, <1>3, <2>2
    <3>2. t[i] = s[Len(s) - Len(t) + i]
      BY <2>2 DEF EndsIn
    <3> QED
      BY <1>1, <1>2, <2>1, <2>2, <3>1, <3>2
  <2>3. CASE i = Len(t) + 1
    <3>1. Len(s) - Len(t) + i = Len(s) + 1
      BY <1>1, <1>2, <2>3
    <3> QED
      BY <1>1, <1>2, <2>1, <2>3, <3>1
  <2> QED
    BY <1>2, <2>2, <2>3
<1>5. EndsIn(s2, t2)
  BY <1>3, <1>4, Zenon DEF EndsIn
<1> QED
  BY <1>5 DEF s2, t2

LEMMA EndsInNothing ==
    \A s \in Seq(Bytes) : EndsIn(s, <<>>)
  BY DEF EndsIn

-----------------------------------------------------------------------------
(* What is delivered.                                                        *)

PacketOf(v) == [type |-> v.type, payload |-> v.payload]

\* The last byte of a frame delivers its packet.
LEMMA WholeIsDelivered ==
    ASSUME NEW v, Coherent(v), NEW w, NEW b \in Bytes, NEW out \in BOOLEAN, Parses(v, w, b, out),
           NEW p \in Packets, Prefixed(Taken(v), Frame[p], Len(Frame[p]) - 1),
           b = Frame[p][Len(Frame[p])]
    PROVE  out /\ v.state = "GET_CRC_L" /\ PacketOf(v) = p
<1> DEFINE t == Taken(v)
           f == Frame[p]
           k == Len(p.payload)
           crc == crc16_ccitt_false(FramedOf(p))
<1>1. /\ p \in Packet /\ p.type \in Bytes /\ p.payload \in Seq(Bytes)
      /\ k \in Bytes /\ k \in Nat
  BY PacketFits, ByteIsNumber
<1>2. /\ Len(f) = k + 6 /\ crc \in Words
      /\ \A i \in 1..(k + 4) : f[i] = FramedOf(p)[i]
      /\ f[k + 5] = crc \div 256 /\ f[k + 6] = crc % 256
  BY FrameShape
<1>3. /\ v.type \in Bytes /\ v.len \in Bytes /\ v.payload \in Seq(Bytes) /\ v.high \in Bytes
      /\ v.crc \in Words /\ v.state \in RxStates
  BY DEF Coherent, Views
<1>4. IsFramed(FramedOf(p), p.type, k, p.payload)
  BY <1>1, FramedIsSeq, Zenon DEF FramedOf
<1>5. IsFramed(Body(v), v.type, v.len, v.payload)
  BY <1>3, FramedIsSeq, Zenon DEF Body
<1> HIDE DEF t, f, k, crc
<1>6. Len(t) = k + 5 /\ \A i \in 1..(k + 5) : t[i] = f[i]
  <2>1. Len(f) - 1 = k + 5
    BY <1>1, <1>2
  <2>2. Prefixed(t, f, k + 5)
    BY <2>1, Zenon DEF t, f
  <2> QED
    BY <2>2 DEF Prefixed
<1>7. \A i \in 1..(k + 4) : t[i] = FramedOf(p)[i]
  <2>1. \A i \in 1..(k + 4) : i \in 1..(k + 5)
    BY <1>1
  <2> QED
    BY <1>2, <1>6, <2>1
<1>8. t[3] = p.type /\ t[4] = k /\ \A i \in 1..k : t[4 + i] = p.payload[i]
  <2>1. 3 \in 1..(k + 4) /\ 4 \in 1..(k + 4) /\ \A i \in 1..k : 4 + i \in 1..(k + 4)
    BY <1>1
  <2>2. /\ FramedOf(p)[3] = p.type /\ FramedOf(p)[4] = k
        /\ \A i \in 1..k : FramedOf(p)[4 + i] = p.payload[i]
    BY <1>4 DEF IsFramed, k
  <2> QED
    BY <1>7, <2>1, <2>2
<1>9. /\ Body(v) \in Seq(Bytes) /\ Len(Body(v)) = 4 + Len(v.payload) /\ Len(v.payload) \in Nat
      /\ v.len \in Nat
      /\ Body(v)[3] = v.type /\ Body(v)[4] = v.len
      /\ \A i \in 1..Len(v.payload) : Body(v)[4 + i] = v.payload[i]
  <2>1. Len(v.payload) \in Nat /\ v.len \in Nat
    BY <1>3, ByteIsNumber
  <2>2. /\ Body(v) \in Seq(Bytes) /\ Len(Body(v)) = 4 + Len(v.payload)
        /\ Body(v)[3] = v.type /\ Body(v)[4] = v.len
        /\ \A i \in 1..Len(v.payload) : Body(v)[4 + i] = v.payload[i]
    BY <1>5, Zenon DEF IsFramed
  <2> QED
    BY <2>1, <2>2
<1>10. v.state = "GET_CRC_L"
  <2>1. Len(<<>>) = 0 /\ Len(<<UART_H1>>) = 1 /\ Len(<<UART_H1, UART_H2>>) = 2
        /\ Len(<<UART_H1, UART_H2, v.type>>) = 3
    OBVIOUS
  <2>2. v.state \notin {"WAIT_H1", "WAIT_H2", "GET_TYPE", "GET_LEN"}
    <3>1. /\ v.state = "WAIT_H1" => t = <<>>
          /\ v.state = "WAIT_H2" => t = <<UART_H1>>
          /\ v.state = "GET_TYPE" => t = <<UART_H1, UART_H2>>
          /\ v.state = "GET_LEN" => t = <<UART_H1, UART_H2, v.type>>
      BY Zenon DEF Taken, t

    <3>2. /\ v.state = "WAIT_H1" => Len(t) = 0
          /\ v.state = "WAIT_H2" => Len(t) = 1
          /\ v.state = "GET_TYPE" => Len(t) = 2
          /\ v.state = "GET_LEN" => Len(t) = 3
      BY <2>1, <3>1, Zenon
    <3>3. Len(t) # 0 /\ Len(t) # 1 /\ Len(t) # 2 /\ Len(t) # 3
      BY <1>1, <1>6
    <3> QED
      BY <3>2, <3>3, Zenon
  <2>3. ASSUME v.state \in {"GET_PAYLOAD", "GET_CRC_H"}
        PROVE  FALSE
    <3>1. t = Body(v)
      BY <2>3 DEF Taken, t
    <3>2. v.len = k
      BY <1>8, <1>9, <3>1
    <3>3. Len(v.payload) <= v.len
      <4>1. CASE v.state = "GET_PAYLOAD"
        BY <1>9, <4>1 DEF Coherent
      <4>2. CASE v.state = "GET_CRC_H"
        BY <1>9, <4>2 DEF Coherent
      <4> QED
        BY <2>3, <4>1, <4>2
    <3> QED
      BY <1>1, <1>6, <1>9, <3>1, <3>2, <3>3
  <2> QED
    BY <1>3, <2>2, <2>3 DEF RxStates
<1>11. t = Append(Body(v), v.high) /\ v.crc = crc16_ccitt_false(Body(v)) /\ Len(v.payload) = v.len
  BY <1>10, Zenon DEF Taken, Coherent, t
<1>12. /\ t[3] = v.type /\ t[4] = v.len /\ Len(t) = 5 + v.len /\ t[5 + v.len] = v.high
       /\ \A i \in 1..v.len : t[4 + i] = v.payload[i]
  <2>1. Len(t) = 5 + v.len /\ t[5 + v.len] = v.high /\ \A i \in 1..(4 + v.len) : t[i] = Body(v)[i]
    BY <1>3, <1>9, <1>11, SMTT(30)
  <2>2. 3 \in 1..(4 + v.len) /\ 4 \in 1..(4 + v.len) /\ \A i \in 1..v.len : 4 + i \in 1..(4 + v.len)
    BY <1>9
  <2> QED
    BY <1>9, <1>11, <2>1, <2>2
<1>13. v.len = k /\ v.type = p.type
  BY <1>8, <1>12
<1>14. v.payload = p.payload
  <2>1. Len(v.payload) = k /\ \A i \in 1..k : v.payload[i] = p.payload[i]
    BY <1>8, <1>11, <1>12, <1>13
  <2>2. Len(p.payload) = k
    BY DEF k
  <2> QED
    BY <1>1, <1>3, <2>1, <2>2
<1>15. PacketOf(v) = p
  <2>1. p = [type |-> p.type, payload |-> p.payload]
    BY <1>1 DEF Packet
  <2> QED
    BY <1>13, <1>14, <2>1, Zenon DEF PacketOf
<1>16. v.crc = crc
  BY <1>11, <1>13, <1>14, Zenon DEF Body, FramedOf, crc, k
<1>17. v.high = crc \div 256 /\ b = crc % 256
  <2>1. t[k + 5] = f[k + 5] /\ 5 + v.len = k + 5 /\ Len(f) = k + 6
    BY <1>1, <1>2, <1>6, <1>13
  <2>2. b = f[Len(f)]
    BY Zenon DEF f
  <2> QED
    BY <1>2, <1>12, <2>1, <2>2
<1>18. v.high * 256 + b = v.crc
  <2>1. crc = 256 * (crc \div 256) + (crc % 256) /\ crc \div 256 \in Nat /\ crc % 256 \in Nat
    BY <1>2, WordHalves, ByteIsNumber
  <2> QED
    BY <1>16, <1>17, <2>1
<1> QED
  BY <1>10, <1>15, <1>18 DEF Parses

\* A checksum that fits closes a frame such as PacketBuilder builds.
LEMMA DeliveredIsWhole ==
    ASSUME NEW v, Coherent(v), v.state = "GET_CRC_L", NEW b \in Bytes, v.high * 256 + b = v.crc
    PROVE  Append(Taken(v), b) = buildRaw(PacketOf(v))
<1>1. /\ v.type \in Bytes /\ v.len \in Bytes /\ v.payload \in Seq(Bytes) /\ v.high \in Bytes
      /\ Len(v.payload) = v.len /\ v.crc = crc16_ccitt_false(Body(v))
  BY DEF Coherent, Views
<1>2. Body(v) \in Seq(Bytes) /\ Taken(v) = Append(Body(v), v.high)
  BY TakenIsSeq DEF Taken
<1>3. v.crc \div 256 = v.high /\ v.crc % 256 = b
  <2>2. \A h, l \in Bytes : (h * 256 + l) \div 256 = h /\ (h * 256 + l) % 256 = l
    BY TwoBytes
  <2>1. (v.high * 256 + b) \div 256 = v.high /\ (v.high * 256 + b) % 256 = b
    BY <1>1, <2>2, ZenonT(60)
  <2> QED
    BY <2>1, Zenon
<1>4. buildRaw(PacketOf(v)) = Body(v) \o <<v.high, b>>
  <2>1. PacketOf(v).type = v.type /\ PacketOf(v).payload = v.payload
    BY DEF PacketOf
  <2>2. buildRaw(PacketOf(v)) = Body(v) \o <<v.crc \div 256, v.crc % 256>>
    BY <1>1, <2>1, Zenon DEF buildRaw, Body, Framed
  <2> QED
    BY <1>3, <2>2
<1> DEFINE d == Body(v)
           h == v.high
<1>5. d \in Seq(Bytes) /\ h \in Bytes
  BY <1>1, <1>2
<1> HIDE DEF d, h
<1>6. d \o <<h, b>> = Append(Append(d, h), b)
  BY <1>5
<1> QED
  BY <1>2, <1>4, <1>6 DEF d, h

\* A byte read keeps all that is known of a parser.
LEMMA ByteKeeps ==
    ASSUME NEW v, Coherent(v), NEW w \in Views, NEW b \in Bytes, NEW out \in BOOLEAN,
           Parses(v, w, b, out), NEW s \in Seq(Bytes), EndsIn(s, Taken(v)), Follows(Taken(v), s),
           NEW s2, s2 = Append(s, b) \/ (v.state = "WAIT_H1" /\ s2 = <<b>>)
    PROVE  /\ Coherent(w) /\ EndsIn(s2, Taken(w)) /\ Follows(Taken(w), s2)
           /\ out => v.state = "GET_CRC_L" /\ IsSuffix(buildRaw(PacketOf(v)), s2)
           /\ \A p \in Packets : \A k \in Nat :
                 Leads(s2, k, Frame[p], Len(Frame[p])) => out /\ PacketOf(v) = p
<1> DEFINE t == Taken(v)
           t2 == Taken(w)
<1>1. Coherent(w) /\ Moves(v, b, t, t2)
  BY ParserMoves
<1>2. t \in Seq(Bytes) /\ t2 \in Seq(Bytes) /\ (v.state = "WAIT_H1" <=> t = <<>>)
  BY <1>1, TakenIsSeq
<1>3. Advances(t, b, t2)
  BY <1>1, MovesAdvance
<1>4. s2 = Append(s, b) \/ (t = <<>> /\ s2 = <<b>>)
  BY <1>2
<1>5. EndsIn(s, t) /\ Follows(t, s)
  OBVIOUS
<1>6. \/ t2 = <<>> \/ t2 = Append(t, b) \/ (b = UART_H1 /\ t2 = <<b>>)
  <2>1. UART_H1 \in Bytes
    BY SmallNumbers
  <2> HIDE DEF t, t2
  <2> QED
    BY <1>1, Zenon DEF Moves
<1> HIDE DEF t, t2
<1>7. Follows(t2, s2)
  BY <1>2, <1>3, <1>4, <1>5, FollowsByte, Zenon
<1>8. s2 \in Seq(Bytes) /\ Len(s2) >= 1 /\ s2[Len(s2)] = b
  <2>1. CASE s2 = Append(s, b)
    BY <2>1
  <2>2. CASE s2 = <<b>>
    BY <2>2
  <2> QED
    BY <1>4, <2>1, <2>2
<1>9. EndsIn(s2, t2)
  <2>1. CASE t2 = <<>>
    BY <1>8, <2>1, EndsInNothing
  <2>2. CASE t2 = <<b>>
    <3>1. Len(t2) = 1 /\ t2[1] = b
      BY <2>2
    <3>2. Len(s2) \in Nat /\ Len(s2) - 1 + 1 = Len(s2)
      BY <1>8
    <3>3. ASSUME NEW i \in 1..Len(t2)
          PROVE  t2[i] = s2[Len(s2) - Len(t2) + i]
      <4>1. i = 1
        BY <3>1
      <4>2. Len(s2) - Len(t2) + i = Len(s2)
        BY <3>1, <3>2, <4>1
      <4> QED
        BY <1>8, <3>1, <4>1, <4>2
    <3>4. Len(t2) <= Len(s2)
      BY <1>8, <3>1, <3>2
    <3> QED
      BY <3>3, <3>4, Zenon DEF EndsIn
  <2>3. CASE t2 = Append(t, b) /\ t2 # <<b>>
    <3>1. t # <<>>
      <4>1. Append(<<>>, b) = <<b>>
        OBVIOUS
      <4> QED
        BY <2>3, <4>1, Zenon
    <3>2. EndsIn(Append(s, b), Append(t, b))
      BY <1>2, <1>5, EndsByte
    <3> QED
      BY <1>4, <2>3, <3>1, <3>2, Zenon
  <2> QED
    BY <1>6, <2>1, <2>2, <2>3
<1>10. ASSUME out
       PROVE  v.state = "GET_CRC_L" /\ IsSuffix(buildRaw(PacketOf(v)), s2)
  <2>1. v.state = "GET_CRC_L" /\ v.high * 256 + b = v.crc
    BY <1>10 DEF Parses
  <2>2. Append(t, b) = buildRaw(PacketOf(v))
    BY <2>1, DeliveredIsWhole DEF t
  <2>3. s2 = Append(s, b)
    BY <1>2, <1>4, <2>1
  <2>4. EndsIn(s2, Append(t, b)) /\ Append(t, b) \in Seq(Bytes)
    <3>1. EndsIn(Append(s, b), Append(t, b))
      BY <1>2, <1>5, EndsByte
    <3>2. Append(t, b) \in Seq(Bytes)
      BY <1>2
    <3> QED
      BY <2>3, <3>1, <3>2, Zenon
  <2>5. IsSuffix(Append(t, b), s2)
    BY <1>8, <2>4, SuffixIsEnd
  <2> QED
    BY <2>1, <2>2, <2>5, Zenon
<1>11. ASSUME NEW p \in Packets, NEW k \in Nat, Leads(s2, k, Frame[p], Len(Frame[p]))
       PROVE  out /\ PacketOf(v) = p
  <2> DEFINE f == Frame[p]
             m == Len(f) - 1
  <2>1. Len(f) \in Nat /\ Len(f) >= 6
    <3>1. Len(f) = Len(p.payload) + 6 /\ Len(p.payload) \in Nat
      BY FrameShape
    <3> QED
      BY <3>1
  <2> HIDE DEF f
  <2>2. m \in Nat /\ m >= 5 /\ m < Len(f) /\ m + 1 = Len(f)
    BY <2>1
  <2>3. Leads(s2, k, f, m + 1)
    BY <1>11, <2>2, Zenon DEF f
  <2>m. m = Len(f) - 1
    OBVIOUS
  <2> HIDE DEF m
  <2>4. s2 = Append(s, b)
    <3>1. Len(s2) >= 6
      BY <2>2, <2>3 DEF Leads
    <3>2. s2 # <<b>>
      <4>1. Len(<<b>>) = 1
        OBVIOUS
      <4>2. s2 = <<b>> => Len(s2) = 1
        BY <4>1, Zenon
      <4>3. Len(s2) # 1
        BY <1>8, <3>1
      <4> QED
        BY <4>2, <4>3, Zenon
    <3> QED
      BY <1>4, <3>2
  <2>5. /\ Len(s2) = Len(s) + 1 /\ s2[Len(s) + 1] = b /\ Len(s) \in Nat
        /\ \A i \in 1..Len(s) : s2[i] = s[i]
    BY <2>4
  <2>6. Len(s) = k + m
    BY <2>2, <2>3, <2>5 DEF Leads
  <2>7. b = f[m + 1]
    <3>1. m + 1 \in 1..(m + 1) /\ k + (m + 1) = Len(s) + 1
      BY <2>2, <2>6
    <3> QED
      BY <2>3, <2>5, <3>1 DEF Leads
  <2>8. Leads(s, k, f, m)
    <3>1. \A i \in 1..k : i \in 1..Len(s)
      BY <2>2, <2>6
    <3>2. \A i \in 1..k : s[i] = UART_H1
      BY <2>3, <2>5, <3>1 DEF Leads
    <3>3. \A i \in 1..m : k + i \in 1..Len(s) /\ i \in 1..(m + 1)
      BY <2>2, <2>6
    <3>4. \A i \in 1..m : s[k + i] = f[i]
      BY <2>3, <2>5, <3>3 DEF Leads
    <3> QED
      BY <2>6, <3>2, <3>4 DEF Leads
  <2>9. Prefixed(t, f, Seen(k, m))
    BY <1>5, <2>2, <2>8 DEF Follows, f
  <2>10. Seen(k, m) = m
    BY <2>2 DEF Seen
  <2>11. Prefixed(Taken(v), Frame[p], Len(Frame[p]) - 1) /\ b = Frame[p][Len(Frame[p])]
    BY <2>2, <2>7, <2>9, <2>10, <2>m DEF f, t
  <2> QED
    BY <2>11, WholeIsDelivered
<1> QED
  BY <1>1, <1>7, <1>9, <1>10, <1>11, Zenon DEF t2

-----------------------------------------------------------------------------
(* The two parsers are that parser.                                          *)

BoardView == [state |-> g.state, type |-> g.type, len |-> g.len, payload |-> g.payload,
              crc |-> g.crc, high |-> g.crcRx \div 256]

PiView == [state |-> IF rx.state # "CHECK_CRC" THEN rx.state
                     ELSE IF rx.crcBytes = <<>> THEN "GET_CRC_H" ELSE "GET_CRC_L",
           type |-> rx.type, len |-> rx.len, payload |-> rx.payload, crc |-> rx.crc,
           high |-> IF rx.crcBytes = <<>> THEN 0 ELSE rx.crcBytes[1]]

LEMMA BoardViewIsView ==
    ASSUME BoardOK
    PROVE  BoardView \in Views
<1>1. g \in BoardRecords
  BY DEF BoardOK, ReceiverOK, BoardRecords
<1>2. g.len \in Bytes
  <2>1. g.len \in 0..kMaxPayload /\ kMaxPayload \in Nat /\ kMaxPayload < 256
    BY <1>1 DEF BoardRecords, kMaxPayload
  <2>2. g.len \in Nat /\ g.len < 256
    BY <2>1
  <2> QED
    BY <2>2, ByteIsNumber
<1>3. g.crcRx \div 256 \in Bytes
  BY <1>1, WordHalves DEF BoardRecords
<1> QED
  BY <1>1, <1>2, <1>3 DEF BoardView, Views, BoardRecords

LEMMA PiViewIsView ==
    ASSUME ParserOK
    PROVE  PiView \in Views
<1>1. rx \in PiRecords
  BY DEF ParserOK
<1>2. rx.crcBytes # <<>> => rx.crcBytes[1] \in Bytes
  BY <1>1 DEF PiRecords
<1>3. PiView.state \in RxStates
  BY <1>1 DEF PiView, PiRecords, ParsingStates, RxStates
<1>4. PiView.high \in Bytes
  BY <1>2, SmallNumbers DEF PiView
<1> QED
  BY <1>1, <1>3, <1>4 DEF PiView, Views, PiRecords

\* What a byte does: one step of the parser, its packet delivered or nothing.
Handles(v, w, b, frames, frames2) ==
    \E out \in BOOLEAN :
        /\ Parses(v, w, b, out)
        /\ frames2 = IF out THEN Append(frames, PacketOf(v)) ELSE frames

LEMMA BoardHandles ==
    ASSUME BoardOK, NEW b \in Bytes, ReceiverByte(b)
    PROVE  Handles(BoardView, BoardView', b, g_frames, g_frames')
<1>1. /\ g \in BoardRecords
      /\ g.state = "GET_CRC_L" => \E h \in Bytes : g.crcRx = h * 256
  BY DEF BoardOK, ReceiverOK, BoardRecords
<1>2. /\ BoardView.state = g.state /\ BoardView.type = g.type /\ BoardView.len = g.len
      /\ BoardView.payload = g.payload /\ BoardView.crc = g.crc
      /\ BoardView.high = g.crcRx \div 256
  BY DEF BoardView
<1>3. /\ BoardView'.state = g'.state /\ BoardView'.type = g'.type /\ BoardView'.len = g'.len
      /\ BoardView'.payload = g'.payload /\ BoardView'.crc = g'.crc
      /\ BoardView'.high = g'.crcRx \div 256
  BY DEF BoardView
<1>4. PacketOf(BoardView) = [type |-> g.type, payload |-> g.payload]
  BY <1>2, Zenon DEF PacketOf
<1>5. Reset(g).state = "WAIT_H1"
  BY <1>1 DEF Reset, BoardRecords
<1>h. Heading(b).state = "WAIT_H2" /\ Heading(b).crc = crc16_ccitt_false_update(kCrcInit, b)
  BY <1>1 DEF Heading, BoardRecords
<1>t. \A next \in RxStates :
        /\ Took(b, next).state = next /\ Took(b, next).crc = crc16_ccitt_false_update(g.crc, b)
        /\ Took(b, next).type = g.type /\ Took(b, next).len = g.len
        /\ Took(b, next).payload = g.payload
        /\ DOMAIN Took(b, next) = {"state", "type", "len", "payload", "crc", "crcRx"}
  BY <1>1 DEF Took, BoardRecords
<1> SUFFICES \E out \in BOOLEAN :
                 /\ Parses(BoardView, BoardView', b, out)
                 /\ g_frames' = IF out THEN Append(g_frames, PacketOf(BoardView)) ELSE g_frames
  BY Zenon DEF Handles
<1>n. ASSUME Parses(BoardView, BoardView', b, FALSE), g_frames' = g_frames
      PROVE  \E out \in BOOLEAN :
                 /\ Parses(BoardView, BoardView', b, out)
                 /\ g_frames' = IF out THEN Append(g_frames, PacketOf(BoardView)) ELSE g_frames
  BY <1>n, Zenon
<1> DEFINE v == BoardView
           w == BoardView'
<1> HIDE DEF v, w
<1>v. /\ v.state = g.state /\ v.type = g.type /\ v.len = g.len /\ v.payload = g.payload
      /\ v.crc = g.crc /\ v.high = g.crcRx \div 256
  BY <1>2 DEF v
<1>w. /\ w.state = g'.state /\ w.type = g'.type /\ w.len = g'.len /\ w.payload = g'.payload
      /\ w.crc = g'.crc /\ w.high = g'.crcRx \div 256
  BY <1>3 DEF w
<1>m. ASSUME Parses(v, w, b, FALSE), g_frames' = g_frames
      PROVE  \E out \in BOOLEAN :
                 /\ Parses(BoardView, BoardView', b, out)
                 /\ g_frames' = IF out THEN Append(g_frames, PacketOf(BoardView)) ELSE g_frames
  BY <1>m, <1>n DEF v, w
<1>6. CASE WaitH1(b)
  <2>1. g_frames' = g_frames /\ g.state = "WAIT_H1"
        /\ (b = UART_H1 => g' = Heading(b)) /\ (b # UART_H1 => g' = g)
    BY <1>6 DEF WaitH1
  <2>3. ASSUME b = UART_H1
        PROVE  Parses(v, w, b, FALSE)
    <3>1. w.state = "WAIT_H2" /\ w.crc = crc16_ccitt_false_update(kCrcInit, b)
      BY <1>w, <1>h, <2>1, <2>3, ZenonT(60)
    <3> QED
      BY <1>v, <2>1, <2>3, <3>1, Zenon DEF Parses
  <2>4. ASSUME b # UART_H1
        PROVE  Parses(v, w, b, FALSE)
    <3>1. w.state = "WAIT_H1"
      BY <1>w, <2>1, <2>4, Zenon
    <3> QED
      BY <1>v, <2>1, <2>4, <3>1, Zenon DEF Parses
  <2>2. Parses(v, w, b, FALSE)
    BY <2>3, <2>4, Zenon
  <2> QED
    BY <1>m, <2>1, <2>2
<1>7. CASE WaitH2(b)
  <2>1. /\ g_frames' = g_frames /\ g.state = "WAIT_H2"
        /\ b = UART_H2 => g' = Took(b, "GET_TYPE")
        /\ b = UART_H1 => g' = Heading(b)
        /\ b # UART_H1 /\ b # UART_H2 => g' = Reset(g)
    BY <1>7, SmallNumbers DEF WaitH2
  <2>2. Took(b, "GET_TYPE").state = "GET_TYPE"
        /\ Took(b, "GET_TYPE").crc = crc16_ccitt_false_update(g.crc, b)
    BY <1>t DEF RxStates
  <2>4. ASSUME b = UART_H2
        PROVE  Parses(v, w, b, FALSE)
    <3>1. w.state = "GET_TYPE" /\ w.crc = crc16_ccitt_false_update(v.crc, b)
      BY <1>v, <1>w, <2>1, <2>2, <2>4, ZenonT(60)
    <3> QED
      BY <1>v, <2>1, <2>4, <3>1, Zenon DEF Parses
  <2>5. ASSUME b = UART_H1
        PROVE  Parses(v, w, b, FALSE)
    <3>1. w.state = "WAIT_H2" /\ w.crc = crc16_ccitt_false_update(kCrcInit, b)
      BY <1>w, <1>h, <2>1, <2>5, Zenon
    <3> QED
      BY <1>v, <2>1, <2>5, <3>1, Zenon DEF Parses
  <2>6. ASSUME b # UART_H1 /\ b # UART_H2
        PROVE  Parses(v, w, b, FALSE)
    <3>1. w.state = "WAIT_H1"
      BY <1>w, <1>5, <2>1, <2>6, Zenon
    <3> QED
      BY <1>v, <2>1, <2>6, <3>1, Zenon DEF Parses
  <2>3. Parses(v, w, b, FALSE)
    BY <2>4, <2>5, <2>6, Zenon
  <2> QED
    BY <1>m, <2>1, <2>3
<1>8. CASE GetType(b)
  <2>1. /\ g_frames' = g_frames /\ g.state = "GET_TYPE"
        /\ g' = [Took(b, "GET_LEN") EXCEPT !.type = b]
    BY <1>8 DEF GetType
  <2>2. g'.state = "GET_LEN" /\ g'.type = b /\ g'.crc = crc16_ccitt_false_update(g.crc, b)
    BY <1>1, <2>1 DEF Took, BoardRecords
  <2>3. /\ v.state = "GET_TYPE" /\ w.state = "GET_LEN" /\ w.type = b
        /\ w.crc = crc16_ccitt_false_update(v.crc, b)
    BY <1>v, <1>w, <2>1, <2>2, Zenon
  <2>4. Parses(v, w, b, FALSE)
    BY <2>3, Zenon DEF Parses
  <2> QED
    BY <1>m, <2>1, <2>4
<1>9. CASE GetLen(b)
  <2>1. g_frames' = g_frames /\ g.state = "GET_LEN"
    BY <1>9 DEF GetLen
  <2>2. CASE b > kMaxPayload
    <3>1. g' = Reset(g)
      BY <1>9, <2>2 DEF GetLen
    <3>2. v.state = "GET_LEN" /\ w.state = "WAIT_H1"
      BY <1>v, <1>w, <1>5, <2>1, <3>1, Zenon
    <3>3. Parses(v, w, b, FALSE)
      BY <2>2, <3>2, Zenon DEF Parses
    <3> QED
      BY <1>m, <2>1, <3>3
  <2>3. CASE ~(b > kMaxPayload)
    <3> DEFINE next == IF b = 0 THEN "GET_CRC_H" ELSE "GET_PAYLOAD"
    <3>1. g' = [Took(b, next) EXCEPT !.len = b, !.payload = <<>>]
      BY <1>9, <2>3 DEF GetLen
    <3> HIDE DEF next
    <3>2. /\ g'.state = next /\ g'.type = g.type /\ g'.len = b /\ g'.payload = <<>>
          /\ g'.crc = crc16_ccitt_false_update(g.crc, b)
      BY <1>1, <3>1 DEF Took, BoardRecords
    <3>3. /\ v.state = "GET_LEN" /\ w.state = IF b = 0 THEN "GET_CRC_H" ELSE "GET_PAYLOAD"
          /\ w.type = v.type /\ w.len = b /\ w.payload = <<>>
          /\ w.crc = crc16_ccitt_false_update(v.crc, b)
      BY <1>v, <1>w, <2>1, <3>2, Zenon DEF next
    <3>4. Parses(v, w, b, FALSE)
      BY <3>3, Zenon DEF Parses
    <3> QED
      BY <1>m, <2>1, <3>4
  <2> QED
    BY <2>2, <2>3
<1>10. CASE GetPayload(b)
  <2> DEFINE next == IF Len(g.payload) + 1 >= g.len THEN "GET_CRC_H" ELSE "GET_PAYLOAD"
  <2>1. /\ g_frames' = g_frames /\ g.state = "GET_PAYLOAD"
        /\ g' = [Took(b, next) EXCEPT !.payload = Append(@, b)]
    BY <1>10 DEF GetPayload
  <2> HIDE DEF next
  <2>2. /\ g'.state = next /\ g'.type = g.type /\ g'.len = g.len
        /\ g'.payload = Append(g.payload, b)
        /\ g'.crc = crc16_ccitt_false_update(g.crc, b)
    BY <1>1, <2>1 DEF Took, BoardRecords
  <2>3. /\ v.state = "GET_PAYLOAD"
        /\ w.state = IF Len(v.payload) + 1 >= v.len THEN "GET_CRC_H" ELSE "GET_PAYLOAD"
        /\ w.type = v.type /\ w.len = v.len /\ w.payload = Append(v.payload, b)
        /\ w.crc = crc16_ccitt_false_update(v.crc, b)
    BY <1>v, <1>w, <2>1, <2>2, Zenon DEF next
  <2>4. Parses(v, w, b, FALSE)
    BY <2>3, Zenon DEF Parses
  <2> QED
    BY <1>m, <2>1, <2>4
<1>11. CASE GetCrcH(b)
  <2>1. /\ g_frames' = g_frames /\ g.state = "GET_CRC_H"
        /\ g' = [g EXCEPT !.crcRx = b * 256, !.state = "GET_CRC_L"]
    BY <1>11 DEF GetCrcH
  <2>2. /\ g'.state = "GET_CRC_L" /\ g'.type = g.type /\ g'.len = g.len
        /\ g'.payload = g.payload /\ g'.crc = g.crc /\ g'.crcRx = b * 256
    BY <1>1, <2>1 DEF BoardRecords
  <2>3. w.high = b
    <3>1. (b * 256) \div 256 = b
      BY ByteIsNumber
    <3> QED
      BY <1>w, <2>2, <3>1, ZenonT(60)
  <2>4. Parses(v, w, b, FALSE)
    <3>1. /\ v.state = "GET_CRC_H" /\ w.state = "GET_CRC_L" /\ w.type = v.type /\ w.len = v.len
          /\ w.payload = v.payload /\ w.crc = v.crc /\ w.high = b
      BY <1>v, <1>w, <2>1, <2>2, <2>3
    <3> QED
      BY <3>1, Zenon DEF Parses
  <2> QED
    BY <1>m, <2>1, <2>4
<1>12. CASE GetCrcL(b)
  <2> DEFINE out == g.crcRx + b = g.crc
  <2>1. /\ g_frames' = IF out THEN Append(g_frames, [type |-> g.type, payload |-> g.payload])
                       ELSE g_frames
        /\ g.state = "GET_CRC_L" /\ g' = Reset(g)
    BY <1>12 DEF GetCrcL
  <2>2. v.high * 256 = g.crcRx
    <3>1. PICK h \in Bytes : g.crcRx = h * 256
      BY <1>1, <2>1
    <3>2. (h * 256) \div 256 = h
      BY ByteIsNumber
    <3> QED
      BY <1>v, <3>1, <3>2
  <2>3. out \in BOOLEAN /\ (out <=> v.high * 256 + b = v.crc)
    BY <1>v, <2>2, Zenon
  <2> HIDE DEF out
  <2>4. Parses(v, w, b, out)
    BY <1>v, <1>w, <1>5, <2>1, <2>3, ZenonT(60) DEF Parses
  <2>5. Parses(BoardView, BoardView', b, out)
    BY <2>4 DEF v, w
  <2> QED
    BY <1>4, <2>1, <2>3, <2>5, Zenon
<1> QED
  BY <1>6, <1>7, <1>8, <1>9, <1>10, <1>11, <1>12 DEF ReceiverByte

LEMMA PiHandles ==
    ASSUME ParserOK, NEW b \in Bytes, feedByte(b)
    PROVE  Handles(PiView, PiView', b, rx_packets, rx_packets')
<1>1. rx \in PiRecords
  BY DEF ParserOK
<1>2. PacketOf(PiView) = [type |-> rx.type, payload |-> rx.payload]
  BY DEF PacketOf, PiView
<1>5. Fresh.state = "WAIT_H1"
  BY DEF Fresh
<1>h. CommHeading(b).state = "WAIT_H2"
      /\ CommHeading(b).crc = crc16_ccitt_false_update(kCrcInit, b)
  BY <1>1 DEF CommHeading, PiRecords
<1> SUFFICES \E out \in BOOLEAN :
                 /\ Parses(PiView, PiView', b, out)
                 /\ rx_packets' = IF out THEN Append(rx_packets, PacketOf(PiView)) ELSE rx_packets
  BY Zenon DEF Handles
<1> DEFINE v == PiView
           w == PiView'
<1> HIDE DEF v, w
<1>v. /\ v.type = rx.type /\ v.len = rx.len /\ v.payload = rx.payload /\ v.crc = rx.crc
      /\ rx.state # "CHECK_CRC" => v.state = rx.state
      /\ rx.state = "CHECK_CRC" /\ rx.crcBytes = <<>> => v.state = "GET_CRC_H"
      /\ rx.state = "CHECK_CRC" /\ rx.crcBytes # <<>>
             => v.state = "GET_CRC_L" /\ v.high = rx.crcBytes[1]
  BY DEF v, PiView
<1>w. /\ w.type = rx'.type /\ w.len = rx'.len /\ w.payload = rx'.payload /\ w.crc = rx'.crc
      /\ rx'.state # "CHECK_CRC" => w.state = rx'.state
      /\ rx'.state = "CHECK_CRC" /\ rx'.crcBytes = <<>> => w.state = "GET_CRC_H"
      /\ rx'.state = "CHECK_CRC" /\ rx'.crcBytes # <<>>
             => w.state = "GET_CRC_L" /\ w.high = rx'.crcBytes[1]
  BY DEF w, PiView
<1>m. ASSUME Parses(v, w, b, FALSE), rx_packets' = rx_packets
      PROVE  \E out \in BOOLEAN :
                 /\ Parses(PiView, PiView', b, out)
                 /\ rx_packets' = IF out THEN Append(rx_packets, PacketOf(PiView)) ELSE rx_packets
  <2>1. Parses(PiView, PiView', b, FALSE)
    BY <1>m DEF v, w
  <2> QED
    BY <1>m, <2>1, Zenon
<1>6. CASE CommWaitH1(b)
  <2>1. rx_packets' = rx_packets /\ rx.state = "WAIT_H1" /\ v.state = "WAIT_H1"
        /\ (b = UART_H1 => rx' = CommHeading(b)) /\ (b # UART_H1 => rx' = rx)
    BY <1>6, <1>v DEF CommWaitH1
  <2>2. ASSUME b = UART_H1
        PROVE  Parses(v, w, b, FALSE)
    <3>1. w.state = "WAIT_H2" /\ w.crc = crc16_ccitt_false_update(kCrcInit, b)
      BY <1>w, <1>h, <2>1, <2>2
    <3> QED
      BY <2>1, <2>2, <3>1, Zenon DEF Parses
  <2>3. ASSUME b # UART_H1
        PROVE  Parses(v, w, b, FALSE)
    <3>1. w.state = "WAIT_H1"
      BY <1>w, <2>1, <2>3
    <3> QED
      BY <2>1, <2>3, <3>1, Zenon DEF Parses
  <2> QED
    BY <1>m, <2>1, <2>2, <2>3
<1>7. CASE CommWaitH2(b)
  <2>1. /\ rx_packets' = rx_packets /\ rx.state = "WAIT_H2" /\ v.state = "WAIT_H2"
        /\ b = UART_H2 => rx' = CommTook(b, "GET_TYPE")
        /\ b = UART_H1 => rx' = CommHeading(b)
        /\ b # UART_H1 /\ b # UART_H2 => rx' = Fresh
    BY <1>7, <1>v, SmallNumbers DEF CommWaitH2
  <2>2. CommTook(b, "GET_TYPE").state = "GET_TYPE"
        /\ CommTook(b, "GET_TYPE").crc = crc16_ccitt_false_update(rx.crc, b)
    BY <1>1 DEF CommTook, PiRecords
  <2>3. ASSUME b = UART_H2
        PROVE  Parses(v, w, b, FALSE)
    <3>1. w.state = "GET_TYPE" /\ w.crc = crc16_ccitt_false_update(v.crc, b)
      BY <1>v, <1>w, <2>1, <2>2, <2>3
    <3> QED
      BY <2>1, <2>3, <3>1, Zenon DEF Parses
  <2>4. ASSUME b = UART_H1
        PROVE  Parses(v, w, b, FALSE)
    <3>1. w.state = "WAIT_H2" /\ w.crc = crc16_ccitt_false_update(kCrcInit, b)
      BY <1>w, <1>h, <2>1, <2>4
    <3> QED
      BY <2>1, <2>4, <3>1, Zenon DEF Parses
  <2>5. ASSUME b # UART_H1 /\ b # UART_H2
        PROVE  Parses(v, w, b, FALSE)
    <3>1. w.state = "WAIT_H1"
      BY <1>w, <1>5, <2>1, <2>5
    <3> QED
      BY <2>1, <2>5, <3>1, Zenon DEF Parses
  <2> QED
    BY <1>m, <2>1, <2>3, <2>4, <2>5
<1>8. CASE CommGetType(b)
  <2>1. /\ rx_packets' = rx_packets /\ rx.state = "GET_TYPE" /\ v.state = "GET_TYPE"
        /\ rx' = [CommTook(b, "GET_LEN") EXCEPT !.type = b]
    BY <1>8, <1>v DEF CommGetType
  <2>2. rx'.state = "GET_LEN" /\ rx'.type = b /\ rx'.crc = crc16_ccitt_false_update(rx.crc, b)
    BY <1>1, <2>1 DEF CommTook, PiRecords
  <2>3. w.state = "GET_LEN" /\ w.type = b /\ w.crc = crc16_ccitt_false_update(v.crc, b)
    BY <1>v, <1>w, <2>2
  <2>4. Parses(v, w, b, FALSE)
    BY <2>1, <2>3, Zenon DEF Parses
  <2> QED
    BY <1>m, <2>1, <2>4
<1>9. CASE CommGetLen(b)
  <2> DEFINE next == IF b = 0 THEN "CHECK_CRC" ELSE "GET_PAYLOAD"
  <2>1. /\ rx_packets' = rx_packets /\ rx.state = "GET_LEN" /\ v.state = "GET_LEN"
        /\ rx' = [CommTook(b, next) EXCEPT !.len = b, !.payload = <<>>, !.crcBytes = <<>>]
    BY <1>9, <1>v DEF CommGetLen
  <2> HIDE DEF next
  <2>2. /\ rx'.state = next /\ rx'.type = rx.type /\ rx'.len = b /\ rx'.payload = <<>>
        /\ rx'.crc = crc16_ccitt_false_update(rx.crc, b) /\ rx'.crcBytes = <<>>
    BY <1>1, <2>1 DEF CommTook, PiRecords
  <2>3. w.state = IF b = 0 THEN "GET_CRC_H" ELSE "GET_PAYLOAD"
    BY <1>w, <2>2 DEF next
  <2>4. /\ w.type = v.type /\ w.len = b /\ w.payload = <<>>
        /\ w.crc = crc16_ccitt_false_update(v.crc, b)
    BY <1>v, <1>w, <2>2, Zenon
  <2>5. Parses(v, w, b, FALSE)
    BY <2>1, <2>3, <2>4, Zenon DEF Parses
  <2> QED
    BY <1>m, <2>1, <2>5
<1>10. CASE CommGetPayload(b)
  <2> DEFINE next == IF Len(rx.payload) + 1 >= rx.len THEN "CHECK_CRC" ELSE "GET_PAYLOAD"
  <2>1. /\ rx_packets' = rx_packets /\ rx.state = "GET_PAYLOAD" /\ v.state = "GET_PAYLOAD"
        /\ rx' = [CommTook(b, next) EXCEPT !.payload = Append(@, b)]
        /\ rx.crcBytes = <<>>
    BY <1>10, <1>v DEF CommGetPayload, ParserOK
  <2> HIDE DEF next
  <2>2. /\ rx'.state = next /\ rx'.type = rx.type /\ rx'.len = rx.len
        /\ rx'.payload = Append(rx.payload, b)
        /\ rx'.crc = crc16_ccitt_false_update(rx.crc, b) /\ rx'.crcBytes = <<>>
    BY <1>1, <2>1 DEF CommTook, PiRecords
  <2>3. w.state = IF Len(rx.payload) + 1 >= rx.len THEN "GET_CRC_H" ELSE "GET_PAYLOAD"
    BY <1>w, <2>2 DEF next
  <2>4. /\ w.state = IF Len(v.payload) + 1 >= v.len THEN "GET_CRC_H" ELSE "GET_PAYLOAD"
        /\ w.type = v.type /\ w.len = v.len /\ w.payload = Append(v.payload, b)
        /\ w.crc = crc16_ccitt_false_update(v.crc, b)
    BY <1>v, <1>w, <2>2, <2>3, Zenon
  <2>5. Parses(v, w, b, FALSE)
    BY <2>1, <2>4, Zenon DEF Parses
  <2> QED
    BY <1>m, <2>1, <2>5
<1>11. CASE CommCrcFirst(b)
  <2> DEFINE c == <<b>>
  <2>1. /\ rx_packets' = rx_packets /\ rx.state = "CHECK_CRC" /\ v.state = "GET_CRC_H"
        /\ rx' = [rx EXCEPT !.crcBytes = c]
    BY <1>11, <1>v DEF CommCrcFirst
  <2>2. c # <<>> /\ c[1] = b
    OBVIOUS
  <2> HIDE DEF c
  <2>3. /\ rx'.state = "CHECK_CRC" /\ rx'.type = rx.type /\ rx'.len = rx.len
        /\ rx'.payload = rx.payload /\ rx'.crc = rx.crc /\ rx'.crcBytes = c
    BY <1>1, <2>1 DEF PiRecords
  <2>4. /\ w.state = "GET_CRC_L" /\ w.type = v.type /\ w.len = v.len
        /\ w.payload = v.payload /\ w.crc = v.crc /\ w.high = b
    BY <1>v, <1>w, <2>2, <2>3
  <2>5. Parses(v, w, b, FALSE)
    BY <2>1, <2>4, Zenon DEF Parses
  <2> QED
    BY <1>m, <2>1, <2>5
<1>12. CASE CommCrcSecond(b)
  <2> DEFINE out == rx.crcBytes[1] * 256 + b = rx.crc
  <2>1. /\ rx_packets' = IF out THEN Append(rx_packets, [type |-> rx.type, payload |-> rx.payload])
                         ELSE rx_packets
        /\ rx.state = "CHECK_CRC" /\ v.state = "GET_CRC_L" /\ v.high = rx.crcBytes[1]
        /\ rx' = Fresh
    BY <1>12, <1>v DEF CommCrcSecond, resetParser
  <2>2. out \in BOOLEAN /\ (out <=> v.high * 256 + b = v.crc)
    BY <1>v, <2>1, ZenonT(60)
  <2> HIDE DEF out
  <2>3. w.state = "WAIT_H1"
    BY <1>w, <1>5, <2>1
  <2>4. Parses(v, w, b, out)
    BY <2>1, <2>2, <2>3, Zenon DEF Parses
  <2>5. Parses(PiView, PiView', b, out)
    BY <2>4 DEF v, w
  <2> QED
    BY <1>2, <2>1, <2>2, <2>5, Zenon
<1> QED
  BY <1>6, <1>7, <1>8, <1>9, <1>10, <1>11, <1>12 DEF feedByte

-----------------------------------------------------------------------------
(* Delivery, on either end.                                                  *)

View == IF end = "board" THEN BoardView ELSE PiView

\* What has been parsed ends in the frame under way, and follows every frame
\* that may have begun.
DeliveryInv ==
    /\ LinkIInv
    /\ Coherent(View)
    /\ EndsIn(since, Taken(View))
    /\ Follows(Taken(View), since)

\* What DeliversFrames says of one step.
DeliveryStep ==
    /\ \A p \in Packets : ArrivesWhole(p) => Delivered' = Append(Delivered, p)
    /\ Delivered' # Delivered => IsSuffix(buildRaw(Last(Delivered')), since')

\* A waiting parser knows nothing.
LEMMA WaitingKnows ==
    ASSUME NEW v \in Views, v.state = "WAIT_H1"
    PROVE  Coherent(v) /\ EndsIn(<<>>, Taken(v)) /\ Follows(Taken(v), <<>>)
<1>1. Taken(v) = <<>>
  BY DEF Taken
<1>2. Coherent(v)
  BY DEF Coherent
<1>3. <<>> \in Seq(Bytes)
  OBVIOUS
<1>4. EndsIn(<<>>, <<>>) /\ Follows(<<>>, <<>>)
  BY <1>3, EndsInNothing, FollowsNothing, Zenon
<1> QED
  BY <1>1, <1>2, <1>4, Zenon

LEMMA DeliveryStarts ==
    ASSUME LinkInit
    PROVE  DeliveryInv
<1>1. LinkIInv /\ BoardOK /\ ParserOK
  BY LinkStarts, LinkParts
<1>2. BoardView \in Views /\ PiView \in Views
  BY <1>1, BoardViewIsView, PiViewIsView
<1>3. BoardView.state = "WAIT_H1" /\ PiView.state = "WAIT_H1"
  BY DEF LinkInit, ReceiverInit, SerialInit, Fresh, BoardView, PiView
<1>4. View \in Views /\ View.state = "WAIT_H1"
  BY <1>2, <1>3 DEF View
<1>5. since = <<>>
  BY DEF LinkInit
<1> QED
  BY <1>1, <1>4, <1>5, WaitingKnows, Zenon DEF DeliveryInv

\* Nobody parses.
LEMMA NothingParsed ==
    ASSUME DeliveryInv, LinkIInv', View' = View, since' = since, Delivered' = Delivered
    PROVE  DeliveryInv' /\ DeliveryStep
<1>1. Coherent(View') /\ EndsIn(since', Taken(View')) /\ Follows(Taken(View'), since')
  BY Zenon DEF DeliveryInv
<1>2. DeliveryInv'
  BY <1>1, Zenon DEF DeliveryInv
<1>3. DeliveryStep
  BY Zenon DEF DeliveryStep, ArrivesWhole
<1> QED
  BY <1>2, <1>3

\* The parser gives up, or starts anew.
LEMMA ParserReset ==
    ASSUME DeliveryInv, LinkIInv', View' \in Views, View'.state = "WAIT_H1", since' = <<>>,
           Delivered' = Delivered
    PROVE  DeliveryInv' /\ DeliveryStep
<1>1. Coherent(View') /\ EndsIn(since', Taken(View')) /\ Follows(Taken(View'), since')
  BY WaitingKnows, Zenon
<1>2. DeliveryInv'
  BY <1>1, Zenon DEF DeliveryInv
<1>3. ASSUME NEW p \in Packets
      PROVE  ~ArrivesWhole(p)
  <2>1. Frame[p] \in Seq(Bytes) /\ Len(Frame[p]) >= 6
    <3>1. Frame[p] \in Seq(Bytes) /\ Len(Frame[p]) = Len(p.payload) + 6 /\ Len(p.payload) \in Nat
      BY FrameShape
    <3> QED
      BY <3>1
  <2>2. <<>> \in Seq(Bytes) /\ Len(<<>>) = 0
    OBVIOUS
  <2>3. ~EndsIn(<<>>, Frame[p])
    BY <2>1, <2>2 DEF EndsIn
  <2>4. ~IsSuffix(Frame[p], <<>>)
    BY <2>1, <2>2, <2>3, SuffixIsEnd
  <2> QED
    BY <2>4, Zenon DEF ArrivesWhole
<1>4. DeliveryStep
  BY <1>3, Zenon DEF DeliveryStep
<1> QED
  BY <1>2, <1>4

\* The parser is fed a byte.
LEMMA ByteParsed ==
    ASSUME DeliveryInv, LinkIInv', View' \in Views, NEW b \in Bytes, Parsed(b),
           Handles(View, View', b, Delivered, Delivered'), Idle <=> View.state = "WAIT_H1"
    PROVE  DeliveryInv' /\ DeliveryStep
<1> DEFINE v == View
           w == View'
           s == since
           s2 == since'
<1>0. /\ Coherent(v) /\ EndsIn(s, Taken(v)) /\ Follows(Taken(v), s)
      /\ s \in Seq(Bytes) /\ s2 \in Seq(Bytes) /\ w \in Views
  BY DEF DeliveryInv, LinkIInv, LineOK
<1>1. s2 = Append(s, b) \/ (v.state = "WAIT_H1" /\ s2 = <<b>>)
  BY DEF Parsed
<1>2. PICK out \in BOOLEAN :
          /\ Parses(v, w, b, out)
          /\ Delivered' = IF out THEN Append(Delivered, PacketOf(v)) ELSE Delivered
  BY Zenon DEF Handles
<1>3. Delivered \in Seq(Packet)
  BY DEF DeliveryInv, LinkIInv, LinkInv, ReceiverOK, SerialCommOK, Delivered
<1> HIDE DEF v, w, s, s2
<1>4. /\ Coherent(w) /\ EndsIn(s2, Taken(w)) /\ Follows(Taken(w), s2)
      /\ out => v.state = "GET_CRC_L" /\ IsSuffix(buildRaw(PacketOf(v)), s2)
      /\ \A p \in Packets : \A k \in Nat :
            Leads(s2, k, Frame[p], Len(Frame[p])) => out /\ PacketOf(v) = p
  BY <1>0, <1>1, <1>2, ByteKeeps
<1>5. DeliveryInv'
  <2>1. Coherent(View') /\ EndsIn(since', Taken(View')) /\ Follows(Taken(View'), since')
    BY <1>4, Zenon DEF w, s2
  <2> QED
    BY <2>1, Zenon DEF DeliveryInv
<1>6. ASSUME NEW p \in Packets, ArrivesWhole(p)
      PROVE  Delivered' = Append(Delivered, p)
  <2> DEFINE f == Frame[p]
             k == Len(s2) - Len(f)
  <2>1. IsSuffix(f, s2) /\ \A i \in 1..k : s2[i] = UART_H1
    BY <1>6 DEF ArrivesWhole, s2
  <2>2. f \in Seq(Bytes)
    BY FrameShape
  <2> HIDE DEF f
  <2>3. EndsIn(s2, f)
    BY <1>0, <2>1, <2>2, SuffixIsEnd
  <2>4. k \in Nat /\ Len(s2) = k + Len(f)
    <3>1. Len(s2) \in Nat /\ Len(f) \in Nat /\ Len(f) <= Len(s2)
      BY <1>0, <2>2, <2>3 DEF EndsIn
    <3> QED
      BY <3>1
  <2>5. Leads(s2, k, f, Len(f))
    <3>1. \A i \in 1..Len(f) : s2[k + i] = f[i]
      BY <2>3 DEF EndsIn
    <3> QED
      BY <2>1, <2>4, <3>1 DEF Leads
  <2> HIDE DEF k
  <2>6. out /\ PacketOf(v) = p
    BY <1>4, <2>4, <2>5 DEF f
  <2> QED
    BY <1>2, <2>6, Zenon
<1>7. ASSUME Delivered' # Delivered
      PROVE  IsSuffix(buildRaw(Last(Delivered')), since')
  <2>1. out /\ Delivered' = Append(Delivered, PacketOf(v))
    BY <1>2, <1>7, Zenon
  <2>2. PacketOf(v) \in Packet
    BY <1>0 DEF Coherent, Views, PacketOf, Packet
  <2> DEFINE d == Delivered
             x == PacketOf(v)
  <2>3. d \in Seq(Packet) /\ x \in Packet
    BY <1>3, <2>2
  <2> HIDE DEF d, x
  <2>4. Last(Append(d, x)) = x
    BY <2>3 DEF Last
  <2>5. Last(Delivered') = PacketOf(v)
    BY <2>1, <2>4, Zenon DEF d, x
  <2> QED
    BY <1>4, <2>1, <2>5, Zenon DEF s2
<1>8. DeliveryStep
  BY <1>6, <1>7, Zenon DEF DeliveryStep
<1> QED
  BY <1>5, <1>8

LEMMA DeliverySteps ==
    ASSUME DeliveryInv, [LinkNext]_link_vars
    PROVE  DeliveryInv' /\ DeliveryStep
<1> USE DEF link_vars, line_vars, serial_vars, comm_vars, parser_vars, receiver_vars
<1>0. LinkIInv /\ LinkIInv'
  BY LinkSteps DEF DeliveryInv
<1>1. /\ BoardOK /\ ParserOK /\ LineOK
      /\ wire \in Seq(Bytes) /\ chunk \in Seq(Bytes) /\ end \in {"board", "pi"}
  BY <1>0, LinkParts DEF LineOK
<1>2. BoardOK' /\ ParserOK'
  <2>1. LinkIInv' <=> (BoardOK /\ ParserOK /\ chunk \in Seq(Bytes) /\ ThreadOK /\ LineOK /\ PortOK)'
    BY LinkParts, PTL
  <2> QED
    BY <1>0, <2>1
<1>3. BoardView \in Views /\ PiView \in Views
  BY <1>1, BoardViewIsView, PiViewIsView
<1>4. BoardView' \in Views /\ PiView' \in Views
  <2>1. (BoardOK => BoardView \in Views)' /\ (ParserOK => PiView \in Views)'
    BY BoardViewIsView, PiViewIsView, PTL
  <2> QED
    BY <1>2, <2>1
<1>v. View' \in Views
  BY <1>4 DEF View
\* Which parser listens.
<1>b. end = "board" => View = BoardView /\ Delivered = g_frames
  BY DEF View, Delivered
<1>c. end' = "board" => View' = BoardView' /\ Delivered' = g_frames'
  BY DEF View, Delivered
<1>d. end = "pi" => View = PiView /\ Delivered = rx_packets
  BY DEF View, Delivered
<1>e. end' = "pi" => View' = PiView' /\ Delivered' = rx_packets'
  BY DEF View, Delivered
<1>i. Idle <=> View.state = "WAIT_H1"
  BY DEF Idle, View, BoardView, PiView
<1>n. ASSUME UNCHANGED <<receiver_vars, parser_vars, end, since>>
      PROVE  DeliveryInv' /\ DeliveryStep
  <2>1. BoardView' = BoardView /\ PiView' = PiView
    BY <1>n DEF BoardView, PiView
  <2>2. View' = View /\ Delivered' = Delivered /\ since' = since
    BY <1>n, <2>1 DEF View, Delivered
  <2> QED
    BY <1>0, <2>2, NothingParsed
<1>5. CASE Transmit \/ LoseByte \/ Glitch \/ Pause \/ PiReads \/ UNCHANGED link_vars
  BY <1>5, <1>n DEF Transmit, LoseByte, Glitch, Pause, PiReads, ReadChunk
<1>6. CASE PiOwner
  BY <1>6, <1>n DEF PiOwner, PiStops, open, stopAsyncRead, Joined, ReadLoopEnds, close
<1>7. CASE BoardReads
  <2>1. /\ end = "board" /\ end' = "board" /\ wire # <<>>
        /\ ReceiverByte(Head(wire)) /\ Parsed(Head(wire))
    BY <1>7 DEF BoardReads
  <2>2. Head(wire) \in Bytes
    BY <1>1, <2>1, ByteTaken
  <2>3. Handles(BoardView, BoardView', Head(wire), g_frames, g_frames')
    BY <1>1, <2>1, <2>2, BoardHandles
  <2>4. Handles(View, View', Head(wire), Delivered, Delivered')
    BY <1>b, <1>c, <2>1, <2>3, Zenon
  <2> QED
    BY <1>0, <1>v, <1>i, <2>1, <2>2, <2>4, ByteParsed
<1>8. CASE PiFeeds
  <2>1. /\ end = "pi" /\ end' = "pi" /\ chunk # <<>>
        /\ feedByte(Head(chunk)) /\ Parsed(Head(chunk))
    BY <1>8 DEF PiFeeds, FeedOne
  <2>2. Head(chunk) \in Bytes
    BY <1>1, <2>1, ByteTaken
  <2>3. Handles(PiView, PiView', Head(chunk), rx_packets, rx_packets')
    BY <1>1, <2>1, <2>2, PiHandles
  <2>4. Handles(View, View', Head(chunk), Delivered, Delivered')
    BY <1>d, <1>e, <2>1, <2>3, Zenon
  <2> QED
    BY <1>0, <1>v, <1>i, <2>1, <2>2, <2>4, ByteParsed
<1>9. CASE BoardTimeout
  <2>1. /\ end = "board" /\ end' = "board" /\ since' = <<>>
        /\ g' = Reset(g) /\ g_frames' = g_frames
    BY <1>9 DEF BoardTimeout, ReceiverTimeout
  <2>2. g'.state = "WAIT_H1"
    BY <1>1, <2>1, BoardResets DEF BoardOK, ReceiverOK, BoardRecords
  <2>3. View'.state = "WAIT_H1" /\ Delivered' = Delivered
    BY <1>b, <1>c, <2>1, <2>2 DEF BoardView
  <2> QED
    BY <1>0, <1>v, <2>1, <2>3, ParserReset
<1>10. CASE PiTimeout \/ PiStarts
  <2>1. /\ end = "pi" /\ end' = "pi" /\ since' = <<>>
        /\ rx' = Fresh /\ rx_packets' = rx_packets
    BY <1>10 DEF PiTimeout, PiStarts, SelectTimeout, startAsyncRead, resetParser
  <2>2. rx'.state = "WAIT_H1"
    BY <2>1, FreshParses
  <2>3. View'.state = "WAIT_H1" /\ Delivered' = Delivered
    BY <1>d, <1>e, <2>1, <2>2 DEF PiView
  <2> QED
    BY <1>0, <1>v, <2>1, <2>3, ParserReset
<1> QED
  BY <1>5, <1>6, <1>7, <1>8, <1>9, <1>10 DEF LinkNext

LEMMA DeliveryHolds == LinkSpec => []DeliveryInv
<1>1. LinkInit => DeliveryInv
  BY DeliveryStarts
<1>2. DeliveryInv /\ [LinkNext]_link_vars => DeliveryInv'
  BY DeliverySteps
<1> QED
  BY <1>1, <1>2, PTL DEF LinkSpec

(* A packet whose frame arrives whole at a waiting parser is delivered with  *)
(* the frame's last byte, stray header bytes before it or not; whatever is   *)
(* delivered has arrived as one uninterrupted frame such as                  *)
(* PacketBuilder::buildRaw builds (Receiver.ino's loop and feedByte, byte by *)
(* byte against ProtocolDef.h).                                              *)
THEOREM DeliveryIsExact == LinkSpec => DeliversFrames
<1>1. DeliveryInv /\ [LinkNext]_link_vars => DeliveryStep
  BY DeliverySteps
<1>2. DeliveryStep => /\ \A p \in Packets : ArrivesWhole(p) => Delivered' = Append(Delivered, p)
                      /\ Delivered' # Delivered
                             => IsSuffix(buildRaw(Last(Delivered')), since')
  BY Zenon DEF DeliveryStep
<1> QED
  BY <1>1, <1>2, DeliveryHolds, PTL DEF LinkSpec, DeliversFrames
=============================================================================
