----------------------------- MODULE PacketFrame -----------------------------
(***************************************************************************)
(* The binary frame between the Pi and a microcontroller                   *)
(* (raspi/include/protocol/ProtocolDef.h and its copy beside Receiver.ino):*)
(*     H1 H2 Type Len Payload CRC16, the CRC over everything before it.    *)
(* CRC-16/CCITT-FALSE, table driven: the table and the exclusive or of two *)
(* bytes are parameters.                                                   *)
(***************************************************************************)
EXTENDS Integers, Sequences, SequencesExt

CONSTANTS CRC16_CCITT_TABLE(_),
          ByteXor(_, _)   \* a ^ b

Bytes == 0..255
Words == {n \in Nat : n < 65536}  \* uint16_t

ASSUME CrcAssumption ==
    \A a, b \in Bytes : CRC16_CCITT_TABLE(a) \in Words /\ ByteXor(a, b) \in Bytes

UART_H1 == 85     \* 0x55
UART_H2 == 170    \* 0xAA

kCrcInit == 65535

Packet == [type : Bytes, payload : Seq(Bytes)]

Xor16(x, y) == ByteXor(x \div 256, y \div 256) * 256 + ByteXor(x % 256, y % 256)

crc16_ccitt_false_update(crc, data) ==
    Xor16((crc * 256) % 65536, CRC16_CCITT_TABLE(ByteXor(crc \div 256, data)))

\* crc16_ccitt_false over a whole array.
crc16_ccitt_false(bytes) ==
    LET crc[n \in 0..Len(bytes)] ==
            IF n = 0 THEN kCrcInit ELSE crc16_ccitt_false_update(crc[n - 1], bytes[n])
    IN  crc[Len(bytes)]

\* PacketBuilder::buildRaw
buildRaw(p) ==
    LET framed == <<UART_H1, UART_H2, p.type, Len(p.payload)>> \o p.payload
        crc    == crc16_ccitt_false(framed)
    IN  framed \o <<crc \div 256, crc % 256>>
=============================================================================
