---------------------------- MODULE MCSerialLink ----------------------------
(* The real CRC, a trigger packet, and a status packet whose error code      *)
(* 0xAA55 looks like a header.                                               *)
EXTENDS SerialLink, Bitwise

\* Exclusive or is tabulated for bytes, which is all it is needed for.
XorTable == [a \in Bytes |-> [b \in Bytes |-> a ^^ b]]
ByteXorDef(a, b) == XorTable[a][b]

\* One bit of the polynomial division that the table's literals result from.
Shifted(crc) == IF crc >= 32768 THEN Xor16((crc * 2) % 65536, 4129)
                ELSE (crc * 2) % 65536

Table == [i \in Bytes |-> Shifted(Shifted(Shifted(Shifted(
                           Shifted(Shifted(Shifted(Shifted(i * 256))))))))]
TableDef(i) == Table[i]

PacketsDef == {[type |-> 3, payload |-> <<1>>],
               [type |-> 2, payload |-> <<1, 85, 170>>]}
=============================================================================
