SPECIFICATION FairLinkSpec
CONSTANTS
    CRC16_CCITT_TABLE <- TableDef
    ByteXor <- ByteXorDef
    Packets <- PacketsDef
    MaxFrames = 2
    MaxFaults = 2
CHECK_DEADLOCK FALSE
INVARIANTS
    LinkInv
PROPERTIES
    DeliversFrames
    NeverStuck
