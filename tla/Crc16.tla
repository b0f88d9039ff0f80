------------------------------- MODULE Crc16 -------------------------------
(***************************************************************************)
(* CRC-16/MODBUS (modbus_frame_codec.cpp, crc16).                          *)
(***************************************************************************)
EXTENDS Naturals, Sequences, Bitwise, SequencesExt

ShiftBit(crc) == IF crc % 2 = 1 THEN (crc \div 2) ^^ 40961 ELSE crc \div 2

EightBits(crc) ==
    FoldLeft(LAMBDA c, bit : ShiftBit(c), crc, <<1, 2, 3, 4, 5, 6, 7, 8>>)

\* EightBits is linear in ^^, so one table entry per low byte replaces its loop.
LowByte == [b \in 0..255 |-> EightBits(b)]

Crc16Modbus(bytes) ==
    FoldLeft(LAMBDA crc, b : LowByte[(crc % 256) ^^ b] ^^ (crc \div 256), 65535, bytes)
=============================================================================
