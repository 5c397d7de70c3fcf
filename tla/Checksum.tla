------------------------------ MODULE Checksum ------------------------------
(***************************************************************************)
(* The checksums of crc/: CRC-8 bit by bit and from a table, the CRC of    *)
(* Modbus from a pair of tables, and the exclusive or of all bytes, which  *)
(* read_gps.c uses too.  The tables are those of the code, entry by entry. *)
(***************************************************************************)
EXTENDS Integers, Sequences, Bitwise, SequencesExt

\* One of the eight turns of crc8's inner loop, on an unsigned char.
ShiftOnce(crc) ==
  IF crc >= 128 THEN ((crc * 2) % 256) ^^ 7 ELSE (crc * 2) % 256

crc8(ptr) ==
  LET Turn8(crc, i) == ShiftOnce(crc)
      Next8(crc, b) == FoldLeft(Turn8, crc ^^ b, <<1, 2, 3, 4, 5, 6, 7, 8>>)
  IN  FoldLeft(Next8, 0, ptr)

crc_array ==
  <<0, 7, 14, 9, 28, 27, 18, 21, 56, 63, 54, 49, 36, 35, 42, 45,
    112, 119, 126, 121, 108, 107, 98, 101, 72, 79, 70, 65, 84, 83, 90, 93,
    224, 231, 238, 233, 252, 251, 242, 245, 216, 223, 214, 209, 196, 195, 202, 205,
    144, 151, 158, 153, 140, 139, 130, 133, 168, 175, 166, 161, 180, 179, 186, 189,
    199, 192, 201, 206, 219, 220, 213, 210, 255, 248, 241, 246, 227, 228, 237, 234,
    183, 176, 185, 190, 171, 172, 165, 162, 143, 136, 129, 134, 147, 148, 157, 154,
    39, 32, 41, 46, 59, 60, 53, 50, 31, 24, 17, 22, 3, 4, 13, 10,
    87, 80, 89, 94, 75, 76, 69, 66, 111, 104, 97, 102, 115, 116, 125, 122,
    137, 142, 135, 128, 149, 146, 155, 156, 177, 182, 191, 184, 173, 170, 163, 164,
    249, 254, 247, 240, 229, 226, 235, 236, 193, 198, 207, 200, 221, 218, 211, 212,
    105, 110, 103, 96, 117, 114, 123, 124, 81, 86, 95, 88, 77, 74, 67, 68,
    25, 30, 23, 16, 5, 2, 11, 12, 33, 38, 47, 40, 61, 58, 51, 52,
    78, 73, 64, 71, 82, 85, 92, 91, 118, 113, 120, 127, 106, 109, 100, 99,
    62, 57, 48, 55, 34, 37, 44, 43, 6, 1, 8, 15, 26, 29, 20, 19,
    174, 169, 160, 167, 178, 181, 188, 187, 150, 145, 152, 159, 138, 141, 132, 131,
    222, 217, 208, 215, 194, 197, 204, 203, 230, 225, 232, 239, 250, 253, 244, 243>>

crc8_table(ptr) ==
  LET NextT(crc, b) == crc_array[(crc ^^ b) + 1]
  IN  FoldLeft(NextT, 0, ptr)

table_crc_hi ==
  <<0, 193, 129, 64, 1, 192, 128, 65, 1, 192, 128, 65, 0, 193, 129, 64,
    1, 192, 128, 65, 0, 193, 129, 64, 0, 193, 129, 64, 1, 192, 128, 65,
    1, 192, 128, 65, 0, 193, 129, 64, 0, 193, 129, 64, 1, 192, 128, 65,
    0, 193, 129, 64, 1, 192, 128, 65, 1, 192, 128, 65, 0, 193, 129, 64,
    1, 192, 128, 65, 0, 193, 129, 64, 0, 193, 129, 64, 1, 192, 128, 65,
    0, 193, 129, 64, 1, 192, 128, 65, 1, 192, 128, 65, 0, 193, 129, 64,
    0, 193, 129, 64, 1, 192, 128, 65, 1, 192, 128, 65, 0, 193, 129, 64,
    1, 192, 128, 65, 0, 193, 129, 64, 0, 193, 129, 64, 1, 192, 128, 65,
    1, 192, 128, 65, 0, 193, 129, 64, 0, 193, 129, 64, 1, 192, 128, 65,
    0, 193, 129, 64, 1, 192, 128, 65, 1, 192, 128, 65, 0, 193, 129, 64,
    0, 193, 129, 64, 1, 192, 128, 65, 1, 192, 128, 65, 0, 193, 129, 64,
    1, 192, 128, 65, 0, 193, 129, 64, 0, 193, 129, 64, 1, 192, 128, 65,
    0, 193, 129, 64, 1, 192, 128, 65, 1, 192, 128, 65, 0, 193, 129, 64,
    1, 192, 128, 65, 0, 193, 129, 64, 0, 193, 129, 64, 1, 192, 128, 65,
    1, 192, 128, 65, 0, 193, 129, 64, 0, 193, 129, 64, 1, 192, 128, 65,
    0, 193, 129, 64, 1, 192, 128, 65, 1, 192, 128, 65, 0, 193, 129, 64>>

table_crc_lo ==
  <<0, 192, 193, 1, 195, 3, 2, 194, 198, 6, 7, 199, 5, 197, 196, 4,
    204, 12, 13, 205, 15, 207, 206, 14, 10, 202, 203, 11, 201, 9, 8, 200,
    216, 24, 25, 217, 27, 219, 218, 26, 30, 222, 223, 31, 221, 29, 28, 220,
    20, 212, 213, 21, 215, 23, 22, 214, 210, 18, 19, 211, 17, 209, 208, 16,
    240, 48, 49, 241, 51, 243, 242, 50, 54, 246, 247, 55, 245, 53, 52, 244,
    60, 252, 253, 61, 255, 63, 62, 254, 250, 58, 59, 251, 57, 249, 248, 56,
    40, 232, 233, 41, 235, 43, 42, 234, 238, 46, 47, 239, 45, 237, 236, 44,
    228, 36, 37, 229, 39, 231, 230, 38, 34, 226, 227, 35, 225, 33, 32, 224,
    160, 96, 97, 161, 99, 163, 162, 98, 102, 166, 167, 103, 165, 101, 100, 164,
    108, 172, 173, 109, 175, 111, 110, 174, 170, 106, 107, 171, 105, 169, 168, 104,
    120, 184, 185, 121, 187, 123, 122, 186, 190, 126, 127, 191, 125, 189, 188, 124,
    180, 116, 117, 181, 119, 183, 182, 118, 114, 178, 179, 115, 177, 113, 112, 176,
    80, 144, 145, 81, 147, 83, 82, 146, 150, 86, 87, 151, 85, 149, 148, 84,
    156, 92, 93, 157, 95, 159, 158, 94, 90, 154, 155, 91, 153, 89, 88, 152,
    136, 72, 73, 137, 75, 139, 138, 74, 78, 142, 143, 79, 141, 77, 76, 140,
    68, 132, 133, 69, 135, 71, 70, 134, 130, 66, 67, 131, 65, 129, 128, 64>>

\* The pair of the high and the low byte.
crc16(buffer) ==
  LET Next16(crc, b) ==
        LET i == (crc[1] ^^ b) + 1
        IN  <<crc[2] ^^ table_crc_hi[i], table_crc_lo[i]>>
  IN  FoldLeft(Next16, <<255, 255>>, buffer)

\* As an unsigned char.
bcc(buf) ==
  LET NextX(crc, b) == crc ^^ b
  IN  FoldLeft(NextX, 0, buf)

------------------------------------------------------------------------------

\* The CRC of Modbus by its polynomial, for the tables to be compared with: the first
\* byte sent, which the code calls high, is the low one of the register.
ModbusBit(reg) == IF reg % 2 = 1 THEN (reg \div 2) ^^ 40961 ELSE reg \div 2

Modbus(buffer) ==
  LET TurnM(reg, i) == ModbusBit(reg)
      NextM(reg, b) == FoldLeft(TurnM, reg ^^ b, <<1, 2, 3, 4, 5, 6, 7, 8>>)
      final == FoldLeft(NextM, 65535, buffer)
  IN  <<final % 256, final \div 256>>

\* The message with one bit turned over.
Damaged(m, i, bit) == [m EXCEPT ![i] = m[i] ^^ (2^bit)]
=============================================================================
