------------------------------- MODULE Crc32 --------------------------------
(***************************************************************************)
(* crc32 of lab1/crc32.c, on a frame that put_frame sends, the noise of    *)
(* the channel damages and main of lab1/datalink.c checks.  The table is   *)
(* the one of the source, in halves of 16 bits.  A word is the set of the  *)
(* numbers of its 1 bits: exclusive or is the symmetric difference.        *)
(***************************************************************************)
EXTENDS Integers, Sequences, FiniteSets, SequencesExt

CONSTANTS
  Messages,   \* what is sent: sequences of bytes, each a set of bits
  MaxHits     \* bound: bits that the noise flips

VARIABLES
  frame,      \* what is still on its way, at first as it was sent
  crc,        \* of what has arrived
  hits        \* history: bits that were flipped

crcVars == <<frame, crc, hits>>

Halves == <<
  \h0000, \h0000, \h7707, \h3096, \hee0e, \h612c, \h9909, \h51ba, \h076d,
  \hc419, \h706a, \hf48f, \he963, \ha535, \h9e64, \h95a3, \h0edb, \h8832,
  \h79dc, \hb8a4, \he0d5, \he91e, \h97d2, \hd988, \h09b6, \h4c2b, \h7eb1,
  \h7cbd, \he7b8, \h2d07, \h90bf, \h1d91, \h1db7, \h1064, \h6ab0, \h20f2,
  \hf3b9, \h7148, \h84be, \h41de, \h1ada, \hd47d, \h6ddd, \he4eb, \hf4d4,
  \hb551, \h83d3, \h85c7, \h136c, \h9856, \h646b, \ha8c0, \hfd62, \hf97a,
  \h8a65, \hc9ec, \h1401, \h5c4f, \h6306, \h6cd9, \hfa0f, \h3d63, \h8d08,
  \h0df5, \h3b6e, \h20c8, \h4c69, \h105e, \hd560, \h41e4, \ha267, \h7172,
  \h3c03, \he4d1, \h4b04, \hd447, \hd20d, \h85fd, \ha50a, \hb56b, \h35b5,
  \ha8fa, \h42b2, \h986c, \hdbbb, \hc9d6, \hacbc, \hf940, \h32d8, \h6ce3,
  \h45df, \h5c75, \hdcd6, \h0dcf, \habd1, \h3d59, \h26d9, \h30ac, \h51de,
  \h003a, \hc8d7, \h5180, \hbfd0, \h6116, \h21b4, \hf4b5, \h56b3, \hc423,
  \hcfba, \h9599, \hb8bd, \ha50f, \h2802, \hb89e, \h5f05, \h8808, \hc60c,
  \hd9b2, \hb10b, \he924, \h2f6f, \h7c87, \h5868, \h4c11, \hc161, \h1dab,
  \hb666, \h2d3d, \h76dc, \h4190, \h01db, \h7106, \h98d2, \h20bc, \hefd5,
  \h102a, \h71b1, \h8589, \h06b6, \hb51f, \h9fbf, \he4a5, \he8b8, \hd433,
  \h7807, \hc9a2, \h0f00, \hf934, \h9609, \ha88e, \he10e, \h9818, \h7f6a,
  \h0dbb, \h086d, \h3d2d, \h9164, \h6c97, \he663, \h5c01, \h6b6b, \h51f4,
  \h1c6c, \h6162, \h8565, \h30d8, \hf262, \h004e, \h6c06, \h95ed, \h1b01,
  \ha57b, \h8208, \hf4c1, \hf50f, \hc457, \h65b0, \hd9c6, \h12b7, \he950,
  \h8bbe, \hb8ea, \hfcb9, \h887c, \h62dd, \h1ddf, \h15da, \h2d49, \h8cd3,
  \h7cf3, \hfbd4, \h4c65, \h4db2, \h6158, \h3ab5, \h51ce, \ha3bc, \h0074,
  \hd4bb, \h30e2, \h4adf, \ha541, \h3dd8, \h95d7, \ha4d1, \hc46d, \hd3d6,
  \hf4fb, \h4369, \he96a, \h346e, \hd9fc, \had67, \h8846, \hda60, \hb8d0,
  \h4404, \h2d73, \h3303, \h1de5, \haa0a, \h4c5f, \hdd0d, \h7cc9, \h5005,
  \h713c, \h2702, \h41aa, \hbe0b, \h1010, \hc90c, \h2086, \h5768, \hb525,
  \h206f, \h85b3, \hb966, \hd409, \hce61, \he49f, \h5ede, \hf90e, \h29d9,
  \hc998, \hb0d0, \h9822, \hc7d7, \ha8b4, \h59b3, \h3d17, \h2eb4, \h0d81,
  \hb7bd, \h5c3b, \hc0ba, \h6cad, \hedb8, \h8320, \h9abf, \hb3b6, \h03b6,
  \he20c, \h74b1, \hd29a, \head5, \h4739, \h9dd2, \h77af, \h04db, \h2615,
  \h73dc, \h1683, \he363, \h0b12, \h9464, \h3b84, \h0d6d, \h6a3e, \h7a6a,
  \h5aa8, \he40e, \hcf0b, \h9309, \hff9d, \h0a00, \hae27, \h7d07, \h9eb1,
  \hf00f, \h9344, \h8708, \ha3d2, \h1e01, \hf268, \h6906, \hc2fe, \hf762,
  \h575d, \h8065, \h67cb, \h196c, \h3671, \h6e6b, \h06e7, \hfed4, \h1b76,
  \h89d3, \h2be0, \h10da, \h7a5a, \h67dd, \h4acc, \hf9b9, \hdf6f, \h8ebe,
  \heff9, \h17b7, \hbe43, \h60b0, \h8ed5, \hd6d6, \ha3e8, \ha1d1, \h937e,
  \h38d8, \hc2c4, \h4fdf, \hf252, \hd1bb, \h67f1, \ha6bc, \h5767, \h3fb5,
  \h06dd, \h48b2, \h364b, \hd80d, \h2bda, \haf0a, \h1b4c, \h3603, \h4af6,
  \h4104, \h7a60, \hdf60, \hefc3, \ha867, \hdf55, \h316e, \h8eef, \h4669,
  \hbe79, \hcb61, \hb38c, \hbc66, \h831a, \h256f, \hd2a0, \h5268, \he236,
  \hcc0c, \h7795, \hbb0b, \h4703, \h2202, \h16b9, \h5505, \h262f, \hc5ba,
  \h3bbe, \hb2bd, \h0b28, \h2bb4, \h5a92, \h5cb3, \h6a04, \hc2d7, \hffa7,
  \hb5d0, \hcf31, \h2cd9, \h9e8b, \h5bde, \hae1d, \h9b64, \hc2b0, \hec63,
  \hf226, \h756a, \ha39c, \h026d, \h930a, \h9c09, \h06a9, \heb0e, \h363f,
  \h7207, \h6785, \h0500, \h5713, \h95bf, \h4a82, \he2b8, \h7a14, \h7bb1,
  \h2bae, \h0cb6, \h1b38, \h92d2, \h8e9b, \he5d5, \hbe0d, \h7cdc, \hefb7,
  \h0bdb, \hdf21, \h86d3, \hd2d4, \hf1d4, \he242, \h68dd, \hb3f8, \h1fda,
  \h836e, \h81be, \h16cd, \hf6b9, \h265b, \h6fb0, \h77e1, \h18b7, \h4777,
  \h8808, \h5ae6, \hff0f, \h6a70, \h6606, \h3bca, \h1101, \h0b5c, \h8f65,
  \h9eff, \hf862, \hae69, \h616b, \hffd3, \h166c, \hcf45, \ha00a, \he278,
  \hd70d, \hd2ee, \h4e04, \h8354, \h3903, \hb3c2, \ha767, \h2661, \hd060,
  \h16f7, \h4969, \h474d, \h3e6e, \h77db, \haed1, \h6a4a, \hd9d6, \h5adc,
  \h40df, \h0b66, \h37d8, \h3bf0, \ha9bc, \hae53, \hdebb, \h9ec5, \h47b2,
  \hcf7f, \h30b5, \hffe9, \hbdbd, \hf21c, \hcaba, \hc28a, \h53b3, \h9330,
  \h24b4, \ha3a6, \hbad0, \h3605, \hcdd7, \h0693, \h54de, \h5729, \h23d9,
  \h67bf, \hb366, \h7a2e, \hc461, \h4ab8, \h5d68, \h1b02, \h2a6f, \h2b94,
  \hb40b, \hbe37, \hc30c, \h8ea1, \h5a05, \hdf1b, \h2d02, \hef8d >>

Word == 0 .. 31
Byte == 0 .. 7

Xor(a, b) == (a \ b) \cup (b \ a)
ShiftRight(w, n) == {b - n : b \in {c \in w : c >= n}}
BitsOf(i, width) == {b \in 0 .. width - 1 : (i \div 2^b) % 2 = 1}
ByteOf(w) == CHOOSE i \in 0 .. 255 : BitsOf(i, 8) = w

crc_table == [i \in 0 .. 255 |->
  {b + 16 : b \in BitsOf(Halves[2 * i + 1], 16)} \cup BitsOf(Halves[2 * i + 2], 16)]

(* The table again, by the low byte of a word. *)
Row == [w \in SUBSET Byte |-> crc_table[ByteOf(w)]]

DO1NoShift(c, byte) == Xor(Row[Xor(c, byte) \cap Byte], c)  \* slip
DO1(c, byte) == Xor(Row[Xor(c, byte) \cap Byte], ShiftRight(c, 8))

Crc(buf) == FoldLeft(DO1, Word, buf)

(* put_frame, on a machine that stores the low byte first. *)
WithCrc(buf) ==
  buf \o [i \in 1 .. 4 |-> ShiftRight(Crc(buf), 8 * (i - 1)) \cap Byte]

CrcInit ==
  /\ frame \in {WithCrc(buf) : buf \in Messages}
  /\ crc = Word
  /\ hits = 0

(* A byte arrives, some of its bits flipped, and is added up. *)
Receive ==
  /\ frame # <<>>
  /\ \E flipped \in SUBSET Byte :
       /\ hits + Cardinality(flipped) <= MaxHits
       /\ hits' = hits + Cardinality(flipped)
       /\ crc' = DO1(crc, Xor(Head(frame), flipped))
  /\ frame' = Tail(frame)

CrcSpec == CrcInit /\ [][Receive]_crcVars

-----------------------------------------------------------------------------
(* The polynomial of the comment that heads crc32.c.                       *)
Polynomial == {26, 23, 22, 16, 12, 11, 10, 8, 7, 5, 4, 2, 1, 0}

(* Every entry of the table is what eight steps of the division by the     *)
(* polynomial, low bit first, leave of its index.                          *)
Division(i) ==
  LET step(w, n) ==
        IF 0 \in w THEN Xor(ShiftRight(w, 1), {31 - p : p \in Polynomial})
        ELSE ShiftRight(w, 1)
  IN  FoldLeft(step, BitsOf(i, 8), [n \in 1 .. 8 |-> n])

ASSUME TableIsDivision == \A i \in 0 .. 255 : crc_table[i] = Division(i)

(* A frame as it was sent is accepted, its checksum included in the sum,   *)
(* and a frame with a few flipped bits never is, wherever they are: in the *)
(* data, in the checksum or in both.                                       *)
DamageSeen == frame = <<>> => (crc = {} <=> hits = 0)
=============================================================================
