----------------------------- MODULE ByteCodec -----------------------------
(***************************************************************************)
(* The encodings of ByteArray (bytearray.cc, myendian.h) as operators.     *)
(* A byte has 2 * H values, H standing for 0x80; a fixed-width integer has *)
(* WordBytes bytes and U = (2 * H)^WordBytes values, U standing for 2^16,  *)
(* 2^32 or 2^64.  Floats are copied into an integer of their width.        *)
(***************************************************************************)
EXTENDS Integers, Sequences, SequencesExt

CONSTANTS
  H,          \* 0x80: the continuation bit of a varint
  WordBytes,  \* bytes of a fixed-width integer
  Groups,     \* iterations of the loop of readUint32: 5, of readUint64: 10
  HostOrder   \* HPGS_BYTE_ORDER

ASSUME CodecAssumption ==
  /\ H \in Nat \ {0, 1} /\ WordBytes \in Nat \ {0} /\ Groups \in Nat \ {0}
  /\ HostOrder \in {"little", "big"}

U == (2 * H)^WordBytes
Byte == 0..(2 * H - 1)

(* byteswap, and the test of m_endian against the order of the machine. *)
Swapped(bs, endian) == IF endian = HostOrder THEN bs ELSE Reverse(bs)

(* The bytes of a fixed-width value as the machine lays them out. *)
Little(v) == [i \in 1..WordBytes |-> (v \div (2 * H)^(i - 1)) % (2 * H)]
HostBytes(v) == IF HostOrder = "little" THEN Little(v) ELSE Reverse(Little(v))

ValueOfLittle(bs) ==
  FoldRight(LAMBDA b, acc : b + 2 * H * acc, bs, 0)
HostValue(bs) == ValueOfLittle(IF HostOrder = "little" THEN bs ELSE Reverse(bs))

(* writeFint16 .. writeFuint64, writeFloat, writeDouble *)
EncodeFixed(v, endian) == Swapped(HostBytes(v), endian)
(* readFint16 .. readFuint64, readFloat, readDouble *)
DecodeFixed(bs, endian) == HostValue(Swapped(bs, endian))

(* EncodeZigzag32, EncodeZigzag64; for the least integer -v wraps to v. *)
EncodeZigzag(v) == IF v < 0 THEN (2 * (-v) - 1) % U ELSE (2 * v) % U
(* DecodeZigzag32, DecodeZigzag64: (v >> 1) ^ -(v & 1) *)
DecodeZigzag(v) == IF v % 2 = 0 THEN v \div 2 ELSE -(v \div 2) - 1

(* writeUint32, writeUint64: groups of seven bits, the lowest first. *)
Varint[v \in Nat] ==
  IF v >= H THEN <<(v % H) + H>> \o Varint[v \div H] ELSE <<v>>
EncodeVarint(v) == Varint[v]

(* readUint32, readUint64 stop at a byte below 0x80 or after Groups bytes. *)
VarintEnds(bs) == bs # <<>> /\ (Last(bs) < H \/ Len(bs) = Groups)
DecodeVarint(bs) == FoldRight(LAMBDA b, acc : (b % H) + H * acc, bs, 0) % U
============================================================================
