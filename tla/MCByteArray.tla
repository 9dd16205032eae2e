---------------------------- MODULE MCByteArray ----------------------------
(***************************************************************************)
(* Instances of ByteArray for TLC: bytes have 8 values, a word two bytes,  *)
(* a varint groups of two bits.                                            *)
(***************************************************************************)
EXTENDS ByteArray

Item(k, v) == [kind |-> k, val |-> v]

(* Values on both sides of each limit of the encodings. *)
MCItems ==
  {Item("fixed", 11), Item("varint", 4), Item("varint", 63), Item("zigzag", -32),
   Item("string", <<5, 0, 7, 2>>), Item("string", <<>>), Item("stringVint", <<6>>),
   Item("raw", <<1, 2>>)}

(* Shorter and longer than a node. *)
MCFiles == {<<3>>, <<1, 2, 3, 4>>}

(* The hypothesis of the proofs about ByteArray holds of this instance. *)
ASSUME InstanceTyped == CodecTyped
============================================================================
