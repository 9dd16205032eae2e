----------------------------- MODULE ByteArray -----------------------------
(***************************************************************************)
(* ByteArray (bytearray.cc): a list of nodes of m_baseSize bytes with one  *)
(* cursor, m_position, and the node m_cur it lies in.                      *)
(*                                                                         *)
(* Nodes are numbered from 0 and m_cur names one, or is Null.  An          *)
(* iteration of the loops of write() and read() is one step; nothing else  *)
(* happens between the steps of one call.  An item (a number, a string, a  *)
(* file) is written by several calls of write() in a row, which `calls'    *)
(* holds, and read by several calls of read(), for which `asks' says what  *)
(* the bytes of the present one are.                                       *)
(***************************************************************************)
EXTENDS ByteCodec, FiniteSetsExt

CONSTANTS
  m_baseSize,
  FreshBytes, \* what new memory may hold before it is written
  Items,      \* what the program writes: [kind, val]
  Files,      \* contents of files given to readFromFile
  MaxNodes,   \* bound: the length of the node list
  MaxItems    \* bound: how many items are written

Texts == {"string", "stringVint", "raw"}
Kinds == {"fixed", "varint", "zigzag"} \cup Texts

ASSUME ByteArrayAssumption ==
  /\ m_baseSize \in Nat \ {0}
  /\ MaxNodes \in Nat /\ MaxItems \in Nat
  /\ FreshBytes \subseteq Byte /\ FreshBytes # {}
  /\ Files \subseteq Seq(Byte)
  /\ \A it \in Items :
       /\ it.kind \in Kinds
       /\ it.kind \in Texts => it.val \in Seq(Byte)

VARIABLES
  nodes,        \* m_root and what follows it
  m_position, m_capacity, m_size, m_cur, m_endian,
  npos, ncap,   \* locals of write() and read()
  feed, want,   \* bytes the current write() or read() has left
  calls,        \* the calls of write() that follow the current one
  asks,         \* what the current call of read() reads
  item,         \* the item being read: its kind, and its length if raw
  got,          \* the bytes of the present part of the item
  crashed,      \* a null m_cur was dereferenced
  count,        \* items written so far
  mode,         \* history: "w" only writing, "r" reading back, "x" mixed
  written,      \* history: items written since clear(), unless mixed
  readBack      \* history: items read since setPosition(0), unless mixed

memVars == <<nodes, m_position, m_capacity, m_size, m_cur>>
loopVars == <<npos, ncap, feed, want>>
itemVars == <<calls, asks, item, got>>
historyVars == <<mode, written, readBack>>
(* From here on nothing is expected of what is read. *)
Mixed == mode' = "x" /\ written' = <<>> /\ readBack' = <<>>

vars == <<memVars, m_endian, loopVars, itemVars, crashed, count, historyVars>>

Null == -1
NewNode(b) == [i \in 0..(m_baseSize - 1) |-> b]
NoItem == [kind |-> "none", n |-> 0]

(* ByteArray(base_size) *)
Init ==
  /\ nodes \in {<<NewNode(b)>> : b \in FreshBytes}
  /\ m_position = 0 /\ m_capacity = m_baseSize /\ m_size = 0 /\ m_cur = 0
  /\ m_endian = "big"
  /\ npos = 0 /\ ncap = m_baseSize /\ feed = <<>> /\ want = 0
  /\ calls = <<>> /\ asks = "nothing" /\ item = NoItem /\ got = <<>>
  /\ crashed = FALSE
  /\ count = 0 /\ mode = "w" /\ written = <<>> /\ readBack = <<>>

Looping == feed # <<>> \/ want > 0
Idle == ~crashed /\ ~Looping /\ calls = <<>> /\ asks = "nothing"

GetReadSize == m_size - m_position
GetCapacity == m_capacity - m_position

(* Faults: wrong versions of the definitions named. *)

(* SeekNode: the node is not left when the position is its end. *)
SeekNodeStays(v) == IF v = 0 THEN 0 ELSE (v - 1) \div m_baseSize
(* Refused: the test is against the capacity. *)
RefusedByCapacity(n) == n > GetCapacity
(* Prefix: the length is written in the order of the machine. *)
PrefixHost(kind, n) == IF kind = "string" THEN HostBytes(n) ELSE EncodeVarint(n)
(* StartOf: the positional getReadBuffers starts from the current node. *)
StartOfCurrent(position) == m_cur

----------------------------------------------------------------------------
(* write(), read() *)

(* addCapacity: how many nodes to append (ceil), and the node m_cur names  *)
(* afterwards.                                                             *)
NodesFor(size) ==
  IF GetCapacity >= size THEN 0
  ELSE (size - GetCapacity + m_baseSize - 1) \div m_baseSize
Grown(k) == IF k > 0 /\ GetCapacity = 0 THEN Len(nodes) ELSE m_cur

AddCapacity(k) ==
  /\ \E b \in FreshBytes : nodes' = nodes \o [i \in 1..k |-> NewNode(b)]
  /\ m_capacity' = m_capacity + k * m_baseSize
  /\ m_cur' = Grown(k)

(* The locals with which both loops begin. *)
EnterNode ==
  /\ npos' = m_position % m_baseSize
  /\ ncap' = m_baseSize - (m_position % m_baseSize)

(* A call of write(): no byte to write is no step. *)
Write(bs) ==
  IF bs = <<>>
  THEN UNCHANGED <<memVars, loopVars>>
  ELSE /\ AddCapacity(NodesFor(Len(bs)))
       /\ EnterNode
       /\ feed' = bs
       /\ UNCHANGED <<m_position, m_size, want>>

(* The bytes an iteration moves, the next pointer of a node, and the node  *)
(* after the iteration.                                                    *)
Piece(room, left) == IF room >= left THEN left ELSE room
After(k) == IF k + 1 < Len(nodes) THEN k + 1 ELSE Null
NextCur(n) == IF npos + n = m_baseSize THEN After(m_cur) ELSE m_cur

(* memcpy into the current node *)
StoreAt(k, o, bs) ==
  [nodes EXCEPT ![k + 1] = [i \in 0..(m_baseSize - 1) |->
     IF i \in o..(o + Len(bs) - 1) THEN bs[i - o + 1] ELSE nodes[k + 1][i]]]
(* memcpy out of a node *)
LoadAt(k, o, n) == [i \in 1..n |-> nodes[k + 1][o + i - 1]]

Advance(n) ==
  /\ m_position' = m_position + n
  /\ m_cur' = NextCur(n)
  /\ npos' = 0
  /\ ncap' = m_baseSize

WriteChunk ==
  /\ ~crashed /\ feed # <<>>
  /\ LET n == Piece(ncap, Len(feed))
     IN /\ nodes' = StoreAt(m_cur, npos, SubSeq(feed, 1, n))
        /\ feed' = SubSeq(feed, n + 1, Len(feed))
        /\ Advance(n)
        /\ m_size' = IF n = Len(feed) /\ m_position + n > m_size
                     THEN m_position + n ELSE m_size
  /\ UNCHANGED <<m_capacity, m_endian, want, itemVars, crashed, count, historyVars>>

(* read() throws out_of_range if too little is left. *)
Refused(n) == n > GetReadSize

ReadChunk ==
  /\ ~crashed /\ want > 0
  /\ LET n == Piece(ncap, want)
     IN /\ got' = got \o LoadAt(m_cur, npos, n)
        /\ want' = want - n
        /\ Advance(n)
  /\ UNCHANGED <<nodes, m_capacity, m_size, m_endian, feed, calls, asks, item, crashed,
                 count, historyVars>>

----------------------------------------------------------------------------
(* Items *)

Prefix(kind, n) ==
  IF kind = "string" THEN EncodeFixed(n, m_endian) ELSE EncodeVarint(n)

(* The calls of write() that writeF*, writeInt*, writeUint*, writeString*  *)
(* and writeStringWithoutLength make.                                      *)
CallsOf(it) ==
  CASE it.kind = "fixed" -> <<EncodeFixed(it.val, m_endian)>>
    [] it.kind = "varint" -> <<EncodeVarint(it.val)>>
    [] it.kind = "zigzag" -> <<EncodeVarint(EncodeZigzag(it.val))>>
    [] it.kind \in {"string", "stringVint"} -> <<Prefix(it.kind, Len(it.val)), it.val>>
    [] it.kind = "raw" -> <<it.val>>

Put(it, cs) ==
  /\ Idle
  /\ count < MaxItems /\ count' = count + 1
  /\ m_position + Len(FlattenSeq(cs)) <= MaxNodes * m_baseSize
  /\ calls' = Tail(cs)
  /\ Write(Head(cs))
  /\ IF mode = "w" THEN written' = Append(written, it) /\ UNCHANGED <<mode, readBack>>
     ELSE Mixed
  /\ UNCHANGED <<m_endian, asks, item, got, crashed>>
WriteItem(it) == Put(it, CallsOf(it))

(* readFromFile: blocks of m_baseSize bytes until the end of the file. *)
Blocks(file) ==
  [i \in 1..((Len(file) + m_baseSize - 1) \div m_baseSize) |->
     SubSeq(file, (i - 1) * m_baseSize + 1,
            IF i * m_baseSize > Len(file) THEN Len(file) ELSE i * m_baseSize)]
ReadFromFile(file) ==
  file # <<>> /\ Put([kind |-> "raw", val |-> file], Blocks(file))

NextCall ==
  /\ ~crashed /\ ~Looping /\ calls # <<>>
  /\ Write(Head(calls))
  /\ calls' = Tail(calls)
  /\ UNCHANGED <<m_endian, asks, item, got, crashed, count, historyVars>>

(* An item has been read. *)
Finish(val) ==
  /\ asks' = "nothing" /\ item' = NoItem /\ got' = <<>>
  /\ readBack' = IF mode = "r" THEN Append(readBack, [kind |-> item.kind, val |-> val])
                 ELSE readBack
  /\ UNCHANGED <<memVars, loopVars, calls, crashed, count, mode, written>>

(* A call of read(), for the next part of the item; keep says whether the  *)
(* bytes read before belong to the same part.  m_cur is dereferenced       *)
(* whatever the size.                                                      *)
Fetch(n, part, keep) ==
  /\ ~Refused(n)
  /\ crashed' = (m_cur = Null)
  /\ asks' = part
  /\ EnterNode
  /\ want' = n
  /\ got' = IF keep THEN got ELSE <<>>
  /\ UNCHANGED <<memVars, feed, calls, count>>

(* The parts after the first; out_of_range leaves the parts already read   *)
(* behind the position.                                                    *)
ReadMore(n, part, keep) ==
  \/ Fetch(n, part, keep) /\ UNCHANGED <<item, historyVars>>
  \/ /\ Refused(n)
     /\ asks' = "nothing" /\ item' = NoItem /\ got' = <<>>
     /\ IF mode = "r" THEN mode' = "lost" /\ UNCHANGED <<written, readBack>> ELSE Mixed
     /\ UNCHANGED <<memVars, loopVars, calls, crashed, count>>

(* Reading back goes on while what is asked for is what was written. *)
Follows(it) ==
  /\ mode = "r"
  /\ Len(readBack) < Len(written)
  /\ LET w == written[Len(readBack) + 1]
     IN w.kind = it.kind /\ (it.kind = "raw" => Len(w.val) = it.n)

(* readF*, readFloat, readDouble, readInt*, readUint*, readString*, and    *)
(* read() of a given length.  Refused at once, nothing has changed.        *)
FirstRead(it) ==
  CASE it.kind \in {"fixed", "string"} -> <<WordBytes, "word">>
    [] it.kind = "raw" -> <<it.n, "body">>
    [] OTHER -> <<1, "varint">>
ReadItem(it) ==
  /\ Idle
  /\ Fetch(FirstRead(it)[1], FirstRead(it)[2], FALSE)
  /\ item' = it
  /\ IF Follows(it) THEN UNCHANGED historyVars ELSE Mixed
  /\ UNCHANGED m_endian

(* The bytes of the present part are complete. *)
PartDone(part) == ~crashed /\ ~Looping /\ asks = part

WordDone ==
  /\ PartDone("word")
  /\ LET v == DecodeFixed(got, m_endian)
     IN IF item.kind = "fixed" THEN Finish(v) ELSE ReadMore(v, "body", FALSE)
  /\ UNCHANGED m_endian

VarintDone ==
  /\ PartDone("varint")
  /\ LET v == DecodeVarint(got)
     IN CASE ~VarintEnds(got) -> ReadMore(1, "varint", TRUE)
          [] VarintEnds(got) /\ item.kind = "varint" -> Finish(v)
          [] VarintEnds(got) /\ item.kind = "zigzag" -> Finish(DecodeZigzag(v))
          [] VarintEnds(got) /\ item.kind = "stringVint" -> ReadMore(v, "body", FALSE)
  /\ UNCHANGED m_endian

BodyDone == PartDone("body") /\ Finish(got) /\ UNCHANGED m_endian

----------------------------------------------------------------------------
(* setPosition: the node the loop stops at, and the next one if the        *)
(* position is its end.  Beyond m_capacity it throws.                      *)
SeekNode(v) ==
  LET k == IF v = 0 THEN 0 ELSE (v - 1) \div m_baseSize
  IN IF v - k * m_baseSize = m_baseSize THEN After(k) ELSE k

SetPosition(v) ==
  /\ Idle
  /\ v <= m_capacity
  /\ m_position' = v
  /\ m_size' = IF v > m_size THEN v ELSE m_size
  /\ m_cur' = SeekNode(v)
  /\ IF v = 0 /\ mode # "x" THEN mode' = "r" /\ readBack' = <<>> /\ UNCHANGED written
     ELSE Mixed
  /\ UNCHANGED <<nodes, m_capacity, m_endian, loopVars, itemVars, crashed, count>>

(* clear(): the first node stays, with its content. *)
Clear ==
  /\ Idle
  /\ m_position' = 0 /\ m_size' = 0 /\ m_capacity' = m_baseSize
  /\ nodes' = <<nodes[1]>>
  /\ m_cur' = 0
  /\ mode' = "w" /\ written' = <<>> /\ readBack' = <<>>
  /\ UNCHANGED <<m_endian, loopVars, itemVars, crashed, count>>

SetIsLittleEndian(val) ==
  /\ Idle
  /\ m_endian' = IF val THEN "little" ELSE "big"
  /\ IF mode = "w" /\ written = <<>> THEN UNCHANGED historyVars ELSE Mixed
  /\ UNCHANGED <<memVars, loopVars, itemVars, crashed, count>>

(* What the proofs take from the codec, whose recursive definitions they   *)
(* cannot look into: items are encoded as bytes, and words and varints of  *)
(* the lengths that are read decode to naturals.                           *)
Orders == {"little", "big"}
CodecTyped ==
  /\ \A it \in Items, e \in Orders :
       /\ it.kind = "fixed" => EncodeFixed(it.val, e) \in Seq(Byte)
       /\ it.kind = "varint" => EncodeVarint(it.val) \in Seq(Byte)
       /\ it.kind = "zigzag" => EncodeVarint(EncodeZigzag(it.val)) \in Seq(Byte)
       /\ it.kind = "string" => EncodeFixed(Len(it.val), e) \in Seq(Byte)
       /\ it.kind = "stringVint" => EncodeVarint(Len(it.val)) \in Seq(Byte)
  /\ \A bs \in [1..WordBytes -> Byte], e \in Orders : DecodeFixed(bs, e) \in Nat
  /\ \A n \in 1..Groups : \A bs \in [1..n -> Byte] : DecodeVarint(bs) \in Nat

(* What a program asks for: the kinds it writes and the lengths of raws. *)
Asked == {[kind |-> it.kind, n |-> IF it.kind = "raw" THEN Len(it.val) ELSE 0] : it \in Items}

Next ==
  \/ \E it \in Items : WriteItem(it)
  \/ \E file \in Files : ReadFromFile(file)
  \/ \E it \in Asked : ReadItem(it)
  \/ NextCall \/ WriteChunk \/ ReadChunk \/ WordDone \/ VarintDone \/ BodyDone
  \/ \E v \in 0..(MaxNodes * m_baseSize) : SetPosition(v)
  \/ Clear
  \/ \E val \in BOOLEAN : SetIsLittleEndian(val)

Spec == Init /\ [][Next]_vars

----------------------------------------------------------------------------
(* Calls that change nothing. *)

(* The iovecs of getReadBuffers and the pieces of the positional read(),   *)
(* from offset o of node k.                                                *)
Spans[k \in Int, o \in Nat, len \in Nat] ==
  IF len = 0 THEN <<>>
  ELSE LET n == Piece(m_baseSize - o, len)
       IN <<[node |-> k, off |-> o, len |-> n]>> \o Spans[After(k), 0, len - n]

Content(spans) ==
  FlattenSeq([i \in DOMAIN spans |-> LoadAt(spans[i].node, spans[i].off, spans[i].len)])

(* getReadBuffers(buffers, len): from m_cur *)
GetReadBuffers(len) ==
  Spans[m_cur, m_position % m_baseSize, IF len > GetReadSize THEN GetReadSize ELSE len]

(* getReadBuffers(buffers, len, position): from the node of position *)
StartOf(position) == position \div m_baseSize
GetReadBuffersAt(len, position) ==
  Spans[StartOf(position), position % m_baseSize,
        IF len > GetReadSize THEN GetReadSize ELSE len]

(* read(buf, size, position) starts from m_cur; toString() reads all of it *)
(* from m_position.                                                        *)
ReadAt(size, position) == Content(Spans[m_cur, position % m_baseSize, size])
ToText == IF GetReadSize = 0 THEN <<>> ELSE ReadAt(GetReadSize, m_position)

(* writeToFile: an iteration writes one chunk of the node k. *)
FileChunk(left, diff) == (IF left > m_baseSize THEN m_baseSize ELSE left) - diff
ToFile[k \in Int, pos \in Int, left \in Int] ==
  IF left <= 0 THEN <<>>
  ELSE LET diff == pos % m_baseSize
           n == FileChunk(left, diff)
       IN LoadAt(k, diff, n) \o ToFile[After(k), pos + n, left - n]
WriteToFile == ToFile[m_cur, m_position, GetReadSize]

----------------------------------------------------------------------------
(* Properties. *)

TypeOK ==
  /\ nodes \in Seq([0..(m_baseSize - 1) -> Byte])
  /\ m_position \in Nat /\ m_capacity \in Nat /\ m_size \in Nat
  /\ m_cur \in Nat \cup {Null}
  /\ m_endian \in {"little", "big"}
  /\ npos \in Nat /\ ncap \in Nat /\ feed \in Seq(Byte) /\ want \in Nat
  /\ calls \in Seq(Seq(Byte)) /\ got \in Seq(Byte)
  /\ asks \in {"nothing", "word", "varint", "body"}
  /\ item \in [kind : Kinds \cup {"none"}, n : Nat]
  /\ crashed \in BOOLEAN
  /\ count \in 0..MaxItems /\ mode \in {"w", "r", "x", "lost"}

(* The nodes as one array, up to the size. *)
Flat == [i \in 1..(IF m_position > m_size THEN m_position ELSE m_size) |->
           nodes[(i - 1) \div m_baseSize + 1][(i - 1) % m_baseSize]]
Readable(len) == SubSeq(Flat, m_position + 1, m_position + len)

(* m_cur is the node of m_position, and null exactly when the position is  *)
(* the capacity; the size never falls behind the position except inside a  *)
(* write(), so that getReadSize() and getCapacity() do not wrap.           *)
CursorOnPosition ==
  /\ m_capacity = m_baseSize * Len(nodes)
  /\ m_position <= m_capacity /\ m_size <= m_capacity
  /\ m_position > m_size => feed # <<>>
  /\ IF m_position = m_capacity THEN m_cur = Null
     ELSE /\ m_cur \in Nat
          /\ m_cur * m_baseSize <= m_position
          /\ m_position < (m_cur + 1) * m_baseSize

(* A null node pointer is dereferenced by nothing but a read of no bytes   *)
(* with the position at the capacity.                                      *)
NullOnlyWhenEmpty ==
  /\ crashed => want = 0 /\ m_position = m_capacity
  /\ ~crashed /\ Looping => m_cur # Null /\ ncap = m_baseSize - npos

(* The cursor, the list of nodes and the sizes fit together at every step, *)
(* at the boundaries of nodes and at the capacity too.                     *)
CursorSound == TypeOK /\ CursorOnPosition /\ NullOnlyWhenEmpty

(* What was written is read back, item by item, whatever nodes the items   *)
(* straddle and whatever their encoding.                                   *)
ReadsBack ==
  /\ mode # "lost"
  /\ mode = "r" => IsPrefix(readBack, written)
  /\ Idle /\ mode = "r" /\ Len(readBack) = Len(written) => GetReadSize = 0

(* The iovecs describe the next bytes to read, and toString() returns      *)
(* them.                                                                   *)
BuffersReadable ==
  Idle =>
    /\ \A len \in 0..GetReadSize :
         /\ Content(GetReadBuffers(len)) = Readable(len)
         /\ \A p \in m_position..(m_size - len) :
              Content(GetReadBuffersAt(len, p)) = SubSeq(Flat, p + 1, p + len)
    /\ ToText = Readable(GetReadSize)

(* writeToFile writes the readable bytes when the position is the start of *)
(* a node or more than a node lies ahead.                                  *)
FileHoldsData ==
  Idle /\ (m_position % m_baseSize = 0 \/ GetReadSize > m_baseSize)
    => WriteToFile = Readable(GetReadSize)

(* The ways to look at the bytes without moving the cursor agree on them. *)
ViewsAgree == BuffersReadable /\ FileHoldsData

(* The node list implements the flat array of ByteStore. *)
Store == INSTANCE ByteStore WITH
  Cells <- Byte, data <- Flat, pos <- m_position, feed <- feed, want <- want, got <- got
FlatArray == Store!Spec
============================================================================
