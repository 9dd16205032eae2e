-------------------------- MODULE ByteArrayProofs --------------------------
(***************************************************************************)
(* Proofs about ByteArray, for every size of a node, every item and file   *)
(* and any number of calls: the cursor stays on its node (CursorSound),    *)
(* and the list of nodes implements the flat array of ByteStore            *)
(* (FlatArray).  What the recursive encodings return is the hypothesis     *)
(* CodecTyped.                                                             *)
(***************************************************************************)
EXTENDS ByteArray, SequenceTheorems, TLAPS

----------------------------------------------------------------------------
(* Positions and nodes. *)

(* Node c of L nodes is the one position p lies in. *)
OnNode(p, c, L) ==
  IF p = m_baseSize * L THEN c = Null
  ELSE /\ c \in Nat
       /\ c * m_baseSize <= p
       /\ p < (c + 1) * m_baseSize

(* A node more is m_baseSize bytes more. *)
LEMMA NodesOrdered ==
  ASSUME NEW x \in Nat, NEW y \in Nat
  PROVE  /\ m_baseSize * x \in Nat
         /\ x < y => m_baseSize * x + m_baseSize <= m_baseSize * y
         /\ m_baseSize * x < m_baseSize * y => x < y
         /\ m_baseSize * x = m_baseSize * y => x = y
<1>1. m_baseSize \in Nat /\ m_baseSize > 0
  BY ByteArrayAssumption
<1>2. m_baseSize * x \in Nat
  BY <1>1
<1>3. ASSUME NEW u \in Nat, NEW v \in Nat, u < v
      PROVE  m_baseSize * u + m_baseSize <= m_baseSize * v
  <2>1. PICK d \in Nat : v = u + 1 + d
    <3>1. v - u - 1 \in Nat /\ v = u + 1 + (v - u - 1)
      BY <1>3
    <3> QED BY <3>1
  <2>2. m_baseSize * v = m_baseSize * u + m_baseSize + m_baseSize * d
    BY <1>1, <2>1
  <2>3. m_baseSize * d \in Nat
    BY <1>1
  <2>4. m_baseSize * u \in Nat
    BY <1>1
  <2> QED BY <1>1, <2>2, <2>3, <2>4
<1>4. x < y => m_baseSize * x + m_baseSize <= m_baseSize * y
  BY <1>3
<1>5. y < x => m_baseSize * y + m_baseSize <= m_baseSize * x
  BY <1>3
<1>6. m_baseSize * y \in Nat
  BY <1>1
<1> QED BY <1>1, <1>2, <1>4, <1>5, <1>6

(* What \div and % mean for a position. *)
LEMMA Division ==
  ASSUME NEW p \in Nat
  PROVE  /\ p \div m_baseSize \in Nat
         /\ p % m_baseSize \in 0..(m_baseSize - 1)
         /\ p = m_baseSize * (p \div m_baseSize) + (p % m_baseSize)
<1>1. m_baseSize \in Nat /\ m_baseSize > 0
  BY ByteArrayAssumption
<1>2. p % m_baseSize \in 0..(m_baseSize - 1)
  BY <1>1
<1>3. p \div m_baseSize \in Nat
  BY <1>1
<1>4. p = m_baseSize * (p \div m_baseSize) + (p % m_baseSize)
  BY <1>1
<1> QED BY <1>2, <1>3, <1>4

(* The node of a position and the offset in it are its quotient and rest.  *)
LEMMA Offset ==
  ASSUME NEW p \in Nat, NEW c \in Nat,
         c * m_baseSize <= p, p < (c + 1) * m_baseSize
  PROVE  /\ p % m_baseSize = p - c * m_baseSize
         /\ p \div m_baseSize = c
<1>1. m_baseSize \in Nat /\ m_baseSize > 0
  BY ByteArrayAssumption
<1>2. PICK q \in Nat : q = p \div m_baseSize
  BY Division
<1>3. PICK r \in 0..(m_baseSize - 1) : r = p % m_baseSize
  BY Division
<1>4. p = m_baseSize * q + r
  BY <1>2, <1>3, Division
<1>5. c * m_baseSize = m_baseSize * c /\ (c + 1) * m_baseSize = m_baseSize * c + m_baseSize
  BY <1>1
<1>6. m_baseSize * c \in Nat /\ m_baseSize * q \in Nat
  BY NodesOrdered
<1>7. ~(q < c)
  <2> SUFFICES ASSUME q < c PROVE FALSE
    OBVIOUS
  <2>1. m_baseSize * q + m_baseSize <= m_baseSize * c
    BY NodesOrdered
  <2> QED BY <1>1, <1>3, <1>4, <1>5, <1>6, <2>1
<1>8. ~(c < q)
  <2> SUFFICES ASSUME c < q PROVE FALSE
    OBVIOUS
  <2>1. m_baseSize * c + m_baseSize <= m_baseSize * q
    BY NodesOrdered
  <2> QED BY <1>1, <1>3, <1>4, <1>5, <1>6, <2>1
<1>9. q = c
  BY <1>7, <1>8
<1> QED BY <1>1, <1>2, <1>3, <1>4, <1>5, <1>6, <1>9

(* The cursor after n bytes of node c have been passed. *)
LEMMA Passed ==
  ASSUME NEW L \in Nat, NEW p \in Nat, NEW c \in Nat, NEW n \in Nat,
         c * m_baseSize <= p, p < (c + 1) * m_baseSize,
         n <= m_baseSize - (p % m_baseSize),
         p + n <= m_baseSize * L, n > 0
  PROVE  /\ c < L
         /\ (p % m_baseSize) + n = m_baseSize =>
              p + n = m_baseSize * (c + 1) /\ (p + n) % m_baseSize = 0
         /\ OnNode(p + n,
                   IF (p % m_baseSize) + n = m_baseSize
                     THEN IF c + 1 < L THEN c + 1 ELSE Null
                     ELSE c, L)
<1>1. m_baseSize \in Nat /\ m_baseSize > 0
  BY ByteArrayAssumption
<1>2. PICK r \in 0..(m_baseSize - 1) : r = p % m_baseSize
  BY Division
<1>3. p = m_baseSize * c + r
  <2>1. r = p - c * m_baseSize
    BY <1>2, Offset
  <2>2. c * m_baseSize = m_baseSize * c /\ m_baseSize * c \in Nat
    BY <1>1
  <2> QED BY <2>1, <2>2, <1>2, <1>1
<1>4. /\ c * m_baseSize = m_baseSize * c
      /\ (c + 1) * m_baseSize = m_baseSize * c + m_baseSize
      /\ m_baseSize * (c + 1) = m_baseSize * c + m_baseSize
      /\ (c + 1 + 1) * m_baseSize = m_baseSize * c + m_baseSize + m_baseSize
  BY <1>1
<1>5. m_baseSize * c \in Nat /\ m_baseSize * L \in Nat
  BY NodesOrdered
<1>6. c < L
  <2>1. m_baseSize * c < m_baseSize * L
    BY <1>1, <1>2, <1>3, <1>5
  <2> QED BY <2>1, NodesOrdered
<1>7. CASE r + n = m_baseSize
  <2>1. p + n = m_baseSize * (c + 1)
    BY <1>1, <1>2, <1>3, <1>4, <1>5, <1>7
  <2>2. (p + n) % m_baseSize = 0
    <3>1. PICK m \in Nat, d \in Nat : m = p + n /\ d = c + 1
      OBVIOUS
    <3>2. d * m_baseSize = m /\ m < (d + 1) * m_baseSize
      BY <1>1, <1>4, <1>5, <2>1, <3>1
    <3>3. m % m_baseSize = m - d * m_baseSize
      <4>1. d * m_baseSize <= m
        BY <3>2, <3>1
      <4> QED BY <4>1, <3>2, Offset
    <3> QED BY <3>1, <3>2, <3>3
  <2>3. CASE c + 1 < L
    <3>1. m_baseSize * (c + 1) + m_baseSize <= m_baseSize * L
      BY <2>3, NodesOrdered
    <3>2. OnNode(p + n, c + 1, L)
      BY <1>1, <1>4, <1>5, <2>1, <3>1 DEF OnNode
    <3> QED BY <1>2, <1>6, <1>7, <2>1, <2>2, <2>3, <3>2
  <2>4. CASE ~(c + 1 < L)
    <3>1. L = c + 1
      BY <1>6, <2>4
    <3>2. OnNode(p + n, Null, L)
      BY <2>1, <3>1 DEF OnNode
    <3> QED BY <1>2, <1>6, <1>7, <2>1, <2>2, <2>4, <3>2
  <2> QED BY <2>3, <2>4
<1>8. CASE r + n # m_baseSize
  <2>1. r + n < m_baseSize
    BY <1>1, <1>2, <1>8
  <2>2. m_baseSize * c + m_baseSize <= m_baseSize * L
    BY <1>6, NodesOrdered
  <2>3. OnNode(p + n, c, L)
    BY <1>1, <1>2, <1>3, <1>4, <1>5, <2>1, <2>2 DEF OnNode
  <2> QED BY <1>2, <1>6, <1>8, <2>3
<1> QED BY <1>7, <1>8

(* The nodes that addCapacity appends are enough. *)
LEMMA Enough ==
  ASSUME NEW s \in Nat, s > 0
  PROVE  LET k == (s + m_baseSize - 1) \div m_baseSize
         IN k \in Nat /\ k > 0 /\ s <= m_baseSize * k
<1>1. m_baseSize \in Nat /\ m_baseSize > 0
  BY ByteArrayAssumption
<1>2. s + m_baseSize - 1 \in Nat
  BY <1>1
<1>3. PICK k \in Nat : k = (s + m_baseSize - 1) \div m_baseSize
  BY <1>2, Division
<1>4. PICK r \in 0..(m_baseSize - 1) : s + m_baseSize - 1 = m_baseSize * k + r
  BY <1>2, <1>3, Division
<1>5. m_baseSize * k \in Nat
  BY NodesOrdered
<1>6. s <= m_baseSize * k
  BY <1>1, <1>4, <1>5
<1>7. k # 0
  BY <1>1, <1>6
<1> QED BY <1>3, <1>6, <1>7

----------------------------------------------------------------------------
(* The inductive invariant. *)

Node == [0..(m_baseSize - 1) -> Byte]

(* The types of the list, the cursor and the locals of the loops. *)
MemoryTyped ==
  /\ nodes \in Seq(Node) /\ nodes # <<>>
  /\ m_position \in Nat /\ m_capacity \in Nat /\ m_size \in Nat
  /\ m_cur \in Nat \cup {Null}
  /\ npos \in Nat /\ ncap \in Nat /\ feed \in Seq(Byte) /\ want \in Nat

(* What a loop of write() or read() relies on: addCapacity has made room   *)
(* for the bytes left, read() has tested that they are there, and the      *)
(* locals npos and ncap are those of the position.                         *)
InLoop ==
  /\ feed = <<>> \/ want = 0
  /\ m_position + Len(feed) <= m_capacity
  /\ want > 0 => m_position + want <= m_size
  /\ Looping => npos = m_position % m_baseSize /\ ncap = m_baseSize - npos

Memory == MemoryTyped /\ CursorOnPosition /\ InLoop

(* What the reader of an item relies on: how much of the present part it   *)
(* has, and which kinds begin with a varint.                               *)
InPart ==
  /\ asks = "word" => Len(got) + want = WordBytes
  /\ asks = "varint" => /\ Len(got) + want \in 1..Groups
                        /\ item.kind \in {"varint", "zigzag", "stringVint"}

(* The types of the variables above the memory. *)
ItemTyped ==
  /\ m_endian \in Orders /\ calls \in Seq(Seq(Byte)) /\ got \in Seq(Byte)
  /\ asks \in {"nothing", "word", "varint", "body"}
  /\ item \in [kind : Kinds \cup {"none"}, n : Nat]
  /\ crashed \in BOOLEAN
  /\ count \in 0..MaxItems /\ mode \in {"w", "r", "x", "lost"}

(* The null node is dereferenced at the capacity only, by a read of no     *)
(* bytes.                                                                  *)
CrashedEmpty == crashed => want = 0 /\ m_position = m_capacity

ArrayInv == Memory /\ ItemTyped /\ InPart /\ CrashedEmpty

(* The cursor in the form of OnNode. *)
LEMMA CursorIs ==
  CursorOnPosition <=>
    /\ m_capacity = m_baseSize * Len(nodes)
    /\ m_position <= m_capacity /\ m_size <= m_capacity
    /\ m_position > m_size => feed # <<>>
    /\ OnNode(m_position, m_cur, Len(nodes))
BY DEF CursorOnPosition, OnNode

(* Inside a loop the cursor is on a node. *)
LEMMA LoopOnNode ==
  ASSUME Memory, Looping
  PROVE  /\ m_cur \in Nat /\ m_cur < Len(nodes)
         /\ m_cur * m_baseSize <= m_position
         /\ m_position < (m_cur + 1) * m_baseSize
         /\ npos = m_position % m_baseSize /\ ncap = m_baseSize - npos
         /\ npos \in 0..(m_baseSize - 1)
<1>1. m_position < m_capacity
  <2>1. CASE feed # <<>>
    <3>1. Len(feed) \in Nat /\ Len(feed) > 0
      BY <2>1, EmptySeq DEF Memory, MemoryTyped
    <3> QED BY <3>1 DEF Memory, MemoryTyped, InLoop
  <2>2. CASE want > 0
    BY <2>2 DEF Memory, MemoryTyped, InLoop, CursorOnPosition
  <2> QED BY <2>1, <2>2 DEF Looping
<1>2. /\ m_cur \in Nat
      /\ m_cur * m_baseSize <= m_position
      /\ m_position < (m_cur + 1) * m_baseSize
  BY <1>1 DEF Memory, MemoryTyped, CursorOnPosition
<1>3. m_cur < Len(nodes)
  <2>1. Len(nodes) \in Nat
    BY DEF Memory, MemoryTyped
  <2>2. m_baseSize * m_cur < m_baseSize * Len(nodes)
    <3>1. m_baseSize * m_cur = m_cur * m_baseSize /\ m_baseSize * m_cur \in Nat
      BY <1>2, ByteArrayAssumption
    <3> QED BY <1>1, <1>2, <3>1 DEF Memory, MemoryTyped, CursorOnPosition
  <2> QED BY <1>2, <2>1, <2>2, NodesOrdered
<1>4. npos = m_position % m_baseSize /\ ncap = m_baseSize - npos
  BY DEF Memory, InLoop
<1>5. npos \in 0..(m_baseSize - 1)
  BY <1>4, Division DEF Memory, MemoryTyped
<1> QED BY <1>2, <1>3, <1>4, <1>5

(* What leaves the memory and the locals alone keeps the invariant. *)
LEMMA MemoryFrame ==
  ASSUME Memory, UNCHANGED <<memVars, loopVars>>
  PROVE  Memory'
BY DEF Memory, MemoryTyped, CursorOnPosition, InLoop, Looping, memVars, loopVars

(* write() makes room for its bytes before its loop begins. *)
LEMMA WriteKeeps ==
  ASSUME Memory, ~Looping, NEW bs \in Seq(Byte), Write(bs)
  PROVE  /\ Memory'
         /\ bs # <<>> => \E t \in Seq(Node) : nodes' = nodes \o t
<1>1. CASE bs = <<>>
  BY <1>1, MemoryFrame DEF Write
<1>2. CASE bs # <<>>
  <2>1. m_baseSize \in Nat /\ m_baseSize > 0
    BY ByteArrayAssumption
  <2>2. Len(bs) \in Nat /\ Len(bs) > 0
    BY <1>2, EmptySeq
  <2>3. PICK L \in Nat : L = Len(nodes) /\ L > 0
    BY EmptySeq DEF Memory, MemoryTyped
  <2>4. PICK g \in Nat : g = GetCapacity /\ m_capacity = m_position + g
    BY DEF Memory, MemoryTyped, CursorOnPosition, GetCapacity
  <2>5. PICK k \in Nat : /\ k = NodesFor(Len(bs))
                         /\ Len(bs) <= g + m_baseSize * k
    <3>1. CASE g >= Len(bs)
      <4>1. NodesFor(Len(bs)) = 0
        BY <2>4, <3>1 DEF NodesFor
      <4>2. m_baseSize * 0 = 0
        BY <2>1
      <4> QED BY <2>2, <3>1, <4>1, <4>2
    <3>2. CASE ~(g >= Len(bs))
      <4>1. PICK s \in Nat : s = Len(bs) - g /\ s > 0
        BY <2>2, <3>2
      <4>2. NodesFor(Len(bs)) = (s + m_baseSize - 1) \div m_baseSize
        BY <2>4, <3>2, <4>1 DEF NodesFor
      <4>3. PICK k \in Nat : k = NodesFor(Len(bs)) /\ s <= m_baseSize * k
        BY <4>1, <4>2, Enough
      <4>4. m_baseSize * k \in Nat
        BY <2>1
      <4> QED BY <2>2, <4>1, <4>3, <4>4
    <3> QED BY <3>1, <3>2
  <2>6. PICK b \in FreshBytes : nodes' = nodes \o [i \in 1..k |-> NewNode(b)]
    BY <1>2, <2>5 DEF Write, AddCapacity
  <2>7. m_capacity' = m_capacity + k * m_baseSize /\ m_cur' = Grown(k)
    BY <1>2, <2>5 DEF Write, AddCapacity
  <2>8. /\ npos' = m_position % m_baseSize /\ ncap' = m_baseSize - npos'
        /\ feed' = bs /\ m_position' = m_position /\ m_size' = m_size /\ want' = want
    BY <1>2 DEF Write, EnterNode
  <2>9. nodes' \in Seq(Node) /\ Len(nodes') = L + k
    <3>1. NewNode(b) \in Node
      BY ByteArrayAssumption DEF NewNode, Node
    <3>2. PICK t \in Seq(Node) : t = [i \in 1..k |-> NewNode(b)] /\ Len(t) = k
      <4>1. PICK x \in Node : x = NewNode(b)
        BY <3>1
      <4>2. [i \in 1..k |-> x] \in Seq(Node) /\ Len([i \in 1..k |-> x]) = k
        OBVIOUS
      <4>3. [i \in 1..k |-> x] = [i \in 1..k |-> NewNode(b)]
        BY <4>1
      <4> QED BY <4>2, <4>3
    <3>3. nodes \in Seq(Node)
      BY DEF Memory, MemoryTyped
    <3>4. nodes' = nodes \o t
      BY <2>6, <3>2
    <3> QED BY <2>3, <3>2, <3>3, <3>4
  <2>10. nodes' # <<>>
    BY <2>3, <2>9
  <2>11. m_capacity = m_baseSize * L
    BY <2>3 DEF Memory, CursorOnPosition
  <2>12. m_capacity' = m_baseSize * (L + k) /\ k * m_baseSize = m_baseSize * k
    BY <2>1, <2>7, <2>11
  <2>13. m_baseSize * k \in Nat /\ m_baseSize * L \in Nat
    BY <2>1
  <2>14. m_position + Len(bs) <= m_capacity'
    BY <2>2, <2>4, <2>5, <2>7, <2>12, <2>13 DEF Memory, MemoryTyped
  <2>15. want = 0
    BY DEF Looping, Memory, MemoryTyped
  <2>16. m_cur' \in Nat /\ OnNode(m_position, m_cur', L + k)
    <3>1. m_position < m_baseSize * (L + k)
      BY <2>2, <2>12, <2>14 DEF Memory, MemoryTyped
    <3>2. CASE m_position = m_capacity
      <4>1. k > 0
        <5>1. g = 0
          BY <2>4, <3>2 DEF Memory, MemoryTyped
        <5>2. k # 0
          <6>1. m_baseSize * 0 = 0
            BY <2>1
          <6> QED BY <2>2, <2>5, <5>1, <6>1
        <5> QED BY <5>2
      <4>2. m_cur' = L
        BY <2>3, <2>4, <2>7, <3>2, <4>1 DEF Grown, Memory, MemoryTyped
      <4>3. L * m_baseSize = m_baseSize * L /\ (L + 1) * m_baseSize = m_baseSize * L + m_baseSize
        BY <2>1
      <4> QED BY <2>1, <2>11, <2>13, <3>1, <3>2, <4>2, <4>3 DEF OnNode
    <3>3. CASE m_position # m_capacity
      <4>1. m_cur' = m_cur
        BY <2>4, <2>7, <3>3 DEF Grown, Memory, MemoryTyped
      <4>2. /\ m_cur \in Nat /\ m_cur * m_baseSize <= m_position
            /\ m_position < (m_cur + 1) * m_baseSize
        BY <3>3 DEF Memory, CursorOnPosition
      <4> QED BY <3>1, <4>1, <4>2 DEF OnNode, Memory, MemoryTyped
    <3> QED BY <3>2, <3>3
  <2>17. npos' \in Nat /\ ncap' \in Nat
    BY <2>1, <2>8, Division DEF Memory, MemoryTyped
  <2>18. MemoryTyped'
    BY <2>8, <2>9, <2>10, <2>12, <2>13, <2>7, <2>16, <2>17 DEF Memory, MemoryTyped
  <2>19. CursorOnPosition'
    <3>1. m_size <= m_capacity'
      BY <2>7, <2>12, <2>13 DEF Memory, MemoryTyped, CursorOnPosition
    <3>2. m_position <= m_capacity'
      BY <2>2, <2>14, <2>18 DEF Memory, MemoryTyped
    <3> QED BY <1>2, <2>8, <2>9, <2>12, <2>16, <3>1, <3>2 DEF CursorOnPosition, OnNode
  <2>20. InLoop'
    BY <2>8, <2>14, <2>15 DEF InLoop, Looping
  <2>21. \E t \in Seq(Node) : nodes' = nodes \o t
    <3>1. NewNode(b) \in Node
      BY ByteArrayAssumption DEF NewNode, Node
    <3>2. [i \in 1..k |-> NewNode(b)] \in Seq(Node)
      BY <3>1
    <3> QED BY <2>6, <3>2
  <2> QED BY <2>18, <2>19, <2>20, <2>21 DEF Memory
<1> QED BY <1>1, <1>2

(* An iteration of either loop leaves the cursor on the node of the new    *)
(* position, and with bytes left it leaves it at the start of a node.      *)
LEMMA AdvanceKeeps ==
  ASSUME Memory, Looping, NEW n \in Nat, n > 0, n <= ncap,
         m_position + n <= m_capacity, Advance(n)
  PROVE  /\ m_position' = m_position + n
         /\ m_cur' \in Nat \cup {Null}
         /\ OnNode(m_position', m_cur', Len(nodes))
         /\ n = ncap => m_position' % m_baseSize = 0
         /\ npos' = 0 /\ ncap' = m_baseSize
<1>1. m_baseSize \in Nat /\ m_baseSize > 0
  BY ByteArrayAssumption
<1>2. PICK L \in Nat : L = Len(nodes) /\ m_capacity = m_baseSize * L
  BY DEF Memory, MemoryTyped, CursorOnPosition
<1>3. m_position \in Nat
  BY DEF Memory, MemoryTyped
<1>4. /\ m_cur \in Nat
      /\ m_cur * m_baseSize <= m_position
      /\ m_position < (m_cur + 1) * m_baseSize
      /\ npos = m_position % m_baseSize /\ ncap = m_baseSize - npos
      /\ npos \in 0..(m_baseSize - 1)
  BY LoopOnNode
<1>5. n <= m_baseSize - (m_position % m_baseSize) /\ m_position + n <= m_baseSize * L
  BY <1>2, <1>4
<1>6. /\ npos + n = m_baseSize => (m_position + n) % m_baseSize = 0
      /\ OnNode(m_position + n,
                IF npos + n = m_baseSize
                  THEN IF m_cur + 1 < L THEN m_cur + 1 ELSE Null
                  ELSE m_cur, L)
  BY <1>3, <1>4, <1>5, Passed
<1>7. /\ m_position' = m_position + n
      /\ m_cur' = IF npos + n = m_baseSize
                    THEN IF m_cur + 1 < L THEN m_cur + 1 ELSE Null
                    ELSE m_cur
      /\ npos' = 0 /\ ncap' = m_baseSize
  BY <1>2 DEF Advance, NextCur, After
<1>8. m_cur' \in Nat \cup {Null}
  BY <1>4, <1>7
<1>9. n = ncap => npos + n = m_baseSize
  BY <1>1, <1>4
<1> QED BY <1>2, <1>6, <1>7, <1>8, <1>9

(* The bytes an iteration moves. *)
LEMMA PieceIs ==
  ASSUME NEW room \in Nat, NEW left \in Nat, room > 0, left > 0
  PROVE  /\ Piece(room, left) \in Nat /\ Piece(room, left) > 0
         /\ Piece(room, left) <= room /\ Piece(room, left) <= left
         /\ Piece(room, left) # left => Piece(room, left) = room
BY DEF Piece

(* An iteration of read(). *)
LEMMA ReadChunkKeeps ==
  ASSUME Memory, ReadChunk
  PROVE  /\ Memory'
         /\ \E n \in 1..want :
              /\ n <= ncap
              /\ m_position' = m_position + n
              /\ want' = want - n
              /\ got' = got \o LoadAt(m_cur, npos, n)
<1>1. m_baseSize \in Nat /\ m_baseSize > 0
  BY ByteArrayAssumption
<1>2. Looping /\ want > 0 /\ want \in Nat /\ ncap \in Nat /\ m_position \in Nat
  BY DEF ReadChunk, Looping, Memory, MemoryTyped
<1>3. ncap > 0
  BY <1>1, <1>2, LoopOnNode
<1>4. PICK n \in Nat : n = Piece(ncap, want)
  BY <1>2, <1>3, PieceIs
<1>5. n > 0 /\ n <= ncap /\ n <= want /\ (n # want => n = ncap)
  BY <1>2, <1>3, <1>4, PieceIs
<1>6. /\ want' = want - n /\ Advance(n)
      /\ got' = got \o LoadAt(m_cur, npos, n)
      /\ UNCHANGED <<nodes, m_capacity, m_size, feed>>
  BY <1>4 DEF ReadChunk
<1>7. m_position + want <= m_size /\ m_size <= m_capacity /\ m_size \in Nat /\ m_capacity \in Nat
  BY <1>2 DEF Memory, MemoryTyped, InLoop, CursorOnPosition
<1>8. m_position + n <= m_capacity
  BY <1>2, <1>5, <1>7
<1>9. /\ m_position' = m_position + n
      /\ m_cur' \in Nat \cup {Null}
      /\ OnNode(m_position', m_cur', Len(nodes))
      /\ n = ncap => m_position' % m_baseSize = 0
      /\ npos' = 0 /\ ncap' = m_baseSize
  BY <1>2, <1>5, <1>6, <1>8, AdvanceKeeps
<1>10. MemoryTyped'
  BY <1>1, <1>2, <1>5, <1>6, <1>9 DEF Memory, MemoryTyped
<1>11. feed = <<>>
  BY <1>2 DEF Memory, InLoop
<1>12. m_position' + want' = m_position + want
  BY <1>2, <1>5, <1>6, <1>9
<1>13. CursorOnPosition'
  <2>1. m_position' <= m_size
    BY <1>2, <1>5, <1>7, <1>9
  <2>2. /\ m_capacity' = m_baseSize * Len(nodes')
        /\ m_position' <= m_capacity' /\ m_size' <= m_capacity'
        /\ ~(m_position' > m_size')
        /\ OnNode(m_position', m_cur', Len(nodes'))
    BY <1>6, <1>7, <1>9, <1>10, <2>1 DEF Memory, MemoryTyped, CursorOnPosition
  <2> QED BY <2>2 DEF CursorOnPosition, OnNode
<1>14. InLoop'
  <2>1. m_position' + Len(feed') <= m_capacity'
    BY <1>6, <1>8, <1>9, <1>11
  <2>2. want' > 0 => m_position' + want' <= m_size'
    BY <1>6, <1>7, <1>12
  <2>3. Looping' => want' > 0
    BY <1>6, <1>11 DEF Looping
  <2>4. want' > 0 => n = ncap
    BY <1>2, <1>5, <1>6
  <2> QED BY <1>1, <1>6, <1>9, <1>11, <2>1, <2>2, <2>3, <2>4 DEF InLoop
<1>15. n \in 1..want
  BY <1>2, <1>5
<1> QED BY <1>5, <1>6, <1>9, <1>10, <1>13, <1>14, <1>15 DEF Memory

(* An iteration of write(). *)
LEMMA WriteChunkKeeps ==
  ASSUME Memory, WriteChunk
  PROVE  /\ Memory'
         /\ \E n \in 1..Len(feed) :
              /\ n <= ncap
              /\ m_position' = m_position + n
              /\ feed' = SubSeq(feed, n + 1, Len(feed))
              /\ nodes' = StoreAt(m_cur, npos, SubSeq(feed, 1, n))
              /\ m_size' = IF n = Len(feed) /\ m_position + n > m_size
                           THEN m_position + n ELSE m_size
<1>1. m_baseSize \in Nat /\ m_baseSize > 0
  BY ByteArrayAssumption
<1>2. /\ Looping /\ feed # <<>> /\ feed \in Seq(Byte) /\ Len(feed) \in Nat
      /\ ncap \in Nat /\ m_position \in Nat
  BY DEF WriteChunk, Looping, Memory, MemoryTyped
<1>3. ncap > 0 /\ Len(feed) > 0
  BY <1>1, <1>2, LoopOnNode, EmptySeq
<1>4. PICK n \in Nat : n = Piece(ncap, Len(feed))
  BY <1>2, <1>3, PieceIs
<1>5. n > 0 /\ n <= ncap /\ n <= Len(feed) /\ (n # Len(feed) => n = ncap)
  BY <1>2, <1>3, <1>4, PieceIs
<1>6. /\ nodes' = StoreAt(m_cur, npos, SubSeq(feed, 1, n))
      /\ feed' = SubSeq(feed, n + 1, Len(feed))
      /\ Advance(n)
      /\ m_size' = IF n = Len(feed) /\ m_position + n > m_size
                   THEN m_position + n ELSE m_size
      /\ UNCHANGED <<m_capacity, want>>
  BY <1>4 DEF WriteChunk
<1>7. /\ m_position + Len(feed) <= m_capacity /\ m_size <= m_capacity /\ want = 0
      /\ m_size \in Nat /\ m_capacity \in Nat
  BY <1>2 DEF Memory, MemoryTyped, InLoop, CursorOnPosition
<1>8. m_position + n <= m_capacity
  BY <1>2, <1>5, <1>7
<1>9. /\ m_position' = m_position + n
      /\ m_cur' \in Nat \cup {Null}
      /\ OnNode(m_position', m_cur', Len(nodes))
      /\ n = ncap => m_position' % m_baseSize = 0
      /\ npos' = 0 /\ ncap' = m_baseSize
  BY <1>2, <1>5, <1>6, <1>8, AdvanceKeeps
<1>10. feed' \in Seq(Byte) /\ Len(feed') = Len(feed) - n
  BY <1>2, <1>5, <1>6, SubSeqProperties
<1>11. nodes' \in Seq(Node) /\ Len(nodes') = Len(nodes) /\ nodes' # <<>>
  <2>1. PICK bs \in Seq(Byte) : bs = SubSeq(feed, 1, n) /\ Len(bs) = n
    <3>1. SubSeq(feed, 1, n) \in Seq(Byte)
      BY <1>2, <1>5, SubSeqProperties
    <3>2. Len(SubSeq(feed, 1, n)) = n
      BY <1>2, <1>5, SubSeqProperties
    <3> QED BY <3>1, <3>2
  <2>2. PICK x : x = [i \in 0..(m_baseSize - 1) |->
                       IF i \in npos..(npos + Len(bs) - 1) THEN bs[i - npos + 1]
                       ELSE nodes[m_cur + 1][i]]
    OBVIOUS
  <2>3. nodes' = [nodes EXCEPT ![m_cur + 1] = x]
    BY <1>6, <2>1, <2>2 DEF StoreAt
  <2>4. m_cur + 1 \in 1..Len(nodes)
    BY <1>2, LoopOnNode DEF Memory, MemoryTyped
  <2>5. nodes \in Seq(Node) /\ nodes # <<>> /\ nodes[m_cur + 1] \in Node
    BY <2>4 DEF Memory, MemoryTyped
  <2>6. x \in Node
    <3>1. \A i \in 0..(m_baseSize - 1) : nodes[m_cur + 1][i] \in Byte
      BY <2>5 DEF Node
    <3>2. ASSUME NEW i \in npos..(npos + Len(bs) - 1) PROVE bs[i - npos + 1] \in Byte
      <4>1. i - npos + 1 \in 1..Len(bs)
        BY <1>2, <2>1, LoopOnNode
      <4> QED BY <4>1
    <3> QED BY <2>2, <3>1, <3>2 DEF Node
  <2> QED BY <2>3, <2>4, <2>5, <2>6
<1>12. m_size' \in Nat /\ m_size' <= m_capacity
  BY <1>2, <1>6, <1>7, <1>8
<1>13. MemoryTyped'
  BY <1>1, <1>2, <1>6, <1>7, <1>9, <1>10, <1>11, <1>12 DEF Memory, MemoryTyped
<1>14. feed' = <<>> => n = Len(feed)
  BY <1>2, <1>5, <1>10, EmptySeq
<1>15. CursorOnPosition'
  <2>1. /\ m_capacity' = m_baseSize * Len(nodes')
        /\ m_position' <= m_capacity' /\ m_size' <= m_capacity'
        /\ OnNode(m_position', m_cur', Len(nodes'))
    BY <1>6, <1>8, <1>9, <1>11, <1>12 DEF Memory, CursorOnPosition
  <2>2. m_position' > m_size' => feed' # <<>>
    BY <1>2, <1>6, <1>7, <1>9, <1>14
  <2> QED BY <2>1, <2>2 DEF CursorOnPosition, OnNode
<1>16. InLoop'
  <2>1. m_position' + Len(feed') <= m_capacity'
    <3>1. m_capacity' = m_capacity
      BY <1>6
    <3>2. m_position' + Len(feed') = m_position + Len(feed)
      BY <1>2, <1>9, <1>10
    <3> QED BY <1>7, <3>1, <3>2
  <2>2. want' = 0
    BY <1>6, <1>7
  <2>3. Looping' => n = ncap
    <3>1. Looping' => feed' # <<>>
      BY <2>2 DEF Looping
    <3>2. feed' # <<>> => Len(feed') > 0
      BY <1>10, EmptySeq
    <3> QED BY <1>2, <1>5, <1>10, <3>1, <3>2
  <2> QED BY <1>1, <1>9, <2>1, <2>2, <2>3 DEF InLoop
<1>17. n \in 1..Len(feed)
  BY <1>2, <1>5
<1> QED BY <1>5, <1>6, <1>9, <1>13, <1>15, <1>16, <1>17 DEF Memory

(* read() has tested that its bytes are there before its loop begins. *)
LEMMA FetchKeeps ==
  ASSUME Memory, ~Looping, NEW n \in Nat, ~Refused(n),
         EnterNode, want' = n, UNCHANGED <<memVars, feed>>
  PROVE  /\ Memory'
         /\ m_cur = Null => n = 0 /\ m_position = m_capacity
<1>1. m_baseSize \in Nat /\ m_baseSize > 0
  BY ByteArrayAssumption
<1>2. /\ m_position \in Nat /\ m_size \in Nat /\ m_capacity \in Nat
      /\ nodes \in Seq(Node) /\ nodes # <<>>
      /\ m_position <= m_capacity /\ m_size <= m_capacity
  BY DEF Memory, MemoryTyped, CursorOnPosition
<1>3. m_position + n <= m_size
  BY <1>2 DEF Refused, GetReadSize
<1>4. /\ UNCHANGED <<nodes, m_position, m_capacity, m_size, m_cur, feed>>
      /\ npos' = m_position % m_baseSize /\ ncap' = m_baseSize - npos'
  BY DEF memVars, EnterNode
<1>5. feed = <<>>
  BY DEF Looping
<1>6. npos' \in Nat /\ ncap' \in Nat
  BY <1>1, <1>2, <1>4, Division
<1>7. MemoryTyped'
  BY <1>4, <1>6 DEF Memory, MemoryTyped
<1>8. CursorOnPosition'
  BY <1>4 DEF Memory, CursorOnPosition
<1>9. InLoop'
  BY <1>3, <1>4, <1>5 DEF Memory, InLoop
<1>10. m_cur = Null => m_position = m_capacity
  BY DEF Memory, CursorOnPosition, Null
<1>11. m_position = m_capacity => n = 0
  BY <1>2, <1>3
<1> QED BY <1>7, <1>8, <1>9, <1>10, <1>11 DEF Memory

(* setPosition finds the node of the position it is given. *)
LEMMA SeekKeeps ==
  ASSUME Memory, NEW v \in Nat, SetPosition(v)
  PROVE  Memory'
<1>1. m_baseSize \in Nat /\ m_baseSize > 0
  BY ByteArrayAssumption
<1>2. PICK L \in Nat : L = Len(nodes) /\ L > 0 /\ m_capacity = m_baseSize * L
  BY EmptySeq DEF Memory, MemoryTyped, CursorOnPosition
<1>3. /\ v <= m_capacity
      /\ m_position' = v
      /\ m_size' = IF v > m_size THEN v ELSE m_size
      /\ m_cur' = SeekNode(v)
      /\ UNCHANGED <<nodes, m_capacity, loopVars>>
      /\ ~Looping
  BY DEF SetPosition, Idle
<1>4. UNCHANGED <<npos, ncap, feed, want>>
  BY <1>3 DEF loopVars
<1>5. m_cur' \in Nat \cup {Null} /\ OnNode(v, m_cur', L)
  <2>1. CASE v = 0
    <3>1. m_baseSize * L # 0
      BY <1>1, <1>2
    <3>2. 0 * m_baseSize = 0 /\ (0 + 1) * m_baseSize = m_baseSize
      BY <1>1
    <3>3. SeekNode(v) = 0
      BY <1>1, <2>1, <3>2 DEF SeekNode
    <3> QED BY <1>1, <1>3, <2>1, <3>1, <3>2, <3>3 DEF OnNode
  <2>2. CASE v > 0
    <3>1. PICK u \in Nat : u = v - 1
      BY <2>2
    <3>2. PICK k \in Nat : k = u \div m_baseSize
      BY Division
    <3>3. PICK r \in 0..(m_baseSize - 1) : u = m_baseSize * k + r
      BY <3>2, Division
    <3>4. PICK a \in Nat : a = m_baseSize * k
      BY NodesOrdered
    <3>5. /\ k * m_baseSize = a /\ (k + 1) * m_baseSize = a + m_baseSize
          /\ m_baseSize * (k + 1) = a + m_baseSize
          /\ (k + 1 + 1) * m_baseSize = a + m_baseSize + m_baseSize
      BY <1>1, <3>4
    <3>6. v = a + r + 1 /\ r >= 0 /\ r < m_baseSize
      BY <1>1, <2>2, <3>1, <3>3, <3>4
    <3>7. PICK l \in Nat : l = m_baseSize * L
      BY NodesOrdered
    <3>8. k < L
      <4>1. a < l
        BY <1>2, <1>3, <3>6, <3>7
      <4> QED BY <4>1, <3>4, <3>7, NodesOrdered
    <3>9. a + m_baseSize <= l
      BY <3>4, <3>7, <3>8, NodesOrdered
    <3>10. SeekNode(v) = IF v - a = m_baseSize THEN IF k + 1 < L THEN k + 1 ELSE Null
                         ELSE k
      <4>1. ~(v = 0) /\ (v - 1) \div m_baseSize = k
        BY <2>2, <3>1, <3>2
      <4>2. SeekNode(v) = IF v - k * m_baseSize = m_baseSize THEN After(k) ELSE k
        BY <4>1 DEF SeekNode
      <4> QED BY <1>2, <3>5, <4>2 DEF After
    <3>11. CASE v - a = m_baseSize /\ k + 1 < L
      <4>1. m_baseSize * (k + 1) + m_baseSize <= m_baseSize * L
        BY <3>11, NodesOrdered
      <4>2. v = a + m_baseSize /\ v < l
        BY <1>1, <3>5, <3>7, <3>11, <4>1
      <4>3. m_cur' = k + 1
        BY <1>3, <3>10, <3>11
      <4> QED BY <1>1, <3>5, <3>7, <4>2, <4>3 DEF OnNode
    <3>12. CASE v - a = m_baseSize /\ ~(k + 1 < L)
      <4>1. L = k + 1
        BY <3>8, <3>12
      <4>2. v = m_baseSize * L /\ m_cur' = Null
        BY <1>1, <1>3, <3>5, <3>10, <3>12, <4>1
      <4> QED BY <4>2 DEF OnNode
    <3>13. CASE v - a # m_baseSize
      <4>1. v < a + m_baseSize /\ a <= v
        BY <1>1, <3>6, <3>13
      <4>2. m_cur' = k
        BY <1>3, <3>10, <3>13
      <4> QED BY <1>1, <3>5, <3>7, <3>9, <4>1, <4>2 DEF OnNode
    <3> QED BY <3>11, <3>12, <3>13
  <2> QED BY <2>1, <2>2
<1>6. /\ m_size' \in Nat /\ m_size' <= m_capacity /\ m_position' <= m_size'
      /\ m_size <= m_size'
  BY <1>3 DEF Memory, MemoryTyped, CursorOnPosition
<1>7. MemoryTyped'
  BY <1>3, <1>4, <1>5, <1>6 DEF Memory, MemoryTyped
<1>8. CursorOnPosition'
  <2>1. /\ m_capacity' = m_baseSize * Len(nodes')
        /\ m_position' <= m_capacity' /\ m_size' <= m_capacity'
        /\ ~(m_position' > m_size')
        /\ OnNode(m_position', m_cur', Len(nodes'))
    BY <1>2, <1>3, <1>5, <1>6
  <2> QED BY <2>1 DEF CursorOnPosition, OnNode
<1>9. InLoop'
  <2>1. feed = <<>> /\ ~(want > 0)
    BY <1>3 DEF Looping
  <2>2. feed' = <<>> /\ ~(want' > 0) /\ Len(feed') = 0
    BY <1>4, <2>1
  <2>3. m_position' + Len(feed') <= m_capacity'
    BY <1>3, <2>2
  <2> QED BY <2>2, <2>3 DEF InLoop, Looping
<1> QED BY <1>7, <1>8, <1>9 DEF Memory

(* clear() keeps the first node. *)
LEMMA ClearKeeps ==
  ASSUME Memory, Clear
  PROVE  Memory'
<1>1. m_baseSize \in Nat /\ m_baseSize > 0
  BY ByteArrayAssumption
<1>2. /\ m_position' = 0 /\ m_size' = 0 /\ m_capacity' = m_baseSize
      /\ nodes' = <<nodes[1]>> /\ m_cur' = 0
      /\ UNCHANGED <<npos, ncap, feed, want>>
      /\ ~Looping
  BY DEF Clear, Idle, loopVars
<1>3. nodes[1] \in Node
  BY EmptySeq DEF Memory, MemoryTyped
<1>4. nodes' \in Seq(Node) /\ Len(nodes') = 1 /\ nodes' # <<>>
  BY <1>2, <1>3
<1>5. MemoryTyped'
  BY <1>1, <1>2, <1>4 DEF Memory, MemoryTyped
<1>6. /\ m_baseSize * 1 = m_baseSize
      /\ 0 * m_baseSize = 0 /\ (0 + 1) * m_baseSize = m_baseSize
  BY <1>1
<1>7. CursorOnPosition'
  BY <1>1, <1>2, <1>4, <1>6 DEF CursorOnPosition
<1>8. InLoop'
  <2>1. feed' = <<>> /\ ~(want' > 0) /\ Len(feed') = 0
    BY <1>2 DEF Looping
  <2> QED BY <1>1, <1>2, <2>1 DEF InLoop, Looping
<1> QED BY <1>5, <1>7, <1>8 DEF Memory

----------------------------------------------------------------------------
(* Items. *)

(* The calls of write() for an item are sequences of bytes. *)
LEMMA CallsTyped ==
  ASSUME CodecTyped, m_endian \in Orders, NEW it \in Items
  PROVE  CallsOf(it) \in Seq(Seq(Byte)) /\ CallsOf(it) # <<>>
<1>1. it.kind \in Kinds /\ (it.kind \in Texts => it.val \in Seq(Byte))
  BY ByteArrayAssumption
<1>2. CASE it.kind = "fixed"
  <2>1. CallsOf(it) = <<EncodeFixed(it.val, m_endian)>>
    BY <1>2 DEF CallsOf
  <2>2. EncodeFixed(it.val, m_endian) \in Seq(Byte)
    BY <1>2 DEF CodecTyped
  <2> QED BY <2>1, <2>2
<1>3. CASE it.kind = "varint"
  <2>1. CallsOf(it) = <<EncodeVarint(it.val)>>
    BY <1>3 DEF CallsOf
  <2>2. EncodeVarint(it.val) \in Seq(Byte)
    BY <1>3 DEF CodecTyped
  <2> QED BY <2>1, <2>2
<1>4. CASE it.kind = "zigzag"
  <2>1. CallsOf(it) = <<EncodeVarint(EncodeZigzag(it.val))>>
    BY <1>4 DEF CallsOf
  <2>2. EncodeVarint(EncodeZigzag(it.val)) \in Seq(Byte)
    BY <1>4 DEF CodecTyped
  <2> QED BY <2>1, <2>2
<1>5. CASE it.kind = "string"
  <2>1. CallsOf(it) = <<EncodeFixed(Len(it.val), m_endian), it.val>>
    BY <1>5 DEF CallsOf, Prefix
  <2>2. EncodeFixed(Len(it.val), m_endian) \in Seq(Byte)
    BY <1>5 DEF CodecTyped
  <2> QED BY <1>1, <1>5, <2>1, <2>2 DEF Texts
<1>6. CASE it.kind = "stringVint"
  <2>1. CallsOf(it) = <<EncodeVarint(Len(it.val)), it.val>>
    BY <1>6 DEF CallsOf, Prefix
  <2>2. EncodeVarint(Len(it.val)) \in Seq(Byte)
    BY <1>6 DEF CodecTyped
  <2> QED BY <1>1, <1>6, <2>1, <2>2 DEF Texts
<1>7. CASE it.kind = "raw"
  <2>1. CallsOf(it) = <<it.val>>
    BY <1>7 DEF CallsOf
  <2> QED BY <1>1, <1>7, <2>1 DEF Texts
<1> QED BY <1>1, <1>2, <1>3, <1>4, <1>5, <1>6, <1>7 DEF Kinds, Texts

(* So are the blocks of a file, of which there is at least one. *)
LEMMA BlocksTyped ==
  ASSUME NEW file \in Files, file # <<>>
  PROVE  Blocks(file) \in Seq(Seq(Byte)) /\ Blocks(file) # <<>>
<1>1. m_baseSize \in Nat /\ m_baseSize > 0
  BY ByteArrayAssumption
<1>2. file \in Seq(Byte) /\ Len(file) \in Nat /\ Len(file) > 0
  BY EmptySeq, ByteArrayAssumption
<1>3. PICK k \in Nat : k = (Len(file) + m_baseSize - 1) \div m_baseSize /\ k > 0
  BY <1>2, Enough
<1>4. ASSUME NEW i \in 1..k
      PROVE  SubSeq(file, (i - 1) * m_baseSize + 1,
               IF i * m_baseSize > Len(file) THEN Len(file) ELSE i * m_baseSize) \in Seq(Byte)
  <2>1. PICK lo \in Nat : lo = (i - 1) * m_baseSize
    <3>1. PICK j \in Nat : j = i - 1
      OBVIOUS
    <3>2. j * m_baseSize \in Nat
      BY <1>1
    <3> QED BY <3>1, <3>2
  <2>2. PICK hi \in Nat :
          hi = (IF i * m_baseSize > Len(file) THEN Len(file) ELSE i * m_baseSize)
    <3>1. i \in Nat /\ i * m_baseSize \in Nat
      BY <1>1
    <3> QED BY <1>2, <3>1
  <2>3. hi <= Len(file)
    BY <1>1, <1>2, <2>2
  <2>4. SubSeq(file, lo + 1, hi) \in Seq(Byte)
    <3>1. lo + 1 \in Nat /\ lo + 1 >= 1
      OBVIOUS
    <3> QED BY <1>2, <2>3, <3>1
  <2> QED BY <2>1, <2>2, <2>4
<1>5. Blocks(file) \in [1..k -> Seq(Byte)]
  BY <1>3, <1>4 DEF Blocks
<1>6. Blocks(file) \in Seq(Seq(Byte)) /\ Len(Blocks(file)) = k
  BY <1>5
<1> QED BY <1>3, <1>6

(* What memcpy copies out of a node is that many bytes. *)
LEMMA LoadTyped ==
  ASSUME Memory, Looping, NEW n \in Nat, n <= ncap
  PROVE  LoadAt(m_cur, npos, n) \in Seq(Byte) /\ Len(LoadAt(m_cur, npos, n)) = n
<1>1. /\ m_cur + 1 \in 1..Len(nodes)
      /\ npos \in 0..(m_baseSize - 1) /\ ncap = m_baseSize - npos
  BY LoopOnNode DEF Memory, MemoryTyped
<1>2. m_baseSize \in Nat /\ nodes[m_cur + 1] \in Node
  BY <1>1, ByteArrayAssumption DEF Memory, MemoryTyped
<1>3. \A i \in 1..n : nodes[m_cur + 1][npos + i - 1] \in Byte
  <2> SUFFICES ASSUME NEW i \in 1..n PROVE nodes[m_cur + 1][npos + i - 1] \in Byte
    OBVIOUS
  <2>1. npos + i - 1 \in 0..(m_baseSize - 1)
    BY <1>1, <1>2
  <2> QED BY <1>2, <2>1 DEF Node
<1>4. LoadAt(m_cur, npos, n) \in [1..n -> Byte]
  BY <1>3 DEF LoadAt
<1> QED BY <1>4

(* A call of write() for an item, or for a file. *)
LEMMA PutKeeps ==
  ASSUME ArrayInv, NEW cs \in Seq(Seq(Byte)), cs # <<>>, NEW it, Put(it, cs)
  PROVE  ArrayInv'
<1>1. Head(cs) \in Seq(Byte) /\ Tail(cs) \in Seq(Seq(Byte))
  BY HeadTailProperties
<1>2. Memory'
  BY <1>1, WriteKeeps DEF ArrayInv, Put, Idle
<1>3. /\ ~crashed /\ asks = "nothing"
      /\ UNCHANGED <<m_endian, asks, item, got, crashed>>
      /\ calls' = Tail(cs) /\ count < MaxItems /\ count' = count + 1
      /\ mode' \in {mode, "x"}
  BY DEF Put, Idle, Mixed
<1>4. ItemTyped'
  BY <1>1, <1>3, ByteArrayAssumption DEF ArrayInv, ItemTyped
<1>5. InPart'
  BY <1>3 DEF InPart
<1>6. CrashedEmpty'
  BY <1>3 DEF CrashedEmpty
<1> QED BY <1>2, <1>4, <1>5, <1>6 DEF ArrayInv

(* The next call of write() for the same item. *)
LEMMA NextCallKeeps ==
  ASSUME ArrayInv, NextCall
  PROVE  ArrayInv'
<1>1. calls \in Seq(Seq(Byte)) /\ calls # <<>>
  BY DEF ArrayInv, ItemTyped, NextCall
<1>2. Head(calls) \in Seq(Byte) /\ Tail(calls) \in Seq(Seq(Byte))
  BY <1>1, HeadTailProperties
<1>3. Memory'
  BY <1>2, WriteKeeps DEF ArrayInv, NextCall
<1>4. /\ ~crashed /\ calls' = Tail(calls)
      /\ UNCHANGED <<m_endian, asks, item, got, crashed, count, mode>>
      /\ want' = want
  BY DEF NextCall, historyVars, Write, loopVars
<1>5. ItemTyped'
  BY <1>2, <1>4 DEF ArrayInv, ItemTyped
<1>6. InPart' /\ CrashedEmpty'
  BY <1>4 DEF ArrayInv, InPart, CrashedEmpty
<1> QED BY <1>3, <1>5, <1>6 DEF ArrayInv

(* The iterations keep the whole invariant. *)
LEMMA ChunksKeep ==
  ASSUME ArrayInv, WriteChunk \/ ReadChunk
  PROVE  ArrayInv'
<1>1. CASE WriteChunk
  <2>1. Memory'
    BY <1>1, WriteChunkKeeps DEF ArrayInv
  <2>2. /\ ~crashed
        /\ UNCHANGED <<m_endian, want, calls, asks, item, got, crashed, count, mode>>
    BY <1>1 DEF WriteChunk, itemVars, historyVars
  <2>3. ItemTyped' /\ InPart' /\ CrashedEmpty'
    BY <2>2 DEF ArrayInv, ItemTyped, InPart, CrashedEmpty
  <2> QED BY <2>1, <2>3 DEF ArrayInv
<1>2. CASE ReadChunk
  <2>1. Memory'
    BY <1>2, ReadChunkKeeps DEF ArrayInv
  <2>2. PICK n \in 1..want : /\ n <= ncap /\ want' = want - n
                             /\ got' = got \o LoadAt(m_cur, npos, n)
    BY <1>2, ReadChunkKeeps DEF ArrayInv
  <2>3. /\ ~crashed /\ want \in Nat /\ got \in Seq(Byte)
        /\ UNCHANGED <<m_endian, calls, asks, item, crashed, count, mode>>
    BY <1>2 DEF ReadChunk, historyVars, ArrayInv, Memory, MemoryTyped, ItemTyped
  <2>4. PICK bs \in Seq(Byte) : bs = LoadAt(m_cur, npos, n) /\ Len(bs) = n
    <3>1. Looping /\ n \in Nat
      BY <1>2, <2>3 DEF ReadChunk, Looping
    <3> QED BY <2>2, <3>1, LoadTyped DEF ArrayInv
  <2>5. got' \in Seq(Byte) /\ Len(got') = Len(got) + n
    BY <2>2, <2>3, <2>4
  <2>6. Len(got') + want' = Len(got) + want
    BY <2>2, <2>3, <2>5
  <2>7. ItemTyped'
    BY <2>3, <2>5 DEF ArrayInv, ItemTyped
  <2>8. InPart' /\ CrashedEmpty'
    BY <2>3, <2>6 DEF ArrayInv, InPart, CrashedEmpty
  <2> QED BY <2>1, <2>7, <2>8 DEF ArrayInv
<1> QED BY <1>1, <1>2

(* A call of read(); the null node is met with nothing to read. *)
LEMMA FetchIs ==
  ASSUME ArrayInv, ~Looping, NEW n \in Nat, NEW part, NEW keep \in BOOLEAN,
         Fetch(n, part, keep)
  PROVE  /\ Memory' /\ CrashedEmpty'
         /\ asks' = part /\ want' = n
         /\ got' = (IF keep THEN got ELSE <<>>) /\ got' \in Seq(Byte)
         /\ crashed' \in BOOLEAN
         /\ UNCHANGED <<calls, count>>
<1>1. /\ ~Refused(n) /\ EnterNode /\ want' = n /\ UNCHANGED <<memVars, feed>>
      /\ crashed' = (m_cur = Null)
      /\ asks' = part /\ got' = (IF keep THEN got ELSE <<>>)
      /\ UNCHANGED <<calls, count>>
  BY DEF Fetch
<1>2. Memory' /\ (m_cur = Null => n = 0 /\ m_position = m_capacity)
  BY <1>1, FetchKeeps DEF ArrayInv
<1>3. UNCHANGED <<m_position, m_capacity>>
  BY <1>1 DEF memVars
<1>4. CrashedEmpty'
  BY <1>1, <1>2, <1>3 DEF CrashedEmpty
<1>5. got' \in Seq(Byte)
  BY <1>1 DEF ArrayInv, ItemTyped
<1>6. crashed' \in BOOLEAN
  BY <1>1
<1> QED BY <1>1, <1>2, <1>4, <1>5, <1>6

(* An item, or an attempt to read one, has ended. *)
LEMMA EndKeeps ==
  ASSUME ArrayInv, ~crashed,
         asks' = "nothing" /\ item' = NoItem /\ got' = <<>>,
         UNCHANGED <<memVars, loopVars, calls, crashed, count, m_endian>>,
         mode' \in {mode, "x", "lost"}
  PROVE  ArrayInv'
<1>1. Memory'
  BY MemoryFrame DEF ArrayInv
<1>2. ItemTyped'
  BY DEF ArrayInv, ItemTyped, NoItem
<1>3. InPart' /\ CrashedEmpty'
  BY DEF InPart, CrashedEmpty
<1> QED BY <1>1, <1>2, <1>3 DEF ArrayInv

(* The item is complete. *)
LEMMA FinishKeeps ==
  ASSUME ArrayInv, ~crashed, NEW val, Finish(val), UNCHANGED m_endian
  PROVE  ArrayInv'
<1>1. /\ asks' = "nothing" /\ item' = NoItem /\ got' = <<>>
      /\ UNCHANGED <<memVars, loopVars, calls, crashed, count, mode>>
  BY DEF Finish
<1> QED BY <1>1, EndKeeps

(* The next part of an item is read, or refused. *)
LEMMA ReadMoreKeeps ==
  ASSUME ArrayInv, ~crashed, ~Looping, NEW n \in Nat, NEW keep \in BOOLEAN,
         NEW part \in {"varint", "body"}, ReadMore(n, part, keep), UNCHANGED m_endian,
         part = "varint" => /\ keep /\ Len(got) + n \in 1..Groups
                            /\ item.kind \in {"varint", "zigzag", "stringVint"}
  PROVE  ArrayInv'
<1>1. CASE Fetch(n, part, keep) /\ UNCHANGED <<item, historyVars>>
  <2>1. /\ Memory' /\ CrashedEmpty' /\ asks' = part /\ want' = n
        /\ got' = (IF keep THEN got ELSE <<>>) /\ got' \in Seq(Byte)
        /\ crashed' \in BOOLEAN /\ UNCHANGED <<calls, count>>
    BY <1>1, FetchIs
  <2>2. UNCHANGED <<item, mode>>
    BY <1>1 DEF historyVars
  <2>3. ItemTyped'
    BY <2>1, <2>2 DEF ArrayInv, ItemTyped
  <2>4. InPart'
    BY <2>1, <2>2 DEF InPart
  <2> QED BY <2>1, <2>3, <2>4 DEF ArrayInv
<1>2. CASE ~(Fetch(n, part, keep) /\ UNCHANGED <<item, historyVars>>)
  <2>1. /\ asks' = "nothing" /\ item' = NoItem /\ got' = <<>>
        /\ UNCHANGED <<memVars, loopVars, calls, crashed, count>>
        /\ mode' \in {mode, "x", "lost"}
    BY <1>2 DEF ReadMore, Mixed
  <2> QED BY <2>1, EndKeeps
<1> QED BY <1>1, <1>2

(* The first read of an item. *)
LEMMA FirstReadTyped ==
  ASSUME NEW it \in Asked
  PROVE  /\ it \in [kind : Kinds, n : Nat]
         /\ \E n \in Nat, part \in {"word", "varint", "body"} :
              /\ n = FirstRead(it)[1] /\ part = FirstRead(it)[2]
              /\ part = "word" => n = WordBytes
              /\ part = "varint" => n = 1 /\ it.kind \in {"varint", "zigzag", "stringVint"}
<1>1. it \in [kind : Kinds, n : Nat]
  <2>1. PICK x \in Items :
          it = [kind |-> x.kind, n |-> IF x.kind = "raw" THEN Len(x.val) ELSE 0]
    BY DEF Asked
  <2>2. x.kind \in Kinds /\ (x.kind \in Texts => x.val \in Seq(Byte))
    BY ByteArrayAssumption
  <2>3. (IF x.kind = "raw" THEN Len(x.val) ELSE 0) \in Nat
    BY <2>2 DEF Texts
  <2> QED BY <2>1, <2>2, <2>3
<1>2. \E n \in Nat, part \in {"word", "varint", "body"} :
        /\ n = FirstRead(it)[1] /\ part = FirstRead(it)[2]
        /\ part = "word" => n = WordBytes
        /\ part = "varint" => n = 1 /\ it.kind \in {"varint", "zigzag", "stringVint"}
  <2>1. it.kind \in Kinds /\ it.n \in Nat /\ WordBytes \in Nat
    BY <1>1, CodecAssumption
  <2>2. CASE it.kind \in {"fixed", "string"}
    BY <2>1, <2>2 DEF FirstRead
  <2>3. CASE it.kind = "raw"
    BY <2>1, <2>3 DEF FirstRead
  <2>4. CASE it.kind \in {"varint", "zigzag", "stringVint"}
    BY <2>1, <2>4 DEF FirstRead
  <2> QED BY <2>1, <2>2, <2>3, <2>4 DEF Kinds, Texts
<1> QED BY <1>1, <1>2

(* The first call of read() for an item. *)
LEMMA ReadItemKeeps ==
  ASSUME ArrayInv, NEW it \in Asked, ReadItem(it)
  PROVE  ArrayInv'
<1>1. it \in [kind : Kinds, n : Nat]
  BY FirstReadTyped
<1>2. PICK n \in Nat, part \in {"word", "varint", "body"} :
        /\ n = FirstRead(it)[1] /\ part = FirstRead(it)[2]
        /\ part = "word" => n = WordBytes
        /\ part = "varint" => n = 1 /\ it.kind \in {"varint", "zigzag", "stringVint"}
  BY FirstReadTyped
<1>3. /\ Idle /\ Fetch(n, part, FALSE) /\ item' = it /\ UNCHANGED m_endian
      /\ mode' \in {mode, "x"}
  BY <1>2 DEF ReadItem, Mixed, historyVars
<1>4. /\ Memory' /\ CrashedEmpty' /\ asks' = part /\ want' = n
      /\ got' = <<>> /\ got' \in Seq(Byte)
      /\ crashed' \in BOOLEAN /\ UNCHANGED <<calls, count>>
  <2>1. ~Looping
    BY <1>3 DEF Idle
  <2> QED BY <1>3, <2>1, FetchIs
<1>5. ItemTyped'
  BY <1>1, <1>3, <1>4 DEF ArrayInv, ItemTyped
<1>6. InPart'
  <2>1. Len(got') = 0
    BY <1>4
  <2> QED BY <1>2, <1>3, <1>4, <2>1, CodecAssumption DEF InPart
<1> QED BY <1>4, <1>5, <1>6 DEF ArrayInv

(* A part of an item has been read. *)
LEMMA PartsKeep ==
  ASSUME CodecTyped, ArrayInv, WordDone \/ VarintDone \/ BodyDone
  PROVE  ArrayInv'
<1>1. CASE BodyDone
  BY <1>1, FinishKeeps DEF BodyDone, PartDone
<1>2. CASE WordDone
  <2>1. ~crashed /\ ~Looping /\ asks = "word" /\ UNCHANGED m_endian
    BY <1>2 DEF WordDone, PartDone
  <2>2. PICK v \in Nat : v = DecodeFixed(got, m_endian)
    <3>1. want = 0
      BY <2>1 DEF Looping, ArrayInv, Memory, MemoryTyped
    <3>2. got \in Seq(Byte) /\ Len(got) = WordBytes /\ m_endian \in Orders
      BY <2>1, <3>1 DEF ArrayInv, InPart, ItemTyped
    <3>3. got \in [1..WordBytes -> Byte]
      BY <3>2
    <3> QED BY <3>2, <3>3 DEF CodecTyped
  <2>3. Finish(v) \/ ReadMore(v, "body", FALSE)
    BY <1>2, <2>2 DEF WordDone
  <2> QED BY <2>1, <2>3, FinishKeeps, ReadMoreKeeps
<1>3. CASE VarintDone
  <2>1. ~crashed /\ ~Looping /\ asks = "varint" /\ UNCHANGED m_endian
    BY <1>3 DEF VarintDone, PartDone
  <2>2. /\ got \in Seq(Byte) /\ Len(got) \in 1..Groups /\ Groups \in Nat
        /\ item.kind \in {"varint", "zigzag", "stringVint"}
    <3>1. want = 0
      BY <2>1 DEF Looping, ArrayInv, Memory, MemoryTyped
    <3> QED BY <2>1, <3>1, CodecAssumption DEF ArrayInv, InPart, ItemTyped
  <2>3. PICK v \in Nat : v = DecodeVarint(got)
    <3>1. got \in [1..Len(got) -> Byte]
      BY <2>2
    <3> QED BY <2>2, <3>1 DEF CodecTyped
  <2>4. CASE VarintEnds(got)
    <3>1. \/ Finish(v) \/ Finish(DecodeZigzag(v))
          \/ ReadMore(v, "body", FALSE)
      BY <1>3, <2>2, <2>3, <2>4 DEF VarintDone
    <3>2. CASE Finish(v)
      BY <2>1, <3>2, FinishKeeps
    <3>3. CASE Finish(DecodeZigzag(v))
      BY <2>1, <3>3, FinishKeeps
    <3>4. CASE ReadMore(v, "body", FALSE)
      BY <2>1, <3>4, ReadMoreKeeps
    <3> QED BY <3>1, <3>2, <3>3, <3>4
  <2>5. CASE ~VarintEnds(got)
    <3>1. ReadMore(1, "varint", TRUE)
      BY <1>3, <2>3, <2>5 DEF VarintDone
    <3>2. Len(got) # Groups
      <4>1. got # <<>>
        BY <2>2
      <4> QED BY <2>5, <4>1 DEF VarintEnds
    <3>3. Len(got) + 1 \in 1..Groups
      BY <2>2, <3>2
    <3> QED BY <2>1, <2>2, <3>1, <3>3, ReadMoreKeeps
  <2> QED BY <2>4, <2>5
<1> QED BY <1>1, <1>2, <1>3

(* setPosition, clear and setIsLittleEndian. *)
LEMMA OthersKeep ==
  ASSUME ArrayInv,
         \/ \E v \in 0..(MaxNodes * m_baseSize) : SetPosition(v)
         \/ Clear
         \/ \E val \in BOOLEAN : SetIsLittleEndian(val)
  PROVE  ArrayInv'
<1>1. ASSUME NEW v \in 0..(MaxNodes * m_baseSize), SetPosition(v) PROVE ArrayInv'
  <2>1. v \in Nat
    OBVIOUS
  <2>2. Memory'
    BY <1>1, <2>1, SeekKeeps DEF ArrayInv
  <2>3. /\ ~crashed /\ asks = "nothing"
        /\ UNCHANGED <<m_endian, calls, asks, item, got, crashed, count>>
        /\ mode' \in {"r", "x"}
    BY <1>1 DEF SetPosition, Idle, itemVars, Mixed
  <2>4. ItemTyped' /\ InPart' /\ CrashedEmpty'
    BY <2>3 DEF ArrayInv, ItemTyped, InPart, CrashedEmpty
  <2> QED BY <2>2, <2>4 DEF ArrayInv
<1>2. CASE Clear
  <2>1. Memory'
    BY <1>2, ClearKeeps DEF ArrayInv
  <2>2. /\ ~crashed /\ asks = "nothing" /\ mode' = "w"
        /\ UNCHANGED <<m_endian, calls, asks, item, got, crashed, count>>
    BY <1>2 DEF Clear, Idle, itemVars
  <2>3. ItemTyped' /\ InPart' /\ CrashedEmpty'
    BY <2>2 DEF ArrayInv, ItemTyped, InPart, CrashedEmpty
  <2> QED BY <2>1, <2>3 DEF ArrayInv
<1>3. ASSUME NEW val \in BOOLEAN, SetIsLittleEndian(val) PROVE ArrayInv'
  <2>1. Memory'
    BY <1>3, MemoryFrame DEF ArrayInv, SetIsLittleEndian
  <2>2. /\ ~crashed /\ asks = "nothing" /\ mode' \in {mode, "x"}
        /\ m_endian' \in Orders
        /\ UNCHANGED <<calls, asks, item, got, crashed, count>>
    BY <1>3 DEF SetIsLittleEndian, Idle, itemVars, historyVars, Mixed, Orders
  <2>3. ItemTyped' /\ InPart' /\ CrashedEmpty'
    BY <2>2 DEF ArrayInv, ItemTyped, InPart, CrashedEmpty
  <2> QED BY <2>1, <2>3 DEF ArrayInv
<1> QED BY <1>1, <1>2, <1>3

----------------------------------------------------------------------------

(* The constructor establishes the invariant. *)
LEMMA InitArray == Init => ArrayInv
<1> SUFFICES ASSUME Init PROVE ArrayInv
  OBVIOUS
<1>1. m_baseSize \in Nat /\ m_baseSize > 0
  BY ByteArrayAssumption
<1>2. PICK b \in FreshBytes : nodes = <<NewNode(b)>>
  BY DEF Init
<1>3. NewNode(b) \in Node
  BY ByteArrayAssumption DEF NewNode, Node
<1>4. nodes \in Seq(Node) /\ Len(nodes) = 1 /\ nodes # <<>>
  BY <1>2, <1>3
<1>5. MemoryTyped
  BY <1>1, <1>4 DEF Init, MemoryTyped
<1>6. /\ m_baseSize * 1 = m_baseSize
      /\ 0 * m_baseSize = 0 /\ (0 + 1) * m_baseSize = m_baseSize
  BY <1>1
<1>7. CursorOnPosition
  BY <1>1, <1>4, <1>6 DEF Init, CursorOnPosition
<1>8. InLoop
  BY <1>1 DEF Init, InLoop, Looping
<1>9. ItemTyped
  <2>1. MaxItems \in Nat
    BY ByteArrayAssumption
  <2>2. item \in [kind : Kinds \cup {"none"}, n : Nat]
    BY DEF Init, NoItem
  <2>3. calls \in Seq(Seq(Byte)) /\ got \in Seq(Byte)
    BY DEF Init
  <2>4. crashed \in BOOLEAN
    BY DEF Init
  <2>5. count \in 0..MaxItems
    BY <2>1 DEF Init
  <2>6. /\ asks \in {"nothing", "word", "varint", "body"}
        /\ mode \in {"w", "r", "x", "lost"} /\ m_endian \in Orders
    BY DEF Init, Orders
  <2> QED BY <2>2, <2>3, <2>4, <2>5, <2>6 DEF ItemTyped
<1>10. InPart /\ CrashedEmpty
  BY DEF Init, InPart, CrashedEmpty
<1> QED BY <1>5, <1>7, <1>8, <1>9, <1>10 DEF ArrayInv, Memory

(* Every step keeps it. *)
LEMMA ArrayStep ==
  ASSUME CodecTyped, ArrayInv, [Next]_vars
  PROVE  ArrayInv'
<1>1. ASSUME NEW it \in Items, WriteItem(it) PROVE ArrayInv'
  <2>1. CallsOf(it) \in Seq(Seq(Byte)) /\ CallsOf(it) # <<>>
    BY CallsTyped DEF ArrayInv, ItemTyped
  <2> QED BY <1>1, <2>1, PutKeeps DEF WriteItem
<1>2. ASSUME NEW file \in Files, ReadFromFile(file) PROVE ArrayInv'
  <2>1. Blocks(file) \in Seq(Seq(Byte)) /\ Blocks(file) # <<>>
    BY <1>2, BlocksTyped DEF ReadFromFile
  <2> QED BY <1>2, <2>1, PutKeeps DEF ReadFromFile
<1>3. CASE vars' = vars
  <2>1. Memory'
    BY <1>3, MemoryFrame DEF ArrayInv, vars
  <2>2. UNCHANGED <<m_endian, calls, asks, item, got, crashed, count, mode,
                    want, m_position, m_capacity>>
    BY <1>3 DEF vars, itemVars, historyVars, memVars, loopVars
  <2>3. ItemTyped' /\ InPart' /\ CrashedEmpty'
    BY <2>2 DEF ArrayInv, ItemTyped, InPart, CrashedEmpty
  <2> QED BY <2>1, <2>3 DEF ArrayInv
<1> QED BY <1>1, <1>2, <1>3, ReadItemKeeps, NextCallKeeps, ChunksKeep, PartsKeep,
           OthersKeep DEF Next

(* It implies what the run checks. *)
LEMMA SoundFromInv == ArrayInv => CursorSound
<1> SUFFICES ASSUME ArrayInv PROVE CursorSound
  OBVIOUS
<1>1. TypeOK
  BY DEF ArrayInv, Memory, MemoryTyped, ItemTyped, TypeOK, Node, Orders
<1>2. Looping => m_cur # Null /\ ncap = m_baseSize - npos
  BY LoopOnNode DEF ArrayInv, Null
<1> QED BY <1>1, <1>2 DEF ArrayInv, Memory, CrashedEmpty, NullOnlyWhenEmpty, CursorSound

(* The cursor, the nodes and the sizes of a ByteArray fit together at      *)
(* every iteration of write() and read(), for every size of a node, every  *)
(* item and file, and any number of calls: the code follows no null        *)
(* pointer but in a read of no bytes at the capacity.                      *)
THEOREM CursorSoundCorrect ==
  ASSUME CodecTyped
  PROVE  Spec => []CursorSound
<1>1. ArrayInv /\ [Next]_vars => ArrayInv'
  BY ArrayStep
<1> QED BY <1>1, InitArray, SoundFromInv, PTL DEF Spec

----------------------------------------------------------------------------
(* The nodes as one array. *)

(* Byte i of the nodes, counted from 1. *)
Cell(ns, i) == ns[(i - 1) \div m_baseSize + 1][(i - 1) % m_baseSize]
Joined(ns, m) == [i \in 1..m |-> Cell(ns, i)]

(* Byte i is the one at offset o of node c. *)
LEMMA CellAt ==
  ASSUME NEW ns, NEW c \in Nat, NEW o \in 0..(m_baseSize - 1)
  PROVE  Cell(ns, m_baseSize * c + o + 1) = ns[c + 1][o]
<1>1. m_baseSize \in Nat /\ m_baseSize > 0
  BY ByteArrayAssumption
<1>2. PICK a \in Nat : a = m_baseSize * c
  BY NodesOrdered
<1>3. PICK p \in Nat : p = a + o
  BY <1>1
<1>4. c * m_baseSize = a /\ (c + 1) * m_baseSize = a + m_baseSize
  BY <1>1, <1>2
<1>5. c * m_baseSize <= p /\ p < (c + 1) * m_baseSize
  BY <1>1, <1>3, <1>4
<1>6. p % m_baseSize = o /\ p \div m_baseSize = c
  <2>1. p % m_baseSize = p - c * m_baseSize /\ p \div m_baseSize = c
    BY <1>5, Offset
  <2> QED BY <1>1, <1>3, <1>4, <2>1
<1>7. PICK j \in Nat : j = m_baseSize * c + o + 1 /\ j - 1 = p
  BY <1>1, <1>2, <1>3
<1>8. Cell(ns, j) = ns[p \div m_baseSize + 1][p % m_baseSize]
  BY <1>7, Zenon DEF Cell
<1>9. Cell(ns, j) = ns[c + 1][o]
  BY <1>6, <1>8, Zenon
<1> QED BY <1>7, <1>9, Zenon

(* Every byte is in a node. *)
LEMMA CellIn ==
  ASSUME NEW L \in Nat, NEW i \in 1..(m_baseSize * L)
  PROVE  \E c \in 0..(L - 1), o \in 0..(m_baseSize - 1) : i = m_baseSize * c + o + 1
<1>1. m_baseSize \in Nat /\ m_baseSize > 0
  BY ByteArrayAssumption
<1>2. PICK l \in Nat : l = m_baseSize * L
  BY NodesOrdered
<1>3. PICK p \in Nat : i = p + 1 /\ p < l
  <2>1. i - 1 \in Nat /\ i = (i - 1) + 1 /\ i - 1 < l
    BY <1>2
  <2> QED BY <2>1
<1>4. PICK c \in Nat, o \in 0..(m_baseSize - 1) : p = m_baseSize * c + o
  BY Division
<1>5. PICK a \in Nat : a = m_baseSize * c
  BY NodesOrdered
<1>6. a < l
  BY <1>1, <1>3, <1>4, <1>5
<1>7. c < L
  BY <1>2, <1>5, <1>6, NodesOrdered
<1>8. c \in 0..(L - 1)
  BY <1>7
<1>9. i = m_baseSize * c + o + 1
  BY <1>1, <1>3, <1>4, <1>5
<1> QED BY <1>8, <1>9

(* Joining nodes gives bytes. *)
LEMMA JoinedTyped ==
  ASSUME NEW ns \in Seq(Node), NEW m \in Nat, m <= m_baseSize * Len(ns)
  PROVE  /\ Joined(ns, m) \in Seq(Byte) /\ Len(Joined(ns, m)) = m
         /\ \A i \in 1..m : Joined(ns, m)[i] = Cell(ns, i)
<1>1. PICK L \in Nat : L = Len(ns)
  OBVIOUS
<1>2. PICK l \in Nat : l = m_baseSize * L /\ m <= l
  BY <1>1, NodesOrdered
<1>3. \A i \in 1..m : Cell(ns, i) \in Byte
  <2> SUFFICES ASSUME NEW i \in 1..m PROVE Cell(ns, i) \in Byte
    OBVIOUS
  <2>1. i \in 1..(m_baseSize * L)
    BY <1>2
  <2>2. PICK c \in 0..(L - 1), o \in 0..(m_baseSize - 1) : i = m_baseSize * c + o + 1
    BY <2>1, CellIn
  <2>3. c \in Nat /\ c + 1 \in 1..Len(ns)
    BY <1>1
  <2>4. ns[c + 1] \in Node
    BY <2>3
  <2>5. ns[c + 1][o] \in Byte
    BY <2>4 DEF Node
  <2> QED BY <2>2, <2>3, <2>5, CellAt
<1>4. Joined(ns, m) \in [1..m -> Byte]
  BY <1>3 DEF Joined
<1>5. \A i \in 1..m : Joined(ns, m)[i] = Cell(ns, i)
  BY DEF Joined
<1> QED BY <1>4, <1>5

(* addCapacity does not touch what is there. *)
LEMMA CellAppended ==
  ASSUME NEW ns \in Seq(Node), NEW t \in Seq(Node), NEW i \in 1..(m_baseSize * Len(ns))
  PROVE  Cell(ns \o t, i) = Cell(ns, i)
<1>1. PICK L \in Nat : L = Len(ns)
  OBVIOUS
<1>2. PICK c \in 0..(L - 1), o \in 0..(m_baseSize - 1) : i = m_baseSize * c + o + 1
  BY <1>1, CellIn
<1>3. c \in Nat /\ c + 1 \in 1..Len(ns)
  BY <1>1
<1>4. (ns \o t)[c + 1] = ns[c + 1]
  BY <1>3
<1>5. PICK u : u = ns \o t
  OBVIOUS
<1>6. Cell(u, i) = u[c + 1][o] /\ Cell(ns, i) = ns[c + 1][o]
  BY <1>2, <1>3, CellAt
<1> QED BY <1>4, <1>5, <1>6

(* memcpy into node k from offset o on overwrites the bytes from there on  *)
(* and no others.                                                          *)
LEMMA CellStored ==
  ASSUME Memory, NEW k \in Nat, k < Len(nodes), NEW o \in 0..(m_baseSize - 1),
         NEW bs \in Seq(Byte), o + Len(bs) <= m_baseSize,
         NEW i \in 1..(m_baseSize * Len(nodes)),
         NEW p \in Nat, p = m_baseSize * k + o
  PROVE  Cell(StoreAt(k, o, bs), i) =
           IF i \in (p + 1)..(p + Len(bs)) THEN bs[i - p] ELSE Cell(nodes, i)
<1>1. m_baseSize \in Nat /\ m_baseSize > 0
  BY ByteArrayAssumption
<1>2. PICK L \in Nat : L = Len(nodes)
  BY DEF Memory, MemoryTyped
<1>3. PICK c \in 0..(L - 1), q \in 0..(m_baseSize - 1) : i = m_baseSize * c + q + 1
  BY <1>2, CellIn
<1>4. c \in Nat /\ c + 1 \in 1..Len(nodes) /\ k + 1 \in 1..Len(nodes)
  BY <1>2
<1>5. PICK n \in Nat : n = Len(bs)
  OBVIOUS
<1>6. PICK x : x = [j \in 0..(m_baseSize - 1) |->
                      IF j \in o..(o + n - 1) THEN bs[j - o + 1] ELSE nodes[k + 1][j]]
  OBVIOUS
<1>7. PICK u : u = [nodes EXCEPT ![k + 1] = x]
  OBVIOUS
<1>8. StoreAt(k, o, bs) = u
  BY <1>5, <1>6, <1>7 DEF StoreAt
<1>9. Cell(u, i) = u[c + 1][q] /\ Cell(nodes, i) = nodes[c + 1][q]
  BY <1>3, <1>4, CellAt
<1>10. PICK a \in Nat, b \in Nat : a = m_baseSize * k /\ b = m_baseSize * c
  BY <1>4, NodesOrdered
<1>11. p = a + o /\ i = b + q + 1
  BY <1>3, <1>10
<1>12. CASE c = k
  <2>1. a = b
    BY <1>10, <1>12
  <2>2. u[c + 1] = x
    BY <1>4, <1>7, <1>12 DEF Memory, MemoryTyped
  <2>3. x[q] = IF q \in o..(o + n - 1) THEN bs[q - o + 1] ELSE nodes[k + 1][q]
    BY <1>6
  <2>4. (q \in o..(o + n - 1)) <=> (i \in (p + 1)..(p + n))
    BY <1>1, <1>11, <2>1
  <2>5. q - o + 1 = i - p
    BY <1>1, <1>11, <2>1
  <2> QED BY <1>5, <1>8, <1>9, <1>12, <2>2, <2>3, <2>4, <2>5
<1>13. CASE c # k
  <2>1. u[c + 1] = nodes[c + 1]
    BY <1>4, <1>7, <1>13 DEF Memory, MemoryTyped
  <2>2. i \notin (p + 1)..(p + n)
    <3>1. CASE c < k
      <4>1. b + m_baseSize <= a
        BY <1>4, <1>10, <3>1, NodesOrdered
      <4> QED BY <1>1, <1>5, <1>11, <4>1
    <3>2. CASE k < c
      <4>1. a + m_baseSize <= b
        BY <1>4, <1>10, <3>2, NodesOrdered
      <4> QED BY <1>1, <1>5, <1>11, <4>1
    <3> QED BY <1>4, <1>13, <3>1, <3>2
  <2> QED BY <1>5, <1>8, <1>9, <2>1, <2>2
<1> QED BY <1>12, <1>13

----------------------------------------------------------------------------
(* ByteArray implements ByteStore. *)

Top == IF m_position > m_size THEN m_position ELSE m_size

(* The flat array is the nodes joined, up to the position or the size. *)
LEMMA FlatIs ==
  ASSUME Memory
  PROVE  /\ Top \in Nat /\ Top <= m_baseSize * Len(nodes)
         /\ m_position <= Top /\ m_size <= Top
         /\ Flat = Joined(nodes, Top) /\ Flat \in Seq(Byte) /\ Len(Flat) = Top
         /\ \A i \in 1..Top : Flat[i] = Cell(nodes, i)
<1>1. /\ Top \in Nat /\ Top <= m_baseSize * Len(nodes) /\ nodes \in Seq(Node)
      /\ m_position <= Top /\ m_size <= Top
  BY DEF Memory, MemoryTyped, CursorOnPosition, Top
<1>2. Flat = Joined(nodes, Top)
  BY DEF Flat, Joined, Cell, Top
<1> QED BY <1>1, <1>2, JoinedTyped

(* The same after a step. *)
LEMMA FlatNextIs ==
  ASSUME Memory'
  PROVE  /\ Top' \in Nat /\ Top' <= m_baseSize * Len(nodes')
         /\ m_position' <= Top' /\ m_size' <= Top'
         /\ Flat' = Joined(nodes', Top') /\ Flat' \in Seq(Byte) /\ Len(Flat') = Top'
         /\ \A i \in 1..Top' : Flat'[i] = Cell(nodes', i)
<1>1. /\ Top' \in Nat /\ Top' <= m_baseSize * Len(nodes') /\ nodes' \in Seq(Node)
      /\ m_position' <= Top' /\ m_size' <= Top'
  BY DEF Memory, MemoryTyped, CursorOnPosition, Top
<1>2. Flat' = Joined(nodes', Top')
  BY DEF Flat, Joined, Cell, Top
<1> QED BY <1>1, <1>2, JoinedTyped

(* The flat array is a function of the memory. *)
LEMMA FlatFrame ==
  ASSUME UNCHANGED memVars
  PROVE  Flat' = Flat
BY DEF Flat, memVars

(* A call of write() begins. *)
LEMMA WriteRefines ==
  ASSUME Memory, ~Looping, NEW bs \in Seq(Byte), Write(bs), got' = got
  PROVE  [Store!Next]_(Store!storeVars)
<1>1. CASE bs = <<>>
  <2>1. UNCHANGED <<memVars, loopVars>>
    BY <1>1 DEF Write
  <2>2. Flat' = Flat
    BY <2>1, FlatFrame
  <2> QED BY <2>1, <2>2 DEF Store!storeVars, memVars, loopVars
<1>2. CASE bs # <<>>
  <2>1. Memory' /\ \E t \in Seq(Node) : nodes' = nodes \o t
    BY <1>2, WriteKeeps
  <2>2. PICK t \in Seq(Node) : nodes' = nodes \o t
    BY <2>1
  <2>3. feed' = bs /\ UNCHANGED <<m_position, m_size, want>>
    BY <1>2 DEF Write
  <2>4. Top' = Top
    BY <2>3 DEF Top
  <2>5. Flat' = Flat
    <3>1. ASSUME NEW i \in 1..Top PROVE Flat'[i] = Flat[i]
      <4>1. i \in 1..(m_baseSize * Len(nodes))
        <5>1. PICK l \in Nat : l = m_baseSize * Len(nodes) /\ Top <= l
          BY FlatIs, NodesOrdered DEF Memory, MemoryTyped
        <5> QED BY <5>1, FlatIs
      <4>2. Cell(nodes', i) = Cell(nodes, i)
        BY <2>2, <4>1, CellAppended DEF Memory, MemoryTyped
      <4> QED BY <2>1, <2>4, <4>2, FlatIs, FlatNextIs
    <3>2. /\ Flat \in Seq(Byte) /\ Flat' \in Seq(Byte)
          /\ Len(Flat) = Top /\ Len(Flat') = Top
      BY <2>1, <2>4, FlatIs, FlatNextIs
    <3> QED BY <3>1, <3>2, SeqEqual
  <2>6. feed = <<>> /\ want = 0
    BY DEF Looping, Memory, MemoryTyped
  <2>7. Store!BeginWrite
    BY <1>2, <2>3, <2>5, <2>6 DEF Store!BeginWrite, Store!Quiet
  <2> QED BY <2>7 DEF Store!Next
<1> QED BY <1>1, <1>2

(* An iteration of write() stores the next bytes at the cursor. *)
LEMMA WriteChunkRefines ==
  ASSUME Memory, WriteChunk
  PROVE  Store!Next
<1>1. m_baseSize \in Nat /\ m_baseSize > 0
  BY ByteArrayAssumption
<1>2. Looping /\ feed \in Seq(Byte) /\ m_position \in Nat /\ m_size \in Nat
  BY DEF WriteChunk, Looping, Memory, MemoryTyped
<1>3. PICK n \in 1..Len(feed) :
        /\ n <= ncap
        /\ m_position' = m_position + n
        /\ feed' = SubSeq(feed, n + 1, Len(feed))
        /\ nodes' = StoreAt(m_cur, npos, SubSeq(feed, 1, n))
        /\ m_size' = IF n = Len(feed) /\ m_position + n > m_size
                     THEN m_position + n ELSE m_size
  BY WriteChunkKeeps
<1>4. Memory'
  BY WriteChunkKeeps
<1>5. PICK bs \in Seq(Byte) : bs = SubSeq(feed, 1, n) /\ Len(bs) = n
  <2>1. n \in Nat /\ \A i \in 1..n : feed[i] \in Byte
    BY <1>2
  <2>2. SubSeq(feed, 1, n) \in Seq(Byte) /\ Len(SubSeq(feed, 1, n)) = n
    BY <1>2, <2>1
  <2> QED BY <2>2
<1>6. /\ m_cur \in Nat /\ m_cur < Len(nodes)
      /\ npos \in 0..(m_baseSize - 1) /\ ncap = m_baseSize - npos
      /\ m_position = m_baseSize * m_cur + npos
  <2>1. /\ m_cur \in Nat /\ m_cur < Len(nodes)
        /\ m_cur * m_baseSize <= m_position /\ m_position < (m_cur + 1) * m_baseSize
        /\ npos = m_position % m_baseSize /\ ncap = m_baseSize - npos
        /\ npos \in 0..(m_baseSize - 1)
    BY <1>2, LoopOnNode
  <2>2. npos = m_position - m_cur * m_baseSize
    BY <1>2, <2>1, Offset
  <2>3. m_cur * m_baseSize = m_baseSize * m_cur /\ m_baseSize * m_cur \in Nat
    BY <1>1, <2>1
  <2> QED BY <1>1, <1>2, <2>1, <2>2, <2>3
<1>7. npos + Len(bs) <= m_baseSize /\ n \in Nat
  BY <1>1, <1>2, <1>3, <1>5, <1>6
<1>8. \A i \in 1..(m_baseSize * Len(nodes)) :
        Cell(nodes', i) = IF i \in (m_position + 1)..(m_position + n)
                          THEN bs[i - m_position] ELSE Cell(nodes, i)
  <2> SUFFICES ASSUME NEW i \in 1..(m_baseSize * Len(nodes))
               PROVE  Cell(nodes', i) = IF i \in (m_position + 1)..(m_position + n)
                                        THEN bs[i - m_position] ELSE Cell(nodes, i)
    OBVIOUS
  <2>1. PICK p \in Nat : p = m_position
    BY <1>2
  <2>2. p = m_baseSize * m_cur + npos
    BY <1>6, <2>1
  <2>3. Cell(StoreAt(m_cur, npos, bs), i) =
          IF i \in (p + 1)..(p + Len(bs)) THEN bs[i - p] ELSE Cell(nodes, i)
    BY <1>6, <1>7, <2>2, CellStored
  <2>4. nodes' = StoreAt(m_cur, npos, bs)
    BY <1>3, <1>5
  <2> QED BY <1>5, <2>1, <2>3, <2>4
<1>9. /\ Top \in Nat /\ Top <= m_baseSize * Len(nodes) /\ m_position <= Top
      /\ Flat \in Seq(Byte) /\ Len(Flat) = Top
      /\ \A i \in 1..Top : Flat[i] = Cell(nodes, i)
  BY FlatIs
<1>10. /\ Top' \in Nat /\ Flat' \in Seq(Byte) /\ Len(Flat') = Top'
       /\ \A i \in 1..Top' : Flat'[i] = Cell(nodes', i)
  BY <1>4, FlatNextIs
<1>11. Top' = IF m_position + n > Top THEN m_position + n ELSE Top
  <2>1. Top' = IF m_position' > m_size' THEN m_position' ELSE m_size'
    BY DEF Top
  <2>2. Top = IF m_position > m_size THEN m_position ELSE m_size
    BY DEF Top
  <2>3. \/ m_size' = m_size
        \/ m_size' = m_position + n /\ m_position + n > m_size
    BY <1>3
  <2> QED BY <1>2, <1>3, <1>7, <2>1, <2>2, <2>3
<1>12. PICK A \in Seq(Byte) : /\ A = SubSeq(Flat, 1, m_position) /\ Len(A) = m_position
                              /\ \A i \in 1..m_position : A[i] = Flat[i]
  <2>1. \A i \in 1..m_position : Flat[i] \in Byte
    BY <1>2, <1>9
  <2>2. /\ SubSeq(Flat, 1, m_position) \in Seq(Byte)
        /\ Len(SubSeq(Flat, 1, m_position)) = m_position
        /\ \A i \in 1..m_position : SubSeq(Flat, 1, m_position)[i] = Flat[i]
    BY <1>2, <1>9, <2>1
  <2> QED BY <2>2
<1>13. PICK C \in Seq(Byte) :
         /\ C = SubSeq(Flat, m_position + n + 1, Top)
         /\ Len(C) = IF m_position + n > Top THEN 0 ELSE Top - (m_position + n)
         /\ \A i \in 1..Len(C) : C[i] = Flat[m_position + n + i]
  <2>1. PICK lo \in Nat : lo = m_position + n + 1
    BY <1>2, <1>7
  <2>2. \A i \in lo..Top : Flat[i] \in Byte
    BY <1>2, <1>7, <1>9, <2>1
  <2>3. /\ SubSeq(Flat, lo, Top) \in Seq(Byte)
        /\ Len(SubSeq(Flat, lo, Top)) = IF lo <= Top THEN Top - lo + 1 ELSE 0
        /\ \A i \in 1..(Top - lo + 1) : SubSeq(Flat, lo, Top)[i] = Flat[lo + i - 1]
    BY <1>9, <2>1, <2>2, SubSeqProperties
  <2>4. PICK C \in Seq(Byte) : C = SubSeq(Flat, lo, Top)
    BY <2>3
  <2>5. Len(C) = IF m_position + n > Top THEN 0 ELSE Top - (m_position + n)
    BY <1>2, <1>7, <1>9, <2>1, <2>3, <2>4
  <2>6. ASSUME NEW i \in 1..Len(C) PROVE C[i] = Flat[m_position + n + i]
    <3>1. i \in 1..(Top - lo + 1) /\ lo + i - 1 = m_position + n + i
      BY <1>2, <1>7, <1>9, <2>1, <2>5
    <3> QED BY <2>3, <2>4, <3>1
  <2> QED BY <2>1, <2>4, <2>5, <2>6
<1>14. PICK D \in Seq(Byte) :
         /\ D = A \o bs \o C
         /\ Len(D) = m_position + n + Len(C)
         /\ \A i \in 1..Len(D) :
              D[i] = IF i <= m_position THEN A[i]
                     ELSE IF i <= m_position + n THEN bs[i - m_position]
                     ELSE C[i - (m_position + n)]
  <2>1. PICK B \in Seq(Byte) :
          /\ B = A \o bs /\ Len(B) = m_position + n
          /\ \A i \in 1..(m_position + n) :
               B[i] = IF i <= m_position THEN A[i] ELSE bs[i - m_position]
    <3>1. /\ A \o bs \in Seq(Byte) /\ Len(A \o bs) = Len(A) + Len(bs)
          /\ \A i \in 1..(Len(A) + Len(bs)) :
               (A \o bs)[i] = IF i <= Len(A) THEN A[i] ELSE bs[i - Len(A)]
      BY ConcatProperties
    <3>2. PICK B \in Seq(Byte) : B = A \o bs
      BY <3>1
    <3>3. /\ Len(B) = Len(A) + Len(bs)
          /\ \A i \in 1..(Len(A) + Len(bs)) :
               B[i] = IF i <= Len(A) THEN A[i] ELSE bs[i - Len(A)]
      BY <3>1, <3>2, Zenon
    <3>4. Len(A) = m_position /\ Len(bs) = n
      BY <1>5, <1>12
    <3>5. /\ Len(B) = m_position + n
          /\ \A i \in 1..(m_position + n) :
               B[i] = IF i <= m_position THEN A[i] ELSE bs[i - m_position]
      BY <3>3, <3>4, Zenon
    <3> QED BY <3>2, <3>5, Zenon
  <2>2. PICK D \in Seq(Byte) :
          /\ D = B \o C /\ Len(D) = m_position + n + Len(C)
          /\ \A i \in 1..(m_position + n + Len(C)) :
               D[i] = IF i <= m_position + n THEN B[i] ELSE C[i - (m_position + n)]
    <3>1. /\ B \o C \in Seq(Byte) /\ Len(B \o C) = Len(B) + Len(C)
          /\ \A i \in 1..(Len(B) + Len(C)) :
               (B \o C)[i] = IF i <= Len(B) THEN B[i] ELSE C[i - Len(B)]
      BY ConcatProperties
    <3>2. PICK D \in Seq(Byte) : D = B \o C
      BY <3>1
    <3>3. /\ Len(D) = Len(B) + Len(C)
          /\ \A i \in 1..(Len(B) + Len(C)) :
               D[i] = IF i <= Len(B) THEN B[i] ELSE C[i - Len(B)]
      BY <3>1, <3>2, Zenon
    <3> QED BY <2>1, <3>2, <3>3, Zenon
  <2>3. ASSUME NEW i \in 1..Len(D)
        PROVE  D[i] = IF i <= m_position THEN A[i]
                      ELSE IF i <= m_position + n THEN bs[i - m_position]
                      ELSE C[i - (m_position + n)]
    BY <1>2, <1>7, <2>1, <2>2
  <2> QED BY <2>1, <2>2, <2>3
<1>15. Len(D) = Top'
  <2>1. Len(C) = IF m_position + n > Top THEN 0 ELSE Top - (m_position + n)
    BY <1>13
  <2>2. Len(D) = m_position + n + Len(C)
    BY <1>14
  <2>3. m_position \in Nat /\ n \in Nat /\ Top \in Nat
    BY <1>2, <1>7, <1>9
  <2> QED BY <1>11, <2>1, <2>2, <2>3
<1>16. ASSUME NEW i \in 1..Top' PROVE Flat'[i] = D[i]
  <2>1. Flat'[i] = Cell(nodes', i)
    BY <1>10
  <2>2. i \in 1..(m_baseSize * Len(nodes))
    <3>1. PICK l \in Nat : l = m_baseSize * Len(nodes) /\ Top <= l /\ m_capacity = l
      BY <1>9, NodesOrdered DEF Memory, MemoryTyped, CursorOnPosition
    <3>2. m_position + n <= l
      BY <1>2, <1>3, <1>4, <3>1 DEF Memory, MemoryTyped, CursorOnPosition, WriteChunk
    <3> QED BY <1>9, <1>11, <3>1, <3>2
  <2>3. i \in Nat /\ i >= 1
    BY <1>10
  <2>4. CASE i <= m_position
    <3>1. Cell(nodes', i) = Cell(nodes, i)
      BY <1>2, <1>7, <1>8, <2>2, <2>3, <2>4
    <3>2. i \in 1..m_position /\ i \in 1..Top
      BY <1>2, <1>9, <2>3, <2>4
    <3> QED BY <1>9, <1>12, <1>14, <1>15, <2>1, <2>4, <3>1, <3>2
  <2>5. CASE m_position < i /\ i <= m_position + n
    <3>1. Cell(nodes', i) = bs[i - m_position]
      BY <1>2, <1>7, <1>8, <2>2, <2>3, <2>5
    <3>2. ~(i <= m_position)
      BY <1>2, <2>3, <2>5
    <3> QED BY <1>14, <1>15, <2>1, <2>5, <3>1, <3>2
  <2>6. CASE m_position + n < i
    <3>1. Cell(nodes', i) = Cell(nodes, i)
      BY <1>2, <1>7, <1>8, <2>2, <2>3, <2>6
    <3>2. /\ ~(i <= m_position) /\ ~(i <= m_position + n) /\ i \in 1..Top
          /\ i - (m_position + n) \in 1..Len(C)
      BY <1>2, <1>7, <1>9, <1>11, <1>13, <2>3, <2>6
    <3>3. D[i] = C[i - (m_position + n)]
      BY <1>14, <1>15, <3>2
    <3>4. PICK j \in 1..Len(C) : j = i - (m_position + n) /\ m_position + n + j = i
      BY <1>2, <1>7, <2>3, <3>2
    <3>5. C[j] = Flat[i]
      BY <1>13, <3>4
    <3> QED BY <1>9, <2>1, <3>1, <3>2, <3>3, <3>4, <3>5
  <2> QED BY <1>2, <1>7, <2>3, <2>4, <2>5, <2>6
<1>17. Flat' = D
  <2>1. D \in Seq(Byte) /\ Flat' \in Seq(Byte) /\ Len(Flat') = Len(D)
    BY <1>10, <1>15, <1>14
  <2>2. \A i \in 1..Len(Flat') : Flat'[i] = D[i]
    BY <1>10, <1>16
  <2> QED BY <2>1, <2>2, SeqEqual
<1>18. Store!Overwrite(SubSeq(feed, 1, n)) = D
  BY <1>5, <1>9, <1>12, <1>13, <1>14 DEF Store!Overwrite
<1>19. UNCHANGED <<want, got>>
  BY DEF WriteChunk, itemVars
<1>20. Store!Store
  BY <1>3, <1>17, <1>18, <1>19 DEF Store!Store
<1> QED BY <1>20 DEF Store!Next

(* An iteration of read() fetches the next bytes from the cursor. *)
LEMMA ReadChunkRefines ==
  ASSUME Memory, got \in Seq(Byte), ReadChunk
  PROVE  Store!Next
<1>1. m_baseSize \in Nat /\ m_baseSize > 0
  BY ByteArrayAssumption
<1>2. /\ Looping /\ want \in Nat /\ want > 0
      /\ m_position \in Nat /\ m_size \in Nat /\ m_position + want <= m_size
  BY DEF ReadChunk, Looping, Memory, MemoryTyped, InLoop
<1>3. PICK n \in 1..want :
        /\ n <= ncap
        /\ m_position' = m_position + n
        /\ want' = want - n
        /\ got' = got \o LoadAt(m_cur, npos, n)
  BY ReadChunkKeeps
<1>4. n \in Nat /\ n > 0 /\ m_position + n <= m_size
  BY <1>2
<1>5. /\ m_cur \in Nat
      /\ npos \in 0..(m_baseSize - 1) /\ ncap = m_baseSize - npos
      /\ m_position = m_baseSize * m_cur + npos
  <2>1. /\ m_cur \in Nat
        /\ m_cur * m_baseSize <= m_position /\ m_position < (m_cur + 1) * m_baseSize
        /\ npos = m_position % m_baseSize /\ ncap = m_baseSize - npos
        /\ npos \in 0..(m_baseSize - 1)
    BY <1>2, LoopOnNode
  <2>2. npos = m_position - m_cur * m_baseSize
    BY <1>2, <2>1, Offset
  <2>3. m_cur * m_baseSize = m_baseSize * m_cur /\ m_baseSize * m_cur \in Nat
    BY <1>1, <2>1
  <2> QED BY <1>1, <1>2, <2>1, <2>2, <2>3
<1>6. Flat' = Flat
  <2>1. UNCHANGED <<nodes, m_size>>
    BY DEF ReadChunk
  <2>2. ~(m_position > m_size) /\ ~(m_position' > m_size')
    BY <1>2, <1>3, <1>4, <2>1
  <2> QED BY <2>1, <2>2 DEF Flat
<1>7. /\ Top = m_size /\ Flat \in Seq(Byte) /\ Len(Flat) = m_size
      /\ \A i \in 1..m_size : Flat[i] = Cell(nodes, i)
  <2>1. Top = m_size
    BY <1>2 DEF Top
  <2> QED BY <2>1, FlatIs
<1>8. PICK x \in Seq(Byte) : /\ x = LoadAt(m_cur, npos, n) /\ Len(x) = n
                             /\ \A j \in 1..n : x[j] = nodes[m_cur + 1][npos + j - 1]
  <2>1. LoadAt(m_cur, npos, n) \in Seq(Byte) /\ Len(LoadAt(m_cur, npos, n)) = n
    BY <1>2, <1>3, <1>4, LoadTyped
  <2>2. \A j \in 1..n : LoadAt(m_cur, npos, n)[j] = nodes[m_cur + 1][npos + j - 1]
    BY DEF LoadAt
  <2> QED BY <2>1, <2>2
<1>9. PICK y \in Seq(Byte) : /\ y = SubSeq(Flat, m_position + 1, m_position + n)
                             /\ Len(y) = n
                             /\ \A j \in 1..n : y[j] = Flat[m_position + j]
  <2>1. PICK lo \in Nat, hi \in Nat : lo = m_position + 1 /\ hi = m_position + n
    BY <1>2, <1>4
  <2>2. \A i \in lo..hi : Flat[i] \in Byte
    BY <1>2, <1>4, <1>7, <2>1
  <2>3. /\ SubSeq(Flat, lo, hi) \in Seq(Byte)
        /\ Len(SubSeq(Flat, lo, hi)) = IF lo <= hi THEN hi - lo + 1 ELSE 0
        /\ \A j \in 1..(hi - lo + 1) : SubSeq(Flat, lo, hi)[j] = Flat[lo + j - 1]
    BY <2>1, <2>2, SubSeqProperties
  <2>4. PICK y \in Seq(Byte) : y = SubSeq(Flat, lo, hi)
    BY <2>3
  <2>5. Len(y) = n
    BY <1>2, <1>4, <2>1, <2>3, <2>4
  <2>6. ASSUME NEW j \in 1..n PROVE y[j] = Flat[m_position + j]
    <3>1. j \in 1..(hi - lo + 1) /\ lo + j - 1 = m_position + j
      BY <1>2, <1>4, <2>1
    <3> QED BY <2>3, <2>4, <3>1
  <2> QED BY <2>1, <2>4, <2>5, <2>6
<1>10. x = y
  <2>1. ASSUME NEW j \in 1..n PROVE x[j] = y[j]
    <3>1. PICK o \in 0..(m_baseSize - 1) : o = npos + j - 1
      BY <1>1, <1>3, <1>4, <1>5
    <3>2. Cell(nodes, m_baseSize * m_cur + o + 1) = nodes[m_cur + 1][o]
      BY <1>5, CellAt
    <3>3. m_baseSize * m_cur + o + 1 = m_position + j
      <4>1. PICK a \in Nat : a = m_baseSize * m_cur
        BY <1>5, NodesOrdered
      <4> QED BY <1>1, <1>5, <3>1, <4>1
    <3>4. m_position + j \in 1..m_size
      BY <1>2, <1>4
    <3> QED BY <1>7, <1>8, <1>9, <3>1, <3>2, <3>3, <3>4
  <2> QED BY <1>8, <1>9, <2>1, SeqEqual
<1>11. got' = got \o Store!Ahead(n)
  BY <1>3, <1>8, <1>9, <1>10 DEF Store!Ahead
<1>12. feed' = feed
  BY DEF ReadChunk
<1>13. Store!Fetch
  BY <1>3, <1>6, <1>11, <1>12 DEF Store!Fetch
<1> QED BY <1>13 DEF Store!Next

(* A call of read() begins; a read of no bytes is none. *)
LEMMA FetchRefines ==
  ASSUME Memory, ~Looping, NEW n \in Nat, NEW part, NEW keep \in BOOLEAN,
         Fetch(n, part, keep)
  PROVE  [Store!Next]_(Store!storeVars)
<1>1. /\ ~Refused(n) /\ want' = n /\ got' \in {<<>>, got}
      /\ UNCHANGED <<memVars, feed>>
  BY DEF Fetch
<1>2. feed = <<>> /\ want = 0
  BY DEF Looping, Memory, MemoryTyped
<1>3. Flat' = Flat /\ m_position' = m_position
  BY <1>1, FlatFrame DEF memVars
<1>4. CASE n = 0
  <2>1. CASE got' = got
    BY <1>1, <1>2, <1>3, <1>4, <2>1 DEF Store!storeVars
  <2>2. CASE got' = <<>>
    <3>1. Store!Take
      BY <1>1, <1>2, <1>3, <1>4, <2>2 DEF Store!Take, Store!Quiet
    <3> QED BY <3>1 DEF Store!Next
  <2> QED BY <1>1, <2>1, <2>2
<1>5. CASE n > 0
  <2>1. n \in 1..(Len(Flat) - m_position)
    <3>1. m_position \in Nat /\ m_size \in Nat /\ Len(Flat) \in Nat /\ m_size <= Len(Flat)
      BY FlatIs DEF Memory, MemoryTyped
    <3> QED BY <1>1, <1>5, <3>1 DEF Refused, GetReadSize
  <2>2. Store!BeginRead
    BY <1>1, <1>2, <1>3, <2>1 DEF Store!BeginRead, Store!Quiet
  <2> QED BY <2>2 DEF Store!Next
<1> QED BY <1>4, <1>5

(* The caller takes what was read, or gives up. *)
LEMMA EndRefines ==
  ASSUME Memory, ~Looping, got' = <<>>, UNCHANGED <<memVars, loopVars>>
  PROVE  [Store!Next]_(Store!storeVars)
<1>1. feed = <<>> /\ want = 0
  BY DEF Looping, Memory, MemoryTyped
<1>2. Flat' = Flat /\ UNCHANGED <<m_position, feed, want>>
  BY FlatFrame DEF memVars, loopVars
<1>3. Store!Take
  BY <1>1, <1>2 DEF Store!Take, Store!Quiet
<1> QED BY <1>3 DEF Store!Next

(* The next part of an item. *)
LEMMA ReadMoreRefines ==
  ASSUME Memory, ~Looping, NEW n \in Nat, NEW part, NEW keep \in BOOLEAN,
         ReadMore(n, part, keep)
  PROVE  [Store!Next]_(Store!storeVars)
<1>1. CASE Fetch(n, part, keep)
  BY <1>1, FetchRefines
<1>2. CASE ~Fetch(n, part, keep)
  <2>1. got' = <<>> /\ UNCHANGED <<memVars, loopVars>>
    BY <1>2 DEF ReadMore
  <2> QED BY <2>1, EndRefines
<1> QED BY <1>1, <1>2

(* The cursor moves. *)
LEMMA SeekRefines ==
  ASSUME Memory, NEW v \in Nat, SetPosition(v)
  PROVE  Store!Next
<1>1. Memory'
  BY SeekKeeps
<1>2. /\ ~Looping /\ m_position' = v
      /\ m_size' = IF v > m_size THEN v ELSE m_size
      /\ UNCHANGED <<nodes, feed, want, got>>
  BY DEF SetPosition, Idle, loopVars, itemVars
<1>3. /\ feed = <<>> /\ want = 0 /\ m_position \in Nat /\ m_size \in Nat
      /\ m_position <= m_size
  BY <1>2 DEF Looping, Memory, MemoryTyped, CursorOnPosition
<1>4. Top = m_size
  BY <1>3 DEF Top
<1>5. Top' = IF v > m_size THEN v ELSE m_size
  <2>1. Top' = IF m_position' > m_size' THEN m_position' ELSE m_size'
    BY DEF Top
  <2> QED BY <1>2, <1>3, <2>1
<1>6. /\ Flat \in Seq(Byte) /\ Len(Flat) = m_size
      /\ \A i \in 1..m_size : Flat[i] = Cell(nodes, i)
  BY <1>4, FlatIs
<1>7. /\ Flat' \in Seq(Byte) /\ Len(Flat') = Top'
      /\ \A i \in 1..Top' : Flat'[i] = Cell(nodes, i)
  BY <1>1, <1>2, FlatNextIs
<1>8. SubSeq(Flat', 1, Len(Flat)) = Flat
  <2>1. PICK z \in Seq(Byte) : z = Flat' /\ Len(z) = Top'
    BY <1>7
  <2>2. \A i \in 1..m_size : z[i] \in Byte
    BY <1>3, <1>5, <2>1
  <2>3. /\ SubSeq(z, 1, m_size) \in Seq(Byte)
        /\ Len(SubSeq(z, 1, m_size)) = m_size
        /\ \A i \in 1..m_size : SubSeq(z, 1, m_size)[i] = z[i]
    BY <1>3, <1>5, <2>1, <2>2
  <2>4. \A i \in 1..m_size : z[i] = Flat[i]
    BY <1>3, <1>5, <1>6, <1>7, <2>1
  <2>5. SubSeq(z, 1, m_size) = Flat
    BY <1>6, <2>3, <2>4, SeqEqual
  <2> QED BY <1>6, <2>1, <2>5
<1>9. Len(Flat') = IF m_position' > Len(Flat) THEN m_position' ELSE Len(Flat)
  BY <1>2, <1>5, <1>6, <1>7
<1>10. Store!Seek
  BY <1>2, <1>3, <1>8, <1>9 DEF Store!Seek, Store!Quiet
<1> QED BY <1>10 DEF Store!Next

(* clear() wipes the array. *)
LEMMA ClearRefines ==
  ASSUME Memory, Clear
  PROVE  Store!Next
<1>1. Memory' /\ m_position' = 0 /\ m_size' = 0
  BY ClearKeeps DEF Clear
<1>2. ~Looping /\ UNCHANGED <<feed, want, got>>
  BY DEF Clear, Idle, loopVars, itemVars
<1>3. feed = <<>> /\ want = 0
  BY <1>2 DEF Looping, Memory, MemoryTyped
<1>4. Top' = 0
  BY <1>1 DEF Top
<1>5. Flat' = <<>>
  <2>1. Flat' \in Seq(Byte) /\ Len(Flat') = 0
    BY <1>1, <1>4, FlatNextIs
  <2> QED BY <2>1, EmptySeq
<1>6. Store!Wipe
  BY <1>1, <1>2, <1>3, <1>5 DEF Store!Wipe, Store!Quiet
<1> QED BY <1>6 DEF Store!Next

(* The parts of items: a call of read(), or the end of the item. *)
LEMMA PartsRefine ==
  ASSUME CodecTyped, ArrayInv, WordDone \/ VarintDone \/ BodyDone
  PROVE  [Store!Next]_(Store!storeVars)
<1> USE DEF ArrayInv
<1>1. ASSUME ~Looping, NEW val, Finish(val) PROVE [Store!Next]_(Store!storeVars)
  <2>1. got' = <<>> /\ UNCHANGED <<memVars, loopVars>>
    BY <1>1 DEF Finish
  <2> QED BY <1>1, <2>1, EndRefines
<1>2. CASE BodyDone
  BY <1>1, <1>2 DEF BodyDone, PartDone
<1>3. CASE WordDone
  <2>1. ~Looping /\ asks = "word"
    BY <1>3 DEF WordDone, PartDone
  <2>2. PICK v \in Nat : v = DecodeFixed(got, m_endian)
    <3>1. want = 0
      BY <2>1 DEF Looping, Memory, MemoryTyped
    <3>2. got \in Seq(Byte) /\ Len(got) = WordBytes /\ m_endian \in Orders
      BY <2>1, <3>1 DEF InPart, ItemTyped
    <3>3. got \in [1..WordBytes -> Byte]
      BY <3>2
    <3> QED BY <3>2, <3>3 DEF CodecTyped
  <2>3. Finish(v) \/ ReadMore(v, "body", FALSE)
    BY <1>3, <2>2 DEF WordDone
  <2> QED BY <1>1, <2>1, <2>3, ReadMoreRefines
<1>4. CASE VarintDone
  <2>1. ~Looping /\ asks = "varint"
    BY <1>4 DEF VarintDone, PartDone
  <2>2. /\ got \in Seq(Byte) /\ Len(got) \in 1..Groups
        /\ item.kind \in {"varint", "zigzag", "stringVint"}
    <3>1. want = 0
      BY <2>1 DEF Looping, Memory, MemoryTyped
    <3> QED BY <2>1, <3>1 DEF InPart, ItemTyped
  <2>3. PICK v \in Nat : v = DecodeVarint(got)
    <3>1. got \in [1..Len(got) -> Byte]
      BY <2>2
    <3> QED BY <2>2, <3>1 DEF CodecTyped
  <2>4. \/ Finish(v) \/ Finish(DecodeZigzag(v))
        \/ ReadMore(v, "body", FALSE) \/ ReadMore(1, "varint", TRUE)
    BY <1>4, <2>2, <2>3 DEF VarintDone
  <2>5. CASE Finish(v)
    BY <1>1, <2>1, <2>5
  <2>6. CASE Finish(DecodeZigzag(v))
    BY <1>1, <2>1, <2>6
  <2>7. CASE ReadMore(v, "body", FALSE)
    BY <2>1, <2>7, ReadMoreRefines
  <2>8. CASE ReadMore(1, "varint", TRUE)
    BY <2>1, <2>8, ReadMoreRefines
  <2> QED BY <2>4, <2>5, <2>6, <2>7, <2>8
<1> QED BY <1>2, <1>3, <1>4

(* Every step of ByteArray is one of ByteStore, or a stutter. *)
LEMMA StepRefines ==
  ASSUME CodecTyped, ArrayInv, [Next]_vars
  PROVE  [Store!Next]_(Store!storeVars)
<1>0. Memory /\ got \in Seq(Byte) /\ m_endian \in Orders /\ calls \in Seq(Seq(Byte))
  BY DEF ArrayInv, ItemTyped
<1>1. ASSUME NEW cs \in Seq(Seq(Byte)), cs # <<>>, NEW it, Put(it, cs)
      PROVE  [Store!Next]_(Store!storeVars)
  <2>1. Head(cs) \in Seq(Byte)
    BY <1>1, HeadTailProperties
  <2>2. ~Looping /\ Write(Head(cs)) /\ got' = got
    BY <1>1 DEF Put, Idle
  <2> QED BY <1>0, <2>1, <2>2, WriteRefines
<1>2. ASSUME NEW it \in Items, WriteItem(it) PROVE [Store!Next]_(Store!storeVars)
  <2>1. CallsOf(it) \in Seq(Seq(Byte)) /\ CallsOf(it) # <<>>
    BY <1>0, CallsTyped
  <2> QED BY <1>1, <1>2, <2>1 DEF WriteItem
<1>3. ASSUME NEW file \in Files, ReadFromFile(file) PROVE [Store!Next]_(Store!storeVars)
  <2>1. Blocks(file) \in Seq(Seq(Byte)) /\ Blocks(file) # <<>>
    BY <1>3, BlocksTyped DEF ReadFromFile
  <2> QED BY <1>1, <1>3, <2>1 DEF ReadFromFile
<1>4. CASE NextCall
  <2>1. Head(calls) \in Seq(Byte)
    BY <1>0, <1>4, HeadTailProperties DEF NextCall
  <2>2. ~Looping /\ Write(Head(calls)) /\ got' = got
    BY <1>4 DEF NextCall
  <2> QED BY <1>0, <2>1, <2>2, WriteRefines
<1>5. ASSUME NEW it \in Asked, ReadItem(it) PROVE [Store!Next]_(Store!storeVars)
  <2>1. PICK n \in Nat, part \in {"word", "varint", "body"} :
          n = FirstRead(it)[1] /\ part = FirstRead(it)[2]
    BY FirstReadTyped
  <2>2. ~Looping /\ Fetch(n, part, FALSE)
    BY <1>5, <2>1 DEF ReadItem, Idle
  <2> QED BY <1>0, <2>2, FetchRefines
<1>6. CASE WriteChunk
  BY <1>0, <1>6, WriteChunkRefines
<1>7. CASE ReadChunk
  BY <1>0, <1>7, ReadChunkRefines
<1>8. CASE WordDone \/ VarintDone \/ BodyDone
  BY <1>8, PartsRefine
<1>9. ASSUME NEW v \in 0..(MaxNodes * m_baseSize), SetPosition(v)
      PROVE  [Store!Next]_(Store!storeVars)
  <2>1. v \in Nat
    OBVIOUS
  <2> QED BY <1>0, <1>9, <2>1, SeekRefines
<1>10. CASE Clear
  BY <1>0, <1>10, ClearRefines
<1>11. ASSUME UNCHANGED <<memVars, loopVars, itemVars>>
       PROVE  [Store!Next]_(Store!storeVars)
  <2>1. Flat' = Flat
    BY <1>11, FlatFrame
  <2> QED BY <1>11, <2>1 DEF Store!storeVars, memVars, loopVars, itemVars
<1>12. ASSUME NEW val \in BOOLEAN, SetIsLittleEndian(val)
       PROVE  [Store!Next]_(Store!storeVars)
  BY <1>11, <1>12 DEF SetIsLittleEndian
<1>13. CASE vars' = vars
  BY <1>11, <1>13 DEF vars
<1> QED BY <1>2, <1>3, <1>4, <1>5, <1>6, <1>7, <1>8, <1>9, <1>10, <1>12, <1>13 DEF Next

(* A ByteArray is one flat array of bytes with a cursor: every iteration   *)
(* of write() and read(), every seek and every clear() is a step of        *)
(* ByteStore on the nodes joined to one sequence, or changes nothing of    *)
(* it, for every size of a node and every sequence of calls.               *)
THEOREM FlatArrayCorrect ==
  ASSUME CodecTyped
  PROVE  Spec => FlatArray
<1>1. Init => Store!Init
  <2> SUFFICES ASSUME Init PROVE Store!Init
    OBVIOUS
  <2>1. Top = 0
    BY DEF Init, Top
  <2>2. Flat \in Seq(Byte) /\ Len(Flat) = 0
    BY <2>1, InitArray, FlatIs DEF ArrayInv
  <2>3. Flat = <<>>
    BY <2>2, EmptySeq
  <2> QED BY <2>3 DEF Init, Store!Init
<1>2. ArrayInv /\ [Next]_vars => ArrayInv'
  BY ArrayStep
<1>3. ArrayInv /\ [Next]_vars => [Store!Next]_(Store!storeVars)
  BY StepRefines
<1> QED BY <1>1, <1>2, <1>3, InitArray, PTL DEF Spec, FlatArray, Store!Spec
=============================================================================
