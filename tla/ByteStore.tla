----------------------------- MODULE ByteStore -----------------------------
(***************************************************************************)
(* What ByteArray promises: one flat array of bytes with a cursor.  A call *)
(* of write() moves the caller's bytes to the cursor, a call of read()     *)
(* moves bytes from the cursor to the caller, in pieces of any size; no    *)
(* byte moves otherwise.  There are no nodes and no capacity.              *)
(***************************************************************************)
EXTENDS Integers, Sequences

CONSTANT Cells      \* what a byte of memory may hold

VARIABLES
  data,   \* the bytes from 0 up to the size
  pos,    \* the cursor
  feed,   \* bytes the current write() has still to store
  want,   \* how many bytes the current read() has still to fetch
  got     \* bytes fetched for the current item

storeVars == <<data, pos, feed, want, got>>

Init == data = <<>> /\ pos = 0 /\ feed = <<>> /\ want = 0 /\ got = <<>>

Quiet == feed = <<>> /\ want = 0
Ahead(n) == SubSeq(data, pos + 1, pos + n)
Overwrite(bs) ==
  SubSeq(data, 1, pos) \o bs \o SubSeq(data, pos + Len(bs) + 1, Len(data))

BeginWrite ==
  /\ Quiet
  /\ feed' \in Seq(Cells) \ {<<>>}
  /\ UNCHANGED <<data, pos, want, got>>

Store == \E n \in 1..Len(feed) :
  /\ data' = Overwrite(SubSeq(feed, 1, n))
  /\ pos' = pos + n
  /\ feed' = SubSeq(feed, n + 1, Len(feed))
  /\ UNCHANGED <<want, got>>

(* A read is refused unless that many bytes lie ahead.  The bytes of an    *)
(* item read by several calls of read() are kept together.                 *)
BeginRead ==
  /\ Quiet
  /\ want' \in 1..(Len(data) - pos)
  /\ got' \in {<<>>, got}
  /\ UNCHANGED <<data, pos, feed>>

Fetch == \E n \in 1..want :
  /\ got' = got \o Ahead(n)
  /\ pos' = pos + n
  /\ want' = want - n
  /\ UNCHANGED <<data, feed>>

(* The cursor moves; past the end the array grows by bytes nobody wrote. *)
Seek ==
  /\ Quiet
  /\ pos' \in Nat
  /\ Len(data') = IF pos' > Len(data) THEN pos' ELSE Len(data)
  /\ SubSeq(data', 1, Len(data)) = data
  /\ UNCHANGED <<feed, want, got>>

Wipe ==
  /\ Quiet
  /\ data' = <<>> /\ pos' = 0
  /\ UNCHANGED <<feed, want, got>>

(* The caller has what was fetched. *)
Take == Quiet /\ got' = <<>> /\ UNCHANGED <<data, pos, feed, want>>

Next == BeginWrite \/ Store \/ BeginRead \/ Fetch \/ Take \/ Seek \/ Wipe

Spec == Init /\ [][Next]_storeVars
============================================================================
