----------------------------- MODULE LogFormat -----------------------------
(***************************************************************************)
(* LogFormatter: how a pattern such as "%d{%Y}%T[%p]%m%n" becomes a list   *)
(* of items, and what the items print (src/src/system/log.cc).             *)
(* A pattern is a sequence of characters.  An item is literal text         *)
(* (item 0 of the code's tuples) or a key with its format (item 1).        *)
(***************************************************************************)
EXTENDS Integers, Sequences, FiniteSets, SequencesExt

CONSTANTS Letters,   \* the characters for which isalpha() is true
          Keys       \* the keys of s_format_items, as sequences of letters

ASSUME KeysAreWords == Keys \subseteq Seq(Letters) \ {<<>>}

Literal(text) == [key |-> <<>>, fmt |-> <<>>, text |-> text]
Directive(key, fmt) == [key |-> key, fmt |-> fmt, text |-> <<>>]
PatternError == Literal(<<"<Pattern Error>">>)
UnknownKey(key) == Literal(<<"<<error_format %">> \o key \o <<">>">>)

\* The first position from n on whose character satisfies Stops, or none.
FirstAt(p, n, Stops(_)) ==
    LET hits == {k \in n..Len(p) : Stops(p[k])}
    IN  IF hits = {} THEN Len(p) + 1 ELSE Min(hits)

\* The character that ends a key, and the one that closes a format.
EndsKey(c) == c \notin Letters \cup {"}"}
ClosesFormat(c) == c = "}"

\* A fault: see ItemWithFormat.
ItemWithFormatSkips(p, i, stop, close) ==
    [closed |-> close <= Len(p), next |-> close + 2,
     item   |-> Directive(SubSeq(p, i + 1, stop - 1), SubSeq(p, stop + 1, close - 1))]

\* An item whose key ends at `stop` and whose format is closed at `close`.
ItemWithFormat(p, i, stop, close) ==
    IF close <= Len(p)
    THEN [closed |-> TRUE, next |-> close + 1,
          item   |-> Directive(SubSeq(p, i + 1, stop - 1), SubSeq(p, stop + 1, close - 1))]
    ELSE [closed |-> FALSE, next |-> i + 1, item |-> PatternError]

ItemWithKey(p, i, stop) ==
    IF stop <= Len(p) /\ p[stop] = "{"
    THEN ItemWithFormat(p, i, stop, FirstAt(p, stop + 1, ClosesFormat))
    ELSE [closed |-> TRUE, next |-> stop,
          item   |-> Directive(SubSeq(p, i + 1, stop - 1), <<>>)]

(***************************************************************************)
(* The inner loop of init(): from the '%' at i, the key runs to the first  *)
(* character that is neither a letter nor '}'; a '{' there opens a format  *)
(* that must be closed.  `next` is where the outer loop goes on.           *)
(***************************************************************************)
ScanItem(p, i) == ItemWithKey(p, i, FirstAt(p, i + 1, EndsKey))

Flushed(st) ==
    IF st.lit = <<>> THEN st.vec ELSE Append(st.vec, Literal(st.lit))

\* The loop's state once the item at a '%' has been scanned.
AfterItem(st, scan) ==
    [at  |-> scan.next,
     lit |-> IF scan.closed THEN <<>> ELSE st.lit,
     vec |-> Append(IF scan.closed THEN Flushed(st) ELSE st.vec, scan.item)]

(***************************************************************************)
(* One turn of the outer loop at position k; positions before st.at belong *)
(* to an item already read.  "%%" puts a '%' into the literal text and     *)
(* leaves the second '%' to be read again, as the start of an item         *)
(* (although the comments of init() mean the two for one '%').  An         *)
(* unclosed format pushes its error before the literal text read so far    *)
(* and goes on with the character after the '%'.                           *)
(***************************************************************************)
Turn(p, st, k) ==
    IF k < st.at THEN st
    ELSE IF p[k] # "%" \/ (k < Len(p) /\ p[k + 1] = "%")
    THEN [st EXCEPT !.at = k + 1, !.lit = Append(@, p[k])]
    ELSE AfterItem(st, ScanItem(p, k))

\* The first half of LogFormatter::init: the tuples of `vec`.
Split(p) ==
    Flushed(FoldLeft(LAMBDA st, k : Turn(p, st, k),
                     [at |-> 1, lit |-> <<>>, vec |-> <<>>],
                     [k \in 1..Len(p) |-> k]))

IsLiteral(item) == item.text # <<>>
Unknown(item) == ~IsLiteral(item) /\ item.key \notin Keys

\* The second half: keys are looked up, an unknown one becomes error text.
Resolve(vec) ==
    [items |-> [k \in 1..Len(vec) |->
                  IF Unknown(vec[k]) THEN UnknownKey(vec[k].key) ELSE vec[k]],
     error |-> \E k \in 1..Len(vec) : vec[k] = PatternError \/ Unknown(vec[k])]

InitItems(p) == Resolve(Split(p))

(***************************************************************************)
(* What an item prints of an event.  %c is the name of the logger that     *)
(* writes, which for an event passed on to the root is the root.  Items    *)
(* that print the same for every event of a run (%n, %T, %f, %l, ...) are  *)
(* shown by their key.                                                     *)
(***************************************************************************)
PrintItem(item, logger, level, event) ==
    CASE IsLiteral(item)      -> item.text
      [] item.key = <<"m">>   -> <<event.content>>
      [] item.key = <<"p">>   -> <<level>>
      [] item.key = <<"c">>   -> <<logger>>
      [] item.key = <<"t">>   -> <<event.thread>>
      [] item.key = <<"d">>   -> <<event.time>>
      [] OTHER                -> item.key

PrintAll(items, logger, level, event) ==
    FlattenSeq([k \in 1..Len(items) |-> PrintItem(items[k], logger, level, event)])

\* LogFormatter::format.
Format(p, logger, level, event) == PrintAll(InitItems(p).items, logger, level, event)

-----------------------------------------------------------------------------
\* A '%' of literal text is written "%%".
Escaped(text) ==
    FlattenSeq([k \in 1..Len(text) |-> IF text[k] = "%" THEN <<"%", "%">> ELSE <<text[k]>>])
Unparse(item) ==
    IF IsLiteral(item) THEN Escaped(item.text)
    ELSE <<"%">> \o item.key
         \o (IF item.fmt = <<>> THEN <<>> ELSE <<"{">> \o item.fmt \o <<"}">>)

UnparseAll(items) == FlattenSeq([k \in 1..Len(items) |-> Unparse(items[k])])

PairIn(p, c, d) == \E k \in 1..Len(p) - 1 : p[k] = c /\ p[k + 1] = d

(***************************************************************************)
(* Nothing of a pattern is lost or moved: written out again, the items of  *)
(* a pattern that init() accepts are the pattern (LogFormatter::init).  An *)
(* empty "{}" leaves no trace, and "%%" is left out: init() makes of "%%m" *)
(* a '%' and the message, where its comments mean the text "%m".           *)
(***************************************************************************)
PatternKept(p) ==
    /\ ~PairIn(p, "{", "}") /\ ~PairIn(p, "%", "%") /\ ~InitItems(p).error
    => UnparseAll(InitItems(p).items) = p
=============================================================================
