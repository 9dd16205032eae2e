-------------------------------- MODULE Text --------------------------------
(***************************************************************************)
(* StringUtil::UrlEncode and UrlDecode over byte sequences                 *)
(* (src/src/util/util.cc).                                                 *)
(***************************************************************************)
EXTENDS Integers, Sequences, SequencesExt

Space == 32
Plus == 43
Percent == 37

\* uri_chars: '-' '.' 0-9 '=' A-Z '_' a-z '~'.
Unreserved(c) ==
    c \in {45, 46, 61, 95, 126} \cup (48..57) \cup (65..90) \cup (97..122)

HexDigit(v) == IF v < 10 THEN 48 + v ELSE 55 + v

\* xdigit_chars, and isxdigit.
HexValue(c) ==
    CASE c \in 48..57  -> c - 48
      [] c \in 65..70  -> c - 55
      [] c \in 97..102 -> c - 87
      [] OTHER         -> 0
IsXDigit(c) == c \in (48..57) \cup (65..70) \cup (97..102)

UrlEncode(str, space_as_plus) ==
    FlattenSeq([k \in 1..Len(str) |->
        IF Unreserved(str[k]) THEN <<str[k]>>
        ELSE IF str[k] = Space /\ space_as_plus THEN <<Plus>>
        ELSE <<Percent, HexDigit(str[k] \div 16), HexDigit(str[k] % 16)>>])

\* The loop of UrlDecode from position k on.
RECURSIVE DecodeFrom(_, _, _)
DecodeFrom(str, k, space_as_plus) ==
    IF k > Len(str) THEN <<>>
    ELSE IF str[k] = Plus /\ space_as_plus
    THEN <<Space>> \o DecodeFrom(str, k + 1, space_as_plus)
    ELSE IF /\ str[k] = Percent
            /\ k + 2 <= Len(str)
            /\ IsXDigit(str[k + 1]) /\ IsXDigit(str[k + 2])
    THEN <<HexValue(str[k + 1]) * 16 + HexValue(str[k + 2])>>
         \o DecodeFrom(str, k + 3, space_as_plus)
    ELSE <<str[k]>> \o DecodeFrom(str, k + 1, space_as_plus)

UrlDecode(str, space_as_plus) == DecodeFrom(str, 1, space_as_plus)

(***************************************************************************)
(* Decoding undoes encoding under either treatment of the space, for every *)
(* byte, the ones that have a meaning of their own in the coded text       *)
(* included (StringUtil::UrlEncode, UrlDecode).                            *)
(***************************************************************************)
UrlReadsBack(str) ==
    \A plus \in BOOLEAN : UrlDecode(UrlEncode(str, plus), plus) = str
=============================================================================
