------------------------------ MODULE Address ------------------------------
(***************************************************************************)
(* The pure parts of src/src/network/address.cc: how a host string is      *)
(* split, how IPv6 addresses are printed, masks and broadcast addresses,   *)
(* the order on addresses and the paths of unix addresses.                 *)
(***************************************************************************)
EXTENDS Integers, Sequences, FiniteSets, SequencesExt, FiniteSetsExt

CONSTANTS NoService,   \* the null `service` pointer
          SunPath      \* sizeof(sun_path); 108 on Linux

\* memchr: the first position of c in s from k on, 0 if there is none.
FindChar(s, c, k) ==
    LET hits == {i \in k..Len(s) : s[i] = c} IN IF hits = {} THEN 0 ELSE Min(hits)
From(s, k) == SubSeq(s, k, Len(s))

\* Lookup, first part: "[v6]" and "[v6]:service".
BracketPart(host) ==
    LET end == FindChar(host, "]", 2)
    IN  IF host = <<>> \/ host[1] # "[" \/ end = 0
        THEN [node |-> <<>>, service |-> NoService]
        ELSE [node    |-> SubSeq(host, 2, end - 1),
              service |-> IF end < Len(host) /\ host[end + 1] = ":"
                          THEN From(host, end + 2) ELSE NoService]

(***************************************************************************)
(* Lookup, second part: "node:service".  With a second colon the node      *)
(* stays empty but service still points at the first colon.                *)
(***************************************************************************)
ColonPart(host) ==
    LET colon == FindChar(host, ":", 1)
    IN  IF colon = 0 THEN [node |-> <<>>, service |-> NoService]
        ELSE IF FindChar(host, ":", colon + 1) = 0
        THEN [node |-> SubSeq(host, 1, colon - 1), service |-> From(host, colon + 1)]
        ELSE [node |-> <<>>, service |-> From(host, colon)]

\* What Address::Lookup passes to getaddrinfo.
Lookup(host) ==
    LET first  == BracketPart(host)
        second == IF first.node # <<>> THEN first ELSE ColonPart(host)
    IN  IF second.node # <<>> THEN second ELSE [second EXCEPT !.node = host]

-----------------------------------------------------------------------------
Groups == 0..7

(***************************************************************************)
(* IPv6Address::insert: the loop over the eight groups.  A run of zeros is *)
(* left out once, the first time a group follows it.                       *)
(***************************************************************************)
PrintGroup(st, addr, i) ==
    IF addr[i] = 0 /\ ~st.used THEN st
    ELSE LET gap == i > 0 /\ addr[i - 1] = 0 /\ ~st.used
         IN  [used |-> st.used \/ gap,
              text |-> st.text \o (IF gap THEN <<":">> ELSE <<>>)
                               \o (IF i > 0 THEN <<":">> ELSE <<>>)
                               \o <<ToString(addr[i])>>]

InsertV6(addr) ==
    LET st == FoldLeft(LAMBDA acc, i : PrintGroup(acc, addr, i),
                       [used |-> FALSE, text |-> <<>>], [k \in 1..8 |-> k - 1])
    IN  IF ~st.used /\ addr[7] = 0 THEN st.text \o <<":", ":">> ELSE st.text

-----------------------------------------------------------------------------

\* Masks and addresses as sets of bit positions, bit 0 the lowest.
\* CreateMask<T>(bits): the low sizeof(T) * 8 - bits bits.  For bits = 0 and a
\* 32-bit T the shift is undefined, so IPv4 prefixes start at 1 here.
CreateMask(width, bits) == 0..(width - bits - 1)

\* CountBytes clears the lowest bit until none is left.
RECURSIVE CountBytes(_)
CountBytes(value) == IF value = {} THEN 0 ELSE 1 + CountBytes(value \ {Min(value)})

SubnetMask4(prefix) == (0..31) \ CreateMask(32, prefix)
Broadcast4(addr, prefix) == addr \cup CreateMask(32, prefix)

\* An IPv6 address is sixteen bytes; prefix 128 would index past the last.
SubnetMask6(prefix) ==
    [i \in 0..15 |-> IF i < prefix \div 8 THEN 0..7
                     ELSE IF i = prefix \div 8 THEN (0..7) \ CreateMask(8, prefix % 8)
                     ELSE {}]
Broadcast6(addr, prefix) ==
    [i \in 0..15 |-> IF i < prefix \div 8 THEN addr[i]
                     ELSE IF i = prefix \div 8 THEN addr[i] \cup CreateMask(8, prefix % 8)
                     ELSE 0..7]

\* GetInterfaceAddresses: the prefix length of a netmask.
PrefixLen6(mask) == FoldLeft(LAMBDA sum, k : sum + CountBytes(mask[k - 1]), 0, [k \in 1..16 |-> k])

-----------------------------------------------------------------------------
\* Address::operator< and operator== over the raw bytes of two addresses.
Differ(a, b) == {k \in 1..Min({Len(a), Len(b)}) : a[k] # b[k]}
\* A fault: see LessAddr.
LessAddrUpTo(a, b) ==
    IF Differ(a, b) # {} THEN a[Min(Differ(a, b))] < b[Min(Differ(a, b))]
    ELSE Len(a) <= Len(b)

LessAddr(a, b) ==
    IF Differ(a, b) # {} THEN a[Min(Differ(a, b))] < b[Min(Differ(a, b))]
    ELSE Len(a) < Len(b)
EqualAddr(a, b) == Len(a) = Len(b) /\ Differ(a, b) = {}

-----------------------------------------------------------------------------
NUL == "nul"
TooLong == [len |-> 0, buf |-> <<>>]   \* the constructor threw

\* UnixAddress(path): len is m_length without the offset of sun_path.
UnixLength(path) == IF path # <<>> /\ path[1] = NUL THEN Len(path) ELSE Len(path) + 1
UnixAddress(path) ==
    IF UnixLength(path) > SunPath THEN TooLong
    ELSE [len |-> UnixLength(path),
          buf |-> [k \in 1..SunPath |-> IF k <= Len(path) THEN path[k] ELSE NUL]]

\* getPath and insert: an abstract path by its length, another as a C string.
\* A buffer without a NUL would be read past its end.
Overrun == <<"overrun">>
GetPath(addr) ==
    IF addr.len > 0 /\ addr.buf[1] = NUL THEN <<"\\0">> \o SubSeq(addr.buf, 2, addr.len)
    ELSE IF FindChar(addr.buf, NUL, 1) = 0 THEN Overrun
    ELSE SubSeq(addr.buf, 1, FindChar(addr.buf, NUL, 1) - 1)
-----------------------------------------------------------------------------
(***************************************************************************)
(* The four documented forms of a host reach getaddrinfo as the name and   *)
(* the port they were put together from (Address::Lookup).                 *)
(***************************************************************************)
HostSplit(name, v6, port) ==
    /\ Lookup(name) = [node |-> name, service |-> NoService]
    /\ Lookup(name \o <<":">> \o port) = [node |-> name, service |-> port]
    /\ Lookup(<<"[">> \o v6 \o <<"]">>) = [node |-> v6, service |-> NoService]
    /\ Lookup(<<"[">> \o v6 \o <<"]", ":">> \o port) = [node |-> v6, service |-> port]

\* Reading an IPv6 text: groups are separated by single colons and "::" stands
\* for as many zero groups as are missing, at least one.
GroupsIn(text) == SelectSeq(text, LAMBDA c : c # ":")
Gaps(text) == {k \in 1..Len(text) - 1 : text[k] = ":" /\ text[k + 1] = ":"}
WellFormed(text) ==
    /\ Cardinality(Gaps(text)) <= 1
    /\ Len(GroupsIn(text)) <= IF Gaps(text) = {} THEN 8 ELSE 7
    /\ Gaps(text) = {} => Len(GroupsIn(text)) = 8
    /\ \A k \in 1..Len(text) :
          text[k] = ":" => (k > 1 /\ k < Len(text)) \/ \E g \in Gaps(text) : k \in {g, g + 1}
ReadV6(text) ==
    LET left  == IF Gaps(text) = {} THEN GroupsIn(text)
                 ELSE GroupsIn(SubSeq(text, 1, Min(Gaps(text))))
        right == IF Gaps(text) = {} THEN <<>> ELSE GroupsIn(From(text, Min(Gaps(text))))
        zeros == [k \in 1..(8 - Len(left) - Len(right)) |-> "0"]
    IN  left \o zeros \o right

(***************************************************************************)
(* A printed IPv6 address is well formed and stands for the address it was *)
(* printed from, wherever its zero groups lie (IPv6Address::insert).       *)
(***************************************************************************)
V6ReadsBack(addr) ==
    LET text == InsertV6(addr)
    IN  WellFormed(text) /\ ReadV6(text) = [k \in 1..8 |-> ToString(addr[k - 1])]

(***************************************************************************)
(* Masks, prefix lengths and broadcast addresses agree: a subnet mask has  *)
(* as many one bits as its prefix says, and a broadcast address keeps the  *)
(* bits of the mask and sets all others (IPv4Address and IPv6Address,      *)
(* GetInterfaceAddresses).                                                 *)
(***************************************************************************)
SubnetsAgree4(addr, prefix) ==
    LET mask == SubnetMask4(prefix)
    IN  /\ CountBytes(mask) = prefix
        /\ Broadcast4(addr, prefix) = (addr \cap mask) \cup ((0..31) \ mask)
SubnetsAgree6(addr, prefix) ==
    LET mask == SubnetMask6(prefix)
    IN  /\ PrefixLen6(mask) = prefix
        /\ \A i \in 0..15 :
              Broadcast6(addr, prefix)[i] = (addr[i] \cap mask[i]) \cup ((0..7) \ mask[i])

(***************************************************************************)
(* Addresses are totally ordered by operator<, consistently with           *)
(* operator==, also when one is the beginning of the other: what a         *)
(* std::map with addresses as keys relies on.                              *)
(***************************************************************************)
AddressOrder(a, b, c) ==
    /\ EqualAddr(a, b) <=> a = b
    /\ Cardinality({k \in 1..3 : <<LessAddr(a, b), EqualAddr(a, b), LessAddr(b, a)>>[k]}) = 1
    /\ LessAddr(a, b) /\ LessAddr(b, c) => LessAddr(a, c)

(***************************************************************************)
(* A unix path is refused only when it does not fit with its terminator,   *)
(* and getPath gives back what was put in, up to the longest path that     *)
(* fits (UnixAddress; an abstract path shows its leading NUL as \0).       *)
(***************************************************************************)
UnixPathKept(path) ==
    LET addr == UnixAddress(path)
        room == IF path[1] = NUL THEN SunPath ELSE SunPath - 1
    IN  /\ addr = TooLong <=> Len(path) > room
        /\ addr # TooLong =>
              GetPath(addr) = IF path[1] = NUL THEN <<"\\0">> \o Tail(path) ELSE path
=============================================================================
