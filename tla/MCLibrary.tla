----------------------------- MODULE MCLibrary -----------------------------
(***************************************************************************)
(* The library under the network code: loggers as a state machine, and     *)
(* the pure algorithms checked on every input of a bounded set.  `sample`  *)
(* is the input looked at; the loggers run in the behaviours that have     *)
(* none.                                                                   *)
(***************************************************************************)
EXTENDS Log, Text, FileTree, Address

CONSTANTS MaxPattern, MaxText, MaxName     \* bounds on the lengths of inputs

VARIABLE sample

Interchangeable == Permutations(LogThreads)

SeqsUpTo(S, n) == UNION {[1..k -> S] : k \in 0..n}
WordsUpTo(S, n) == SeqsUpTo(S, n) \ {<<>>}

MCKeys == {<<"m">>, <<"c">>}
MCPatterns == {<<"%", "m">>, <<"-", "%", "x">>}

PatternChars == Letters \cup {"%", "{", "}", "-"}
TextBytes == {Space, Plus, Percent, 50, 66, 97, 255}
NameChars == {"h", "0"}
PathChars == {"p", "/"}
PathSamples == WordsUpTo(PathChars, SunPath + 1)
AddrBytes == {0, 1, 255}
Bits == {{}, {0}, 0..31, {k \in 0..31 : k % 3 = 0}}
Bytes == {[i \in 0..15 |-> {}], [i \in 0..15 |-> {k \in 0..7 : (k + i) % 3 = 0}]}

\* The inputs of each algorithm.
Sampled ==
    \/ \E p \in SeqsUpTo(PatternChars, MaxPattern) : sample = [of |-> "pattern", arg |-> p]
    \/ \E s \in SeqsUpTo(TextBytes, MaxText) : sample = [of |-> "url", arg |-> s]
    \/ \E tree \in Trees : \E held \in {{}} \cup {{p} : p \in Paths} :
          sample = [of |-> "tree", arg |-> <<tree, held>>]
    \/ \E n, port \in WordsUpTo(NameChars, MaxName) :
       \E v6 \in WordsUpTo(NameChars \cup {":"}, MaxName) :
          sample = [of |-> "host", arg |-> <<n, v6, port>>]
    \/ \E a \in [Groups -> 0..1] : sample = [of |-> "v6", arg |-> a]
    \/ \E a \in Bits, n \in 1..32 : sample = [of |-> "subnet4", arg |-> <<a, n>>]
    \/ \E a \in Bytes, n \in 0..127 : sample = [of |-> "subnet6", arg |-> <<a, n>>]
    \/ \E a, b \in SeqsUpTo(AddrBytes, MaxName) : sample = [of |-> "order", arg |-> <<a, b>>]
    \/ \E p \in PathSamples \cup {<<NUL>> \o q : q \in PathSamples} :
          sample = [of |-> "unix", arg |-> p]

MCInit ==
    /\ LogInit
    /\ \/ sample = [of |-> "none"]
       \/ Sampled /\ \A a \in Appenders : appenders[a].level = DEBUG
MCNext == sample.of = "none" /\ ~Crashing /\ LogNext /\ UNCHANGED sample
MCSpec == MCInit /\ [][MCNext]_<<logVars, sample>>

Is(what) == sample.of = what

\* A pattern without "%%" that LogFormatter::init accepts loses nothing in its items.
PatternsKept == Is("pattern") => PatternKept(sample.arg)

\* StringUtil::UrlDecode undoes UrlEncode.
UrlsReadBack == Is("url") => UrlReadsBack(sample.arg)

\* Texts come back: nothing is lost by parsing a pattern or coding a URL.
TextsReadBack == PatternsKept /\ UrlsReadBack

\* FSUtil::Rm returns true exactly when the path is gone, whatever could not be
\* removed below it, and touches nothing else.
RmIsHonest == Is("tree") => RmHonest(sample.arg[1], sample.arg[2])

\* FSUtil::Mkdir returns true exactly when the path is there afterwards.
MkdirIsHonest == Is("tree") => MkdirHonest(sample.arg[1], sample.arg[2])

\* FSUtil::Mv loses nothing of the source, whichever of its steps fails, as long as
\* neither path lies in the other.
MovesKeep == Is("tree") => MvKeepsSource(sample.arg[1], sample.arg[2])

\* FSUtil::ListAllFile finds the matching files of every depth, and only them.
ListsAllFiles == Is("tree") => ListsAll(sample.arg[1])

\* The functions on files report what they did, also when a step fails.
TreesHonest == RmIsHonest /\ MkdirIsHonest /\ MovesKeep /\ ListsAllFiles

\* Address::Lookup takes host strings apart the way they are put together.
HostsSplit == Is("host") => HostSplit(sample.arg[1], sample.arg[2], sample.arg[3])

\* IPv6Address::insert prints a text that stands for the address.
V6TextsReadBack == Is("v6") => V6ReadsBack(sample.arg)

\* Prefix lengths, subnet masks and broadcast addresses agree, in IPv4 and IPv6.
SubnetsAgree ==
    /\ Is("subnet4") => SubnetsAgree4(sample.arg[1], sample.arg[2])
    /\ Is("subnet6") => SubnetsAgree6(sample.arg[1], sample.arg[2])

\* Address::operator< is a strict total order that agrees with operator==.
AddressesOrdered ==
    Is("order") => \A c \in SeqsUpTo(AddrBytes, MaxName) :
                       AddressOrder(sample.arg[1], sample.arg[2], c)

\* A unix path survives UnixAddress and getPath, up to the longest that fits.
UnixPathsKept == Is("unix") => UnixPathKept(sample.arg)

\* Addresses keep their meaning: taken apart, printed, masked, ordered, copied.
AddressesKept ==
    HostsSplit /\ V6TextsReadBack /\ SubnetsAgree /\ AddressesOrdered /\ UnixPathsKept
=============================================================================
