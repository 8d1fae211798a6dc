------------------------------ MODULE MCLoader -------------------------------
(***************************************************************************)
(* Loader for TLC, with words of 8 bits: a header of 4 bytes, slots of 6,  *)
(* and length words of 2.  As with the real sizes, six bytes for each of   *)
(* 128 slots are a multiple of the range of a word.                        *)
(***************************************************************************)
EXTENDS Loader, Bitwise

a == 97
b == 98
c == 99
d == 100
x == 120
y == 121
z == 122

E(key, value)  == [key |-> key, value |-> value]
Times(byte, n) == [i \in 1 .. n |-> byte]

\* A map with two keys; a file with a key twice, an empty and an overlong key;
\* a file whose second entry is cut off; a text file whose first value is a
\* tab, with an empty line, a line without a tab and one that is too long; a file
\* of so many bytes that twice its estimate has no power of two in a word; and one
\* whose second value is longer than an int32 counts.
MCItems == [s \in Sources |->
    CASE s = "map"  -> <<E(<<a>>, <<x, y, z>>), E(<<b>>, <<>>)>>
      [] s = "dups" -> <<E(<<a>>, <<x, y>>), E(<<>>, <<x>>), E(<<a>>, <<>>),
                         E(<<c, c, c>>, <<>>), E(<<b>>, <<x>>)>>
      [] s = "cut"  -> <<E(<<c>>, <<x, x, x, y, y, z, z>>)>>
      [] s = "line" -> <<E(<<a>>, <<Tab, y>>), E(<<>>, <<>>), E(<<b>>, <<>>)>>
      [] s = "huge" -> <<E(<<a>>, <<x>>), E(<<b>>, Times(y, 120)), E(<<c>>, Times(z, 125))>>
      [] s = "fat"  -> <<E(<<a>>, <<x>>), E(<<b>>, Times(y, 247))>>]

MCType == [s \in Sources |-> IF s \in {"map", "line"} THEN s ELSE "file"]

\* The binary format that the comment on FileDataSource gives.
WordOf(n)    == <<n, 0>>
Encoded(e)   == WordOf(Len(e.key)) \o e.key \o WordOf(Len(e.value)) \o e.value
FileOf(es)   == FlattenSeq([i \in 1 .. Len(es) |-> Encoded(es[i])])

\* The text format that the comment on LineDataSource gives; a tab is needed
\* only before a value.
LineOf(e)    == IF e.value = <<>> THEN e.key ELSE e.key \o <<Tab>> \o e.value

MCContents == [s \in Sources |->
    CASE s = "map"  -> MCItems[s]
      [] s \in {"dups", "huge", "fat"} -> FileOf(MCItems[s])
      [] s = "cut"  -> FileOf(MCItems[s]) \o WordOf(1) \o <<d, 2>>
      [] s = "line" -> [i \in 1 .. Len(MCItems[s]) |-> LineOf(MCItems[s][i])]
                           \o << <<d, Tab, x, x, x, x>> >>]

MCStarts == [s \in Sources |->
    IF MCType[s] = "file"
    THEN [i \in 1 .. Len(MCItems[s]) + 1 |-> Len(FileOf(SubSeq(MCItems[s], 1, i - 1)))]
    ELSE <<>>]

\* However a binary file is cut off, Next delivers the entries that are complete
\* in it, and then ErrEOF exactly when the cut is between two entries.
CutFile ==
    LET es     == <<E(<<a>>, <<x>>), E(<<>>, <<>>), E(<<b>>, <<y, z>>)>>
        End(n) == Len(FileOf(SubSeq(es, 1, n)))
    IN \A n \in 0 .. Len(es) : \A cut \in End(n) .. End(Len(es)) :
           LET got == NextFile(SubSeq(FileOf(es), 1, cut), End(n))
           IN IF n < Len(es) /\ End(n + 1) <= cut
              THEN got = Got(es[n + 1].key, es[n + 1].value, End(n + 1))
              ELSE got.err = IF cut = End(n) THEN "EOF" ELSE "failed"

ASSUME CutFileAssumption == CutFile

\* The bit smearing of types.go, for words of up to 8 bits, is NextPow2.
Smear(v) ==
    LET v0 == v - 1
        v1 == v0 | shiftR(v0, 1)
        v2 == v1 | shiftR(v1, 2)
        v3 == v2 | shiftR(v2, 4)
    IN IF v = 0 THEN 1 ELSE uint32(v3 + 1)

ASSUME NextPow2IsSmear == \A v \in 0 .. U32 - 1 : NextPow2(v) = Smear(v)

\* The theorems are about these sources, and about segments and values whose bytes
\* an int32 counts.
ASSUME TheoremsApply ==
    /\ Written
    /\ SegSize <= U32 \div 2 /\ "fat" \notin Sources => Addressable
==============================================================================
