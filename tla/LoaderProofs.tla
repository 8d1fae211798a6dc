---------------------------- MODULE LoaderProofs -----------------------------
(***************************************************************************)
(* Proofs about module Loader, for any sources, any sizes and any number   *)
(* of calls.  The inductive invariant is built in layers, and each theorem *)
(* rests on the ones it needs:                                             *)
(*                                                                         *)
(*    TypeInv       types, and nothing read or put before the first Init   *)
(*    LayoutInv     dataEnd is behind all chunks, or has wrapped           *)
(*    EstimateInv   no more entries than bytes or entries delivered        *)
(*    BetweenItems  every source is between two of its items               *)
(*    ServedInv     the table holds what the items delivered so far make   *)
(*                  it hold                                                *)
(*                                                                         *)
(* Addressable and Written, of module Loader, are hypotheses of theorems,  *)
(* not assumptions of the specification.  Without Addressable, which is    *)
(* about sizes, the code runs and fails (LoaderLarge.cfg, LoaderFat.cfg).  *)
(* Written is about the contents of sources alone; that Next then delivers *)
(* the items is the lemma WrittenDecodes.                                  *)
(***************************************************************************)
EXTENDS Loader, NumberLemmas, SequenceTheorems, TLAPS

------------------------------------------------------------------------------
(* The inductive invariant                                                   *)

\* Before the first Init nothing has been read or put.
FreshInv == ~inited => table = <<>> /\ lpc # "loading" /\ \A s \in Sources : pos[s] = 0

TypeInv == TypeOK /\ FreshInv

\* dataEnd is behind all chunks, or it has wrapped and the next put panics.
EndBehind ==
    \/ dataEnd < 0
    \/ hdr.dataOffset <= dataEnd /\ \A i \in 1 .. Len(table) : table[i].end <= dataEnd

LayoutInv == LayoutOK /\ (inited /\ lpc # "panic" => EndBehind)

\* While a Load that sized the table runs, the table has no more entries than the
\* source has delivered, and slots for as many as it was estimated to have.
EstimateInv ==
    lpc = "loading" /\ sized =>
        /\ Countable(src) => Estimate(src) <= hdr.hashCap
        /\ Type[src] = "map"  => Len(table) <= pos[src]
        /\ Type[src] = "file" => Len(table) * (2 * LenBytes) <= pos[src]

\* The position of a source before each of its items, and behind the last.
Begins(s) == [i \in 0 .. Len(Items[s]) |-> IF Type[s] = "file" THEN Starts[s][i + 1] ELSE i]

\* Next decodes source s: it delivers the items in their order, and then no more.
DecodesItems(s) ==
    /\ Items[s] \in Seq([key : Seq(Byte), value : Seq(Byte)])
    /\ Begins(s)[0] = 0
    /\ \A i \in 0 .. Len(Items[s]) - 1 :
          NextAt(s, Begins(s)[i]) = Got(Items[s][i + 1].key, Items[s][i + 1].value, Begins(s)[i + 1])
    /\ NextAt(s, Begins(s)[Len(Items[s])]).err # "none"

Decodes == \A s \in Sources : DecodesItems(s)

\* Every source is between two of its items.
BetweenItems == \A s \in Sources : \E i \in 0 .. Len(Items[s]) : pos[s] = Begins(s)[i]

\* The table holds what the first i items of s make it hold: each valid key, and
\* each entry is one of them, put after the keys of all valid items before it.
Holds(s, i) ==
    /\ \A m \in ValidItems(s) : m <= i => \E j \in 1 .. Len(table) : table[j].key = Items[s][m].key
    /\ \A j \in 1 .. Len(table) : \E m \in ValidItems(s) :
          /\ m <= i /\ table[j].key = Items[s][m].key /\ table[j].value = Items[s][m].value
          /\ \A l \in ValidItems(s) : l < m =>
                \E q \in 1 .. j - 1 : table[q].key = Items[s][l].key

ServedInv ==
    \A s \in Sources : sized /\ src = s =>
        /\ lpc = "loading" => \E i \in 0 .. Len(Items[s]) : pos[s] = Begins(s)[i] /\ Holds(s, i)
        /\ lpc = "idle" /\ result = "ok" /\ Countable(s) => Holds(s, Len(Items[s]))

------------------------------------------------------------------------------
(* Words                                                                     *)

\* Min is the least element of a set of naturals.
LEMMA MinLeast ==
    ASSUME NEW S, S \subseteq Nat, S # {}
    PROVE  Min(S) \in S /\ \A m \in S : Min(S) <= m
    BY LeastExists DEF Min

\* The range of a word is a power of two, and not 1.
LEMMA WordRange ==
    /\ U32 \in Nat /\ U32 >= 2 /\ U32 = 2 * (U32 \div 2)
    /\ U32 \div 2 = 2 ^ (WordBits - 1)
<1>1. WordBits - 1 \in Nat /\ (WordBits - 1) + 1 = WordBits
    BY SizeAssumption
<1>2. 2 ^ (WordBits - 1) \in Nat \ {0} /\ 2 ^ WordBits = 2 * 2 ^ (WordBits - 1)
    BY <1>1, PowerType, PowerDoubles
<1>. QED
    BY <1>2 DEF U32

\* uint32 gives a word, and a number that is one unchanged.
LEMMA Uint32Word ==
    ASSUME NEW n \in Int
    PROVE  uint32(n) \in 0 .. U32 - 1 /\ (n \in 0 .. U32 - 1 => uint32(n) = n)
    BY WordRange DEF uint32

\* int32 gives a signed word, leaves a small number unchanged, and takes one that
\* is too large by less than the range of a word to the negative ones.
LEMMA Int32Word ==
    ASSUME NEW n \in Int
    PROVE  /\ int32(n) \in Int32s
           /\ 0 <= n /\ n < U32 \div 2 => int32(n) = n
           /\ U32 \div 2 <= n /\ n < U32 => int32(n) < 0
<1>1. n % U32 \in 0 .. U32 - 1 /\ (n \in 0 .. U32 - 1 => n % U32 = n)
    BY WordRange
<1>. QED
    BY <1>1, WordRange DEF int32, Int32s
------------------------------------------------------------------------------
(* Sources                                                                   *)

\* Splitting a line gives two sequences of bytes.
LEMMA SplitType ==
    ASSUME NEW line \in Seq(Byte)
    PROVE  Split(line)[1] \in Seq(Byte) /\ Split(line)[2] \in Seq(Byte)
<1>. DEFINE I == {i \in 1 .. Len(line) : line[i] = Tab}
            t == SelectInSeq(line, LAMBDA c : c = Tab)
<1>1. CASE Contains(line, Tab)
  <2>1. I # {} /\ I \subseteq Nat
    BY <1>1 DEF Contains
  <2>2. t = Min(I)
    BY <2>1 DEF SelectInSeq
  <2>3. t \in 1 .. Len(line)
    BY <2>1, <2>2, MinLeast
  <2>. HIDE DEF t
  <2>4. SubSeq(line, 1, t - 1) \in Seq(Byte) /\ SubSeq(line, t + 1, Len(line)) \in Seq(Byte)
    BY <2>3
  <2>. QED
    BY <1>1, <2>4 DEF Split, t
<1>2. CASE ~Contains(line, Tab)
    BY <1>2 DEF Split
<1>. QED
    BY <1>1, <1>2

\* Next gives byte sequences and goes on: a map by an entry, a binary file by two
\* length words at least, a text file by a line, and none beyond its end.
LEMMA NextType ==
    ASSUME NEW s \in Sources, NEW p \in Nat, p <= Len(Contents[s]), NextAt(s, p).err = "none"
    PROVE  /\ NextAt(s, p).key \in Seq(Byte) /\ NextAt(s, p).value \in Seq(Byte)
           /\ NextAt(s, p).pos \in Nat /\ NextAt(s, p).pos <= Len(Contents[s])
           /\ Type[s] = "map" => NextAt(s, p).pos = p + 1
           /\ Type[s] = "file" => NextAt(s, p).pos >= p + 2 * LenBytes
<1>. USE SourcesAssumption DEF Got, EOF, Failed
<1>1. CASE Type[s] = "map"
  <2>1. NextAt(s, p) = NextMap(Contents[s], p)
    BY <1>1 DEF NextAt
  <2>2. p < Len(Contents[s]) /\ NextAt(s, p) = Got(Contents[s][p + 1].key, Contents[s][p + 1].value, p + 1)
    BY <1>1, <2>1 DEF NextMap
  <2>. DEFINE Pair == [key : Seq(Byte), value : Seq(Byte)]
  <2>3. Contents[s] \in Seq(Pair)
    BY <1>1
  <2>4. Contents[s][p + 1] \in Pair
    <3>. HIDE DEF Pair
    <3>. QED
        BY <2>2, <2>3
  <2>. QED
    BY <1>1, <2>2, <2>4
<1>2. CASE Type[s] = "file"
  <2>. DEFINE bytes == Contents[s]
              key   == p + LenBytes
              klen  == Word(bytes, p)
              val   == key + klen + LenBytes
              vlen  == Word(bytes, key + klen)
  <2>1. NextAt(s, p) = NextFile(bytes, p)
    BY <1>2 DEF NextAt
  <2>2. /\ bytes \in Seq(Byte) /\ Len(bytes) \in Nat /\ key \in Nat
        /\ \A q \in 0 .. Len(bytes) - LenBytes : Word(bytes, q) \in Nat
    BY <1>2
  <2>3. /\ ~(key > Len(bytes) \/ val > Len(bytes) \/ val + vlen > Len(bytes))
        /\ NextAt(s, p) = Got(SubSeq(bytes, key + 1, key + klen), SubSeq(bytes, val + 1, val + vlen), val + vlen)
    BY <2>1 DEF NextFile
  <2>4. klen \in Nat
    BY <2>2, <2>3
  <2>5. val \in Nat /\ key + klen \in 0 .. Len(bytes) - LenBytes
    BY <2>2, <2>3, <2>4
  <2>6. vlen \in Nat
    BY <2>2, <2>5
  <2>7. val + vlen \in Nat /\ val + vlen <= Len(bytes) /\ val + vlen >= p + 2 * LenBytes
    <3>1. vlen >= 0 /\ val = p + klen + 2 * LenBytes
        BY <2>4, <2>6
    <3>. HIDE DEF bytes, key, klen, val, vlen
    <3>. QED
        BY <2>2, <2>3, <2>4, <2>5, <2>6, <3>1
  <2>8. SubSeq(bytes, key + 1, key + klen) \in Seq(Byte) /\ SubSeq(bytes, val + 1, val + vlen) \in Seq(Byte)
    <3>. HIDE DEF bytes, key, klen, val, vlen
    <3>1. key + klen <= Len(bytes)
        BY <2>2, <2>4, <2>5
    <3>. QED
        BY <2>2, <2>4, <2>5, <2>6, <2>7, <3>1
  <2>. HIDE DEF key, klen, val, vlen
  <2>. QED
    BY <1>2, <2>3, <2>7, <2>8
<1>3. CASE Type[s] = "line"
  <2>1. NextAt(s, p) = NextLine(Contents[s], p)
    BY <1>3 DEF NextAt
  <2>2. p # Len(Contents[s]) /\ NextAt(s, p) = Got(Split(Contents[s][p + 1])[1], Split(Contents[s][p + 1])[2], p + 1)
    BY <2>1 DEF NextLine
  <2>3. Contents[s][p + 1] \in Seq(Byte)
    BY <1>3, <2>2
  <2>. QED
    BY <1>3, <2>2, <2>3, SplitType
<1>. QED
    BY <1>1, <1>2, <1>3
\* An estimate is a number, and that of a file counts two length words an entry.
LEMMA EstimateType == ASSUME NEW s \in Sources PROVE Estimate(s) \in Nat
<1>1. Len(Contents[s]) \in Nat
    BY SourcesAssumption
<1>2. 2 * LenBytes \in Nat \ {0}
    BY SourcesAssumption
<1>3. Len(Contents[s]) \div (2 * LenBytes) \in Nat
    BY <1>1, <1>2
<1>. QED
    BY <1>1, <1>3, SourcesAssumption DEF Estimate, EstimateFile

------------------------------------------------------------------------------
(* The layout                                                                *)

\* NextPow2 gives a word, and one that is not less than its argument if that is
\* at most half the range of a word.
LEMMA NextPow2Word ==
    ASSUME NEW v \in 0 .. U32 - 1
    PROVE  NextPow2(v) \in 0 .. U32 - 1 /\ (v <= U32 \div 2 => NextPow2(v) >= v)
<1>. DEFINE S == {n \in 0 .. WordBits : 2 ^ n >= v}
            Least(n) == 2 ^ n >= v /\ \A m \in 0 .. n - 1 : 2 ^ m < v
            c == CHOOSE n \in 0 .. WordBits : Least(n)
<1>0. v \in Nat /\ v < U32 /\ WordBits \in Nat /\ \A n \in 0 .. WordBits : 2 ^ n \in Nat
    BY WordRange, SizeAssumption, PowerType
<1>1. CASE v = 0
    BY <1>1, WordRange DEF NextPow2
<1>2. CASE v # 0
  <2>1. WordBits \in S /\ S \subseteq Nat
    BY <1>0 DEF U32
  <2>2. PICK n \in S : \A m \in S : n <= m
    BY <2>1, MinLeast
  <2>3. n \in 0 .. WordBits /\ Least(n)
    BY <1>0, <2>2
  <2>4. c \in 0 .. WordBits /\ Least(c)
    BY <2>3
  <2>5. NextPow2(v) = uint32(2 ^ c)
    BY <1>2 DEF NextPow2
  <2>. HIDE DEF c
  <2>6. 2 ^ c \in Nat /\ uint32(2 ^ c) \in 0 .. U32 - 1
    BY <1>0, <2>4, Uint32Word
  <2>7. ASSUME v <= U32 \div 2 PROVE 2 ^ c < U32
    <3>1. CASE c = 0
        BY <3>1, WordRange
    <3>2. CASE c # 0
      <4>1. c - 1 \in Nat /\ (c - 1) + 1 = c /\ c - 1 \in 0 .. c - 1
        BY <2>4, <3>2
      <4>2. 2 ^ c = 2 * 2 ^ (c - 1) /\ 2 ^ (c - 1) \in Nat
        BY <4>1, PowerDoubles, PowerType
      <4>3. 2 ^ (c - 1) < v
        BY <2>4, <4>1
      <4>. QED
        BY <1>0, <2>7, <4>2, <4>3, WordRange
    <3>. QED
        BY <3>1, <3>2
  <2>8. v <= U32 \div 2 => NextPow2(v) >= v
    <3>. SUFFICES ASSUME v <= U32 \div 2 PROVE NextPow2(v) >= v
        OBVIOUS
    <3>1. 2 ^ c \in 0 .. U32 - 1
        BY <2>6, <2>7, WordRange
    <3>2. uint32(2 ^ c) = 2 ^ c
        BY <2>6, <3>1, Uint32Word
    <3>. QED
        BY <2>4, <2>5, <3>2
  <2>. QED
    BY <2>5, <2>6, <2>8
<1>. QED
    BY <1>1, <1>2

\* Align gives a word; without overflow, the argument or up to n - 1 more.
LEMMA AlignWord ==
    ASSUME NEW v \in Nat, NEW n \in Nat \ {0}
    PROVE  Align(v, n) \in 0 .. U32 - 1 /\ (v + n - 1 < U32 => v <= Align(v, n))
<1>. DEFINE w == uint32(v + n - 1)
<1>1. w \in 0 .. U32 - 1 /\ (v + n - 1 < U32 => w = v + n - 1)
  <2>1. v + n - 1 \in Int /\ (v + n - 1 < U32 => v + n - 1 \in 0 .. U32 - 1)
    BY WordRange
  <2>. QED
    BY <2>1, Uint32Word
<1>. HIDE DEF w
<1>2. w \in Nat /\ w % n \in 0 .. n - 1 /\ w - (w % n) >= 0
    BY <1>1, WordRange
<1>3. Align(v, n) = w - (w % n)
    BY DEF Align, w
<1>. QED
    BY <1>1, <1>2, <1>3, WordRange

\* Init computes words.
LEMMA LayoutWords ==
    ASSUME NEW e \in Nat
    PROVE  HashCap(e) \in 0 .. U32 - 1 /\ DataOffset(e) \in 0 .. U32 - 1
<1>. USE SizeAssumption
<1>1. uint32(e) \in Nat /\ uint32(2 * uint32(e)) \in 0 .. U32 - 1
  <2>1. uint32(e) \in Nat
    BY Uint32Word, WordRange
  <2>. QED
    BY <2>1, Uint32Word
<1>2. HashCap(e) \in 0 .. U32 - 1
    BY <1>1, NextPow2Word DEF HashCap
<1>3. HashCap(e) * SlotSize \in Nat
    BY <1>2
<1>4. uint32(HashCap(e) * SlotSize) \in Nat
    BY <1>3, Uint32Word, WordRange
<1>5. uint32(HeaderSize + uint32(HashCap(e) * SlotSize)) \in Nat
  <2>1. HeaderSize + uint32(HashCap(e) * SlotSize) \in Int
    BY <1>4
  <2>. QED
    BY <2>1, Uint32Word, WordRange
<1>6. DataOffset(e) \in 0 .. U32 - 1
    BY <1>5, AlignWord DEF DataOffset
<1>. QED
    BY <1>2, <1>6

\* In an addressable segment the slots of a table that Init does not refuse end before the
\* data region begins: none of the products and sums of Init overflows.
LEMMA LayoutFits ==
    ASSUME Addressable, NEW e \in Nat, ~TooSmall(e), ~TableTooLong(e)
    PROVE  HeaderSize + HashCap(e) * SlotSize <= DataOffset(e) /\ DataOffset(e) < SegSize
<1>. USE SizeAssumption, WordRange
<1>. DEFINE n == HashCap(e) * SlotSize
<1>1. HashCap(e) \in Nat /\ DataOffset(e) \in Nat
    BY LayoutWords
<1>2. n \in Nat
    BY <1>1
<1>3. HeaderSize + n <= SegSize /\ SegSize < U32 /\ (HeaderSize + n) + AlignTo - 1 < U32
    BY <1>1, <1>2 DEF TableTooLong, Addressable
<1>. HIDE DEF n
<1>4. uint32(n) = n
    BY <1>2, <1>3, Uint32Word
<1>5. uint32(HeaderSize + n) = HeaderSize + n
    BY <1>2, <1>3, Uint32Word
<1>6. DataOffset(e) = Align(HeaderSize + n, AlignTo)
    BY <1>4, <1>5 DEF DataOffset, n
<1>7. HeaderSize + n <= Align(HeaderSize + n, AlignTo)
    BY <1>2, <1>3, AlignWord
<1>. QED
    BY <1>1, <1>6, <1>7 DEF TooSmall, n
------------------------------------------------------------------------------
(* Types                                                                     *)

\* The chunk of a delivered entry, of byte sequences, has a size; Next goes on.
LEMMA EntryType ==
    ASSUME TypeOK, NextOf(src).err = "none"
    PROVE  /\ Entry.key \in Seq(Byte) /\ Entry.value \in Seq(Byte) /\ ChunkSize \in Nat
           /\ NextOf(src).pos \in Nat /\ NextOf(src).pos <= Len(Contents[src])
           /\ Type[src] = "map" => NextOf(src).pos = pos[src] + 1
           /\ Type[src] = "file" => NextOf(src).pos >= pos[src] + 2 * LenBytes
<1>1. src \in Sources /\ pos[src] \in Nat /\ pos[src] <= Len(Contents[src])
    BY DEF TypeOK
<1>2. /\ Entry.key \in Seq(Byte) /\ Entry.value \in Seq(Byte)
      /\ NextOf(src).pos \in Nat /\ NextOf(src).pos <= Len(Contents[src])
      /\ Type[src] = "map" => NextOf(src).pos = pos[src] + 1
      /\ Type[src] = "file" => NextOf(src).pos >= pos[src] + 2 * LenBytes
    BY <1>1, NextType DEF NextOf, Entry
<1>3. Len(Entry.key) \in Nat /\ Len(Entry.value) \in Nat /\ LenBytes \in Nat
    BY <1>2, SourcesAssumption
<1>4. ChunkSize \in Nat
  <2>. DEFINE k == Len(Entry.key)
              v == Len(Entry.value)
  <2>1. ChunkSize = LenBytes + k + v
    BY DEF ChunkSize
  <2>. HIDE DEF k, v
  <2>2. k \in Nat /\ v \in Nat
    BY <1>3 DEF k, v
  <2>3. LenBytes + k + v \in Nat
    BY <1>3, <2>2
  <2>. QED
    BY <2>1, <2>3
<1>. QED
    BY <1>2, <1>4

\* Before the first Init and Load every variable has its type.
LEMMA TypeInit == Init => TypeInv
<1>. SUFFICES ASSUME Init PROVE TypeInv
    OBVIOUS
<1>1. \A s \in Sources : Len(Contents[s]) \in Nat
    BY SourcesAssumption
<1>2. hdr \in Headers
    BY WordRange DEF Init, Headers, Uint32s
<1>3. dataEnd \in Int32s /\ table \in Seq(Chunks)
    BY WordRange DEF Init, Int32s
<1>4. calls \in 0 .. MaxCalls
    BY SizeAssumption DEF Init
<1>b. sized \in BOOLEAN /\ inited \in BOOLEAN
    BY DEF Init
<1>5. pos \in [Sources -> Nat] /\ \A s \in Sources : pos[s] <= Len(Contents[s])
    BY <1>1 DEF Init
<1>6. FreshInv
    BY DEF Init, FreshInv
<1>. QED
    BY <1>2, <1>3, <1>4, <1>b, <1>5, <1>6 DEF Init, TypeInv, TypeOK

\* Init leaves words in the header, and an empty table.
LEMMA InitLayoutType ==
    ASSUME TypeOK, NEW e \in Nat, NEW next, InitLayout(e, next)
    PROVE  /\ hdr' \in Headers
           /\ table' = <<>>
           /\ dataEnd' \in Int32s
           /\ \/ TableTooLong(e) /\ lpc' = "panic" /\ inited' = inited
              \/ ~TableTooLong(e) /\ lpc' = next /\ inited' = TRUE /\ dataEnd' = int32(DataOffset(e))
           /\ hdr'.hashCap = HashCap(e) /\ hdr'.dataOffset = DataOffset(e)
<1>1. HashCap(e) \in 0 .. U32 - 1 /\ DataOffset(e) \in 0 .. U32 - 1
    BY LayoutWords
<1>2. int32(DataOffset(e)) \in Int32s
    BY <1>1, Int32Word, WordRange
<1>3. hdr' = [hashCap |-> HashCap(e), dataOffset |-> DataOffset(e), dataEnd |-> DataOffset(e), gen |-> 0]
    BY DEF InitLayout
<1>4. hdr' \in Headers
    BY <1>1, <1>3 DEF Headers, Uint32s
<1>. QED
    BY <1>2, <1>3, <1>4 DEF InitLayout, TypeOK

\* Every step of Init and Load preserves the types.
LEMMA TypeNext == TypeInv /\ [Next]_loaderVars => TypeInv'
<1>. SUFFICES ASSUME TypeInv, [Next]_loaderVars PROVE TypeInv'
    OBVIOUS
<1>. USE SizeAssumption DEF TypeInv
<1>0. TypeOK /\ FreshInv
    OBVIOUS
<1>1. ASSUME NEW n \in InitSizes, InitCall(n) PROVE TypeInv'
  <2>0. n \in Nat
    OBVIOUS
  <2>a. calls' \in 0 .. MaxCalls
    BY <1>1 DEF InitCall, TypeOK
  <2>b. sized' \in BOOLEAN
    BY <1>1 DEF InitCall
  <2>1. CASE UNCHANGED <<hdr, table, inited, dataEnd, lpc>> /\ result' = "error"
    <3>1. TypeOK'
        BY <1>1, <2>a, <2>b, <2>1 DEF InitCall, TypeOK
    <3>2. FreshInv'
        BY <1>1, <2>1 DEF InitCall, FreshInv
    <3>. QED
        BY <3>1, <3>2
  <2>2. CASE InitLayout(n, "idle") /\ result' = "ok"
    <3>1. /\ hdr' \in Headers /\ table' = <<>> /\ dataEnd' \in Int32s
          /\ (lpc' = "panic" /\ inited' = inited) \/ (lpc' = "idle" /\ inited' = TRUE)
        BY <2>0, <2>2, InitLayoutType
    <3>b. inited' \in BOOLEAN
        BY <3>1 DEF TypeOK
    <3>2. table' \in Seq(Chunks)
        BY <3>1
    <3>3. TypeOK'
        BY <1>1, <2>a, <2>b, <2>2, <3>1, <3>b, <3>2 DEF InitCall, TypeOK
    <3>4. FreshInv'
        BY <1>1, <3>1 DEF InitCall, FreshInv
    <3>. QED
        BY <3>3, <3>4
  <2>. QED
    BY <1>1, <2>1, <2>2 DEF InitCall
<1>2. ASSUME NEW s \in Sources, LoadOpenFails(s) PROVE TypeInv'
  <2>0. sized' \in BOOLEAN /\ inited' \in BOOLEAN
    BY <1>2 DEF LoadOpenFails, TypeOK
  <2>1. TypeOK'
    BY <1>2, <2>0 DEF LoadOpenFails, TypeOK
  <2>2. FreshInv'
    BY <1>2 DEF LoadOpenFails, FreshInv
  <2>. QED
    BY <2>1, <2>2
<1>3. ASSUME NEW s \in Sources, LoadOpen(s) PROVE TypeInv'
  <2>1. pos' \in [Sources -> Nat] /\ \A q \in Sources : pos'[q] <= Len(Contents[q]) /\ pos'[q] \in {0, pos[q]}
    <3>1. \A q \in Sources : Len(Contents[q]) \in Nat
        BY SourcesAssumption
    <3>. QED
        BY <1>3, <3>1 DEF LoadOpen, Rewound, TypeOK
  <2>a. calls' \in 0 .. MaxCalls
    BY <1>3 DEF LoadOpen, TypeOK
  <2>b. sized' \in BOOLEAN
    BY <1>3 DEF LoadOpen, NeedsInit, TypeOK
  <2>2. CASE UNCHANGED <<hdr, table, inited, dataEnd>> /\ (inited \/ lpc' = lpc) /\ lpc' \in {lpc, "loading"}
             /\ result' \in {result, "error"}
    <3>1. TypeOK'
        BY <1>3, <2>a, <2>b, <2>1, <2>2 DEF LoadOpen, TypeOK
    <3>2. FreshInv'
        BY <2>1, <2>2 DEF FreshInv
    <3>. QED
        BY <3>1, <3>2
  <2>3. CASE InitLayout(Estimate(s), "loading") /\ result' = result
    <3>1. /\ hdr' \in Headers /\ table' = <<>> /\ dataEnd' \in Int32s
          /\ (lpc' = "panic" /\ inited' = inited) \/ (lpc' = "loading" /\ inited' = TRUE)
        BY <2>3, EstimateType, InitLayoutType
    <3>b. inited' \in BOOLEAN
        BY <3>1 DEF TypeOK
    <3>2. table' \in Seq(Chunks)
        BY <3>1
    <3>3. TypeOK'
        BY <1>3, <2>a, <2>b, <2>1, <2>3, <3>1, <3>b, <3>2 DEF LoadOpen, TypeOK
    <3>4. FreshInv'
        BY <2>1, <3>1 DEF FreshInv
    <3>. QED
        BY <3>3, <3>4
  <2>. QED
    BY <1>3, <2>2, <2>3 DEF LoadOpen, NeedsInit
<1>4. CASE LoadEOF \/ LoadBroken
  <2>1. hdr' \in Headers
    <3>1. hdr \in Headers
        BY DEF TypeOK
    <3>2. [hdr EXCEPT !.gen = @ + 1] \in Headers
        BY <3>1 DEF Headers
    <3>. QED
        BY <1>4, <3>1, <3>2 DEF LoadEOF, LoadBroken
  <2>2. TypeOK'
    BY <1>4, <2>1 DEF LoadEOF, LoadBroken, LoadReturns, TypeOK
  <2>3. FreshInv'
    BY <1>4 DEF LoadEOF, LoadBroken, LoadReturns, FreshInv
  <2>. QED
    BY <2>2, <2>3
<1>5. CASE LoadSkip
  <2>1. pos' \in [Sources -> Nat] /\ \A q \in Sources : pos'[q] <= Len(Contents[q])
    BY <1>0, <1>5, EntryType DEF LoadSkip, Delivered, TypeOK
  <2>2. TypeOK'
    BY <1>5, <2>1 DEF LoadSkip, TypeOK
  <2>3. FreshInv'
    BY <1>5 DEF LoadSkip, Delivered, FreshInv
  <2>. QED
    BY <2>2, <2>3
<1>6. CASE PutBegin /\ (PutDataFull \/ PutPanics \/ PutHashFull \/ PutInserts)
  <2>0. NextOf(src).err = "none" /\ inited
    BY <1>6 DEF PutBegin, Delivered, FreshInv, TypeOK
  <2>1. pos' \in [Sources -> Nat] /\ \A q \in Sources : pos'[q] <= Len(Contents[q])
    BY <1>0, <1>6, <2>0, EntryType DEF PutBegin, Delivered, TypeOK
  <2>2. dataEnd \in Int /\ ChunkSize \in Nat /\ dataEnd' \in Int32s
    <3>1. dataEnd \in Int /\ ChunkSize \in Nat
        BY <1>0, <2>0, EntryType, WordRange DEF TypeOK, Int32s
    <3>. QED
        BY <1>6, <3>1, Int32Word DEF PutBegin
  <2>3. table' \in Seq(Chunks)
    <3>1. CASE table' = table
        BY <3>1 DEF TypeOK
    <3>2. CASE PutInserts
      <4>. DEFINE e == [key |-> Entry.key, value |-> Entry.value, off |-> dataEnd, end |-> dataEnd + ChunkSize]
      <4>1. e \in Chunks
        BY <1>0, <2>0, <2>2, <3>2, EntryType DEF PutInserts, Chunks
      <4>2. table \in Seq(Chunks) /\ table' = Append(table, e)
        BY <3>2 DEF PutInserts, TypeOK
      <4>. HIDE DEF e
      <4>. QED
        BY <4>1, <4>2
    <3>. QED
        BY <1>6, <3>1, <3>2 DEF PutDataFull, PutPanics, PutHashFull
  <2>4. hdr' \in Headers
    BY <1>6 DEF PutDataFull, PutPanics, PutHashFull, PutInserts, Headers, TypeOK
  <2>5. count' \in Nat /\ lpc' \in {"idle", "loading", "panic"} /\ result' \in {"none", "ok", "error"}
    BY <1>6 DEF PutDataFull, PutPanics, PutHashFull, PutInserts, LoadReturns, TypeOK
  <2>6. inited' = inited /\ src' = src /\ sized' = sized /\ calls' = calls
    BY <1>6 DEF PutBegin
  <2>7. TypeOK'
    BY <2>1, <2>2, <2>3, <2>4, <2>5, <2>6 DEF TypeOK
  <2>. QED
    BY <2>0, <2>6, <2>7 DEF FreshInv
<1>7. CASE UNCHANGED loaderVars
  <2>1. TypeOK'
    BY <1>7 DEF loaderVars, TypeOK
  <2>2. FreshInv'
    BY <1>7 DEF loaderVars, FreshInv
  <2>. QED
    BY <2>1, <2>2
<1>. QED
    BY <1>1, <1>2, <1>3, <1>4, <1>5, <1>6, <1>7
    DEF Next, PutDataFull, PutPanics, PutHashFull, PutInserts

\* Whatever Init and Load do, every variable keeps its type; and before the first
\* Init nothing has been read or put.
LEMMA TypeInvariant == Spec => []TypeInv
    BY TypeInit, TypeNext, PTL DEF Spec

\* TypeOK: dataEnd stays an int32 and the words of the header uint32, whatever
\* number of entries Init is called with and whatever the sources hold.
THEOREM TypeCorrect == Spec => []TypeOK
<1>1. TypeInv => TypeOK
    BY DEF TypeInv
<1>. QED
    BY <1>1, TypeInvariant, PTL

------------------------------------------------------------------------------
(* Header, slots and chunks                                                  *)

\* What put makes of dataEnd in an addressable segment, unless it panics: dataEnd
\* advances by the chunk, or it wraps.
LEMMA EndAdvances ==
    ASSUME Addressable, TypeInv, PutBegin, ~Fits \/ dataEnd >= 0
    PROVE  /\ ChunkSize \in Nat /\ dataEnd \in Int /\ dataEnd' \in Int
           /\ dataEnd' < 0 \/ dataEnd' = dataEnd + ChunkSize
<1>1. TypeOK /\ NextOf(src).err = "none" /\ dataEnd' = int32(dataEnd + ChunkSize)
    BY DEF TypeInv, PutBegin, Delivered
<1>2. ChunkSize \in Nat /\ dataEnd \in Int /\ dataEnd < U32 \div 2
    BY <1>1, EntryType, WordRange DEF TypeOK, Int32s
<1>3. ChunkSize <= U32 \div 2
  <2>1. src \in Sources /\ pos[src] \in 0 .. Len(Contents[src])
    BY <1>1, SourcesAssumption DEF TypeOK
  <2>. QED
    BY <1>1, <2>1 DEF Addressable, NextOf, ChunkSize, Entry
<1>4. dataEnd + ChunkSize \in Int /\ dataEnd + ChunkSize >= 0 /\ dataEnd + ChunkSize < U32
    BY <1>2, <1>3, WordRange, SizeAssumption DEF Fits
<1>5. dataEnd' \in Int
    BY <1>1, <1>4, Int32Word, WordRange DEF Int32s
<1>. QED
    BY <1>1, <1>2, <1>4, <1>5, Int32Word, WordRange

\* A step that leaves the table and the words of the layout, and moves dataEnd
\* only to a place that is behind all chunks, preserves the layout.
LEMMA LayoutKept ==
    ASSUME LayoutInv, inited' = inited, lpc # "panic", table' = table,
           hdr'.hashCap = hdr.hashCap, hdr'.dataOffset = hdr.dataOffset,
           inited => dataEnd' = dataEnd \/ EndBehind'
    PROVE  LayoutInv'
    BY DEF LayoutInv, LayoutOK, EndBehind

\* Init lays the segment out anew.
LEMMA LayoutMade ==
    ASSUME Addressable, TypeInv, NEW e \in Nat, NEW next, ~TooSmall(e), InitLayout(e, next),
           ~inited \/ lpc # "panic"
    PROVE  LayoutInv'
<1>1. CASE lpc' = "panic"
    BY <1>1 DEF LayoutInv, LayoutOK
<1>2. CASE lpc' # "panic"
  <2>1. /\ table' = <<>> /\ ~TableTooLong(e) /\ dataEnd' = int32(DataOffset(e))
        /\ hdr'.hashCap = HashCap(e) /\ hdr'.dataOffset = DataOffset(e)
    BY <1>2, InitLayoutType DEF TypeInv
  <2>2. HeaderSize + HashCap(e) * SlotSize <= DataOffset(e) /\ DataOffset(e) < SegSize
    BY <2>1, LayoutFits
  <2>3. DataOffset(e) \in Nat /\ DataOffset(e) < U32 \div 2
    BY <2>2, LayoutWords, WordRange, SizeAssumption DEF Addressable
  <2>4. dataEnd' = DataOffset(e)
    BY <2>1, <2>3, Int32Word
  <2>. QED
    BY <2>1, <2>2, <2>3, <2>4, SizeAssumption DEF LayoutInv, LayoutOK, EndBehind
<1>. QED
    BY <1>1, <1>2

\* put's chunk begins behind the ones before it, and ends within the segment.
LEMMA LayoutPut ==
    ASSUME Addressable, TypeInv, LayoutInv, PutInserts
    PROVE  LayoutInv'
<1>. DEFINE e == [key |-> Entry.key, value |-> Entry.value, off |-> dataEnd, end |-> dataEnd + ChunkSize]
            n == Len(table)
<1>1. /\ PutBegin /\ Fits /\ dataEnd >= 0 /\ table' = Append(table, e)
      /\ hdr' = hdr /\ lpc' = lpc /\ inited' = inited /\ inited /\ lpc # "panic"
    BY DEF PutInserts, PutBegin, Delivered, TypeInv, FreshInv
<1>2. ChunkSize \in Nat /\ dataEnd \in Int /\ dataEnd' \in Int /\ (dataEnd' < 0 \/ dataEnd' = dataEnd + ChunkSize)
    BY <1>1, EndAdvances
<1>3. e.off = dataEnd /\ e.end = dataEnd + ChunkSize
    OBVIOUS
<1>4. e.end \in Int /\ e.off <= e.end /\ e.end <= SegSize
    BY <1>1, <1>2 DEF Fits
<1>5. hdr.dataOffset <= dataEnd /\ \A i \in 1 .. n : table[i].end <= dataEnd
    BY <1>1, <1>2 DEF LayoutInv, EndBehind
<1>6. /\ n \in Nat /\ table \in Seq(Chunks) /\ hdr.dataOffset \in Nat
      /\ \A i \in 1 .. n : table[i].off \in Nat /\ table[i].end \in Nat
  <2>1. table \in Seq(Chunks) /\ hdr.dataOffset \in Nat
    BY WordRange DEF TypeInv, TypeOK, Headers, Uint32s
  <2>2. \A i \in 1 .. n : table[i] \in Chunks
    BY <2>1
  <2>. QED
    BY <2>1, <2>2 DEF Chunks
<1>. HIDE DEF e
<1>7. Len(table') = n + 1 /\ table'[n + 1] = e /\ \A i \in 1 .. n : table'[i] = table[i]
    BY <1>1, <1>6
<1>. HIDE DEF n
<1>8. \A i \in 1 .. n + 1 : i \in 1 .. n \/ i = n + 1
    BY <1>6
<1>9. LayoutOK
    BY DEF LayoutInv
<1>10. /\ HeaderSize + hdr.hashCap * SlotSize <= hdr.dataOffset
       /\ hdr.dataOffset <= SegSize
       /\ \A i \in 1 .. n : hdr.dataOffset <= table[i].off /\ table[i].end <= SegSize
       /\ \A i, j \in 1 .. n : i < j => table[i].end <= table[j].off
    BY <1>1, <1>9 DEF LayoutOK, n
<1>11. \A i \in 1 .. n + 1 : hdr.dataOffset <= table'[i].off /\ table'[i].end <= SegSize
    BY <1>3, <1>4, <1>5, <1>7, <1>8, <1>10
<1>12. \A i, j \in 1 .. n + 1 : i < j => table'[i].end <= table'[j].off
  <2>. TAKE i, j \in 1 .. n + 1
  <2>. HAVE i < j
  <2>1. i \in 1 .. n
    BY <1>6
  <2>. QED
    BY <1>3, <1>5, <1>7, <1>8, <1>10, <2>1
<1>13. LayoutOK'
    BY <1>1, <1>7, <1>10, <1>11, <1>12 DEF LayoutOK
<1>14. dataEnd' >= 0 => \A i \in 1 .. n + 1 : table'[i].end <= dataEnd'
  <2>. SUFFICES ASSUME dataEnd' >= 0, NEW i \in 1 .. n + 1 PROVE table'[i].end <= dataEnd'
    OBVIOUS
  <2>1. dataEnd' = e.end
    BY <1>2, <1>3
  <2>. QED
    BY <1>2, <1>3, <1>4, <1>5, <1>6, <1>7, <1>8, <2>1
<1>15. EndBehind'
    BY <1>1, <1>2, <1>5, <1>6, <1>7, <1>14 DEF EndBehind
<1>. QED
    BY <1>13, <1>15 DEF LayoutInv

\* Every step of Init and Load preserves the layout.
LEMMA LayoutNext ==
    ASSUME Addressable, TypeInv, LayoutInv, [Next]_loaderVars
    PROVE  LayoutInv'
<1>1. ASSUME NEW n \in InitSizes, InitCall(n) PROVE LayoutInv'
  <2>1. n \in Nat /\ lpc # "panic"
    BY <1>1, SizeAssumption DEF InitCall
  <2>2. CASE UNCHANGED <<hdr, table, inited, dataEnd, lpc>>
    BY <2>1, <2>2, LayoutKept
  <2>3. CASE ~TooSmall(n) /\ InitLayout(n, "idle")
    BY <2>1, <2>3, LayoutMade
  <2>. QED
    BY <1>1, <2>2, <2>3 DEF InitCall
<1>2. ASSUME NEW s \in Sources, LoadOpenFails(s) PROVE LayoutInv'
    BY <1>2, LayoutKept DEF LoadOpenFails
<1>3. ASSUME NEW s \in Sources, LoadOpen(s) PROVE LayoutInv'
  <2>1. lpc # "panic"
    BY <1>3 DEF LoadOpen
  <2>2. CASE UNCHANGED <<hdr, table, inited, dataEnd>>
    BY <2>1, <2>2, LayoutKept
  <2>3. CASE ~TooSmall(Estimate(s)) /\ InitLayout(Estimate(s), "loading")
    BY <2>1, <2>3, EstimateType, LayoutMade
  <2>. QED
    BY <1>3, <2>2, <2>3 DEF LoadOpen
<1>4. CASE LoadEOF \/ LoadBroken \/ LoadSkip
  <2>1. /\ lpc # "panic" /\ UNCHANGED <<table, inited, dataEnd>>
        /\ hdr' = hdr \/ hdr' = [hdr EXCEPT !.gen = @ + 1]
    BY <1>4 DEF LoadEOF, LoadBroken, LoadSkip, Delivered
  <2>2. hdr'.hashCap = hdr.hashCap /\ hdr'.dataOffset = hdr.dataOffset
    BY <2>1 DEF TypeInv, TypeOK, Headers
  <2>. QED
    BY <2>1, <2>2, LayoutKept
<1>5. CASE PutDataFull \/ PutHashFull
  <2>1. /\ PutBegin /\ lpc # "panic" /\ UNCHANGED <<table, inited>> /\ inited /\ lpc' # "panic"
        /\ hdr' = hdr \/ hdr' = [hdr EXCEPT !.gen = @ + 1]
        /\ ~Fits \/ (Fits /\ dataEnd >= 0)
    BY <1>5 DEF PutDataFull, PutHashFull, PutBegin, Delivered, LoadReturns, TypeInv, FreshInv
  <2>2. hdr'.hashCap = hdr.hashCap /\ hdr'.dataOffset = hdr.dataOffset /\ hdr.dataOffset \in Nat
    BY <2>1, WordRange DEF TypeInv, TypeOK, Headers, Uint32s
  <2>3. ChunkSize \in Nat /\ dataEnd \in Int /\ (dataEnd' < 0 \/ dataEnd' = dataEnd + ChunkSize)
    BY <2>1, EndAdvances
  <2>4. \A i \in 1 .. Len(table) : table[i].end \in Nat
    <3>1. \A i \in 1 .. Len(table) : table[i] \in Chunks
        BY DEF TypeInv, TypeOK
    <3>. QED
        BY <3>1 DEF Chunks
  <2>5. /\ hdr.dataOffset <= SegSize /\ \A i \in 1 .. Len(table) : table[i].end <= SegSize
        /\ EndBehind
    BY <2>1 DEF LayoutInv, LayoutOK
  <2>6. EndBehind'
    <3>1. CASE dataEnd' < 0
        BY <3>1 DEF EndBehind
    <3>2. CASE dataEnd' = dataEnd + ChunkSize /\ ~Fits
      <4>1. SegSize < dataEnd' /\ dataEnd' \in Int
        BY <2>3, <3>2, SizeAssumption DEF Fits
      <4>. QED
        BY <2>1, <2>2, <2>4, <2>5, <4>1, SizeAssumption DEF EndBehind
    <3>3. CASE dataEnd' = dataEnd + ChunkSize /\ dataEnd >= 0
      <4>1. dataEnd <= dataEnd' /\ dataEnd' \in Int
        BY <2>3, <3>3
      <4>2. hdr.dataOffset <= dataEnd /\ \A i \in 1 .. Len(table) : table[i].end <= dataEnd
        BY <2>3, <2>5, <3>3 DEF EndBehind
      <4>. QED
        BY <2>1, <2>2, <2>3, <2>4, <4>1, <4>2 DEF EndBehind
    <3>. QED
        BY <2>1, <2>3, <3>1, <3>2, <3>3
  <2>. QED
    BY <2>1, <2>2, <2>6, LayoutKept
<1>6. CASE PutPanics
    BY <1>6 DEF PutPanics, LayoutInv, LayoutOK
<1>7. CASE PutInserts
    BY <1>7, LayoutPut
<1>8. CASE UNCHANGED loaderVars
    BY <1>8 DEF loaderVars, LayoutInv, LayoutOK, EndBehind
<1>. QED
    BY <1>1, <1>2, <1>3, <1>4, <1>5, <1>6, <1>7, <1>8 DEF Next

\* LayoutOK: in a segment whose bytes an int32 counts, Init's size check and put's
\* bound check keep header, slots and all chunks apart and within the segment,
\* also after an entry that did not fit has left dataEnd advanced.
THEOREM LayoutCorrect ==
    ASSUME Addressable
    PROVE  Spec => []LayoutOK
<1>1. Init => LayoutInv
    BY DEF Init, LayoutInv, LayoutOK
<1>2. TypeInv /\ LayoutInv /\ [Next]_loaderVars => LayoutInv'
    BY LayoutNext
<1>3. LayoutInv => LayoutOK
    BY DEF LayoutInv
<1>. QED
    BY <1>1, <1>2, <1>3, TypeInvariant, PTL DEF Spec

------------------------------------------------------------------------------
(* A Load after another                                                      *)

\* LoadAppends: a Load, also one that fails, goes on behind what is in the table.
\* It clears the table only when it calls Init itself, and then it was empty.
THEOREM LoadKeeps == Spec => LoadAppends
<1>. DEFINE Keeps == lpc = "loading" \/ lpc' = "loading" => IsPrefix(table, table')
<1>1. ASSUME table \in Seq(Chunks), table' = table PROVE IsPrefix(table, table')
    BY <1>1 DEF IsPrefix
<1>2. TypeInv /\ [Next]_loaderVars => [Keeps]_loaderVars
  <2>. SUFFICES ASSUME TypeInv, [Next]_loaderVars, lpc = "loading" \/ lpc' = "loading"
                PROVE  IsPrefix(table, table')
    OBVIOUS
  <2>0. table \in Seq(Chunks)
    BY DEF TypeInv, TypeOK
  <2>1. ASSUME NEW n \in InitSizes, InitCall(n) PROVE FALSE
    BY <2>1 DEF InitCall, InitLayout
  <2>2. ASSUME NEW s \in Sources, LoadOpenFails(s) PROVE FALSE
    BY <2>2 DEF LoadOpenFails
  <2>3. ASSUME NEW s \in Sources, LoadOpen(s) PROVE table' = table
    BY <2>3 DEF LoadOpen, NeedsInit, InitLayout, TypeInv, FreshInv
  <2>4. CASE LoadEOF \/ LoadBroken \/ LoadSkip \/ PutDataFull \/ PutPanics \/ PutHashFull \/ UNCHANGED loaderVars
    <3>1. table' = table
        BY <2>4 DEF LoadEOF, LoadBroken, LoadSkip, PutDataFull, PutPanics, PutHashFull, loaderVars
    <3>. QED
        BY <1>1, <2>0, <3>1
  <2>5. CASE PutInserts
    <3>. DEFINE e == [key |-> Entry.key, value |-> Entry.value, off |-> dataEnd, end |-> dataEnd + ChunkSize]
    <3>1. table' = Append(table, e)
        BY <2>5 DEF PutInserts
    <3>. HIDE DEF e
    <3>. QED
        BY <2>0, <3>1 DEF IsPrefix
  <2>. QED
    BY <1>1, <2>0, <2>1, <2>2, <2>3, <2>4, <2>5 DEF Next
<1>. QED
    BY <1>2, TypeInvariant, PTL DEF Spec, LoadAppends

------------------------------------------------------------------------------
(* The estimate                                                              *)

\* The slots that Init makes for an estimate are enough for as many entries.
LEMMA HashCapSuffices ==
    ASSUME NEW s \in Sources, Countable(s)
    PROVE  Estimate(s) <= HashCap(Estimate(s))
<1>. DEFINE e == Estimate(s)
<1>1. e \in Nat /\ e <= U32 \div 4
    BY EstimateType DEF Countable
<1>. HIDE DEF e
<1>2. 2 * e <= U32 \div 2 /\ e \in 0 .. U32 - 1 /\ 2 * e \in 0 .. U32 - 1
    BY <1>1, WordRange
<1>3. uint32(e) = e /\ uint32(2 * e) = 2 * e
    BY <1>2, Uint32Word
<1>4. NextPow2(2 * e) >= 2 * e /\ NextPow2(2 * e) \in Nat
    BY <1>2, NextPow2Word, WordRange
<1>5. HashCap(e) = NextPow2(2 * e)
    BY <1>3 DEF HashCap
<1>. QED
    BY <1>1, <1>4, <1>5 DEF e

\* Every step of Init and Load preserves EstimateInv.
LEMMA EstimateNext ==
    ASSUME TypeInv, EstimateInv, [Next]_loaderVars
    PROVE  EstimateInv'
<1>. USE DEF EstimateInv
<1>0. TypeOK /\ table \in Seq(Chunks) /\ Len(table) \in Nat /\ src \in Sources /\ pos[src] \in Nat
      /\ LenBytes \in Nat
    BY SourcesAssumption DEF TypeInv, TypeOK
<1>1. ASSUME NEW n \in InitSizes, InitCall(n) PROVE EstimateInv'
    BY <1>1 DEF InitCall
<1>2. ASSUME NEW s \in Sources, LoadOpenFails(s) PROVE EstimateInv'
    BY <1>2 DEF LoadOpenFails
<1>3. ASSUME NEW s \in Sources, LoadOpen(s) PROVE EstimateInv'
  <2>. SUFFICES ASSUME lpc' = "loading", sized' PROVE EstimateInv'
    OBVIOUS
  <2>1. InitLayout(Estimate(s), "loading") /\ src' = s
    BY <1>3 DEF LoadOpen, NeedsInit
  <2>2. Len(table') = 0 /\ hdr'.hashCap = HashCap(Estimate(s))
    <3>1. table' = <<>> /\ hdr'.hashCap = HashCap(Estimate(s))
        BY <1>0, <2>1, EstimateType, InitLayoutType
    <3>. QED
        BY <3>1
  <2>3. pos'[s] \in Nat
    BY <1>3 DEF LoadOpen, Rewound, TypeInv, TypeOK
  <2>4. Countable(s) => Estimate(s) <= hdr'.hashCap
    BY <2>2, HashCapSuffices
  <2>5. Len(table') <= pos'[s] /\ Len(table') * (2 * LenBytes) <= pos'[s]
    BY <1>0, <2>2, <2>3
  <2>6. Estimate(src)' = Estimate(s) /\ Countable(src)' = Countable(s)
    BY <2>1 DEF Countable, Estimate, EstimateFile
  <2>. QED
    BY <2>1, <2>4, <2>5, <2>6
<1>4. CASE LoadEOF \/ LoadBroken \/ PutDataFull \/ PutPanics \/ PutHashFull
    BY <1>4 DEF LoadEOF, LoadBroken, PutDataFull, PutPanics, PutHashFull, LoadReturns
<1>5. CASE LoadSkip \/ PutInserts
  <2>. SUFFICES ASSUME sized PROVE EstimateInv'
    BY <1>5 DEF LoadSkip, PutInserts, PutBegin
  <2>1. /\ Delivered /\ lpc = "loading" /\ NextOf(src).err = "none"
        /\ pos' = [pos EXCEPT ![src] = NextOf(src).pos]
        /\ UNCHANGED <<hdr, lpc, src, sized>>
    BY <1>5 DEF LoadSkip, PutInserts, PutBegin, Delivered
  <2>. DEFINE q == NextOf(src).pos
              n == Len(table)
  <2>2. /\ pos'[src] = q /\ q \in Nat
        /\ Type[src] = "map" => q = pos[src] + 1
        /\ Type[src] = "file" => q >= pos[src] + 2 * LenBytes
    BY <1>0, <2>1, EntryType DEF TypeOK
  <2>3. Len(table') \in {n, n + 1}
    <3>1. CASE LoadSkip
        BY <3>1 DEF LoadSkip
    <3>2. CASE PutInserts
      <4>. DEFINE e == [key |-> Entry.key, value |-> Entry.value, off |-> dataEnd, end |-> dataEnd + ChunkSize]
      <4>1. table' = Append(table, e)
        BY <3>2 DEF PutInserts
      <4>. HIDE DEF e
      <4>. QED
        BY <1>0, <4>1
    <3>. QED
        BY <1>5, <3>1, <3>2
  <2>4. Estimate(src)' = Estimate(src) /\ Countable(src)' = Countable(src)
    BY <2>1 DEF Countable, Estimate, EstimateFile
  <2>5. /\ Countable(src) => Estimate(src) <= hdr.hashCap
        /\ Type[src] = "map"  => n <= pos[src]
        /\ Type[src] = "file" => n * (2 * LenBytes) <= pos[src]
    BY <2>1
  <2>. HIDE DEF q, n
  <2>6. Type[src] = "map" => Len(table') <= q
    BY <1>0, <2>2, <2>3, <2>5 DEF n
  <2>7. Type[src] = "file" => Len(table') * (2 * LenBytes) <= q
    <3>. SUFFICES ASSUME Type[src] = "file" PROVE Len(table') * (2 * LenBytes) <= q
        OBVIOUS
    <3>. DEFINE d == 2 * LenBytes
    <3>1. n \in Nat /\ d \in Nat /\ q >= pos[src] + d /\ n * d <= pos[src] /\ pos[src] \in Nat
        BY <1>0, <2>2, <2>5 DEF n
    <3>. HIDE DEF d
    <3>2. n * d \in Nat /\ (n + 1) * d = n * d + d
        BY <3>1
    <3>3. n * d <= q /\ (n + 1) * d <= q
        BY <2>2, <3>1, <3>2
    <3>. QED
        BY <2>3, <3>3 DEF d
  <2>. QED
    BY <2>1, <2>2, <2>4, <2>5, <2>6, <2>7
<1>6. CASE UNCHANGED loaderVars
    BY <1>6 DEF loaderVars, Countable, Estimate, EstimateFile
<1>. QED
    BY <1>1, <1>2, <1>3, <1>4, <1>5, <1>6 DEF Next

\* While a Load that sized the table runs, the table is within the estimate.
LEMMA EstimateInvariant == Spec => []EstimateInv
<1>1. Init => EstimateInv
    BY DEF Init, EstimateInv
<1>2. TypeInv /\ EstimateInv /\ [Next]_loaderVars => EstimateInv'
    BY EstimateNext
<1>. QED
    BY <1>1, <1>2, TypeInvariant, PTL DEF Spec

\* A source that has an entry left has delivered fewer than were estimated.
LEMMA EstimateLeaves ==
    ASSUME TypeInv, EstimateInv
    PROVE  EstimateSuffices
<1>. SUFFICES ASSUME lpc = "loading", sized, Countable(src), NextOf(src).err = "none"
              PROVE  Len(table) < hdr.hashCap
    BY DEF EstimateSuffices
<1>. DEFINE n == Len(table)
            m == Len(Contents[src])
            q == NextOf(src).pos
            d == 2 * LenBytes
<1>1. /\ TypeOK /\ n \in Nat /\ src \in Sources /\ m \in Nat
      /\ pos[src] \in Nat /\ d \in Nat \ {0}
    BY SourcesAssumption DEF TypeInv, TypeOK
<1>2. hdr.hashCap \in Nat
    BY WordRange DEF TypeInv, TypeOK, Headers, Uint32s
<1>3. /\ q \in Nat /\ q <= m
      /\ Type[src] = "map" => q = pos[src] + 1
      /\ Type[src] = "file" => q >= pos[src] + d
    BY <1>1, EntryType
<1>4. /\ Estimate(src) <= hdr.hashCap /\ Estimate(src) \in Nat
      /\ Type[src] = "map"  => n <= pos[src]
      /\ Type[src] = "file" => n * d <= pos[src]
    BY <1>1, EstimateType DEF EstimateInv, Countable
<1>5. CASE Type[src] = "map"
  <2>1. Estimate(src) = m
    BY <1>5 DEF Estimate
  <2>. HIDE DEF n, m, q, d
  <2>. QED
    BY <1>1, <1>2, <1>3, <1>4, <1>5, <2>1 DEF n
<1>6. CASE Type[src] = "file"
  <2>1. Estimate(src) = m \div d
    BY <1>6 DEF Estimate, EstimateFile
  <2>. HIDE DEF n, m, q, d
  <2>2. n * d \in Nat /\ (n + 1) * d = n * d + d
    BY <1>1
  <2>3. (n + 1) * d <= m
    BY <1>1, <1>3, <1>4, <1>6, <2>2
  <2>4. n + 1 <= m \div d
    BY <1>1, <2>3, QuotientCounts
  <2>. QED
    BY <1>1, <1>2, <1>4, <2>1, <2>4 DEF n
<1>. QED
    BY <1>1, <1>5, <1>6, SourcesAssumption DEF Countable

\* EstimateSuffices: a Load that sizes the table from the estimate of a map or of a
\* binary file finds a free slot for every entry, whatever the bytes of the file
\* are, as long as there are at most 8 GiB of them.
THEOREM EstimateIsEnough == Spec => []EstimateSuffices
<1>1. TypeInv /\ EstimateInv => EstimateSuffices
    BY EstimateLeaves
<1>. QED
    BY <1>1, TypeInvariant, EstimateInvariant, PTL

------------------------------------------------------------------------------
(* Formats                                                                   *)

\* A line that was written from an item is split into the item: the first tab is
\* the one behind the key, as the key has none.
LEMMA SplitWritten ==
    ASSUME NEW line \in Seq(Byte), NEW e \in [key : Seq(Byte), value : Seq(Byte)],
           WrittenLine(line, e)
    PROVE  Split(line)[1] = e.key /\ Split(line)[2] = e.value
<1>. DEFINE k == e.key
            v == e.value
            n == Len(e.key)
            I == {i \in 1 .. Len(line) : line[i] = Tab}
            t == SelectInSeq(line, LAMBDA c : c = Tab)
<1>0. k \in Seq(Byte) /\ v \in Seq(Byte) /\ n \in Nat /\ Len(v) \in Nat /\ <<Tab>> \in Seq(Byte)
    BY SourcesAssumption
<1>1. \A i \in 1 .. n : k[i] # Tab
    BY DEF WrittenLine, Contains
<1>2. CASE line = k \o <<Tab>> \o v
  <2>1. /\ Len(line) = n + 1 + Len(v) /\ line[n + 1] = Tab
        /\ \A i \in 1 .. n : line[i] = k[i]
        /\ \A i \in 1 .. Len(v) : line[n + 1 + i] = v[i]
    BY <1>0, <1>2
  <2>2. n + 1 \in I /\ \A i \in I : n + 1 <= i
    <3>1. n + 1 \in 1 .. Len(line)
        BY <1>0, <2>1
    <3>2. ASSUME NEW i \in I, i <= n PROVE FALSE
        BY <1>0, <1>1, <2>1, <3>2
    <3>. HIDE DEF n
    <3>. QED
        BY <1>0, <2>1, <3>1, <3>2
  <2>3. I \subseteq Nat /\ I # {} /\ t = Min(I)
    BY <2>2 DEF SelectInSeq
  <2>4. Min(I) \in I /\ \A i \in I : Min(I) <= i
    BY <2>3, MinLeast
  <2>. HIDE DEF n, t, I
  <2>5. t = n + 1
    <3>1. t \in Nat /\ t <= n + 1 /\ n + 1 <= t
        BY <2>2, <2>3, <2>4
    <3>. QED
        BY <1>0, <3>1
  <2>6. Contains(line, Tab)
    BY <2>2 DEF Contains, I
  <2>7. Split(line) = <<SubSeq(line, 1, t - 1), SubSeq(line, t + 1, Len(line))>>
    BY <2>6 DEF Split, t
  <2>. HIDE DEF k, v
  <2>8. SubSeq(line, 1, n) = k
    BY <1>0, <2>1, SubSeqProperties, SeqEqual DEF n, k
  <2>9. SubSeq(line, n + 2, Len(line)) = v
    BY <1>0, <2>1, SubSeqProperties, SeqEqual
  <2>. QED
    BY <1>0, <2>5, <2>7, <2>8, <2>9 DEF k, v
<1>3. CASE line = k /\ v = <<>>
  <2>1. ~Contains(line, Tab)
    BY <1>3 DEF WrittenLine
  <2>. QED
    BY <1>3, <2>1 DEF Split
<1>. QED
    BY <1>2, <1>3 DEF WrittenLine

\* Next delivers an entry that was written at the position of the file.
LEMMA NextWritten ==
    ASSUME NEW bytes \in Seq(Byte), NEW p \in Nat, NEW q \in Nat,
           NEW e \in [key : Seq(Byte), value : Seq(Byte)], WrittenEntry(bytes, p, q, e)
    PROVE  NextFile(bytes, p) = Got(e.key, e.value, q)
<1>. DEFINE key == p + LenBytes
            k   == Len(e.key)
            val == key + k + LenBytes
            v   == Len(e.value)
<1>1. k \in Nat /\ v \in Nat /\ LenBytes \in Nat \ {0} /\ Len(bytes) \in Nat
    BY SourcesAssumption
<1>2. /\ q = val + v /\ q <= Len(bytes)
      /\ Word(bytes, p) = k /\ SubSeq(bytes, key + 1, key + k) = e.key
      /\ Word(bytes, val - LenBytes) = v /\ SubSeq(bytes, val + 1, q) = e.value
    BY DEF WrittenEntry
<1>3. val - LenBytes = key + k
    BY <1>1
<1>. HIDE DEF k, v
<1>4. p # Len(bytes) /\ ~(key > Len(bytes)) /\ ~(val > Len(bytes)) /\ ~(val + v > Len(bytes))
    BY <1>1, <1>2
<1>. QED
    BY <1>2, <1>3, <1>4 DEF NextFile

\* Where a file has no whole entry, Next delivers none.
LEMMA NextNone ==
    ASSUME NEW s \in Sources, Type[s] = "file", NEW p \in Nat, p <= Len(Contents[s]),
           NoEntry(Contents[s], p)
    PROVE  NextFile(Contents[s], p).err # "none"
<1>. DEFINE bytes == Contents[s]
            key   == p + LenBytes
            klen  == Word(bytes, p)
            val   == key + klen + LenBytes
            vlen  == Word(bytes, key + klen)
            Short == key > Len(bytes) \/ val > Len(bytes) \/ val + vlen > Len(bytes)
<1>1. /\ Len(bytes) \in Nat /\ LenBytes \in Nat \ {0}
      /\ \A i \in 0 .. Len(bytes) - LenBytes : Word(bytes, i) \in Nat
    BY SourcesAssumption
<1>2. ASSUME ~Short PROVE FALSE
  <2>1. klen \in Nat
    BY <1>1, <1>2
  <2>2. key + klen \in 0 .. Len(bytes) - LenBytes
    BY <1>1, <1>2, <2>1
  <2>3. vlen \in Nat
    BY <1>1, <2>2
  <2>. HIDE DEF bytes, klen, vlen
  <2>4. klen \in 0 .. Len(bytes) /\ vlen \in 0 .. Len(bytes)
    BY <1>1, <1>2, <2>1, <2>3
  <2>5. p + LenBytes + klen + LenBytes + vlen <= Len(bytes)
    BY <1>1, <1>2, <2>1, <2>3
  <2>. QED
    BY <2>4, <2>5 DEF NoEntry, bytes, klen, vlen
<1>. QED
    BY <1>2 DEF NextFile, EOF, Failed, Got

\* Of sources in their documented formats, Next delivers exactly the items.
LEMMA WrittenDecodes == ASSUME Written PROVE Decodes
<1>. SUFFICES ASSUME NEW s \in Sources PROVE DecodesItems(s)
    BY DEF Decodes
<1>. DEFINE Pair == [key : Seq(Byte), value : Seq(Byte)]
            n == Len(Items[s])
<1>1. WrittenFrom(s)
    BY DEF Written
<1>2. Items[s] \in Seq(Pair) /\ n \in Nat
    BY <1>1 DEF WrittenFrom
<1>. HIDE DEF Pair
<1>3. \A i \in 1 .. n : Items[s][i] \in Pair
    BY <1>2
<1>4. \A i \in 0 .. n : Begins(s)[i] = IF Type[s] = "file" THEN Starts[s][i + 1] ELSE i
    BY DEF Begins
<1>. HIDE DEF n
<1>5. 0 \in 0 .. n /\ n \in 0 .. n /\ \A i \in 0 .. n - 1 : i \in 0 .. n /\ i + 1 \in 0 .. n /\ i + 1 \in 1 .. n
    BY <1>2
<1>6. CASE Type[s] = "map"
  <2>1. Contents[s] = Items[s] /\ Len(Contents[s]) = n
    BY <1>1, <1>6 DEF WrittenFrom, n
  <2>2. \A p : NextAt(s, p) = NextMap(Contents[s], p)
    BY <1>6 DEF NextAt
  <2>3. \A i \in 0 .. n - 1 : NextAt(s, i) = Got(Items[s][i + 1].key, Items[s][i + 1].value, i + 1)
    BY <1>2, <2>1, <2>2 DEF NextMap
  <2>4. NextAt(s, n).err # "none"
    BY <1>2, <2>1, <2>2 DEF NextMap, EOF
  <2>. QED
    BY <1>2, <1>4, <1>5, <1>6, <2>3, <2>4 DEF DecodesItems, n, Pair
<1>7. CASE Type[s] = "line"
  <2>1. /\ n <= Len(Contents[s]) /\ Contents[s] \in Seq(Seq(Byte)) /\ MaxLine \in Nat
        /\ \A i \in 1 .. n : Len(Contents[s][i]) <= MaxLine /\ WrittenLine(Contents[s][i], Items[s][i])
        /\ n < Len(Contents[s]) => Len(Contents[s][n + 1]) > MaxLine
    BY <1>1, <1>7, SourcesAssumption DEF WrittenFrom, n
  <2>2. \A p : NextAt(s, p) = NextLine(Contents[s], p)
    BY <1>7 DEF NextAt
  <2>3. ASSUME NEW i \in 0 .. n - 1
        PROVE  NextAt(s, i) = Got(Items[s][i + 1].key, Items[s][i + 1].value, i + 1)
    <3>1. i + 1 \in 1 .. n /\ i # Len(Contents[s]) /\ i + 1 \in 1 .. Len(Contents[s])
        BY <1>2, <2>1
    <3>2. Contents[s][i + 1] \in Seq(Byte)
        BY <2>1, <3>1
    <3>3. Items[s][i + 1] \in [key : Seq(Byte), value : Seq(Byte)]
        BY <1>3, <3>1 DEF Pair
    <3>4. Split(Contents[s][i + 1])[1] = Items[s][i + 1].key /\ Split(Contents[s][i + 1])[2] = Items[s][i + 1].value
        BY <2>1, <3>1, <3>2, <3>3, SplitWritten
    <3>5. ~(Len(Contents[s][i + 1]) > MaxLine)
        BY <2>1, <3>1, <3>2
    <3>. QED
        BY <2>2, <3>1, <3>4, <3>5 DEF NextLine
  <2>4. NextAt(s, n).err # "none"
    <3>1. n = Len(Contents[s]) \/ n < Len(Contents[s])
        BY <1>2, <2>1
    <3>. QED
        BY <2>1, <2>2, <3>1 DEF NextLine, EOF, Failed
  <2>. QED
    BY <1>2, <1>4, <1>5, <1>7, <2>3, <2>4 DEF DecodesItems, n, Pair
<1>8. CASE Type[s] = "file"
  <2>1. /\ Starts[s] \in Seq(Nat) /\ Len(Starts[s]) = n + 1 /\ Starts[s][1] = 0
        /\ \A i \in 1 .. n : WrittenEntry(Contents[s], Starts[s][i], Starts[s][i + 1], Items[s][i])
        /\ Starts[s][n + 1] <= Len(Contents[s]) /\ NoEntry(Contents[s], Starts[s][n + 1])
        /\ Contents[s] \in Seq(Byte)
    BY <1>1, <1>8, SourcesAssumption DEF WrittenFrom, n
  <2>2. \A p : NextAt(s, p) = NextFile(Contents[s], p)
    BY <1>8 DEF NextAt
  <2>3. \A i \in 1 .. n + 1 : Starts[s][i] \in Nat
    BY <1>2, <2>1
  <2>4. ASSUME NEW i \in 0 .. n - 1
        PROVE  NextAt(s, Starts[s][i + 1]) = Got(Items[s][i + 1].key, Items[s][i + 1].value, Starts[s][(i + 1) + 1])
    <3>1. i + 1 \in 1 .. n /\ i + 1 \in 1 .. n + 1 /\ (i + 1) + 1 \in 1 .. n + 1
        BY <1>2
    <3>2. Items[s][i + 1] \in [key : Seq(Byte), value : Seq(Byte)]
        BY <1>3, <3>1 DEF Pair
    <3>3. WrittenEntry(Contents[s], Starts[s][i + 1], Starts[s][(i + 1) + 1], Items[s][i + 1])
        BY <2>1, <3>1
    <3>4. Starts[s][i + 1] \in Nat /\ Starts[s][(i + 1) + 1] \in Nat
        BY <2>3, <3>1
    <3>5. NextFile(Contents[s], Starts[s][i + 1])
             = Got(Items[s][i + 1].key, Items[s][i + 1].value, Starts[s][(i + 1) + 1])
        BY <2>1, <3>2, <3>3, <3>4, NextWritten
    <3>. QED
        BY <2>2, <3>5
  <2>5. NextAt(s, Starts[s][n + 1]).err # "none"
    <3>1. Starts[s][n + 1] \in Nat
        BY <1>2, <2>3
    <3>. QED
        BY <1>8, <2>1, <2>2, <3>1, NextNone
  <2>6. Begins(s)[0] = 0
    BY <1>4, <1>5, <1>8, <2>1
  <2>7. ASSUME NEW i \in 0 .. n - 1
        PROVE  NextAt(s, Begins(s)[i]) = Got(Items[s][i + 1].key, Items[s][i + 1].value, Begins(s)[i + 1])
    BY <1>4, <1>5, <1>8, <2>4
  <2>8. NextAt(s, Begins(s)[n]).err # "none"
    BY <1>4, <1>5, <1>8, <2>5
  <2>. QED
    BY <1>2, <2>6, <2>7, <2>8 DEF DecodesItems, n, Pair
<1>. QED
    BY <1>6, <1>7, <1>8, SourcesAssumption

------------------------------------------------------------------------------
(* What the table holds                                                      *)

\* A source between two items delivers the next one, or is at the end of them.
LEMMA DeliversItem ==
    ASSUME Decodes, TypeInv, NEW i \in 0 .. Len(Items[src]), pos[src] = Begins(src)[i]
    PROVE  /\ Len(Items[src]) \in Nat
           /\ NextOf(src).err = "none" =>
                 /\ i + 1 \in 1 .. Len(Items[src])
                 /\ Entry.key = Items[src][i + 1].key /\ Entry.value = Items[src][i + 1].value
                 /\ NextOf(src).pos = Begins(src)[i + 1]
           /\ NextOf(src).err # "none" => i = Len(Items[src])
<1>1. src \in Sources
    BY DEF TypeInv, TypeOK
<1>2. /\ Items[src] \in Seq([key : Seq(Byte), value : Seq(Byte)])
      /\ \A j \in 0 .. Len(Items[src]) - 1 :
            NextAt(src, Begins(src)[j]) = Got(Items[src][j + 1].key, Items[src][j + 1].value, Begins(src)[j + 1])
      /\ NextAt(src, Begins(src)[Len(Items[src])]).err # "none"
    BY <1>1 DEF Decodes, DecodesItems
<1>3. Len(Items[src]) \in Nat
    BY <1>2
<1>4. CASE i < Len(Items[src])
  <2>1. i \in 0 .. Len(Items[src]) - 1 /\ i + 1 \in 1 .. Len(Items[src])
    BY <1>3, <1>4
  <2>2. NextOf(src) = Got(Items[src][i + 1].key, Items[src][i + 1].value, Begins(src)[i + 1])
    BY <1>2, <2>1 DEF NextOf
  <2>. QED
    BY <1>3, <2>1, <2>2 DEF Got, Entry
<1>5. CASE i = Len(Items[src])
    BY <1>2, <1>3, <1>5 DEF NextOf
<1>. QED
    BY <1>3, <1>4, <1>5

\* Every step of Init and Load leaves every source between two of its items.
LEMMA BetweenNext ==
    ASSUME Decodes, TypeInv, BetweenItems, [Next]_loaderVars
    PROVE  BetweenItems'
<1>. SUFFICES ASSUME NEW s \in Sources
              PROVE  \E i \in 0 .. Len(Items[s]) : pos'[s] = Begins(s)[i]
    BY DEF BetweenItems, Begins, NextAt
<1>1. PICK i \in 0 .. Len(Items[s]) : pos[s] = Begins(s)[i]
    BY DEF BetweenItems
<1>2. CASE pos'[s] = pos[s]
    BY <1>1, <1>2
<1>3. CASE pos'[s] = 0
    BY <1>3 DEF Decodes, DecodesItems
<1>4. CASE Delivered /\ s = src
    BY <1>1, <1>4, DeliversItem DEF Delivered, TypeInv, TypeOK
<1>5. CASE Delivered /\ s # src
    BY <1>2, <1>5 DEF Delivered, TypeInv, TypeOK
<1>6. ASSUME NEW n \in InitSizes, InitCall(n) PROVE pos'[s] = pos[s]
    BY <1>6 DEF InitCall
<1>7. ASSUME NEW q \in Sources, LoadOpenFails(q) \/ LoadOpen(q) PROVE pos'[s] \in {0, pos[s]}
    BY <1>7 DEF LoadOpenFails, LoadOpen, Rewound, TypeInv, TypeOK
<1>8. CASE LoadEOF \/ LoadBroken \/ UNCHANGED loaderVars
    BY <1>2, <1>8 DEF LoadEOF, LoadBroken, loaderVars
<1>. QED
    BY <1>2, <1>3, <1>4, <1>5, <1>6, <1>7, <1>8
    DEF Next, LoadSkip, PutDataFull, PutPanics, PutHashFull, PutInserts, PutBegin

\* Every source is always between two of its items.
LEMMA BetweenInvariant == ASSUME Written PROVE Spec => []BetweenItems
<1>1. Init => BetweenItems
  <2>. SUFFICES ASSUME Init, NEW s \in Sources
                PROVE  \E i \in 0 .. Len(Items[s]) : pos[s] = Begins(s)[i]
    BY DEF BetweenItems
  <2>1. pos[s] = Begins(s)[0] /\ Len(Items[s]) \in Nat
    BY WrittenDecodes DEF Init, Decodes, DecodesItems
  <2>. QED
    BY <2>1
<1>2. TypeInv /\ BetweenItems /\ [Next]_loaderVars => BetweenItems'
    BY BetweenNext, WrittenDecodes
<1>. QED
    BY <1>1, <1>2, TypeInvariant, PTL DEF Spec

\* The entry that put inserts is an item of the source with a valid key, and comes
\* behind the ones that are in the table.
LEMMA PutAppends ==
    ASSUME Decodes, TypeInv, PutInserts, NEW i \in 0 .. Len(Items[src]), pos[src] = Begins(src)[i]
    PROVE  /\ i + 1 \in ValidItems(src)
           /\ Len(table) \in Nat /\ Len(table') = Len(table) + 1
           /\ table'[Len(table) + 1].key = Items[src][i + 1].key
           /\ table'[Len(table) + 1].value = Items[src][i + 1].value
           /\ \A j \in 1 .. Len(table) : table'[j] = table[j]
           /\ pos'[src] = Begins(src)[i + 1]
<1>. DEFINE e == [key |-> Entry.key, value |-> Entry.value, off |-> dataEnd, end |-> dataEnd + ChunkSize]
<1>1. /\ table' = Append(table, e) /\ Delivered /\ ValidKey(Entry.key) /\ NextOf(src).err = "none"
      /\ pos' = [pos EXCEPT ![src] = NextOf(src).pos]
    BY DEF PutInserts, PutBegin, Delivered
<1>2. /\ i + 1 \in 1 .. Len(Items[src])
      /\ Entry.key = Items[src][i + 1].key /\ Entry.value = Items[src][i + 1].value
      /\ NextOf(src).pos = Begins(src)[i + 1]
    BY <1>1, DeliversItem
<1>3. i + 1 \in ValidItems(src)
    BY <1>1, <1>2 DEF ValidItems
<1>4. e.key = Items[src][i + 1].key /\ e.value = Items[src][i + 1].value
    BY <1>2
<1>5. table \in Seq(Chunks) /\ src \in Sources /\ pos \in [Sources -> Nat]
    BY DEF TypeInv, TypeOK
<1>. HIDE DEF e
<1>6. Len(table) \in Nat /\ Len(table') = Len(table) + 1 /\ table'[Len(table) + 1] = e
      /\ \A j \in 1 .. Len(table) : table'[j] = table[j]
    BY <1>1, <1>5
<1>. QED
    BY <1>1, <1>2, <1>3, <1>4, <1>5, <1>6

\* Every step of Init and Load puts nothing but items of the sources in the table.
LEMMA FaithfulNext ==
    ASSUME Decodes, TypeInv, BetweenItems, LoadFaithful, [Next]_loaderVars
    PROVE  LoadFaithful'
<1>1. CASE table' = table
    BY <1>1 DEF LoadFaithful, ValidItems, ValidKey
<1>2. CASE table' = <<>>
    BY <1>2 DEF LoadFaithful
<1>3. CASE PutInserts
  <2>1. src \in Sources
    BY DEF TypeInv, TypeOK
  <2>2. PICK i \in 0 .. Len(Items[src]) : pos[src] = Begins(src)[i]
    BY <2>1 DEF BetweenItems
  <2>3. /\ i + 1 \in ValidItems(src)
        /\ Len(table) \in Nat /\ Len(table') = Len(table) + 1
        /\ table'[Len(table) + 1].key = Items[src][i + 1].key
        /\ table'[Len(table) + 1].value = Items[src][i + 1].value
        /\ \A j \in 1 .. Len(table) : table'[j] = table[j]
    BY <1>3, <2>2, PutAppends
  <2>4. \A j \in 1 .. Len(table') : j \in 1 .. Len(table) \/ j = Len(table) + 1
    BY <2>3
  <2>5. ASSUME NEW j \in 1 .. Len(table')
        PROVE  \E s \in Sources : \E m \in ValidItems(s) :
                   table'[j].key = Items[s][m].key /\ table'[j].value = Items[s][m].value
    <3>1. CASE j = Len(table) + 1
        BY <2>1, <2>3, <3>1
    <3>2. CASE j \in 1 .. Len(table)
        BY <2>3, <3>2 DEF LoadFaithful
    <3>. QED
        BY <2>4, <3>1, <3>2
  <2>. QED
    BY <2>5 DEF LoadFaithful, ValidItems, ValidKey
<1>4. \A n : InitCall(n) => table' \in {table, <<>>}
    BY DEF InitCall, InitLayout
<1>5. \A s : LoadOpenFails(s) \/ LoadOpen(s) => table' \in {table, <<>>}
    BY DEF LoadOpenFails, LoadOpen, InitLayout
<1>6. CASE LoadEOF \/ LoadBroken \/ LoadSkip \/ PutDataFull \/ PutPanics \/ PutHashFull \/ UNCHANGED loaderVars
    BY <1>1, <1>6 DEF LoadEOF, LoadBroken, LoadSkip, PutDataFull, PutPanics, PutHashFull, loaderVars
<1>. QED
    BY <1>1, <1>2, <1>3, <1>4, <1>5, <1>6 DEF Next

\* LoadFaithful: of sources in their documented formats, the table holds only items,
\* each with its own value, whatever sequence of Inits, failed Loads and repeated
\* Loads there was.
THEOREM LoadIsFaithful ==
    ASSUME Written
    PROVE  Spec => []LoadFaithful
<1>1. Init => LoadFaithful
    BY DEF Init, LoadFaithful
<1>2. TypeInv /\ BetweenItems /\ LoadFaithful /\ [Next]_loaderVars => LoadFaithful'
    BY FaithfulNext, WrittenDecodes
<1>. QED
    BY <1>1, <1>2, TypeInvariant, BetweenInvariant, PTL DEF Spec

\* An entry that is skipped changes nothing of what the table must hold.
LEMMA HoldsSkipped ==
    ASSUME NEW s, NEW i \in Nat, Holds(s, i), i + 1 \notin ValidItems(s), table' = table
    PROVE  Holds(s, i + 1)'
<1>1. \A m \in ValidItems(s) : m \in Nat /\ (m <= i + 1 <=> m <= i)
    BY DEF ValidItems
<1>2. /\ \A m \in ValidItems(s) : m <= i + 1 => \E j \in 1 .. Len(table) : table[j].key = Items[s][m].key
      /\ \A j \in 1 .. Len(table) : \E m \in ValidItems(s) :
            /\ m <= i + 1 /\ table[j].key = Items[s][m].key /\ table[j].value = Items[s][m].value
            /\ \A l \in ValidItems(s) : l < m =>
                  \E q \in 1 .. j - 1 : table[q].key = Items[s][l].key
    BY <1>1 DEF Holds
<1>. QED
    BY <1>2 DEF Holds, ValidItems, ValidKey

\* One that is put comes behind the keys of all the valid ones before it.
LEMMA HoldsPut ==
    ASSUME NEW s, NEW i \in Nat, Holds(s, i), i + 1 \in ValidItems(s),
           Len(table) \in Nat, Len(table') = Len(table) + 1,
           table'[Len(table) + 1].key = Items[s][i + 1].key,
           table'[Len(table) + 1].value = Items[s][i + 1].value,
           \A j \in 1 .. Len(table) : table'[j] = table[j]
    PROVE  Holds(s, i + 1)'
<1>. DEFINE n == Len(table)
            V == ValidItems(s)
<1>1. n \in Nat /\ Len(table') = n + 1 /\ \A m \in V : m \in Nat
    BY DEF ValidItems
<1>2. /\ \A m \in V : m <= i => \E j \in 1 .. n : table[j].key = Items[s][m].key
      /\ \A j \in 1 .. n : \E m \in V :
            /\ m <= i /\ table[j].key = Items[s][m].key /\ table[j].value = Items[s][m].value
            /\ \A l \in V : l < m => \E q \in 1 .. j - 1 : table[q].key = Items[s][l].key
    BY DEF Holds
<1>3. i + 1 \in V
    OBVIOUS
<1>. HIDE DEF n, V
<1>4. ASSUME NEW m \in V, m <= i + 1 PROVE \E j \in 1 .. n + 1 : table'[j].key = Items[s][m].key
  <2>1. CASE m = i + 1
    BY <1>1, <2>1 DEF n
  <2>2. CASE m <= i
    <3>1. PICK j \in 1 .. n : table[j].key = Items[s][m].key
        BY <1>2, <2>2
    <3>. QED
        BY <1>1, <3>1 DEF n
  <2>. QED
    BY <1>1, <1>4, <2>1, <2>2
<1>5. ASSUME NEW j \in 1 .. n + 1
      PROVE  \E m \in V :
                 /\ m <= i + 1 /\ table'[j].key = Items[s][m].key /\ table'[j].value = Items[s][m].value
                 /\ \A l \in V : l < m => \E q \in 1 .. j - 1 : table'[q].key = Items[s][l].key
  <2>1. CASE j = n + 1
    <3>1. ASSUME NEW l \in V, l < i + 1 PROVE \E q \in 1 .. j - 1 : table'[q].key = Items[s][l].key
      <4>1. l <= i
        BY <1>1, <3>1
      <4>2. PICK q \in 1 .. n : table[q].key = Items[s][l].key
        BY <1>2, <4>1
      <4>. QED
        BY <1>1, <2>1, <4>2 DEF n
    <3>. QED
        BY <1>3, <2>1, <3>1 DEF n
  <2>2. CASE j \in 1 .. n
    <3>1. PICK m \in V :
            /\ m <= i /\ table[j].key = Items[s][m].key /\ table[j].value = Items[s][m].value
            /\ \A l \in V : l < m => \E q \in 1 .. j - 1 : table[q].key = Items[s][l].key
        BY <1>2, <2>2
    <3>2. ASSUME NEW l \in V, l < m PROVE \E q \in 1 .. j - 1 : table'[q].key = Items[s][l].key
      <4>1. PICK q \in 1 .. j - 1 : table[q].key = Items[s][l].key
        BY <3>1, <3>2
      <4>2. q \in 1 .. n
        BY <1>1, <2>2
      <4>. QED
        BY <4>1, <4>2 DEF n
    <3>3. m <= i + 1
        BY <1>1, <3>1
    <3>. QED
        BY <2>2, <3>1, <3>2, <3>3 DEF n
  <2>. QED
    BY <1>1, <2>1, <2>2
<1>. QED
    BY <1>1, <1>4, <1>5 DEF Holds, ValidItems, ValidKey, n, V

\* Every step of Init and Load preserves ServedInv.
LEMMA ServedNext ==
    ASSUME Decodes, TypeInv, EstimateInv, ServedInv, [Next]_loaderVars
    PROVE  ServedInv'
<1>. SUFFICES ASSUME NEW s \in Sources, sized', src' = s
              PROVE  /\ lpc' = "loading" =>
                            \E i \in 0 .. Len(Items[s]) : pos'[s] = Begins(s)[i] /\ Holds(s, i)'
                     /\ lpc' = "idle" /\ result' = "ok" /\ Countable(s) => Holds(s, Len(Items[s]))'
    BY DEF ServedInv, Countable, Estimate, EstimateFile
<1>. DEFINE Loading == \E i \in 0 .. Len(Items[s]) : pos'[s] = Begins(s)[i] /\ Holds(s, i)'
            Loaded  == Holds(s, Len(Items[s]))'
<1>. HIDE DEF Loading, Loaded
<1>1. ASSUME NEW n \in InitSizes, InitCall(n) PROVE FALSE
    BY <1>1 DEF InitCall
<1>2. ASSUME NEW q \in Sources, LoadOpenFails(q) PROVE FALSE
    BY <1>2 DEF LoadOpenFails
<1>3. ASSUME NEW q \in Sources, LoadOpen(q)
      PROVE  (lpc' = "loading" => Loading) /\ ~(lpc' = "idle" /\ result' = "ok")
  <2>1. ~(lpc' = "idle" /\ result' = "ok") /\ q = s
    BY <1>3 DEF LoadOpen, NeedsInit, InitLayout
  <2>2. ASSUME lpc' = "loading" PROVE Loading
    <3>1. table' = <<>> /\ ~inited
        BY <1>3, <2>2 DEF LoadOpen, NeedsInit, InitLayout
    <3>2. pos'[s] = 0
        BY <1>3, <2>1, <3>1 DEF LoadOpen, Rewound, TypeInv, TypeOK, FreshInv
    <3>3. Len(Items[s]) \in Nat /\ Begins(s)[0] = 0
        BY DEF Decodes, DecodesItems
    <3>4. Holds(s, 0)'
        BY <3>1 DEF Holds, ValidItems
    <3>. QED
        BY <3>2, <3>3, <3>4 DEF Loading
  <2>. QED
    BY <2>1, <2>2
<1>4. CASE LoadBroken \/ PutDataFull \/ PutPanics
  <2>1. lpc' = "panic" \/ (lpc' = "idle" /\ result' = "error")
    BY <1>4 DEF LoadBroken, PutDataFull, PutPanics, LoadReturns
  <2>. QED
    BY <2>1
<1>5. CASE LoadEOF
  <2>1. /\ lpc = "loading" /\ lpc' = "idle" /\ sized /\ src = s /\ table' = table
        /\ NextOf(src).err # "none"
    BY <1>5 DEF LoadEOF, LoadReturns
  <2>2. PICK i \in 0 .. Len(Items[s]) : pos[s] = Begins(s)[i] /\ Holds(s, i)
    BY <2>1 DEF ServedInv
  <2>3. i = Len(Items[s])
    BY <2>1, <2>2, DeliversItem
  <2>4. Loaded
    BY <2>1, <2>2, <2>3 DEF Loaded, Holds, ValidItems, ValidKey
  <2>. QED
    BY <2>1, <2>4 DEF Loaded
<1>6. CASE PutHashFull
  <2>1. Len(table) \in Nat /\ hdr.hashCap \in Nat
    BY WordRange DEF TypeInv, TypeOK, Headers, Uint32s
  <2>2. /\ lpc = "loading" /\ lpc' = "idle" /\ sized /\ src = s
        /\ Len(table) >= hdr.hashCap /\ NextOf(src).err = "none"
    BY <1>6 DEF PutHashFull, PutBegin, Delivered, LoadReturns
  <2>3. ~Countable(s)
    BY <2>1, <2>2, EstimateLeaves DEF EstimateSuffices
  <2>. QED
    BY <2>2, <2>3
<1>7. CASE LoadSkip \/ PutInserts
  <2>1. /\ lpc = "loading" /\ NextOf(src).err = "none" /\ lpc' = lpc /\ src = s /\ sized
        /\ pos' = [pos EXCEPT ![src] = NextOf(src).pos]
    BY <1>7 DEF LoadSkip, PutInserts, PutBegin, Delivered
  <2>2. PICK i \in 0 .. Len(Items[s]) : pos[s] = Begins(s)[i] /\ Holds(s, i)
    BY <2>1 DEF ServedInv
  <2>3. /\ i + 1 \in 1 .. Len(Items[s]) /\ Len(Items[s]) \in Nat
        /\ Entry.key = Items[s][i + 1].key
        /\ NextOf(src).pos = Begins(s)[i + 1]
    BY <2>1, <2>2, DeliversItem
  <2>4. pos'[s] = Begins(s)[i + 1] /\ i + 1 \in 0 .. Len(Items[s]) /\ i \in Nat
    BY <2>1, <2>3 DEF TypeInv, TypeOK
  <2>5. Holds(s, i + 1)'
    <3>1. CASE LoadSkip
      <4>1. table' = table /\ ~ValidKey(Items[s][i + 1].key)
        BY <2>3, <3>1 DEF LoadSkip, Entry
      <4>2. i + 1 \notin ValidItems(s)
        BY <4>1 DEF ValidItems
      <4>. QED
        BY <2>2, <2>4, <4>1, <4>2, HoldsSkipped
    <3>2. CASE PutInserts
      <4>1. /\ i + 1 \in ValidItems(s)
            /\ Len(table) \in Nat /\ Len(table') = Len(table) + 1
            /\ table'[Len(table) + 1].key = Items[s][i + 1].key
            /\ table'[Len(table) + 1].value = Items[s][i + 1].value
            /\ \A j \in 1 .. Len(table) : table'[j] = table[j]
        BY <2>1, <2>2, <3>2, PutAppends
      <4>. QED
        BY <2>2, <2>4, <4>1, HoldsPut
    <3>. QED
        BY <1>7, <3>1, <3>2
  <2>6. Loading
    BY <2>4, <2>5 DEF Loading
  <2>. QED
    BY <2>1, <2>6 DEF Loading
<1>8. CASE UNCHANGED loaderVars
  <2>1. UNCHANGED <<lpc, sized, result, pos, src, table>>
    BY <1>8 DEF loaderVars
  <2>2. \A i : Holds(s, i)' <=> Holds(s, i)
    BY <2>1 DEF Holds, ValidItems, ValidKey
  <2>. QED
    BY <2>1, <2>2 DEF ServedInv
<1>. QED
    BY <1>1, <1>2, <1>3, <1>4, <1>5, <1>6, <1>7, <1>8 DEF Next, Loading

\* What the table holds of all items is what lookups must find: the first entry of
\* a key is the first valid item with it.
LEMMA HoldsServes ==
    ASSUME NEW s \in Sources, Items[s] \in Seq([key : Seq(Byte), value : Seq(Byte)]),
           Len(table) \in Nat, Holds(s, Len(Items[s]))
    PROVE  AllServed(s)
<1>. DEFINE V     == ValidItems(s)
            Key(m) == Items[s][m].key
            First(m, k) == Key(m) = k /\ \A l \in V : l < m => Key(l) # k
            Least(j, k) == table[j].key = k /\ \A l \in 1 .. j - 1 : table[l].key # k
<1>1. V \subseteq Nat /\ \A m \in V : m <= Len(Items[s])
    BY DEF ValidItems
<1>2. /\ \A m \in V : \E j \in 1 .. Len(table) : table[j].key = Key(m)
      /\ \A j \in 1 .. Len(table) : \E m \in V :
            /\ table[j].key = Key(m) /\ table[j].value = Items[s][m].value
            /\ \A l \in V : l < m => \E q \in 1 .. j - 1 : table[q].key = Key(l)
    BY <1>1 DEF Holds
<1>. HIDE DEF V, Key
<1>3. ASSUME NEW i \in V
      PROVE  /\ Key(i) \in KeysIn
             /\ FirstIn(Key(i)).value = Items[s][CHOOSE m \in V : First(m, Key(i))].value
  <2>. DEFINE k == Key(i)
              J == {j \in 1 .. Len(table) : table[j].key = k}
              M == {m \in V : Key(m) = k}
              c == CHOOSE j \in 1 .. Len(table) : Least(j, k)
              f == CHOOSE m \in V : First(m, k)
  <2>1. J \subseteq Nat /\ J # {} /\ M \subseteq Nat /\ M # {}
    <3>1. J \subseteq Nat
        OBVIOUS
    <3>2. M \subseteq Nat
        BY <1>1
    <3>3. i \in M
        OBVIOUS
    <3>4. \E j \in 1 .. Len(table) : table[j].key = k
        BY <1>2
    <3>. QED
        BY <3>1, <3>2, <3>3, <3>4
  <2>2. PICK j \in J : \A l \in J : j <= l
    BY <2>1, MinLeast
  <2>3. j \in 1 .. Len(table) /\ Least(j, k)
    BY <2>2
  <2>4. PICK m \in M : \A l \in M : m <= l
    BY <2>1, MinLeast
  <2>5. m \in V /\ First(m, k)
    BY <1>1, <2>4
  <2>6. c \in 1 .. Len(table) /\ Least(c, k) /\ f \in V /\ First(f, k)
    BY <2>3, <2>5
  <2>. HIDE DEF c, f
  <2>7. PICK g \in V :
          /\ table[c].key = Key(g) /\ table[c].value = Items[s][g].value
          /\ \A l \in V : l < g => \E q \in 1 .. c - 1 : table[q].key = Key(l)
    BY <1>2, <2>6
  <2>8. ~(f < g) /\ ~(g < f)
    BY <2>6, <2>7
  <2>9. f = g
    BY <1>1, <2>6, <2>7, <2>8
  <2>10. k \in KeysIn
    BY <2>6 DEF KeysIn
  <2>11. FirstIn(k) = table[c]
    BY DEF FirstIn, c
  <2>. QED
    BY <2>7, <2>9, <2>10, <2>11 DEF f
<1>. QED
    BY <1>3 DEF AllServed, V, Key

\* LoadComplete: a Load that sizes the table itself, from a map or a binary file of
\* at most 8 GiB, and returns without an error, has every valid key served with the
\* first value of the source: put's "hash table full", which Load does not report,
\* never cuts it short.
THEOREM LoadIsComplete ==
    ASSUME Written
    PROVE  Spec => []LoadComplete
<1>1. Init => ServedInv
    BY DEF Init, ServedInv
<1>2. TypeInv /\ EstimateInv /\ ServedInv /\ [Next]_loaderVars => ServedInv'
    BY ServedNext, WrittenDecodes
<1>3. TypeInv /\ ServedInv => LoadComplete
  <2>. SUFFICES ASSUME TypeInv, ServedInv, NEW s \in Sources, Completes(s), Countable(s)
                PROVE  AllServed(s)
    BY DEF LoadComplete
  <2>1. Holds(s, Len(Items[s])) /\ Len(table) \in Nat
    BY DEF ServedInv, Completes, TypeInv, TypeOK
  <2>. QED
    BY <2>1, HoldsServes, WrittenDecodes DEF Decodes, DecodesItems
<1>. QED
    BY <1>1, <1>2, <1>3, TypeInvariant, EstimateInvariant, PTL DEF Spec
==============================================================================
