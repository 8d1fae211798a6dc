----------------------------- MODULE DataSource ------------------------------
(***************************************************************************)
(* The data sources of pkg/featcache/datasource.go: an in-memory map, a    *)
(* binary file of length-prefixed entries and a text file of tab-separated *)
(* lines.                                                                  *)
(*                                                                         *)
(* A key or a value is a sequence of bytes.  The contents of a map are a   *)
(* sequence of entries, in the order of the keys that NewMapDataSource     *)
(* collected; those of a binary file the sequence of its bytes; those of a *)
(* text file the sequence of its lines as bufio.Scanner delivers them.     *)
(***************************************************************************)
EXTENDS Integers, Sequences, SequencesExt

CONSTANTS
    Sources,   \* the sources that are passed to Load
    Type,      \* "map", "file" or "line", for each source
    Contents,  \* what each source reads
    LenBytes,  \* size of the length words of the binary format (4)
    Tab,       \* the separator of a line
    MaxLine    \* length of the longest line that the scanner delivers (64K)

Byte == 0 .. 255

VARIABLE pos   \* the idx of a map, the bytes or lines read of an open file

------------------------------------------------------------------------------
(* Open                                                                      *)

\* Mutant: no file knows its size.
EstimateNothing(s) == 0

\* An upper bound of the number of entries: each has two length words.
EstimateFile(s) == Len(Contents[s]) \div (2 * LenBytes)

\* What Open returns; 0 of a text file is "unknown count until we scan".
Estimate(s) ==
    CASE Type[s] = "map"  -> Len(Contents[s])
      [] Type[s] = "file" -> EstimateFile(s)
      [] Type[s] = "line" -> 0

\* Opening a file starts from its first byte; a map goes on where it stopped.
Rewound(s) == IF Type[s] = "map" THEN pos ELSE [pos EXCEPT ![s] = 0]

------------------------------------------------------------------------------
(* Next                                                                      *)

\* What Next returns, and the position it leaves its source at.
Got(key, value, p) == [err |-> "none", key |-> key, value |-> value, pos |-> p]
EOF(p)             == [err |-> "EOF", pos |-> p]
Failed(p)          == [err |-> "failed", pos |-> p]

NextMap(entries, i) ==
    IF i >= Len(entries) THEN EOF(i)
                         ELSE Got(entries[i + 1].key, entries[i + 1].value, i + 1)

\* The little-endian word behind the first p bytes.
Word(bytes, p) == FoldRight(LAMBDA b, w : b + 256 * w, SubSeq(bytes, p + 1, p + LenBytes), 0)

\* A file that ends within an entry is an error, one that ends before it is not.
NextFile(bytes, p) ==
    LET key  == p + LenBytes
        klen == Word(bytes, p)
        val  == key + klen + LenBytes
        vlen == Word(bytes, key + klen)
    IN IF p = Len(bytes) THEN EOF(p)
       ELSE IF \/ key > Len(bytes)
               \/ val > Len(bytes)
               \/ val + vlen > Len(bytes)
       THEN Failed(p)
       ELSE Got(SubSeq(bytes, key + 1, key + klen), SubSeq(bytes, val + 1, val + vlen), val + vlen)

\* Mutant: a line is split at its last tab.
SplitLast(line) ==
    IF Contains(line, Tab)
    THEN LET t == SelectLastInSeq(line, LAMBDA c : c = Tab)
         IN <<SubSeq(line, 1, t - 1), SubSeq(line, t + 1, Len(line))>>
    ELSE <<line, <<>>>>

\* A line without a tab is a key with an empty value.
Split(line) ==
    IF Contains(line, Tab)
    THEN LET t == SelectInSeq(line, LAMBDA c : c = Tab)
         IN <<SubSeq(line, 1, t - 1), SubSeq(line, t + 1, Len(line))>>
    ELSE <<line, <<>>>>

NextLine(lines, n) ==
    IF n = Len(lines) THEN EOF(n)
    ELSE IF Len(lines[n + 1]) > MaxLine THEN Failed(n)
    ELSE Got(Split(lines[n + 1])[1], Split(lines[n + 1])[2], n + 1)

\* Next of the source s at position p, and at the one it is at.
NextAt(s, p) ==
    CASE Type[s] = "map"  -> NextMap(Contents[s], p)
      [] Type[s] = "file" -> NextFile(Contents[s], p)
      [] Type[s] = "line" -> NextLine(Contents[s], p)

NextOf(s) == NextAt(s, pos[s])

------------------------------------------------------------------------------
\* What the sources are.  (That a length word is a number holds of every sequence
\* of bytes; it is stated because proving it takes induction over its bytes.)
ASSUME SourcesAssumption ==
    /\ Type \in [Sources -> {"map", "file", "line"}]
    /\ LenBytes \in Nat \ {0} /\ Tab \in Byte /\ MaxLine \in Nat
    /\ \A s \in Sources :
          /\ Type[s] = "map"  => Contents[s] \in Seq([key : Seq(Byte), value : Seq(Byte)])
          /\ Type[s] = "line" => Contents[s] \in Seq(Seq(Byte))
          /\ Type[s] = "file" =>
                /\ Contents[s] \in Seq(Byte)
                /\ \A p \in 0 .. Len(Contents[s]) - LenBytes : Word(Contents[s], p) \in Nat
==============================================================================
