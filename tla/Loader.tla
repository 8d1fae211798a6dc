------------------------------- MODULE Loader --------------------------------
(***************************************************************************)
(* The write side of featcache, pkg/featcache/loader.go: the layout that   *)
(* Init computes with 32-bit words, and the entries that Load and put      *)
(* append behind it.                                                       *)
(*                                                                         *)
(* Sizes and offsets are numbers of bytes; the width of a word and the     *)
(* sizes of header, slot and length words are parameters.  The hash table  *)
(* is abstracted to the sequence of entries inserted in it: without        *)
(* deletions Insert succeeds as long as some slot is empty, and Get        *)
(* returns the first entry of a key (module HashTable).  The bytes of an   *)
(* entry are the interval of the segment that put writes.                  *)
(***************************************************************************)
EXTENDS DataSource, FiniteSets

CONSTANTS
    WordBits,    \* width of uint32 and int32 (32)
    HeaderSize,  \* size of the segment header (64)
    SlotSize,    \* size of a hash slot (24)
    AlignTo,     \* alignment of the data region (8)
    SegSize,     \* size of the segment, a 64-bit int
    MaxKeyLen,   \* longest key that Load accepts (256)
    Items,       \* the entries that each source was written from, for the properties
    Starts,      \* where they start in a binary file, and where the last ends
    InitSizes,   \* the numbers of entries that callers pass to Init
    MaxCalls     \* bound: number of calls of Init and Load

U32 == 2 ^ WordBits

uint32(n) == n % U32

\* Mutant: dataEnd is wider than its word.
int64(n) == n

int32(n) == IF n % U32 < U32 \div 2 THEN n % U32 ELSE (n % U32) - U32

ASSUME SizeAssumption ==
    /\ WordBits \in Nat \ {0} /\ SegSize \in Nat \ {0} /\ MaxCalls \in Nat
    /\ HeaderSize \in Nat \ {0} /\ SlotSize \in Nat \ {0} /\ AlignTo \in Nat \ {0}
    /\ MaxKeyLen \in Nat /\ InitSizes \subseteq Nat

VARIABLES
    hdr,      \* the header in shared memory
    table,    \* entries in the hash table, in the order of their insertion
    inited,   \* Loader.hashTable # nil
    dataEnd,  \* Loader.dataEnd, an int32
    lpc,      \* "idle", "loading", or "panic"
    src,      \* the source that Load is reading, or has read last
    count,    \* Load's count
    result,   \* what the last call returned: "none", "ok" or "error"
    sized,    \* history: the last Load itself initialised the table
    calls     \* bound: number of calls so far

loaderVars == <<hdr, table, inited, dataEnd, lpc, src, count, result, sized, calls, pos>>

------------------------------------------------------------------------------
(* types.go                                                                  *)

Align(v, n) == LET w == uint32(v + n - 1) IN w - (w % n)

\* 1 for 0, and 0 when the power of two does not fit in a word.
NextPow2(v) ==
    IF v = 0 THEN 1
             ELSE uint32(2 ^ (CHOOSE n \in 0 .. WordBits : 2 ^ n >= v /\ \A m \in 0 .. n - 1 : 2 ^ m < v))

------------------------------------------------------------------------------
(* Loader.Init                                                               *)

HashCap(expected)    == NextPow2(uint32(2 * uint32(expected)))
DataOffset(expected) == Align(uint32(HeaderSize + uint32(HashCap(expected) * SlotSize)), AlignTo)

\* Init refuses this number of entries.
TooSmall(expected) == DataOffset(expected) >= SegSize

\* InitHashTable runs past the end of the segment, and panics.
TableTooLong(expected) == HeaderSize + HashCap(expected) * SlotSize > SegSize

\* Init writes the header, zeroes the slots and goes on to the label next.
InitLayout(expected, next) ==
    /\ hdr' = [hashCap |-> HashCap(expected), dataOffset |-> DataOffset(expected),
               dataEnd |-> DataOffset(expected), gen |-> 0]
    /\ table' = <<>>
    /\ IF TableTooLong(expected)
       THEN lpc' = "panic" /\ UNCHANGED <<inited, dataEnd>>
       ELSE lpc' = next /\ inited' = TRUE /\ dataEnd' = int32(DataOffset(expected))

\* A caller sizes the table before it calls Load.
InitCall(expected) ==
    /\ lpc = "idle"
    /\ calls < MaxCalls
    /\ calls' = calls + 1
    /\ sized' = FALSE
    /\ \/ /\ TooSmall(expected)
          /\ result' = "error"
          /\ UNCHANGED <<hdr, table, inited, dataEnd, lpc>>
       \/ /\ ~TooSmall(expected)
          /\ InitLayout(expected, "idle")
          /\ result' = "ok"
    /\ UNCHANGED <<src, count, pos>>

------------------------------------------------------------------------------
(* Loader.Load                                                               *)

\* Open fails, and so does Load.
LoadOpenFails(s) ==
    /\ lpc = "idle"
    /\ calls < MaxCalls
    /\ Type[s] # "map"
    /\ calls' = calls + 1
    /\ src' = s
    /\ result' = "error"
    /\ sized' = FALSE
    /\ UNCHANGED <<hdr, table, inited, dataEnd, lpc, count, pos>>

\* Mutant: every Load initialises the segment.
AlwaysInits == TRUE

\* Init was not called before.
NeedsInit == ~inited

\* Load opens the source, and sizes the table from its estimate unless Init was
\* called before.
LoadOpen(s) ==
    /\ lpc = "idle"
    /\ calls < MaxCalls
    /\ calls' = calls + 1
    /\ src' = s
    /\ pos' = Rewound(s)
    /\ count' = 0
    /\ sized' = NeedsInit
    /\ \/ /\ ~NeedsInit
          /\ lpc' = "loading"
          /\ UNCHANGED <<hdr, table, inited, dataEnd, result>>
       \/ /\ NeedsInit
          /\ TooSmall(Estimate(s))
          /\ result' = "error"
          /\ UNCHANGED <<hdr, table, inited, dataEnd, lpc>>
       \/ /\ NeedsInit
          /\ ~TooSmall(Estimate(s))
          /\ InitLayout(Estimate(s), "loading")
          /\ result' = result

LoadReturns(r) == lpc' = "idle" /\ result' = r

\* The source is exhausted: Load bumps the generation and returns.
LoadEOF ==
    /\ lpc = "loading"
    /\ NextOf(src).err = "EOF"
    /\ hdr' = [hdr EXCEPT !.gen = @ + 1]
    /\ LoadReturns("ok")
    /\ UNCHANGED <<table, inited, dataEnd, src, count, sized, calls, pos>>

\* Next fails, or a read of the file does: what was loaded stays, and the
\* generation is not bumped.
LoadBroken ==
    /\ lpc = "loading"
    /\ NextOf(src).err = "failed" \/ Type[src] # "map"
    /\ LoadReturns("error")
    /\ UNCHANGED <<hdr, table, inited, dataEnd, src, count, sized, calls, pos>>

ValidKey(key) == Len(key) # 0 /\ Len(key) <= MaxKeyLen

\* Next delivers an entry.
Delivered ==
    /\ lpc = "loading"
    /\ NextOf(src).err = "none"
    /\ pos' = [pos EXCEPT ![src] = NextOf(src).pos]

LoadSkip ==
    /\ Delivered
    /\ ~ValidKey(NextOf(src).key)
    /\ UNCHANGED <<hdr, table, inited, dataEnd, lpc, src, count, result, sized, calls>>

------------------------------------------------------------------------------
(* Loader.put, and what Load makes of its outcome                            *)

\* The entry that Load hands to put, and the size of its chunk.
Entry     == NextOf(src)
ChunkSize == LenBytes + Len(Entry.key) + Len(Entry.value)

\* Mutant: only the first byte of the chunk is checked.
FitsStart == dataEnd < SegSize

\* The chunk starts at the old value of dataEnd.
Fits == dataEnd + ChunkSize <= SegSize

\* Load hands the next valid entry to put, which advances dataEnd first.
PutBegin ==
    /\ Delivered
    /\ ValidKey(Entry.key)
    /\ dataEnd' = int32(dataEnd + ChunkSize)
    /\ UNCHANGED <<inited, src, sized, calls>>

\* "data region full": dataEnd stays advanced, and Load returns the error.
PutDataFull ==
    /\ PutBegin
    /\ ~Fits
    /\ LoadReturns("error")
    /\ UNCHANGED <<hdr, table, count>>

\* dataEnd has wrapped: slicing the segment at a negative offset panics.
PutPanics ==
    /\ PutBegin
    /\ Fits /\ dataEnd < 0
    /\ lpc' = "panic"
    /\ UNCHANGED <<hdr, table, count, result>>

\* Insert finds no slot: Load stops reading, logs, and returns without an error.
PutHashFull ==
    /\ PutBegin
    /\ Fits /\ dataEnd >= 0
    /\ Len(table) >= hdr.hashCap
    /\ hdr' = [hdr EXCEPT !.gen = @ + 1]
    /\ LoadReturns("ok")
    /\ UNCHANGED <<table, count>>

PutInserts ==
    /\ PutBegin
    /\ Fits /\ dataEnd >= 0
    /\ Len(table) < hdr.hashCap
    /\ table' = Append(table, [key |-> Entry.key, value |-> Entry.value,
                               off |-> dataEnd, end |-> dataEnd + ChunkSize])
    /\ count' = count + 1
    /\ UNCHANGED <<hdr, lpc, result>>

------------------------------------------------------------------------------
\* A loader over a segment that holds no featcache header yet.
Init ==
    /\ hdr = [hashCap |-> 0, dataOffset |-> 0, dataEnd |-> 0, gen |-> 0]
    /\ table = <<>>
    /\ inited = FALSE
    /\ dataEnd = 0
    /\ lpc = "idle"
    /\ src \in Sources
    /\ count = 0
    /\ result = "none"
    /\ sized = FALSE
    /\ calls = 0
    /\ pos = [s \in Sources |-> 0]

Next ==
    \/ \E n \in InitSizes : InitCall(n)
    \/ \E s \in Sources : LoadOpenFails(s) \/ LoadOpen(s)
    \/ LoadEOF \/ LoadBroken \/ LoadSkip
    \/ PutDataFull \/ PutPanics \/ PutHashFull \/ PutInserts

Spec == Init /\ [][Next]_loaderVars

------------------------------------------------------------------------------
(* Sizes and formats: what the properties and the theorems presuppose         *)

\* A segment whose bytes an int32 can count, and entries that it can count too.
Addressable ==
    /\ SegSize <= U32 \div 2 /\ AlignTo <= U32 \div 2
    /\ \A s \in Sources : \A p \in 0 .. Len(Contents[s]) : NextAt(s, p).err = "none" =>
          LenBytes + Len(NextAt(s, p).key) + Len(NextAt(s, p).value) <= U32 \div 2

\* A line of a text file, "key\tvalue"; the tab may be missing before an empty value.
WrittenLine(line, e) ==
    /\ ~Contains(e.key, Tab)
    /\ line = e.key \o <<Tab>> \o e.value \/ (e.value = <<>> /\ line = e.key)

\* From p to q a binary file has "[keyLen][key][valueLen][value]".
WrittenEntry(bytes, p, q, e) ==
    LET key == p + LenBytes
        val == key + Len(e.key) + LenBytes
    IN /\ q = val + Len(e.value) /\ q <= Len(bytes)
       /\ Word(bytes, p) = Len(e.key) /\ SubSeq(bytes, key + 1, key + Len(e.key)) = e.key
       /\ Word(bytes, val - LenBytes) = Len(e.value) /\ SubSeq(bytes, val + 1, q) = e.value

\* At p there is no whole entry: the file ends there, or is cut off behind it.
NoEntry(bytes, p) ==
    \A k, v \in 0 .. Len(bytes) :
        p + LenBytes + k + LenBytes + v <= Len(bytes) =>
            ~(Word(bytes, p) = k /\ Word(bytes, p + LenBytes + k) = v)

\* Source s was written from its items, in the format that datasource.go documents
\* for it.  Behind them, a binary file may be cut off, and a text file may have a
\* line that the scanner refuses.
WrittenFrom(s) ==
    /\ Items[s] \in Seq([key : Seq(Byte), value : Seq(Byte)])
    /\ Type[s] = "map" => Contents[s] = Items[s]
    /\ Type[s] = "line" =>
          /\ Len(Items[s]) <= Len(Contents[s])
          /\ \A i \in 1 .. Len(Items[s]) :
                Len(Contents[s][i]) <= MaxLine /\ WrittenLine(Contents[s][i], Items[s][i])
          /\ Len(Items[s]) < Len(Contents[s]) => Len(Contents[s][Len(Items[s]) + 1]) > MaxLine
    /\ Type[s] = "file" =>
          /\ Starts[s] \in Seq(Nat) /\ Len(Starts[s]) = Len(Items[s]) + 1 /\ Starts[s][1] = 0
          /\ \A i \in 1 .. Len(Items[s]) :
                WrittenEntry(Contents[s], Starts[s][i], Starts[s][i + 1], Items[s][i])
          /\ Starts[s][Len(Starts[s])] <= Len(Contents[s])
          /\ NoEntry(Contents[s], Starts[s][Len(Starts[s])])

Written == \A s \in Sources : WrittenFrom(s)

------------------------------------------------------------------------------
(* Properties                                                                *)

Uint32s == 0 .. U32 - 1
Int32s  == -(U32 \div 2) .. (U32 \div 2) - 1
Headers == [hashCap : Uint32s, dataOffset : Uint32s, dataEnd : Uint32s, gen : Nat]
Chunks  == [key : Seq(Byte), value : Seq(Byte), off : Nat, end : Nat]

\* Every variable has its type; dataEnd is an int32 and the header words uint32.
TypeOK ==
    /\ hdr \in Headers
    /\ table \in Seq(Chunks)
    /\ inited \in BOOLEAN
    /\ dataEnd \in Int32s
    /\ lpc \in {"idle", "loading", "panic"}
    /\ src \in Sources
    /\ count \in Nat
    /\ result \in {"none", "ok", "error"}
    /\ sized \in BOOLEAN
    /\ calls \in 0 .. MaxCalls
    /\ pos \in [Sources -> Nat] /\ \A s \in Sources : pos[s] <= Len(Contents[s])

\* Header, slots and chunks share the segment without overlapping: the slots end
\* before the data region begins, and every entry has its own bytes in it.  This
\* is what Init's size check and put's bound check are for.
LayoutOK ==
    inited /\ lpc # "panic" =>
        /\ HeaderSize + hdr.hashCap * SlotSize <= hdr.dataOffset
        /\ hdr.dataOffset <= SegSize
        /\ \A i \in 1 .. Len(table) : hdr.dataOffset <= table[i].off /\ table[i].end <= SegSize
        /\ \A i, j \in 1 .. Len(table) : i < j => table[i].end <= table[j].off

\* "Append-only: written once, unchanged during runtime": put writes each chunk into
\* the data region, behind all that were written before.
AppendOnly ==
    lpc # "panic" => \A i \in 1 .. Len(table) :
        hdr.dataOffset <= table[i].off /\ \A j \in 1 .. i - 1 : table[j].end <= table[i].off

\* "Support segments of 10GB+ of data": whatever the size of the segment, put and
\* Init report what does not fit in it; they never panic.
NoPanic == lpc # "panic"

\* The first entry of a key, the one that lookups return.
FirstIn(k) == table[CHOOSE i \in 1 .. Len(table) : /\ table[i].key = k
                                                   /\ \A j \in 1 .. i - 1 : table[j].key # k]
KeysIn == {table[i].key : i \in 1 .. Len(table)}

ValidItems(s) == {i \in 1 .. Len(Items[s]) : ValidKey(Items[s][i].key)}

\* Every valid key of the source is in the table, with the first value that the
\* source has for it.
AllServed(s) ==
    \A i \in ValidItems(s) :
        LET k     == Items[s][i].key
            first == CHOOSE j \in ValidItems(s) :
                         /\ Items[s][j].key = k
                         /\ \A m \in ValidItems(s) : m < j => Items[s][m].key # k
        IN k \in KeysIn /\ FirstIn(k).value = Items[s][first].value

Completes(s) == lpc = "idle" /\ result = "ok" /\ sized /\ src = s

\* Twice the estimate of s is a power of two, or below one, that a word can hold:
\* a map of up to 2^30 entries, or a binary file of up to 8 GiB.
Countable(s) == Type[s] # "line" /\ Estimate(s) <= U32 \div 4

\* A Load that sizes the table from the estimate of a map or a binary file, of up to
\* 8 GiB, finds a slot for every entry that the source has left.
EstimateSuffices ==
    lpc = "loading" /\ sized /\ Countable(src) /\ NextOf(src).err = "none" =>
        Len(table) < hdr.hashCap

\* A Load that sizes the table from the estimate of a map or a binary file, of up to
\* 8 GiB, and returns without an error has put every valid key of it in the table:
\* the estimate is not too small, and put's "hash table full" does not cut it short.
LoadComplete == \A s \in Sources : Completes(s) /\ Countable(s) => AllServed(s)

\* "Load reads all entries from the DataSource and writes them to the segment": when it
\* has sized the table itself and returns without an error, every valid key of the
\* source is served, of text files and of files of "10GB - 100GB" too.
SuccessMeansLoaded == \A s \in Sources : Completes(s) => AllServed(s)

\* Whatever is served was in some source: decoding a file or a line, also of
\* one that is cut off, joins no key to the value of another entry.
LoadFaithful ==
    \A i \in 1 .. Len(table) :
        \E s \in Sources : \E j \in ValidItems(s) :
            table[i].key = Items[s][j].key /\ table[i].value = Items[s][j].value

\* A Load, also one that fails, removes and moves nothing that an earlier Load
\* put into the table: lookups of those keys go on as before.
LoadAppends ==
    [][lpc = "loading" \/ lpc' = "loading" => IsPrefix(table, table')]_loaderVars

==============================================================================
