--------------------------- MODULE HashTableProofs ---------------------------
(***************************************************************************)
(* Proofs about the table of module HashTable, for any number of slots,    *)
(* keys, writers and lookups.  The inductive invariant has three layers,   *)
(* each proved with the help of the ones before it:                        *)
(*   TypeInv    types, and the indices of the loops;                       *)
(*   TableInv   what writers know of the slots and chunks they work on;    *)
(*   LookupInv  what a lookup knows of the slots it has left behind.       *)
(***************************************************************************)
EXTENDS HashTable, TLAPS

------------------------------------------------------------------------------
(* Types.                                                                    *)

\* The labels at which a writer is inside the body of a probe loop.
LoopLabels == {"load", "cas", "fill"} \cup DeleteLabels

\* Inside a probe loop the index is below the capacity.
LoopBounds ==
    /\ \A w \in Writers : wpc[w] \in LoopLabels => wi[w] < Capacity
    /\ \A r \in Readers : rpc[r] \in GetLabels => ri[r] < Capacity

TypeInv == TypeOK /\ LoopBounds

USE DEF Empty, Used, Tomb

\* The remainder by the capacity is a slot index.
LEMMA ProbeInSlots ==
    ASSUME NEW h \in Nat, NEW i \in Nat
    PROVE  Probe(h, i) \in Slots
  BY CapacityAssumption DEF Probe, Slots

\* The same, for the index of a loop iteration.
LEMMA ProbeSlots == \A h \in Nat, i \in Slots : Probe(h, i) \in Slots
  <1>1. Slots \subseteq Nat
    BY CapacityAssumption DEF Slots
  <1> QED BY <1>1, ProbeInSlots

\* A store into one word of a slot gives a slot.
LEMMA SlotStore ==
    ASSUME NEW t \in HashSlot, NEW st \in {Empty, Used, Tomb}, NEW h \in Nat, NEW c \in Chunks, NEW l \in Nat
    PROVE  /\ [t EXCEPT !.status = st] \in HashSlot
           /\ [t EXCEPT !.hash = h] \in HashSlot
           /\ [t EXCEPT !.offset = c] \in HashSlot
           /\ [t EXCEPT !.vlen = l] \in HashSlot
  BY DEF HashSlot

\* Leaving a loop iteration keeps the writer's index within its loop.
LEMMA AdvanceType ==
    ASSUME TypeInv, NEW w \in Writers, NEW label \in LoopLabels, wi[w] < Capacity, Advance(w, label)
    PROVE  /\ wi' \in [Writers -> 0 .. Capacity]
           /\ wpc' \in [Writers -> {"idle"} \cup InsertLabels \cup DeleteLabels]
           /\ \A x \in Writers : wpc'[x] \in LoopLabels => wi'[x] < Capacity
  <1>1. Capacity \in Nat /\ wi[w] + 1 \in 0 .. Capacity
    BY CapacityAssumption DEF TypeInv, TypeOK
  <1>2. "idle" \notin LoopLabels /\ label \in {"idle"} \cup InsertLabels \cup DeleteLabels
    BY DEF LoopLabels, InsertLabels, DeleteLabels
  <1> QED BY <1>1, <1>2 DEF Advance, Goto, TypeInv, TypeOK, LoopBounds

\* The same for a lookup.
LEMMA RAdvanceType ==
    ASSUME TypeInv, NEW r \in Readers, ri[r] < Capacity, RAdvance(r)
    PROVE  /\ ri' \in [Readers -> 0 .. Capacity]
           /\ rpc' \in [Readers -> Done \cup GetLabels]
           /\ \A x \in Readers : rpc'[x] \in GetLabels => ri'[x] < Capacity
  <1>1. Capacity \in Nat /\ ri[r] + 1 \in 0 .. Capacity
    BY CapacityAssumption DEF TypeInv, TypeOK
  <1>2. "miss" \notin GetLabels /\ "miss" \in Done /\ "load" \in GetLabels
    BY DEF GetLabels, Done
  <1> QED BY <1>1, <1>2 DEF RAdvance, RGoto, TypeInv, TypeOK, LoopBounds

\* A new table is well typed.
LEMMA TypeInit == Init => TypeInv
  <1> SUFFICES ASSUME Init PROVE TypeInv
    OBVIOUS
  <1>1. SomeKey \in Keys /\ SomeValue \in Values
    BY DataAssumption DEF SomeKey, SomeValue
  <1>2. 0 \in Chunks /\ 0 \in 0 .. Capacity /\ 0 \in 0 .. MaxChunks
    BY DataAssumption, CapacityAssumption DEF Chunks
  <1>3. TypeOK
    BY <1>1, <1>2 DEF Init, TypeOK, HashSlot, InsertLabels, DeleteLabels, GetLabels, Done, Slots, Chunks
  <1>4. LoopBounds
    BY DEF Init, LoopBounds, LoopLabels, DeleteLabels, GetLabels
  <1> QED BY <1>3, <1>4 DEF TypeInv

\* No step leaves the types or the bounds of the probe loops.
LEMMA TypeNext == TypeInv /\ [Next]_vars => TypeInv'
  <1> SUFFICES ASSUME TypeInv, [Next]_vars PROVE TypeInv'
    OBVIOUS
  <1> USE DEF TypeInv, LoopBounds, LoopLabels, InsertLabels, DeleteLabels, GetLabels, Done
  <1>a. /\ Capacity \in Nat \ {0} /\ MaxChunks \in Nat \ {0}
        /\ VLen \in [Values -> Nat] /\ HashOf \in [Keys -> Nat] /\ Deletable \subseteq Keys
    BY CapacityAssumption, DataAssumption, ContractAssumption
  <1>b. \A w \in Writers : WSlot(w) \in Slots
    BY <1>a, ProbeInSlots DEF WSlot, TypeOK
  <1>c. \A r \in Readers : RSlot(r) \in Slots
    BY <1>a, ProbeInSlots DEF RSlot, TypeOK
  <1>1. CASE UNCHANGED vars
    BY <1>1 DEF vars, table, writers, lookups, history, TypeOK
  <1>2. ASSUME NEW w \in Writers, NEW k \in Keys, NEW v \in Values, PutAlloc(w, k, v)
        PROVE  TypeInv'
    BY <1>2, <1>a DEF PutAlloc, Goto, TypeOK, lookups, Chunks
  <1>3. ASSUME NEW w \in Writers, NEW k \in Deletable, DeleteBegin(w, k)
        PROVE  TypeInv'
    BY <1>3, <1>a DEF DeleteBegin, Goto, TypeOK, table, lookups, history
  <1>4. ASSUME NEW w \in Writers, PutWrite(w)
        PROVE  TypeInv'
    BY <1>4, <1>a DEF PutWrite, Goto, TypeOK, lookups, history, Entry
  <1>5. ASSUME NEW w \in Writers, InsertLoad(w)
        PROVE  TypeInv'
    <2>1. CASE slots[WSlot(w)].status \in {Empty, Tomb} /\ wi' = wi
      BY <1>5, <2>1, <1>a DEF InsertLoad, Goto, TypeOK, table, lookups, history
    <2>2. CASE Advance(w, "load") /\ wst' = wst
      BY <1>5, <2>2, AdvanceType DEF InsertLoad, TypeOK, table, lookups, history
    <2> QED BY <1>5, <2>1, <2>2 DEF InsertLoad
  <1>6. ASSUME NEW w \in Writers, InsertCAS(w)
        PROVE  TypeInv'
    <2>1. CASE Advance(w, "load") /\ UNCHANGED <<slots, wtodo>>
      BY <1>6, <2>1, AdvanceType DEF InsertCAS, TypeOK, lookups, history
    <2>2. CASE /\ slots' = [slots EXCEPT ![WSlot(w)].status = Used]
               /\ wtodo' = [wtodo EXCEPT ![w] = Fields]
               /\ Goto(w, "fill") /\ wi' = wi
      <3>1. slots' \in [Slots -> HashSlot]
        BY <2>2, <1>b, SlotStore DEF TypeOK
      <3> QED BY <1>6, <2>2, <3>1 DEF InsertCAS, Goto, TypeOK, lookups, history
    <2> QED BY <1>6, <2>1, <2>2 DEF InsertCAS
  <1>7. ASSUME NEW w \in Writers, NEW f \in Fields, InsertField(w, f)
        PROVE  TypeInv'
    <2>1. slots' \in [Slots -> HashSlot]
      BY <1>7, <1>a, <1>b, SlotStore DEF InsertField, TypeOK, Fields
    <2> QED BY <1>7, <2>1 DEF InsertField, Goto, TypeOK, lookups, history
  <1>8. ASSUME NEW w \in Writers, DeleteLoad(w)
        PROVE  TypeInv'
    <2>1. CASE Advance(w, "dload")
      BY <1>8, <2>1, AdvanceType DEF DeleteLoad, TypeOK, table, lookups, history
    <2>2. CASE (Goto(w, "idle") \/ Goto(w, "dmatch")) /\ wi' = wi
      BY <1>8, <2>2 DEF DeleteLoad, Goto, TypeOK, table, lookups, history
    <2> QED BY <1>8, <2>1, <2>2 DEF DeleteLoad
  <1>9. ASSUME NEW w \in Writers, DeleteMatch(w)
        PROVE  TypeInv'
    <2>1. CASE Advance(w, "dload")
      BY <1>9, <2>1, AdvanceType DEF DeleteMatch, TypeOK, table, lookups, history
    <2>2. CASE Goto(w, "dstore") /\ wi' = wi
      BY <1>9, <2>2 DEF DeleteMatch, Goto, TypeOK, table, lookups, history
    <2> QED BY <1>9, <2>1, <2>2 DEF DeleteMatch
  <1>10. ASSUME NEW w \in Writers, DeleteStore(w)
         PROVE  TypeInv'
    <2>1. slots' \in [Slots -> HashSlot]
      BY <1>10, <1>b, SlotStore DEF DeleteStore, TypeOK
    <2> QED BY <1>10, <2>1 DEF DeleteStore, Goto, TypeOK, lookups
  <1>11. ASSUME NEW r \in Readers, NEW k \in Keys, GetBegin(r, k)
         PROVE  TypeInv'
    BY <1>11, <1>a DEF GetBegin, RGoto, TypeOK, table, writers, Holding
  <1>12. ASSUME NEW r \in Readers, GetStatus(r)
         PROVE  TypeInv'
    <2>1. CASE RAdvance(r) /\ rtodo' = rtodo
      BY <1>12, <2>1, RAdvanceType DEF GetStatus, TypeOK, table, writers, history
    <2>2. CASE RGoto(r, "miss") /\ UNCHANGED <<ri, rtodo>>
      BY <1>12, <2>2 DEF GetStatus, RGoto, TypeOK, table, writers, history
    <2>3. CASE RGoto(r, "copy") /\ ri' = ri /\ rtodo' = [rtodo EXCEPT ![r] = Fields]
      BY <1>12, <2>3 DEF GetStatus, RGoto, TypeOK, table, writers, history
    <2> QED BY <1>12, <2>1, <2>2, <2>3 DEF GetStatus
  <1>13. ASSUME NEW r \in Readers, NEW f \in Fields, GetField(r, f)
         PROVE  TypeInv'
    BY <1>13, <1>a, <1>c DEF GetField, RGoto, TypeOK, table, writers, history, Fields, HashSlot
  <1>14. ASSUME NEW r \in Readers, GetMatch(r)
         PROVE  TypeInv'
    <2>1. CASE RAdvance(r)
      BY <1>14, <2>1, RAdvanceType DEF GetMatch, TypeOK, table, writers, history
    <2>2. CASE RGoto(r, "hit") /\ ri' = ri
      BY <1>14, <2>2 DEF GetMatch, RGoto, TypeOK, table, writers, history
    <2> QED BY <1>14, <2>1, <2>2 DEF GetMatch
  <1> QED
    BY <1>1, <1>2, <1>3, <1>4, <1>5, <1>6, <1>7, <1>8, <1>9, <1>10, <1>11, <1>12, <1>13, <1>14
    DEF Next, WriterStep, Insert, Delete, Get

\* Every reachable state is well typed.
THEOREM TypeCorrect == Spec => []TypeOK
  <1>1. Spec => []TypeInv
    BY TypeInit, TypeNext, PTL DEF Spec
  <1> QED BY <1>1, PTL DEF TypeInv

------------------------------------------------------------------------------
(* The table: what the writers rely on.                                      *)

\* The region above dataEnd is still zeroed.
Fresh == \A c \in Chunks : c >= dataEnd => data[c] = NoChunk

\* A put owns its chunk from the allocation on.
ChunkOwned ==
    /\ \A w \in Writers :
        /\ wpc[w] \in InsertLabels => woff[w] < dataEnd
        /\ wpc[w] = "write" => data[woff[w]] = NoChunk
        /\ wpc[w] \in {"load", "cas", "fill"} => data[woff[w]] = [key |-> wkey[w], val |-> wval[w]]
    /\ \A w1, w2 \in Writers :
        wpc[w1] = "write" /\ wpc[w2] = "write" /\ w1 # w2 => woff[w1] # woff[w2]

\* The slots an insertion has stepped over are not empty, and never become so.
InsertPath ==
    \A w \in Writers :
        /\ wpc[w] \in {"load", "cas", "fill"} =>
            \A i \in Slots : i < wi[w] => slots[Probe(HashOf[wkey[w]], i)].status # Empty
        /\ wpc[w] = "cas" /\ wst[w] = Tomb => slots[WSlot(w)].status # Empty

\* The words already stored into a claimed slot are those of the put.
FilledFields ==
    \A w \in Writers : Filling(w) =>
        /\ "hash" \notin wtodo[w] => slots[WSlot(w)].hash = HashOf[wkey[w]]
        /\ "offset" \notin wtodo[w] => slots[WSlot(w)].offset = woff[w]
        /\ "vlen" \notin wtodo[w] => slots[WSlot(w)].vlen = VLen[wval[w]]

\* Whoever deletes is the only writer.
DeleteAlone == \A w \in Writers : wpc[w] \in DeleteLabels => SingleWriter

TableInv ==
    /\ Fresh
    /\ ChunkOwned
    /\ InsertPath
    /\ FilledFields
    /\ DeleteAlone
    /\ ClaimExclusive
    /\ EntryIntact

\* A step keeps the published entry of slot s.
Keeps(s) ==
    Published(s) =>
        /\ Published(s)'
        /\ slots'[s] = slots[s]
        /\ data'[slots[s].offset] = data[slots[s].offset]

\* The indices that the loops use are slots.
LEMMA IndexSlots ==
    ASSUME TypeInv
    PROVE  /\ \A w \in Writers : WSlot(w) \in Slots
           /\ \A w \in Writers, i \in Slots : Probe(HashOf[wkey[w]], i) \in Slots
           /\ \A s, i \in Slots : Probe(slots[s].hash, i) \in Slots
           /\ \A r \in Readers : RSlot(r) \in Slots
           /\ \A r \in Readers, i \in Slots : Probe(HashOf[rkey[r]], i) \in Slots
  <1>1. /\ \A w \in Writers : HashOf[wkey[w]] \in Nat /\ wi[w] \in Nat
        /\ \A r \in Readers : HashOf[rkey[r]] \in Nat /\ ri[r] \in Nat
        /\ \A s \in Slots : slots[s].hash \in Nat
    BY DataAssumption, CapacityAssumption DEF TypeInv, TypeOK, HashSlot
  <1> QED BY <1>1, ProbeInSlots, ProbeSlots DEF WSlot, RSlot

\* A new table has no entries and no writer at work.
LEMMA TableInit == Init => TableInv
  <1> SUFFICES ASSUME Init PROVE TableInv
    OBVIOUS
  <1>1. \A w \in Writers : wpc[w] = "idle"
    BY DEF Init
  <1>2. \A s \in Slots : slots[s].status = Empty
    BY DEF Init
  <1>3. Fresh
    BY DEF Init, Fresh
  <1> QED
    BY <1>1, <1>2, <1>3 DEF TableInv, ChunkOwned, InsertPath, FilledFields, DeleteAlone, ClaimExclusive,
       EntryIntact, Published, Filling, InsertLabels, DeleteLabels

\* A step of writer w outside its three stores changes no slot, and writes
\* at most a chunk that was zeroed: published entries stay as they are.
LEMMA QuietStep ==
    ASSUME TypeInv, TableInv, NEW w \in Writers,
           UNCHANGED slots,
           \A c \in Chunks : data[c] # NoChunk => data'[c] = data[c],
           \A x \in Writers : x # w => wpc'[x] = wpc[x] /\ wkey'[x] = wkey[x] /\ wi'[x] = wi[x],
           wpc[w] # "fill", wpc'[w] # "fill"
    PROVE  /\ ClaimExclusive'
           /\ EntryIntact'
           /\ \A s \in Slots : Keeps(s)
  <1>1. \A x \in Writers : (Filling(x)' <=> Filling(x)) /\ (Filling(x) => WSlot(x)' = WSlot(x))
    BY DEF Filling, WSlot, Probe
  <1>2. \A s \in Slots : Published(s)' <=> Published(s)
    BY <1>1 DEF Published, BeingFilled
  <1>3. \A s \in Slots : Published(s) => /\ slots[s].offset \in Chunks
                                         /\ data'[slots[s].offset] = data[slots[s].offset]
    BY DataAssumption DEF TypeInv, TypeOK, HashSlot, TableInv, EntryIntact, Entry
  <1>4. ClaimExclusive'
    BY <1>1 DEF TableInv, ClaimExclusive
  <1>5. EntryIntact'
    BY <1>2, <1>3 DEF TableInv, EntryIntact, Reachable, Probe
  <1> QED BY <1>2, <1>3, <1>4, <1>5 DEF Keeps

\* The allocation gives the writer a chunk that no slot and no writer has.
LEMMA TablePutAlloc ==
    ASSUME TypeInv, TableInv, NEW w \in Writers, NEW k \in Keys, NEW v \in Values, PutAlloc(w, k, v)
    PROVE  TableInv' /\ \A s \in Slots : Keeps(s)
  <1> USE DEF InsertLabels, DeleteLabels
  <1>1. /\ UNCHANGED <<slots, data, wi, wst, wtodo>>
        /\ dataEnd \in Nat /\ dataEnd' = dataEnd + 1 /\ woff'[w] = dataEnd /\ dataEnd \in Chunks
        /\ wpc[w] = "idle" /\ wpc'[w] = "write"
        /\ \A x \in Writers : x # w => /\ wpc'[x] = wpc[x] /\ wkey'[x] = wkey[x]
                                       /\ wval'[x] = wval[x] /\ woff'[x] = woff[x]
    BY DataAssumption DEF PutAlloc, Goto, TypeInv, TypeOK, Chunks
  <1>2. ClaimExclusive' /\ EntryIntact' /\ \A s \in Slots : Keeps(s)
    BY <1>1, QuietStep
  <1>3. Fresh'
    BY <1>1 DEF TableInv, Fresh, Chunks
  <1>4. ChunkOwned'
    <2>1. /\ data[dataEnd] = NoChunk
          /\ \A x \in Writers : woff[x] \in Int
      BY <1>1 DEF TableInv, Fresh, TypeInv, TypeOK, Chunks
    <2>2. ASSUME NEW x \in Writers
          PROVE  /\ wpc'[x] \in InsertLabels => woff'[x] < dataEnd'
                 /\ wpc'[x] = "write" => data'[woff'[x]] = NoChunk
                 /\ wpc'[x] \in {"load", "cas", "fill"} =>
                        data'[woff'[x]] = [key |-> wkey'[x], val |-> wval'[x]]
      <3>1. CASE x = w
        BY <1>1, <2>1, <3>1
      <3>2. CASE x # w
        BY <1>1, <2>1, <3>2 DEF TableInv, ChunkOwned
      <3> QED BY <3>1, <3>2
    <2>3. ASSUME NEW x \in Writers, NEW y \in Writers, wpc'[x] = "write", wpc'[y] = "write", x # y
          PROVE  woff'[x] # woff'[y]
      <3>1. \A z \in Writers : wpc[z] = "write" => woff[z] < dataEnd
        BY DEF TableInv, ChunkOwned
      <3>2. CASE x # w /\ y # w
        BY <1>1, <2>3, <3>2 DEF TableInv, ChunkOwned
      <3>3. CASE x = w \/ y = w
        BY <1>1, <2>1, <2>3, <3>1, <3>3
      <3> QED BY <3>2, <3>3
    <2> QED BY <2>2, <2>3 DEF ChunkOwned
  <1>5. InsertPath' /\ FilledFields' /\ DeleteAlone'
    BY <1>1 DEF TableInv, InsertPath, FilledFields, DeleteAlone, Filling, WSlot, Probe
  <1> QED BY <1>2, <1>3, <1>4, <1>5 DEF TableInv

\* The writer fills its own chunk, which no published slot points at.
LEMMA TablePutWrite ==
    ASSUME TypeInv, TableInv, NEW w \in Writers, PutWrite(w)
    PROVE  TableInv' /\ \A s \in Slots : Keeps(s)
  <1> USE DEF InsertLabels, DeleteLabels
  <1>1. /\ UNCHANGED <<slots, dataEnd, wkey, wval, woff, wst, wtodo>>
        /\ wpc[w] = "write" /\ wpc'[w] = "load" /\ wi'[w] = 0
        /\ woff[w] \in Chunks /\ woff[w] < dataEnd /\ data[woff[w]] = NoChunk
        /\ data'[woff[w]] = [key |-> wkey[w], val |-> wval[w]]
        /\ \A c \in Chunks : c # woff[w] => data'[c] = data[c]
        /\ \A x \in Writers : x # w => wpc'[x] = wpc[x] /\ wi'[x] = wi[x]
    BY DEF PutWrite, Goto, TypeInv, TypeOK, TableInv, ChunkOwned
  <1>2. ClaimExclusive' /\ EntryIntact' /\ \A s \in Slots : Keeps(s)
    BY <1>1, QuietStep
  <1>3. Fresh'
    BY <1>1 DEF TableInv, Fresh, TypeInv, TypeOK, Chunks
  <1>4. ChunkOwned'
    <2>1. \A x \in Writers : [key |-> wkey[x], val |-> wval[x]] # NoChunk /\ woff[x] \in Chunks
      BY DataAssumption DEF TypeInv, TypeOK
    <2>2. ASSUME NEW x \in Writers
          PROVE  /\ wpc'[x] \in InsertLabels => woff'[x] < dataEnd'
                 /\ wpc'[x] = "write" => data'[woff'[x]] = NoChunk
                 /\ wpc'[x] \in {"load", "cas", "fill"} =>
                        data'[woff'[x]] = [key |-> wkey'[x], val |-> wval'[x]]
      <3>1. CASE x = w
        BY <1>1, <3>1
      <3>2. CASE x # w
        BY <1>1, <2>1, <3>2 DEF TableInv, ChunkOwned
      <3> QED BY <3>1, <3>2
    <2>3. ASSUME NEW x \in Writers, NEW y \in Writers, wpc'[x] = "write", wpc'[y] = "write", x # y
          PROVE  woff'[x] # woff'[y]
      BY <1>1, <2>3 DEF TableInv, ChunkOwned
    <2> QED BY <2>2, <2>3 DEF ChunkOwned
  <1>5. InsertPath' /\ FilledFields' /\ DeleteAlone'
    BY <1>1 DEF TableInv, InsertPath, FilledFields, DeleteAlone, Filling, WSlot, Probe, Slots
  <1> QED BY <1>2, <1>3, <1>4, <1>5 DEF TableInv

\* A loop of Insert or Delete goes on: the slot it leaves is not empty.
LEMMA TableAdvance ==
    ASSUME TypeInv, TableInv, NEW w \in Writers, NEW label \in {"load", "dload"}, Advance(w, label),
           UNCHANGED <<slots, data, dataEnd, wkey, wval, woff, wst, wtodo>>,
           wpc[w] \in LoopLabels, wpc[w] # "fill",
           label = "load" => wpc[w] \in {"load", "cas"} /\ slots[WSlot(w)].status # Empty,
           label = "dload" => wpc[w] \in DeleteLabels
    PROVE  TableInv' /\ \A s \in Slots : Keeps(s)
  <1> USE DEF InsertLabels, DeleteLabels, LoopLabels
  <1>1. /\ wi[w] \in Nat /\ wi'[w] = wi[w] + 1 /\ wpc'[w] \in {label, "idle"}
        /\ \A x \in Writers : x # w => wpc'[x] = wpc[x] /\ wi'[x] = wi[x]
    BY DEF Advance, Goto, TypeInv, TypeOK
  <1>2. ClaimExclusive' /\ EntryIntact' /\ \A s \in Slots : Keeps(s)
    BY <1>1, QuietStep
  <1>3. Fresh' /\ ChunkOwned' /\ FilledFields' /\ DeleteAlone'
    BY <1>1 DEF TableInv, Fresh, ChunkOwned, FilledFields, DeleteAlone, Filling, WSlot, Probe
  <1>4. InsertPath'
    <2>1. label = "load" => \A i \in Slots : i < wi[w] + 1 => slots[Probe(HashOf[wkey[w]], i)].status # Empty
      BY <1>1 DEF TableInv, InsertPath, WSlot, Slots
    <2> QED BY <1>1, <2>1 DEF TableInv, InsertPath, WSlot, Probe
  <1> QED BY <1>2, <1>3, <1>4 DEF TableInv

\* A writer moves to another label within its loop, or returns, and touches nothing.
LEMMA TableMove ==
    ASSUME TypeInv, TableInv, NEW w \in Writers, NEW label, Goto(w, label),
           UNCHANGED <<slots, data, dataEnd, wkey, wval, woff, wi, wtodo>>,
           \A x \in Writers : x # w => wst'[x] = wst[x],
           \/ label = "idle" /\ wpc[w] # "fill"
           \/ label = "cas" /\ wpc[w] = "load" /\ wst'[w] = slots[WSlot(w)].status
           \/ label \in DeleteLabels /\ wpc[w] \in DeleteLabels
    PROVE  TableInv' /\ \A s \in Slots : Keeps(s)
  <1> USE DEF InsertLabels, DeleteLabels
  <1>1. /\ wpc[w] # "fill" /\ label \notin {"fill", "load", "write"}
        /\ wpc'[w] = label
        /\ \A x \in Writers : x # w => wpc'[x] = wpc[x]
    BY DEF Goto, TypeInv, TypeOK
  <1>2. ClaimExclusive' /\ EntryIntact' /\ \A s \in Slots : Keeps(s)
    BY <1>1, QuietStep
  <1>3. Fresh' /\ ChunkOwned' /\ FilledFields' /\ DeleteAlone'
    BY <1>1 DEF TableInv, Fresh, ChunkOwned, FilledFields, DeleteAlone, Filling, WSlot, Probe
  <1>4. InsertPath'
    BY <1>1 DEF TableInv, InsertPath, WSlot, Probe
  <1> QED BY <1>2, <1>3, <1>4 DEF TableInv

\* The CAS takes a slot that is empty or deleted, so no writer fills it and no
\* published entry is in it.
LEMMA TableClaim ==
    ASSUME TypeInv, TableInv, NEW w \in Writers, wpc[w] = "cas",
           slots[WSlot(w)].status = wst[w],
           slots' = [slots EXCEPT ![WSlot(w)].status = Used],
           wtodo' = [wtodo EXCEPT ![w] = Fields], Goto(w, "fill"),
           UNCHANGED <<data, dataEnd, wkey, wval, woff, wi, wst>>
    PROVE  TableInv' /\ \A s \in Slots : Keeps(s)
  <1> USE DEF InsertLabels, DeleteLabels
  <1>1. /\ WSlot(w) \in Slots /\ slots[WSlot(w)].status # Used
        /\ slots'[WSlot(w)].status = Used
        /\ \A s \in Slots : s # WSlot(w) => slots'[s] = slots[s]
        /\ wpc'[w] = "fill" /\ wtodo'[w] = Fields
        /\ \A x \in Writers : x # w => wpc'[x] = wpc[x] /\ wtodo'[x] = wtodo[x]
        /\ \A x \in Writers : WSlot(x)' = WSlot(x)
    <2>1. WSlot(w) \in Slots
      BY IndexSlots
    <2>2. slots[WSlot(w)] \in HashSlot /\ wst[w] \in {Empty, Tomb}
      BY <2>1 DEF TypeInv, TypeOK
    <2> QED BY <2>1, <2>2 DEF Goto, TypeInv, TypeOK, HashSlot, WSlot, Probe
  <1>2. \A s \in Slots : /\ slots[s].status # Empty => slots'[s].status # Empty
                         /\ slots[s].status = Used => slots'[s] = slots[s]
    BY <1>1
  <1>3. \A s \in Slots : Published(s)' <=> Published(s)
    <2>1. ASSUME NEW s \in Slots, s # WSlot(w)
          PROVE  BeingFilled(s)' <=> BeingFilled(s)
      BY <1>1, <2>1 DEF BeingFilled, Filling
    <2>2. BeingFilled(WSlot(w))'
      BY <1>1 DEF BeingFilled, Filling
    <2> QED BY <1>1, <2>1, <2>2 DEF Published
  <1>4. Fresh' /\ ChunkOwned' /\ DeleteAlone'
    BY <1>1 DEF TableInv, Fresh, ChunkOwned, DeleteAlone
  <1>5. InsertPath'
    <2>1. \A x \in Writers, i \in Slots : Probe(HashOf[wkey[x]], i) \in Slots /\ WSlot(x) \in Slots
      BY IndexSlots
    <2> QED BY <1>1, <1>2, <2>1 DEF TableInv, InsertPath, Probe
  <1>6. FilledFields'
    BY <1>1 DEF TableInv, FilledFields, ClaimExclusive, Filling, Fields
  <1>7. ClaimExclusive'
    BY <1>1 DEF TableInv, ClaimExclusive, Filling
  <1>8. EntryIntact'
    <2>1. ASSUME NEW s \in Slots, Published(s)
          PROVE  slots'[s] = slots[s] /\ Reachable(slots[s].hash, s)'
      <3>1. slots'[s] = slots[s] /\ Reachable(slots[s].hash, s) /\ slots[s].hash \in Nat
        BY <1>2, <2>1 DEF Published, TableInv, EntryIntact, TypeInv, TypeOK, HashSlot
      <3>2. \A i \in Slots : Probe(slots[s].hash, i) \in Slots
        BY IndexSlots
      <3> QED BY <3>1, <3>2, <1>2 DEF Reachable, Probe
    <2> QED BY <1>3, <2>1 DEF TableInv, EntryIntact
  <1>9. \A s \in Slots : Keeps(s)
    BY <1>2, <1>3 DEF Keeps, Published
  <1> QED BY <1>4, <1>5, <1>6, <1>7, <1>8, <1>9 DEF TableInv

\* A store into a claimed slot; the last one publishes the entry.
LEMMA TableField ==
    ASSUME TypeInv, TableInv, NEW w \in Writers, NEW f \in Fields, InsertField(w, f)
    PROVE  TableInv' /\ \A s \in Slots : Keeps(s)
  <1> USE DEF InsertLabels, DeleteLabels
  <1>1. /\ UNCHANGED <<data, dataEnd, wkey, wval, woff, wi, wst>>
        /\ WSlot(w) \in Slots /\ wpc[w] = "fill"
        /\ \A s \in Slots : s # WSlot(w) => slots'[s] = slots[s]
        /\ \A s \in Slots : slots'[s].status = slots[s].status
        /\ wtodo'[w] = wtodo[w] \ {f}
        /\ wpc'[w] = IF wtodo[w] = {f} THEN "idle" ELSE "fill"
        /\ \A x \in Writers : x # w => wpc'[x] = wpc[x] /\ wtodo'[x] = wtodo[x]
        /\ \A x \in Writers : WSlot(x)' = WSlot(x)
    <2>1. WSlot(w) \in Slots
      BY IndexSlots
    <2>2. slots[WSlot(w)] \in HashSlot
      BY <2>1 DEF TypeInv, TypeOK
    <2> QED BY <2>1, <2>2 DEF InsertField, Goto, TypeInv, TypeOK, HashSlot, WSlot, Probe, Fields
  <1>2. /\ slots'[WSlot(w)].hash = IF f = "hash" THEN HashOf[wkey[w]] ELSE slots[WSlot(w)].hash
        /\ slots'[WSlot(w)].offset = IF f = "offset" THEN woff[w] ELSE slots[WSlot(w)].offset
        /\ slots'[WSlot(w)].vlen = IF f = "vlen" THEN VLen[wval[w]] ELSE slots[WSlot(w)].vlen
    <2>1. slots[WSlot(w)] \in HashSlot
      BY <1>1 DEF TypeInv, TypeOK
    <2> QED BY <1>1, <2>1 DEF InsertField, TypeInv, TypeOK, HashSlot, Fields
  <1>3. ASSUME NEW s \in Slots, s # WSlot(w)
        PROVE  Published(s)' <=> Published(s)
    BY <1>1, <1>3 DEF Published, BeingFilled, Filling
  <1>4. ~Published(WSlot(w))
    BY <1>1 DEF Published, BeingFilled, Filling
  <1>5. Fresh' /\ ChunkOwned' /\ DeleteAlone'
    BY <1>1 DEF TableInv, Fresh, ChunkOwned, DeleteAlone
  <1>6. \A x \in Writers, i \in Slots : Probe(HashOf[wkey[x]], i) \in Slots /\ WSlot(x) \in Slots
    BY IndexSlots
  <1>7. InsertPath'
    <2>1. \A x \in Writers : /\ wpc'[x] \in {"load", "cas", "fill"} => wpc[x] \in {"load", "cas", "fill"}
                             /\ wpc'[x] = "cas" => wpc[x] = "cas"
      BY <1>1
    <2>2. \A x \in Writers : (slots[WSlot(x)].status)' = slots[WSlot(x)].status
      BY <1>1, <1>6
    <2>3. \A x \in Writers, i \in Slots :
            (slots[Probe(HashOf[wkey[x]], i)].status)' = slots[Probe(HashOf[wkey[x]], i)].status
      BY <1>1, <1>6 DEF Probe
    <2>4. UNCHANGED <<wi, wst>>
      BY <1>1
    <2> QED BY <2>1, <2>2, <2>3, <2>4 DEF TableInv, InsertPath
  <1>8. FilledFields'
    <2>1. ASSUME NEW x \in Writers, x # w, Filling(x)
          PROVE  slots'[WSlot(x)] = slots[WSlot(x)]
      BY <1>1, <1>6, <2>1 DEF TableInv, ClaimExclusive, Filling
    <2> QED BY <1>1, <1>2, <2>1 DEF TableInv, FilledFields, Filling
  <1>9. ClaimExclusive'
    <2>1. \A x \in Writers : Filling(x)' => Filling(x)
      BY <1>1 DEF Filling
    <2>2. \A x \in Writers : WSlot(x)' = WSlot(x) /\ (slots[WSlot(x)].status)' = slots[WSlot(x)].status
      BY <1>1, <1>6
    <2> QED BY <2>1, <2>2 DEF TableInv, ClaimExclusive
  <1>10. ASSUME NEW s \in Slots, s = WSlot(w), Published(s)'
         PROVE  /\ (data[slots[s].offset])' = [key |-> wkey[w], val |-> wval[w]]
                /\ slots'[s].hash = HashOf[wkey[w]]
                /\ slots'[s].vlen = VLen[wval[w]]
                /\ Reachable(HashOf[wkey[w]], s)
                /\ HashOf[wkey[w]] \in Nat
    <2>1. wtodo[w] = {f}
      BY <1>1, <1>10 DEF Published, BeingFilled, Filling
    <2>2. /\ slots'[s].hash = HashOf[wkey[w]]
          /\ slots'[s].offset = woff[w]
          /\ slots'[s].vlen = VLen[wval[w]]
      BY <1>1, <1>2, <1>10, <2>1 DEF TableInv, FilledFields, Filling
    <2>3. Reachable(HashOf[wkey[w]], s)
      <3>1. wi[w] \in Slots /\ Probe(HashOf[wkey[w]], wi[w]) = s
        BY <1>1, <1>10, CapacityAssumption DEF TypeInv, TypeOK, LoopBounds, LoopLabels, Slots, WSlot
      <3>2. \A i \in Slots : i < wi[w] => slots[Probe(HashOf[wkey[w]], i)].status # Empty
        BY <1>1 DEF TableInv, InsertPath
      <3> QED BY <3>1, <3>2 DEF Reachable
    <2>4. HashOf[wkey[w]] \in Nat
      BY DataAssumption DEF TypeInv, TypeOK
    <2>5. data[woff[w]] = [key |-> wkey[w], val |-> wval[w]]
      BY <1>1 DEF TableInv, ChunkOwned
    <2> QED BY <1>1, <2>2, <2>3, <2>4, <2>5
  <1>11. EntryIntact'
    <2>1. ASSUME NEW s \in Slots, Published(s)'
          PROVE  /\ (data[slots[s].offset])' \in Entry
                 /\ slots'[s].hash = HashOf[(data[slots[s].offset])'.key]
                 /\ slots'[s].vlen = VLen[(data[slots[s].offset])'.val]
                 /\ slots'[s].hash \in Nat
                 /\ Reachable(slots'[s].hash, s)
      <3>1. CASE s = WSlot(w)
        <4>1. [key |-> wkey[w], val |-> wval[w]] \in Entry
          BY DEF Entry, TypeInv, TypeOK
        <4> QED BY <1>10, <2>1, <3>1, <4>1
      <3>2. CASE s # WSlot(w)
        <4>1. slots[s].hash \in Nat /\ slots'[s] = slots[s] /\ data' = data /\ Published(s)
          BY <1>1, <1>3, <2>1, <3>2 DEF TypeInv, TypeOK, HashSlot
        <4> QED BY <4>1 DEF TableInv, EntryIntact
      <3> QED BY <3>1, <3>2
    <2>2. ASSUME NEW s \in Slots, Published(s)'
          PROVE  Reachable(slots[s].hash, s)'
      <3>1. \A i \in Slots : Probe(slots'[s].hash, i) \in Slots
        BY <2>1, <2>2, ProbeSlots
      <3> QED BY <1>1, <2>1, <2>2, <3>1 DEF Reachable, Probe
    <2> QED BY <2>1, <2>2 DEF EntryIntact
  <1>12. \A s \in Slots : Keeps(s)
    BY <1>1, <1>3, <1>4 DEF Keeps
  <1> QED BY <1>5, <1>7, <1>8, <1>9, <1>11, <1>12 DEF TableInv

\* The tombstone is the single writer's: nobody is filling a slot, and the chain
\* through the slot is not cut.
LEMMA TableDelete ==
    ASSUME TypeInv, TableInv, NEW w \in Writers, DeleteStore(w)
    PROVE  TableInv' /\ \A s \in Slots : s # WSlot(w) => Keeps(s)
  <1> USE DEF InsertLabels, DeleteLabels
  <1>1. /\ UNCHANGED <<data, dataEnd, wkey, wval, woff, wi, wst>>
        /\ WSlot(w) \in Slots /\ wpc[w] = "dstore" /\ wpc'[w] = "idle"
        /\ \A x \in Writers : x = w
        /\ slots'[WSlot(w)].status = Tomb
        /\ \A s \in Slots : s # WSlot(w) => slots'[s] = slots[s]
    <2>1. WSlot(w) \in Slots
      BY IndexSlots
    <2>2. slots[WSlot(w)] \in HashSlot
      BY <2>1 DEF TypeInv, TypeOK
    <2> QED BY <2>1, <2>2 DEF DeleteStore, Goto, TypeInv, TypeOK, HashSlot, TableInv, DeleteAlone, SingleWriter
  <1>2. \A s \in Slots : slots[s].status # Empty => slots'[s].status # Empty
    BY <1>1
  <1>3. \A s \in Slots : ~BeingFilled(s) /\ ~BeingFilled(s)'
    BY <1>1 DEF BeingFilled, Filling
  <1>4. /\ Fresh' /\ ChunkOwned' /\ InsertPath' /\ FilledFields' /\ DeleteAlone' /\ ClaimExclusive'
    BY <1>1 DEF TableInv, Fresh, ChunkOwned, InsertPath, FilledFields, DeleteAlone, ClaimExclusive, Filling
  <1>5. EntryIntact'
    <2>1. ASSUME NEW s \in Slots, Published(s)'
          PROVE  slots'[s] = slots[s] /\ Published(s) /\ Reachable(slots[s].hash, s)'
      <3>1. s # WSlot(w) /\ slots'[s] = slots[s] /\ Published(s)
        BY <1>1, <1>3, <2>1 DEF Published
      <3>2. Reachable(slots[s].hash, s) /\ slots[s].hash \in Nat
        BY <3>1 DEF TableInv, EntryIntact, TypeInv, TypeOK, HashSlot
      <3>3. \A i \in Slots : Probe(slots[s].hash, i) \in Slots
        BY IndexSlots
      <3> QED BY <3>1, <3>2, <3>3, <1>2 DEF Reachable, Probe
    <2> QED BY <1>1, <2>1 DEF TableInv, EntryIntact
  <1>6. \A s \in Slots : s # WSlot(w) => Keeps(s)
    BY <1>1, <1>3 DEF Keeps, Published
  <1> QED BY <1>4, <1>5, <1>6 DEF TableInv

\* Every step keeps the table, and every published entry but one deleted in it.
LEMMA TableNext ==
    ASSUME TypeInv, TableInv, [Next]_vars
    PROVE  /\ TableInv'
           /\ \A s \in Slots : \/ Keeps(s)
                               \/ \E w \in Writers : DeleteStore(w) /\ s = WSlot(w)
  <1> USE DEF LoopLabels, DeleteLabels
  <1>1. ASSUME UNCHANGED <<table, writers>>
        PROVE  TableInv' /\ \A s \in Slots : Keeps(s)
    <2>1. /\ UNCHANGED <<slots, data, dataEnd>>
          /\ UNCHANGED <<wpc, wkey, wval, woff, wi, wst, wtodo>>
      BY <1>1 DEF table, writers
    <2>2. \A x \in Writers : (Filling(x)' <=> Filling(x)) /\ WSlot(x)' = WSlot(x)
      BY <2>1 DEF Filling, WSlot, Probe
    <2>3. \A s \in Slots : Published(s)' <=> Published(s)
      BY <2>1, <2>2 DEF Published, BeingFilled
    <2>4. Fresh' /\ ChunkOwned' /\ InsertPath' /\ FilledFields' /\ DeleteAlone' /\ ClaimExclusive'
      BY <2>1, <2>2 DEF TableInv, Fresh, ChunkOwned, InsertPath, FilledFields, DeleteAlone, ClaimExclusive, Probe
    <2>5. EntryIntact'
      BY <2>1, <2>3 DEF TableInv, EntryIntact, Reachable, Probe
    <2> QED BY <2>1, <2>3, <2>4, <2>5 DEF TableInv, Keeps
  <1>2. ASSUME NEW w \in Writers, NEW k \in Keys, NEW v \in Values, PutAlloc(w, k, v)
        PROVE  TableInv' /\ \A s \in Slots : Keeps(s)
    BY <1>2, TablePutAlloc
  <1>3. ASSUME NEW w \in Writers, NEW k \in Deletable, DeleteBegin(w, k)
        PROVE  TableInv' /\ \A s \in Slots : Keeps(s)
    <2>1. /\ UNCHANGED <<slots, data, dataEnd, wval, woff, wst, wtodo>>
          /\ wpc[w] = "idle" /\ wpc'[w] = "dload" /\ SingleWriter
          /\ \A x \in Writers : x # w => wpc'[x] = wpc[x] /\ wkey'[x] = wkey[x] /\ wi'[x] = wi[x]
      BY <1>3, ContractAssumption DEF DeleteBegin, Goto, TypeInv, TypeOK, table
    <2>2. ClaimExclusive' /\ EntryIntact' /\ \A s \in Slots : Keeps(s)
      BY <2>1, QuietStep
    <2>3. Fresh' /\ ChunkOwned' /\ InsertPath' /\ FilledFields' /\ DeleteAlone'
      BY <2>1 DEF TableInv, Fresh, ChunkOwned, InsertPath, FilledFields, DeleteAlone, Filling, InsertLabels,
         SingleWriter, WSlot, Probe
    <2> QED BY <2>2, <2>3 DEF TableInv
  <1>4. ASSUME NEW w \in Writers, PutWrite(w)
        PROVE  TableInv' /\ \A s \in Slots : Keeps(s)
    BY <1>4, TablePutWrite
  <1>5. ASSUME NEW w \in Writers, InsertLoad(w)
        PROVE  TableInv' /\ \A s \in Slots : Keeps(s)
    <2>1. CASE Advance(w, "load") /\ slots[WSlot(w)].status = Used /\ wst' = wst
      BY <1>5, <2>1, TableAdvance DEF InsertLoad, table
    <2>2. CASE Goto(w, "cas") /\ wi' = wi /\ wst' = [wst EXCEPT ![w] = slots[WSlot(w)].status]
      <3>1. wst'[w] = slots[WSlot(w)].status /\ \A x \in Writers : x # w => wst'[x] = wst[x]
        BY <2>2 DEF TypeInv, TypeOK
      <3> QED BY <1>5, <2>2, <3>1, TableMove DEF InsertLoad, table
    <2> QED BY <1>5, <2>1, <2>2 DEF InsertLoad
  <1>6. ASSUME NEW w \in Writers, InsertCAS(w)
        PROVE  TableInv' /\ \A s \in Slots : Keeps(s)
    <2>1. CASE Advance(w, "load") /\ slots[WSlot(w)].status # wst[w] /\ UNCHANGED <<slots, wtodo>>
      <3>1. slots[WSlot(w)].status # Empty
        BY <1>6, <2>1 DEF InsertCAS, TypeInv, TypeOK, TableInv, InsertPath
      <3> QED BY <1>6, <2>1, <3>1, TableAdvance DEF InsertCAS
    <2>2. CASE /\ slots[WSlot(w)].status = wst[w]
               /\ slots' = [slots EXCEPT ![WSlot(w)].status = Used]
               /\ wtodo' = [wtodo EXCEPT ![w] = Fields]
               /\ Goto(w, "fill") /\ wi' = wi
      BY <1>6, <2>2, TableClaim DEF InsertCAS
    <2> QED BY <1>6, <2>1, <2>2 DEF InsertCAS
  <1>7. ASSUME NEW w \in Writers, NEW f \in Fields, InsertField(w, f)
        PROVE  TableInv' /\ \A s \in Slots : Keeps(s)
    BY <1>7, TableField
  <1>8. ASSUME NEW w \in Writers, DeleteLoad(w) \/ DeleteMatch(w)
        PROVE  TableInv' /\ \A s \in Slots : Keeps(s)
    <2>1. /\ UNCHANGED <<slots, data, dataEnd, wkey, wval, woff, wst, wtodo>>
          /\ wpc[w] \in DeleteLabels
          /\ \/ Advance(w, "dload")
             \/ wi' = wi /\ \E label \in {"idle", "dmatch", "dstore"} : Goto(w, label)
      BY <1>8 DEF DeleteLoad, DeleteMatch, table
    <2>2. CASE Advance(w, "dload")
      BY <2>1, <2>2, TableAdvance
    <2>3. ASSUME NEW label \in {"idle", "dmatch", "dstore"}, Goto(w, label), wi' = wi
          PROVE  TableInv' /\ \A s \in Slots : Keeps(s)
      BY <2>1, <2>3, TableMove
    <2> QED BY <2>1, <2>2, <2>3
  <1>9. ASSUME NEW w \in Writers, DeleteStore(w)
        PROVE  TableInv' /\ \A s \in Slots : s # WSlot(w) => Keeps(s)
    BY <1>9, TableDelete
  <1>10. ASSUME NEW r \in Readers, (\E k \in Keys : GetBegin(r, k)) \/ Get(r)
         PROVE  UNCHANGED <<table, writers>>
    BY <1>10 DEF GetBegin, Get, GetStatus, GetField, GetMatch
  <1>11. UNCHANGED vars => UNCHANGED <<table, writers>>
    BY DEF vars
  <1> QED
    BY <1>1, <1>2, <1>3, <1>4, <1>5, <1>6, <1>7, <1>8, <1>9, <1>10, <1>11
    DEF Next, WriterStep, Insert, Delete

\* The layers of types and of the table hold in every reachable state.
LEMMA TableInvariant == Spec => [](TypeInv /\ TableInv)
  <1>1. Init => TypeInv /\ TableInv
    BY TypeInit, TableInit
  <1>2. TypeInv /\ TableInv /\ [Next]_vars => (TypeInv /\ TableInv)'
    BY TypeNext, TableNext
  <1> QED BY <1>1, <1>2, PTL DEF Spec

\* EntryIntact: an entry whose Insert returned stays complete and reachable until
\* it is deleted, for any number of keys, slots, writers and lookups.
THEOREM EntriesIntact == Spec => []EntryIntact
  <1>1. TypeInv /\ TableInv => EntryIntact
    BY DEF TableInv
  <1> QED BY <1>1, TableInvariant, PTL

\* ClaimExclusive: the CAS gives every slot to one writer, however many there are.
THEOREM ClaimsExclude == Spec => []ClaimExclusive
  <1>1. TypeInv /\ TableInv => ClaimExclusive
    BY DEF TableInv
  <1> QED BY <1>1, TableInvariant, PTL

------------------------------------------------------------------------------
(* The lookups: why a lookup does not miss a key that stays in the table.    *)

\* The copy has the slot's own words.
CopiedField(r, f) ==
    CASE f = "hash"   -> rslot[r].hash = slots[RSlot(r)].hash
      [] f = "offset" -> rslot[r].offset = slots[RSlot(r)].offset
      [] f = "vlen"   -> rslot[r].vlen = slots[RSlot(r)].vlen

\* A witness of the lookup still holds the key, and the loop has not passed it.
LookupOK(r) ==
    /\ \A s \in witness[r] : Published(s) /\ KeyAt(s) = rkey[r]
    /\ rpc[r] \in GetLabels =>
        \A s \in witness[r], j \in Slots : Probe(HashOf[rkey[r]], j) = s => ri[r] <= j
    /\ rpc[r] = "copy" /\ RSlot(r) \in witness[r] =>
        \A f \in Fields : f \notin rtodo[r] => CopiedField(r, f)
    /\ rpc[r] = "match" /\ RSlot(r) \in witness[r] => \A f \in Fields : CopiedField(r, f)
    /\ rpc[r] = "miss" => witness[r] = {}
    /\ rpc[r] = "hit" => matchKeyAt(rslot[r].offset, rkey[r])

LookupInv == \A r \in Readers : LookupOK(r)

\* No lookup has begun.
LEMMA LookupInit == Init => LookupInv
  BY DEF Init, LookupInv, LookupOK, GetLabels

\* Chunks are written once.
LEMMA DataStep ==
    ASSUME TypeInv, TableInv, [Next]_vars
    PROVE  \A c \in Chunks : data[c] # NoChunk => data'[c] = data[c]
  <1>1. ASSUME NEW w \in Writers, PutWrite(w)
        PROVE  \A c \in Chunks : data[c] # NoChunk => data'[c] = data[c]
    BY <1>1 DEF PutWrite, TypeInv, TypeOK, TableInv, ChunkOwned
  <1>2. CASE UNCHANGED data
    BY <1>2
  <1>3. (\E w \in Writers : PutWrite(w)) \/ UNCHANGED data
    BY DEF Next, vars, table, PutAlloc, DeleteBegin, WriterStep, Insert, InsertLoad, InsertCAS, InsertField,
       Delete, DeleteLoad, DeleteMatch, DeleteStore, GetBegin, Get, GetStatus, GetField, GetMatch
  <1> QED BY <1>1, <1>2, <1>3

\* A lookup is not disturbed by a step that is not its own.
LEMMA LookupKept ==
    ASSUME TypeInv, NEW r \in Readers, LookupOK(r),
           rpc'[r] = rpc[r], rkey'[r] = rkey[r], ri'[r] = ri[r], rslot'[r] = rslot[r], rtodo'[r] = rtodo[r],
           witness'[r] \subseteq witness[r],
           \A s \in witness'[r] : Keeps(s),
           \A c \in Chunks : data[c] # NoChunk => data'[c] = data[c]
    PROVE  LookupOK(r)'
  <1>1. RSlot(r)' = RSlot(r)
    BY DEF RSlot, Probe
  <1>2. \A s \in witness'[r] : /\ s \in witness[r] /\ Published(s)' /\ slots'[s] = slots[s]
                               /\ (KeyAt(s))' = KeyAt(s)
    BY DEF LookupOK, Keeps, KeyAt
  <1>3. RSlot(r) \in witness'[r] => \A f \in Fields : CopiedField(r, f)' <=> CopiedField(r, f)
    BY <1>1, <1>2 DEF CopiedField, Fields
  <1>4. matchKeyAt(rslot[r].offset, rkey[r]) => matchKeyAt(rslot[r].offset, rkey[r])'
    BY DataAssumption DEF matchKeyAt, TypeInv, TypeOK, Entry
  <1> QED BY <1>1, <1>2, <1>3, <1>4 DEF LookupOK, Probe

\* The loop leaves a slot: it is no witness, so every witness is further on.
LEMMA LookupAdvance ==
    ASSUME TypeInv, TableInv, NEW r \in Readers, LookupOK(r), rpc[r] \in GetLabels, RAdvance(r),
           UNCHANGED <<table, writers, rkey, history>>,
           RSlot(r) \notin witness[r]
    PROVE  LookupOK(r)'
  <1>1. /\ ri[r] \in Nat /\ ri'[r] = ri[r] + 1 /\ ri[r] < Capacity /\ Capacity \in Nat
        /\ rpc'[r] = IF ri[r] + 1 < Capacity THEN "load" ELSE "miss"
        /\ UNCHANGED <<rkey, witness>>
    BY CapacityAssumption DEF RAdvance, RGoto, TypeInv, TypeOK, LoopBounds, history
  <1>2. \A s \in witness[r] : Published(s)' /\ KeyAt(s)' = rkey[r]
    BY DEF LookupOK, Published, BeingFilled, Filling, WSlot, Probe, KeyAt, table, writers
  <1>3. \A s \in witness[r], j \in Slots : Probe(HashOf[rkey[r]], j) = s => ri[r] + 1 <= j
    <2>1. ASSUME NEW s \in witness[r], NEW j \in Slots, Probe(HashOf[rkey[r]], j) = s
          PROVE  ri[r] + 1 <= j
      <3>1. ri[r] <= j /\ j # ri[r] /\ j \in Nat
        BY <2>1, CapacityAssumption DEF LookupOK, RSlot, Slots
      <3> QED BY <3>1, <1>1
    <2> QED BY <2>1
  <1>4. rpc'[r] = "miss" => witness[r] = {}
    <2>1. ASSUME rpc'[r] = "miss", NEW s \in witness[r]
          PROVE  FALSE
      <3>1. /\ s \in Slots /\ Published(s) /\ KeyAt(s) = rkey[r]
        BY DEF LookupOK, TypeInv, TypeOK
      <3>2. Reachable(HashOf[rkey[r]], s)
        BY <3>1 DEF TableInv, EntryIntact, KeyAt
      <3>3. PICK j \in Slots : Probe(HashOf[rkey[r]], j) = s
        BY <3>2 DEF Reachable
      <3>4. ri[r] + 1 <= j /\ ri[r] + 1 >= Capacity
        BY <1>1, <1>3, <2>1, <3>3
      <3> QED BY <3>4, <1>1 DEF Slots
    <2> QED BY <2>1
  <1> QED BY <1>1, <1>2, <1>3, <1>4 DEF LookupOK, Probe, GetLabels

\* An empty slot ends the lookup only when no slot further on is a witness: a
\* witness is reachable, and all slots before it are occupied.
LEMMA LookupEmpty ==
    ASSUME TypeInv, TableInv, NEW r \in Readers, LookupOK(r), rpc[r] \in GetLabels,
           slots[RSlot(r)].status = Empty
    PROVE  witness[r] = {}
  <1> SUFFICES ASSUME NEW s \in witness[r] PROVE FALSE
    OBVIOUS
  <1>1. s \in Slots /\ Published(s) /\ KeyAt(s) = rkey[r]
    BY DEF LookupOK, TypeInv, TypeOK
  <1>2. Reachable(HashOf[rkey[r]], s)
    BY <1>1 DEF TableInv, EntryIntact, KeyAt
  <1>3. PICK j \in Slots : /\ Probe(HashOf[rkey[r]], j) = s
                           /\ \A i \in Slots : i < j => slots[Probe(HashOf[rkey[r]], i)].status # Empty
    BY <1>2 DEF Reachable
  <1>4. ri[r] \in Slots /\ ri[r] <= j
    BY <1>3, CapacityAssumption DEF LookupOK, TypeInv, TypeOK, LoopBounds, Slots
  <1>5. j \in Nat /\ ri[r] \in Nat
    BY <1>4, CapacityAssumption DEF Slots
  <1>6. CASE ri[r] < j
    BY <1>3, <1>4, <1>6 DEF RSlot
  <1>7. CASE ri[r] = j
    BY <1>1, <1>3, <1>7 DEF RSlot, Published
  <1> QED BY <1>4, <1>5, <1>6, <1>7

\* A lookup that has copied a witness finds its key there.
LEMMA LookupMatch ==
    ASSUME TypeInv, TableInv, NEW r \in Readers, LookupOK(r), rpc[r] = "match", RSlot(r) \in witness[r]
    PROVE  rslot[r].hash = HashOf[rkey[r]] /\ matchKeyAt(rslot[r].offset, rkey[r])
  <1>1. RSlot(r) \in Slots /\ Published(RSlot(r)) /\ KeyAt(RSlot(r)) = rkey[r]
    BY IndexSlots DEF LookupOK
  <1>2. rslot[r].hash = slots[RSlot(r)].hash /\ rslot[r].offset = slots[RSlot(r)].offset
    BY DEF LookupOK, CopiedField, Fields
  <1> QED BY <1>1, <1>2 DEF TableInv, EntryIntact, matchKeyAt, KeyAt

\* Every step, of the lookup or of a writer, keeps what a lookup knows.
LEMMA LookupNext ==
    ASSUME TypeInv, TypeInv', TableInv, LookupInv, [Next]_vars
    PROVE  LookupInv'
  <1> USE DEF GetLabels, Done
  <1>a. \A c \in Chunks : data[c] # NoChunk => data'[c] = data[c]
    BY DataStep
  <1>b. \A s \in Slots : Keeps(s) \/ \E w \in Writers : DeleteStore(w) /\ s = WSlot(w)
    BY TableNext
  <1>c. \A r \in Readers : LookupOK(r) /\ witness[r] \subseteq Slots /\ witness'[r] \subseteq Slots
    BY DEF LookupInv, TypeInv, TypeOK
  <1>d. ASSUME UNCHANGED <<table, writers>>
        PROVE  \A s \in Slots : Keeps(s)
    BY <1>d DEF Keeps, Published, BeingFilled, Filling, WSlot, Probe, table, writers
  <1>1. ASSUME UNCHANGED <<lookups, witness>>, ~\E w \in Writers : DeleteStore(w)
        PROVE  LookupInv'
    BY <1>1, <1>a, <1>b, <1>c, LookupKept DEF LookupInv, lookups
  <1>2. ASSUME NEW w \in Writers, DeleteStore(w)
        PROVE  LookupInv'
    <2>1. /\ UNCHANGED lookups
          /\ \A r \in Readers : witness'[r] = witness[r] \ {WSlot(w)}
      BY <1>2 DEF DeleteStore
    <2>2. \A s \in Slots : s # WSlot(w) => Keeps(s)
      BY <1>2, TableDelete
    <2> QED BY <2>1, <2>2, <1>a, <1>c, LookupKept DEF LookupInv, lookups
  <1>3. ASSUME NEW r \in Readers, UNCHANGED <<table, writers>>, LookupOK(r)',
               \A x \in Readers : x # r => /\ rpc'[x] = rpc[x] /\ rkey'[x] = rkey[x] /\ ri'[x] = ri[x]
                                           /\ rslot'[x] = rslot[x] /\ rtodo'[x] = rtodo[x]
                                           /\ witness'[x] = witness[x]
        PROVE  LookupInv'
    <2>1. \A x \in Readers : x # r => LookupOK(x)'
      BY <1>3, <1>a, <1>c, <1>d, LookupKept
    <2> QED BY <1>3, <2>1 DEF LookupInv
  <1>4. ASSUME NEW r \in Readers, NEW k \in Keys, GetBegin(r, k)
        PROVE  LookupInv'
    <2>1. /\ UNCHANGED <<table, writers, rslot, rtodo>>
          /\ rpc'[r] = "load" /\ rkey'[r] = k /\ ri'[r] = 0 /\ witness'[r] = Holding(k)
          /\ \A x \in Readers : x # r => /\ rpc'[x] = rpc[x] /\ rkey'[x] = rkey[x] /\ ri'[x] = ri[x]
                                         /\ witness'[x] = witness[x]
      BY <1>4 DEF GetBegin, RGoto, TypeInv, TypeOK
    <2>2. \A s \in witness'[r] : Published(s)' /\ (KeyAt(s))' = k
      BY <2>1, <1>d DEF Holding, Keeps, KeyAt, table
    <2>3. LookupOK(r)'
      BY <2>1, <2>2, CapacityAssumption DEF LookupOK, Slots
    <2> QED BY <2>1, <2>3, <1>3
  <1>5. ASSUME NEW r \in Readers, GetStatus(r)
        PROVE  LookupInv'
    <2>1. /\ UNCHANGED <<table, writers, rkey, rslot, history, witness>>
          /\ rpc[r] = "load" /\ RSlot(r) \in Slots
          /\ \A x \in Readers : x # r => rpc'[x] = rpc[x] /\ ri'[x] = ri[x] /\ rtodo'[x] = rtodo[x]
      BY <1>5, IndexSlots DEF GetStatus, RGoto, RAdvance, TypeInv, TypeOK, history
    <2>2. \A s \in witness[r] : Published(s)' /\ (KeyAt(s))' = rkey[r]
      BY <2>1, <1>c, <1>d DEF LookupOK, Keeps, KeyAt, table
    <2>3. LookupOK(r)'
      <3>1. CASE slots[RSlot(r)].status = Empty /\ RGoto(r, "miss") /\ UNCHANGED <<ri, rtodo>>
        <4>1. witness[r] = {} /\ rpc'[r] = "miss"
          BY <2>1, <3>1, <1>c, LookupEmpty DEF RGoto, TypeInv, TypeOK
        <4> QED BY <4>1, <2>1 DEF LookupOK
      <3>2. CASE rtodo' = [rtodo EXCEPT ![r] = Fields] /\ RGoto(r, "copy") /\ ri' = ri
        <4>1. rpc'[r] = "copy" /\ rtodo'[r] = Fields
          BY <3>2 DEF RGoto, TypeInv, TypeOK
        <4> QED BY <4>1, <2>1, <2>2, <3>2, <1>c DEF LookupOK, Probe
      <3>3. CASE slots[RSlot(r)].status = Tomb /\ RAdvance(r)
        <4>1. RSlot(r) \notin witness[r]
          BY <3>3, <1>c DEF LookupOK, Published
        <4> QED BY <4>1, <2>1, <3>3, <1>c, LookupAdvance
      <3> QED BY <1>5, <3>1, <3>2, <3>3 DEF GetStatus
    <2> QED BY <2>1, <2>3, <1>3
  <1>6. ASSUME NEW r \in Readers, NEW f \in Fields, GetField(r, f)
        PROVE  LookupInv'
    <2>1. /\ UNCHANGED <<table, writers, rkey, ri, history, witness>>
          /\ rpc[r] = "copy" /\ rpc'[r] = (IF rtodo[r] = {f} THEN "match" ELSE "copy")
          /\ rtodo'[r] = rtodo[r] \ {f} /\ rtodo[r] \subseteq Fields
          /\ \A x \in Readers : x # r => rpc'[x] = rpc[x] /\ rslot'[x] = rslot[x] /\ rtodo'[x] = rtodo[x]
      BY <1>6 DEF GetField, RGoto, TypeInv, TypeOK, history
    <2>2. /\ UNCHANGED slots /\ RSlot(r)' = RSlot(r)
          /\ \A s \in witness[r] : Published(s)' /\ (KeyAt(s))' = rkey[r]
      BY <2>1, <1>c, <1>d DEF LookupOK, Keeps, KeyAt, table, RSlot, Probe
    <2>3. /\ rslot'[r].hash = IF f = "hash" THEN slots[RSlot(r)].hash ELSE rslot[r].hash
          /\ rslot'[r].offset = IF f = "offset" THEN slots[RSlot(r)].offset ELSE rslot[r].offset
          /\ rslot'[r].vlen = IF f = "vlen" THEN slots[RSlot(r)].vlen ELSE rslot[r].vlen
      <3>1. rslot[r] \in [hash : Nat, offset : Chunks, vlen : Nat]
        BY DEF TypeInv, TypeOK
      <3> QED BY <1>6, <3>1 DEF GetField, TypeInv, TypeOK, Fields
    <2>4. RSlot(r) \in witness[r] => \A g \in Fields : g \notin rtodo'[r] => CopiedField(r, g)'
      <3>1. ASSUME RSlot(r) \in witness[r], NEW g \in Fields, g \notin rtodo'[r]
            PROVE  CopiedField(r, g)'
        <4>1. CASE g = f
          BY <2>2, <2>3, <4>1 DEF CopiedField, Fields
        <4>2. CASE g # f
          <5>1. CopiedField(r, g)
            BY <2>1, <3>1, <4>2, <1>c DEF LookupOK
          <5> QED BY <2>2, <2>3, <4>2, <5>1 DEF CopiedField, Fields
        <4> QED BY <4>1, <4>2
      <3> QED BY <3>1
    <2>5. LookupOK(r)'
      BY <2>1, <2>2, <2>4, <1>c DEF LookupOK, Probe
    <2> QED BY <2>1, <2>5, <1>3
  <1>7. ASSUME NEW r \in Readers, GetMatch(r)
        PROVE  LookupInv'
    <2>1. /\ UNCHANGED <<table, writers, rkey, rslot, rtodo, history, witness>>
          /\ rpc[r] = "match"
          /\ \A x \in Readers : x # r => rpc'[x] = rpc[x] /\ ri'[x] = ri[x]
      BY <1>7 DEF GetMatch, RGoto, RAdvance, TypeInv, TypeOK, history
    <2>2. LookupOK(r)'
      <3>1. CASE /\ rslot[r].hash = HashOf[rkey[r]] /\ matchKeyAt(rslot[r].offset, rkey[r])
                 /\ RGoto(r, "hit") /\ ri' = ri
        <4>1. rpc'[r] = "hit"
          BY <3>1 DEF RGoto, TypeInv, TypeOK
        <4>2. \A s \in witness[r] : Published(s)' /\ (KeyAt(s))' = rkey[r]
          BY <2>1, <1>c, <1>d DEF LookupOK, Keeps, KeyAt, table
        <4>3. matchKeyAt(rslot[r].offset, rkey[r])'
          BY <2>1, <3>1 DEF matchKeyAt, table
        <4> QED BY <2>1, <4>1, <4>2, <4>3 DEF LookupOK
      <3>2. CASE ~(rslot[r].hash = HashOf[rkey[r]] /\ matchKeyAt(rslot[r].offset, rkey[r])) /\ RAdvance(r)
        <4>1. RSlot(r) \notin witness[r]
          BY <2>1, <3>2, <1>c, LookupMatch
        <4> QED BY <4>1, <2>1, <3>2, <1>c, LookupAdvance
      <3> QED BY <1>7, <3>1, <3>2 DEF GetMatch
    <2> QED BY <2>1, <2>2, <1>3
  <1>8. UNCHANGED vars => UNCHANGED <<lookups, witness>>
    BY DEF vars, history
  <1>9. ASSUME NEW w \in Writers, PutWrite(w) \/ Insert(w) \/ DeleteLoad(w) \/ DeleteMatch(w)
        PROVE  UNCHANGED <<lookups, witness>>
    BY <1>9 DEF PutWrite, Insert, InsertLoad, InsertCAS, InsertField, DeleteLoad, DeleteMatch, history
  <1>10. ASSUME NEW w \in Writers, NEW k \in Keys, NEW v \in Values, PutAlloc(w, k, v)
         PROVE  UNCHANGED <<lookups, witness>>
    BY <1>10 DEF PutAlloc
  <1>11. ASSUME NEW w \in Writers, NEW k \in Deletable, DeleteBegin(w, k)
         PROVE  UNCHANGED <<lookups, witness>>
    BY <1>11 DEF DeleteBegin, history
  <1> QED
    BY <1>1, <1>2, <1>4, <1>5, <1>6, <1>7, <1>8, <1>9, <1>10, <1>11
    DEF Next, WriterStep, Delete, Get

\* The inductive invariant.
HashTableInv == TypeInv /\ TableInv /\ LookupInv

\* It holds in every reachable state.
LEMMA InductiveInvariant == Spec => []HashTableInv
  <1>1. Init => HashTableInv
    BY TypeInit, TableInit, LookupInit DEF HashTableInv
  <1>2. HashTableInv /\ [Next]_vars => HashTableInv'
    BY TypeNext, TableNext, LookupNext DEF HashTableInv
  <1> QED BY <1>1, <1>2, PTL DEF Spec

\* A lookup never misses a key that some slot held, published and undeleted,
\* from the beginning of the lookup to its end.
THEOREM LookupFinds == Spec => []NoFalseMiss
  <1>1. HashTableInv => NoFalseMiss
    BY DEF HashTableInv, LookupInv, LookupOK, NoFalseMiss
  <1> QED BY <1>1, InductiveInvariant, PTL

\* A hit is on the key asked for, whatever the lookup saw of a slot being filled.
THEOREM HitIsOfKey == Spec => []HitHasKey
  <1>1. HashTableInv => HitHasKey
    BY DEF HashTableInv, LookupInv, LookupOK, HitHasKey
  <1> QED BY <1>1, InductiveInvariant, PTL

\* The bytes behind a slice that a lookup returned never change.
THEOREM ViewIsStable == Spec => ViewStable
  <1>1. HashTableInv /\ [Next]_vars => [\A c \in Chunks : data[c] # NoChunk => data'[c] = data[c]]_vars
    BY DataStep DEF HashTableInv
  <1> QED BY <1>1, InductiveInvariant, PTL DEF Spec, ViewStable

==============================================================================
