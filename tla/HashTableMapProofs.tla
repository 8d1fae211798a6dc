------------------------- MODULE HashTableMapProofs --------------------------
(***************************************************************************)
(* Proofs about loading, as Loader.Load does it: one writer that only      *)
(* inserts, and any number of lookups.  The first put of a key wins, and   *)
(* the table implements WriteOnceMap.                                      *)
(*                                                                         *)
(* The inductive invariant of module HashTableProofs says that entries     *)
(* stay intact and reachable.  What is needed beyond it is their order:    *)
(*   OrderInv  the entries that a probe loop meets before an entry were    *)
(*             put before it, in lower chunks;                             *)
(*   FirstInv  a lookup that began with its key in the table copies only   *)
(*             entries that are complete, and ends at the first of them;   *)
(*   KnownInv  a chunk that a lookup may read belongs to a put that is in  *)
(*             the table, or still at work.                                *)
(***************************************************************************)
EXTENDS HashTableMap, HashTableProofs, NumberLemmas

Loading == SingleWriter /\ Deletable = {}

------------------------------------------------------------------------------
(* The inductive invariant                                                   *)

\* Nothing is deleted.
NoTombs ==
    /\ \A s \in Slots : slots[s].status # Tomb
    /\ \A w \in Writers : wpc[w] \notin DeleteLabels /\ wst[w] = Empty

\* Chunks are numbered in the order of the puts: that of the put at work is the
\* last one, and a slot word that is not zero has an earlier one until the put
\* stores its own.
OffsetsBelow ==
    /\ \A w \in Writers : wpc[w] \in InsertLabels => woff[w] = dataEnd - 1
    /\ \A s \in Slots :
          /\ slots[s].offset # 0 \/ Published(s) => slots[s].offset < dataEnd
          /\ \A w \in Writers :
                /\ wpc[w] \in {"write", "load", "cas"} => slots[s].offset = 0 \/ slots[s].offset < woff[w]
                /\ wpc[w] \in InsertLabels /\ Published(s) => slots[s].offset < woff[w]

\* The way from the home slot of hash h to slot t leads past entries put before.
Behind(h, t) ==
    \E j \in Slots :
        /\ Probe(h, j) = t
        /\ \A i \in Slots : i < j => /\ Published(Probe(h, i))
                                     /\ slots[Probe(h, i)].offset <= slots[t].offset

Ordered == \A t \in Slots : Published(t) => Behind(slots[t].hash, t)

OrderInv == NoTombs /\ OffsetsBelow /\ Ordered

\* The slot that the lookup returned is the first of its witnesses.
IsFirst(r, s) ==
    /\ s \in witness[r]
    /\ rslot[r].vlen = slots[s].vlen /\ rslot[r].offset = slots[s].offset
    /\ \A t \in witness[r] : slots[s].offset <= slots[t].offset

FirstOK(r) ==
    /\ \A t \in witness[r], s \in Slots :
          Published(s) /\ KeyAt(s) = rkey[r] /\ slots[s].offset <= slots[t].offset => s \in witness[r]
    /\ witness[r] # {} =>
          /\ rpc[r] = "copy" => \A f \in Fields : f \notin rtodo[r] => CopiedField(r, f)
          /\ rpc[r] = "match" => \A f \in Fields : CopiedField(r, f)
          /\ rpc[r] = "hit" => \E s \in Slots : IsFirst(r, s)

FirstInv == \A r \in Readers : FirstOK(r)

\* The key of chunk c is in the table, or its put is still at work.
Backed(c) ==
    data[c] \in Entry =>
        \/ Holding(data[c].key) # {}
        \/ \E w \in Writers : wpc[w] \in InsertLabels /\ woff[w] = c

\* All chunks that slots and copies of slots refer to; a copy may have the words of
\* a slot that is being filled.
KnownInv ==
    /\ Backed(0)
    /\ \A s \in Slots : Backed(slots[s].offset)
    /\ \A r \in Readers :
          /\ Backed(rslot[r].offset)
          /\ rslot[r].offset # 0 => rslot[r].offset < dataEnd
          /\ \A w \in Writers : wpc[w] \in {"write", "load", "cas"} =>
                rslot[r].offset = 0 \/ rslot[r].offset < woff[w]

LoadInv == HashTableInv /\ OrderInv /\ FirstInv /\ KnownInv

------------------------------------------------------------------------------
(* The steps of loading                                                      *)

USE DEF Empty, Used, Tomb

\* Every step is one of put's, or leaves the table and the writers alone.
LEMMA LoadSteps ==
    ASSUME Loading, TypeInv, NoTombs, [Next]_vars
    PROVE  \/ UNCHANGED <<table, writers>>
           \/ \E w \in Writers, k \in Keys, v \in Values : PutAlloc(w, k, v)
           \/ \E w \in Writers : PutWrite(w) \/ InsertLoad(w) \/ InsertCAS(w)
           \/ \E w \in Writers, f \in Fields : InsertField(w, f)
  <1>1. CASE UNCHANGED vars
    BY <1>1 DEF vars
  <1>2. ASSUME NEW r \in Readers, (\E k \in Keys : GetBegin(r, k)) \/ Get(r)
        PROVE  UNCHANGED <<table, writers>>
    BY <1>2 DEF GetBegin, Get, GetStatus, GetField, GetMatch
  <1>3. \A w \in Writers : ~Delete(w) /\ ~\E k \in Deletable : DeleteBegin(w, k)
    BY DEF Loading, NoTombs, Delete, DeleteLoad, DeleteMatch, DeleteStore, DeleteLabels
  <1> QED BY <1>1, <1>2, <1>3 DEF Next, WriterStep, Insert

\* Every published entry stays as it is.
LEMMA LoadKeeps ==
    ASSUME TypeInv, TableInv, NoTombs, [Next]_vars
    PROVE  \A s \in Slots : Keeps(s)
  <1>1. \A w \in Writers : ~DeleteStore(w)
    BY DEF NoTombs, DeleteStore, DeleteLabels
  <1> QED BY <1>1, TableNext

\* What a store into a claimed slot changes.  The last one publishes the entry.
LEMMA FieldStep ==
    ASSUME TypeInv, TableInv, NEW w \in Writers, NEW f \in Fields, InsertField(w, f)
    PROVE  /\ UNCHANGED <<data, dataEnd, wkey, wval, woff, wi, wst, lookups, witness>>
           /\ WSlot(w) \in Slots /\ wpc[w] = "fill" /\ ~Published(WSlot(w))
           /\ \A s \in Slots : s # WSlot(w) => slots'[s] = slots[s] /\ (Published(s)' <=> Published(s))
           /\ \A s \in Slots : slots'[s].status = slots[s].status
           /\ slots'[WSlot(w)].offset \in {slots[WSlot(w)].offset, woff[w]}
           /\ wpc'[w] = IF wtodo[w] = {f} THEN "idle" ELSE "fill"
           /\ \A x \in Writers : x # w => wpc'[x] = wpc[x]
           /\ \A s \in Slots : s = WSlot(w) => (Published(s)' <=> wtodo[w] = {f})
           /\ WSlot(w)' = WSlot(w)
           /\ wtodo[w] = {f} => /\ slots'[WSlot(w)].hash = HashOf[wkey[w]]
                                /\ slots'[WSlot(w)].offset = woff[w]
                                /\ slots'[WSlot(w)].vlen = VLen[wval[w]]
  <1>1. WSlot(w) \in Slots
    BY IndexSlots
  <1>2. slots[WSlot(w)] \in HashSlot
    BY <1>1 DEF TypeInv, TypeOK
  <1>3. /\ UNCHANGED <<data, dataEnd, wkey, wval, woff, wi, wst, lookups, witness>>
        /\ wpc[w] = "fill"
        /\ \A s \in Slots : s # WSlot(w) => slots'[s] = slots[s]
        /\ \A s \in Slots : slots'[s].status = slots[s].status
        /\ wpc'[w] = IF wtodo[w] = {f} THEN "idle" ELSE "fill"
        /\ \A x \in Writers : x # w => wpc'[x] = wpc[x]
        /\ \A x \in Writers : WSlot(x)' = WSlot(x)
    BY <1>1, <1>2 DEF InsertField, Goto, TypeInv, TypeOK, HashSlot, WSlot, Probe, Fields, history
  <1>4. /\ slots'[WSlot(w)].hash = IF f = "hash" THEN HashOf[wkey[w]] ELSE slots[WSlot(w)].hash
        /\ slots'[WSlot(w)].offset = IF f = "offset" THEN woff[w] ELSE slots[WSlot(w)].offset
        /\ slots'[WSlot(w)].vlen = IF f = "vlen" THEN VLen[wval[w]] ELSE slots[WSlot(w)].vlen
    BY <1>1, <1>2 DEF InsertField, TypeInv, TypeOK, HashSlot, Fields
  <1>5. ASSUME NEW s \in Slots, s # WSlot(w)
        PROVE  Published(s)' <=> Published(s)
    BY <1>3, <1>5 DEF Published, BeingFilled, Filling
  <1>6. ~Published(WSlot(w))
    BY <1>3 DEF Published, BeingFilled, Filling
  <1>7. slots[WSlot(w)].status = Used /\ \A x \in Writers : x # w /\ Filling(x) => WSlot(x) # WSlot(w)
    BY <1>3 DEF TableInv, ClaimExclusive, Filling
  <1>8. \A s \in Slots : s = WSlot(w) => (Published(s)' <=> wtodo[w] = {f})
    BY <1>1, <1>3, <1>7 DEF Published, BeingFilled, Filling
  <1>9. wtodo[w] = {f} => /\ slots'[WSlot(w)].hash = HashOf[wkey[w]]
                          /\ slots'[WSlot(w)].offset = woff[w]
                          /\ slots'[WSlot(w)].vlen = VLen[wval[w]]
    BY <1>3, <1>4 DEF TableInv, FilledFields, Filling
  <1> QED BY <1>1, <1>3, <1>4, <1>5, <1>6, <1>8, <1>9

\* What an iteration of Insert changes when it stores no field.
LEMMA ProbeStep ==
    ASSUME Loading, TypeInv, TableInv, NoTombs, NEW w \in Writers, InsertLoad(w) \/ InsertCAS(w)
    PROVE  /\ UNCHANGED <<data, dataEnd, wkey, wval, woff, wst, lookups, witness>>
           /\ wpc[w] \in {"load", "cas"} /\ wpc'[w] \in {"load", "cas", "fill", "idle"}
           /\ \A x \in Writers : x # w => wpc'[x] = wpc[x]
           /\ \A s \in Slots : /\ slots'[s].offset = slots[s].offset /\ slots'[s].status # Tomb
                               /\ Published(s)' <=> Published(s)
           /\ wpc'[w] = "idle" => /\ slots[WSlot(w)].status # Empty
                                  /\ wi[w] + 1 >= Capacity
                                  /\ slots' = slots
  <1>1. WSlot(w) \in Slots /\ slots[WSlot(w)] \in HashSlot /\ slots[WSlot(w)].status # Tomb
    BY IndexSlots DEF TypeInv, TypeOK, NoTombs
  <1>2. /\ wst \in [Writers -> {Empty, Tomb}] /\ wst[w] = Empty
        /\ wpc \in [Writers -> {"idle"} \cup InsertLabels \cup DeleteLabels]
        /\ slots \in [Slots -> HashSlot] /\ wi[w] \in Nat /\ Capacity \in Nat
        /\ \A x \in Writers : x = w
    BY CapacityAssumption DEF NoTombs, TypeInv, TypeOK, Loading, SingleWriter
  <1>3. /\ UNCHANGED <<data, dataEnd, wkey, wval, woff, lookups, witness>>
        /\ wpc[w] \in {"load", "cas"}
    BY DEF InsertLoad, InsertCAS, table, history
  <1>4. \/ /\ UNCHANGED <<slots, wst>> /\ wpc'[w] \in {"load", "cas", "idle"}
           /\ wpc'[w] = "idle" => slots[WSlot(w)].status # Empty /\ wi[w] + 1 >= Capacity
        \/ /\ slots[WSlot(w)].status = Empty /\ slots' = [slots EXCEPT ![WSlot(w)].status = Used]
           /\ wpc'[w] = "fill" /\ UNCHANGED <<wst, wi>>
    <2>1. CASE InsertLoad(w) /\ slots[WSlot(w)].status = Used
      BY <1>2, <2>1 DEF InsertLoad, Advance, Goto, table
    <2>2. CASE InsertLoad(w) /\ slots[WSlot(w)].status # Used
      <3>1. slots[WSlot(w)].status = Empty
        BY <1>1, <2>2 DEF HashSlot
      <3>2. wst' = [wst EXCEPT ![w] = Empty] /\ wpc'[w] = "cas" /\ slots' = slots
        BY <1>2, <2>2, <3>1 DEF InsertLoad, Goto, table
      <3>3. wst' = wst
        BY <1>2, <3>2
      <3> QED BY <3>2, <3>3
    <2>3. CASE InsertCAS(w) /\ slots[WSlot(w)].status # wst[w]
      BY <1>2, <2>3 DEF InsertCAS, Advance, Goto
    <2>4. CASE InsertCAS(w) /\ slots[WSlot(w)].status = wst[w]
      BY <1>2, <2>4 DEF InsertCAS, Goto
    <2> QED BY <2>1, <2>2, <2>3, <2>4
  <1>5. CASE UNCHANGED slots /\ wpc'[w] # "fill"
    <2>1. \A s \in Slots : Published(s)' <=> Published(s)
      BY <1>2, <1>3, <1>5 DEF Published, BeingFilled, Filling
    <2> QED BY <1>2, <1>3, <1>4, <1>5, <2>1 DEF NoTombs
  <1>6. CASE /\ slots[WSlot(w)].status = Empty /\ slots' = [slots EXCEPT ![WSlot(w)].status = Used]
             /\ wpc'[w] = "fill" /\ UNCHANGED <<wst, wi>>
    <2>1. /\ \A s \in Slots : s # WSlot(w) => slots'[s] = slots[s]
          /\ slots'[WSlot(w)].status = Used /\ slots'[WSlot(w)].offset = slots[WSlot(w)].offset
      BY <1>1, <1>2, <1>6 DEF HashSlot
    <2>2. WSlot(w)' = WSlot(w)
      BY <1>3, <1>6 DEF WSlot, Probe
    <2>3. \A s \in Slots : (BeingFilled(s)' <=> s = WSlot(w)) /\ ~BeingFilled(s)
      BY <1>2, <1>3, <1>6, <2>2 DEF BeingFilled, Filling
    <2>4. \A s \in Slots : Published(s)' <=> Published(s)
      BY <1>6, <2>1, <2>3 DEF Published
    <2>5. \A s \in Slots : slots'[s].offset = slots[s].offset /\ slots'[s].status # Tomb
      BY <2>1 DEF NoTombs
    <2> QED BY <1>2, <1>3, <1>6, <2>4, <2>5
  <1> QED BY <1>4, <1>5, <1>6

\* What put changes before it calls Insert.
LEMMA ChunkStep ==
    ASSUME Loading, TypeInv, TableInv, NEW w \in Writers,
           PutWrite(w) \/ \E k \in Keys, v \in Values : PutAlloc(w, k, v)
    PROVE  /\ UNCHANGED <<slots, wst, lookups, witness>>
           /\ \A s \in Slots : Published(s)' <=> Published(s)
           /\ (wpc[w] = "idle" /\ wpc'[w] = "write") \/ (wpc[w] = "write" /\ wpc'[w] = "load")
           /\ \A x \in Writers : x = w
  <1>1. /\ UNCHANGED <<slots, wst, lookups, witness>>
        /\ (wpc[w] = "idle" /\ wpc'[w] = "write") \/ (wpc[w] = "write" /\ wpc'[w] = "load")
    BY DEF PutWrite, PutAlloc, Goto, TypeInv, TypeOK, history
  <1>2. \A x \in Writers : x = w
    BY DEF Loading, SingleWriter
  <1>3. \A s \in Slots : Published(s)' <=> Published(s)
    BY <1>1, <1>2 DEF Published, BeingFilled, Filling
  <1> QED BY <1>1, <1>2, <1>3

------------------------------------------------------------------------------
(* The order of the entries                                                  *)

\* No step of loading deletes.
LEMMA NoTombsNext ==
    ASSUME Loading, TypeInv, TableInv, NoTombs, [Next]_vars
    PROVE  NoTombs'
  <1>1. CASE UNCHANGED <<table, writers>>
    BY <1>1 DEF table, writers, NoTombs
  <1>2. ASSUME NEW w \in Writers, PutWrite(w) \/ \E k \in Keys, v \in Values : PutAlloc(w, k, v)
        PROVE  NoTombs'
    BY <1>2, ChunkStep DEF NoTombs, DeleteLabels
  <1>3. ASSUME NEW w \in Writers, InsertLoad(w) \/ InsertCAS(w)
        PROVE  NoTombs'
    BY <1>3, ProbeStep DEF NoTombs, DeleteLabels
  <1>4. ASSUME NEW w \in Writers, NEW f \in Fields, InsertField(w, f)
        PROVE  NoTombs'
    BY <1>4, FieldStep DEF NoTombs, DeleteLabels
  <1> QED BY <1>1, <1>2, <1>3, <1>4, LoadSteps

\* Every put gets a chunk behind those that the slots refer to.
LEMMA OffsetsNext ==
    ASSUME Loading, TypeInv, TypeInv', TableInv, NoTombs, OffsetsBelow, [Next]_vars
    PROVE  OffsetsBelow'
  <1> USE DEF InsertLabels
  <1>a. /\ dataEnd \in Nat /\ \A w \in Writers : woff[w] \in Nat
        /\ \A s \in Slots : slots[s].offset \in Nat /\ slots'[s].offset \in Nat
    <2>1. Chunks \subseteq Nat /\ \A t \in HashSlot : t.offset \in Chunks
      BY DataAssumption DEF Chunks, HashSlot
    <2>2. dataEnd \in Nat
      BY DataAssumption DEF TypeInv, TypeOK
    <2>3. \A w \in Writers : woff[w] \in Nat
      BY <2>1 DEF TypeInv, TypeOK
    <2>4. \A s \in Slots : slots[s] \in HashSlot /\ slots'[s] \in HashSlot
      BY DEF TypeInv, TypeOK
    <2> QED BY <2>1, <2>2, <2>3, <2>4
  <1>1. CASE UNCHANGED <<table, writers>>
    <2>1. UNCHANGED <<slots, dataEnd, wpc, woff, wkey, wi>>
      BY <1>1 DEF table, writers
    <2>2. \A s \in Slots : Published(s)' <=> Published(s)
      BY <2>1 DEF Published, BeingFilled, Filling, WSlot, Probe
    <2> QED BY <2>1, <2>2 DEF OffsetsBelow
  <1>2. ASSUME NEW w \in Writers, NEW k \in Keys, NEW v \in Values, PutAlloc(w, k, v)
        PROVE  OffsetsBelow'
    <2>1. /\ slots' = slots /\ \A s \in Slots : Published(s)' <=> Published(s)
          /\ \A x \in Writers : x = w
      BY <1>2, ChunkStep
    <2>2. dataEnd' = dataEnd + 1 /\ woff'[w] = dataEnd
      BY <1>2 DEF PutAlloc, TypeInv, TypeOK
    <2>3. \A s \in Slots : slots[s].offset # 0 \/ Published(s) => slots[s].offset < dataEnd
      BY DEF OffsetsBelow
    <2> QED BY <1>a, <2>1, <2>2, <2>3 DEF OffsetsBelow
  <1>3. ASSUME NEW w \in Writers, PutWrite(w)
        PROVE  OffsetsBelow'
    <2>1. /\ slots' = slots /\ \A s \in Slots : Published(s)' <=> Published(s)
          /\ \A x \in Writers : x = w
          /\ wpc[w] = "write" /\ wpc'[w] = "load" /\ UNCHANGED <<dataEnd, woff>>
      BY <1>3, ChunkStep DEF PutWrite
    <2> QED BY <1>a, <2>1 DEF OffsetsBelow
  <1>4. ASSUME NEW w \in Writers, InsertLoad(w) \/ InsertCAS(w)
        PROVE  OffsetsBelow'
    <2>1. /\ UNCHANGED <<dataEnd, woff>>
          /\ wpc[w] \in {"load", "cas"} /\ wpc'[w] \in {"load", "cas", "fill", "idle"}
          /\ \A x \in Writers : x # w => wpc'[x] = wpc[x]
          /\ \A s \in Slots : slots'[s].offset = slots[s].offset /\ (Published(s)' <=> Published(s))
      BY <1>4, ProbeStep
    <2> QED BY <1>a, <2>1 DEF OffsetsBelow
  <1>5. ASSUME NEW w \in Writers, NEW f \in Fields, InsertField(w, f)
        PROVE  OffsetsBelow'
    <2>1. /\ UNCHANGED <<dataEnd, woff>>
          /\ WSlot(w) \in Slots /\ wpc[w] = "fill" /\ wpc'[w] \in {"fill", "idle"}
          /\ \A s \in Slots : s # WSlot(w) => slots'[s] = slots[s] /\ (Published(s)' <=> Published(s))
          /\ slots'[WSlot(w)].offset \in {slots[WSlot(w)].offset, woff[w]}
          /\ \A s \in Slots : s = WSlot(w) /\ Published(s)' => slots'[s].offset = woff[w] /\ wpc'[w] = "idle"
      BY <1>5, FieldStep
    <2>2. \A x \in Writers : x = w
      BY DEF Loading, SingleWriter
    <2>3. woff[w] < dataEnd
      BY <1>a, <2>1 DEF OffsetsBelow
    <2>4. ASSUME NEW s \in Slots
          PROVE  /\ slots'[s].offset # 0 \/ Published(s)' => slots'[s].offset < dataEnd
                 /\ wpc'[w] \in InsertLabels /\ Published(s)' => slots'[s].offset < woff[w]
      <3>1. CASE s = WSlot(w)
        BY <1>a, <2>1, <2>3, <3>1 DEF OffsetsBelow
      <3>2. CASE s # WSlot(w)
        BY <1>a, <2>1, <3>2 DEF OffsetsBelow
      <3> QED BY <3>1, <3>2
    <2> QED BY <1>a, <2>1, <2>2, <2>4 DEF OffsetsBelow
  <1> QED BY <1>1, <1>2, <1>3, <1>4, <1>5, LoadSteps

\* An entry is published by the last of its Insert's stores.
LEMMA PublishStep ==
    ASSUME Loading, TypeInv, TableInv, NoTombs, [Next]_vars, NEW t \in Slots, Published(t)', ~Published(t)
    PROVE  \E w \in Writers, f \in Fields : InsertField(w, f) /\ t = WSlot(w) /\ wtodo[w] = {f}
  <1>1. PICK w \in Writers, f \in Fields : InsertField(w, f)
    <2>1. CASE UNCHANGED <<table, writers>>
      BY <2>1 DEF table, writers, Published, BeingFilled, Filling, WSlot, Probe
    <2>2. ASSUME NEW w \in Writers, PutWrite(w) \/ \E k \in Keys, v \in Values : PutAlloc(w, k, v)
          PROVE  FALSE
      BY <2>2, ChunkStep
    <2>3. ASSUME NEW w \in Writers, InsertLoad(w) \/ InsertCAS(w)
          PROVE  FALSE
      BY <2>3, ProbeStep
    <2> QED BY <2>1, <2>2, <2>3, LoadSteps
  <1>2. t = WSlot(w) /\ wtodo[w] = {f}
    BY <1>1, FieldStep
  <1> QED BY <1>1, <1>2

\* The way to an entry that was published before stays as it is.
LEMMA BehindKept ==
    ASSUME TypeInv, Ordered, \A s \in Slots : Keeps(s), NEW t \in Slots, Published(t)
    PROVE  Behind(slots[t].hash, t)'
  <1>1. slots'[t] = slots[t]
    BY DEF Keeps
  <1>. DEFINE h == slots[t].hash
  <1>2. PICK j \in Slots :
          /\ Probe(h, j) = t
          /\ \A i \in Slots : i < j => /\ Published(Probe(h, i))
                                       /\ slots[Probe(h, i)].offset <= slots[t].offset
    BY DEF Ordered, Behind
  <1>3. \A i \in Slots : Probe(h, i) \in Slots
    BY IndexSlots
  <1>4. \A i \in Slots : i < j => /\ Published(Probe(h, i))'
                                  /\ slots'[Probe(h, i)].offset <= slots'[t].offset
    BY <1>1, <1>2, <1>3 DEF Keeps, Probe
  <1> QED BY <1>1, <1>2, <1>4 DEF Behind, Probe

\* The way to an entry that is published now is the one its Insert went.
LEMMA BehindMade ==
    ASSUME Loading, TypeInv, TableInv, OrderInv, \A s \in Slots : Keeps(s),
           NEW w \in Writers, NEW f \in Fields, InsertField(w, f), wtodo[w] = {f}
    PROVE  Behind(slots[WSlot(w)].hash, WSlot(w))'
  <1>. DEFINE h == HashOf[wkey[w]]
              t == WSlot(w)
              J == {j \in Slots : Probe(h, j) = t}
  <1>1. /\ UNCHANGED <<wkey, wi>> /\ t \in Slots /\ wpc[w] = "fill"
        /\ slots'[t].hash = h /\ slots'[t].offset = woff[w]
    BY FieldStep
  <1>2. h \in Nat /\ wi[w] \in Slots /\ Slots \subseteq Nat
    BY <1>1, DataAssumption, CapacityAssumption DEF TypeInv, TypeOK, LoopBounds, LoopLabels, Slots
  <1>3. wi[w] \in J /\ J \subseteq Nat
    BY <1>2 DEF WSlot
  <1>4. PICK j \in J : \A m \in J : j <= m
    BY <1>3, LeastExists
  <1>5. ASSUME NEW i \in Slots, i < j
        PROVE  Published(Probe(h, i))' /\ slots'[Probe(h, i)].offset <= slots'[t].offset
    <2>1. Probe(h, i) \in Slots /\ i < wi[w] /\ i \notin J
      BY <1>2, <1>3, <1>4, <1>5, ProbeSlots
    <2>2. slots[Probe(h, i)].status = Used /\ Probe(h, i) # t
      <3>1. slots[Probe(h, i)].status # Empty
        BY <1>1, <2>1 DEF TableInv, InsertPath
      <3>2. slots[Probe(h, i)] \in HashSlot /\ slots[Probe(h, i)].status # Tomb
        BY <2>1 DEF TypeInv, TypeOK, OrderInv, NoTombs
      <3> QED BY <2>1, <3>1, <3>2 DEF HashSlot
    <2>3. Published(Probe(h, i))
      BY <2>2 DEF Published, BeingFilled, Loading, SingleWriter
    <2>4. slots[Probe(h, i)].offset < woff[w]
      BY <1>1, <2>1, <2>3 DEF OrderInv, OffsetsBelow, InsertLabels
    <2>5. slots[Probe(h, i)].offset \in Nat /\ woff[w] \in Nat
      <3>1. slots[Probe(h, i)].offset \in Chunks /\ woff[w] \in Chunks
        BY <2>1 DEF TypeInv, TypeOK, HashSlot
      <3> QED BY <3>1, DataAssumption DEF Chunks
    <2>6. Keeps(Probe(h, i))
      BY <2>1
    <2>7. Published(Probe(h, i))' /\ slots'[Probe(h, i)] = slots[Probe(h, i)]
      BY <2>3, <2>6 DEF Keeps, Probe
    <2> QED BY <1>1, <2>4, <2>5, <2>7
  <1>6. j \in Slots /\ Probe(h, j) = t /\ WSlot(w)' = t
    BY <1>1, <1>4 DEF WSlot, Probe
  <1>7. Behind(h, t)'
    BY <1>1, <1>5, <1>6 DEF Behind, Probe
  <1> QED BY <1>1, <1>6, <1>7 DEF Behind, Probe

\* Every step of loading keeps the entries in the order of their puts.
LEMMA OrderNext ==
    ASSUME Loading, TypeInv, TypeInv', TableInv, OrderInv, [Next]_vars
    PROVE  OrderInv'
  <1>1. NoTombs' /\ OffsetsBelow'
    BY NoTombsNext, OffsetsNext DEF OrderInv
  <1>2. \A s \in Slots : Keeps(s)
    BY LoadKeeps DEF OrderInv
  <1>3. ASSUME NEW t \in Slots, Published(t)' PROVE Behind(slots[t].hash, t)'
    <2>1. CASE Published(t)
      BY <1>2, <2>1, BehindKept DEF OrderInv
    <2>2. CASE ~Published(t)
      <3>1. PICK w \in Writers, f \in Fields : InsertField(w, f) /\ t = WSlot(w) /\ wtodo[w] = {f}
        BY <1>3, <2>2, PublishStep DEF OrderInv
      <3>2. t = WSlot(w) /\ wtodo[w] = {f} /\ WSlot(w)' = WSlot(w)
        BY <3>1, FieldStep
      <3>3. Behind(slots[WSlot(w)].hash, WSlot(w))'
        BY <1>2, <3>1, <3>2, BehindMade
      <3> QED BY <3>2, <3>3 DEF Behind
    <2> QED BY <2>1, <2>2
  <1> QED BY <1>1, <1>3 DEF OrderInv, Ordered

------------------------------------------------------------------------------
(* The lookups: the first put wins                                           *)

\* On its way to a witness a lookup copies a complete entry, put no later.
LEMMA OnTheWay ==
    ASSUME TypeInv, TableInv, Ordered, NEW r \in Readers, LookupOK(r), rpc[r] \in GetLabels, NEW t \in witness[r]
    PROVE  RSlot(r) \in Slots /\ Published(RSlot(r)) /\ slots[RSlot(r)].offset <= slots[t].offset
  <1>. DEFINE h == HashOf[rkey[r]]
  <1>1. t \in Slots /\ Published(t) /\ slots[t].hash = h
    BY DEF LookupOK, TypeInv, TypeOK, TableInv, EntryIntact, KeyAt
  <1>2. PICK j \in Slots :
          /\ Probe(h, j) = t
          /\ \A i \in Slots : i < j => /\ Published(Probe(h, i))
                                       /\ slots[Probe(h, i)].offset <= slots[t].offset
    BY <1>1 DEF Ordered, Behind
  <1>3. ri[r] \in Slots /\ ri[r] <= j
    BY <1>2, CapacityAssumption DEF LookupOK, TypeInv, TypeOK, LoopBounds, Slots
  <1>4. j \in Nat /\ ri[r] \in Nat /\ RSlot(r) \in Slots /\ RSlot(r) = Probe(h, ri[r])
    BY <1>3, IndexSlots, CapacityAssumption DEF Slots, RSlot
  <1>5. CASE ri[r] < j
    BY <1>2, <1>3, <1>4, <1>5
  <1>6. CASE ri[r] = j
    <2>1. slots[t].offset \in Nat
      BY <1>1, DataAssumption DEF TypeInv, TypeOK, HashSlot, Chunks
    <2> QED BY <1>1, <1>2, <1>4, <1>6, <2>1
  <1> QED BY <1>3, <1>4, <1>5, <1>6

\* A put that ends later is behind the witnesses of a lookup.
LEMMA WitnessClosed ==
    ASSUME Loading, TypeInv, TypeInv', TableInv, OrderInv, [Next]_vars, NEW r \in Readers, LookupOK(r),
           FirstOK(r), rkey'[r] = rkey[r], witness'[r] = witness[r],
           NEW t \in witness[r], NEW s \in Slots,
           Published(s)', KeyAt(s)' = rkey[r], slots'[s].offset <= slots'[t].offset
    PROVE  s \in witness[r]
  <1>1. t \in Slots /\ Published(t)
    BY DEF LookupOK, TypeInv, TypeOK
  <1>2. \A x \in Slots : Keeps(x)
    BY LoadKeeps DEF OrderInv
  <1>3. slots'[t] = slots[t]
    BY <1>1, <1>2 DEF Keeps
  <1>4. CASE Published(s)
    <2>1. slots'[s] = slots[s] /\ KeyAt(s) = rkey[r]
      BY <1>2, <1>4 DEF Keeps, KeyAt
    <2> QED BY <1>3, <1>4, <2>1 DEF FirstOK
  <1>5. CASE ~Published(s)
    <2>1. PICK w \in Writers, f \in Fields : InsertField(w, f) /\ s = WSlot(w) /\ wtodo[w] = {f}
      BY <1>5, PublishStep DEF OrderInv
    <2>2. wpc[w] = "fill" /\ slots'[s].offset = woff[w]
      BY <2>1, FieldStep
    <2>3. slots[t].offset < woff[w]
      BY <1>1, <2>2 DEF OrderInv, OffsetsBelow, InsertLabels
    <2>4. slots[t].offset \in Chunks /\ woff[w] \in Chunks
      BY <1>1 DEF TypeInv, TypeOK, HashSlot
    <2>5. slots[t].offset \in Nat /\ woff[w] \in Nat
      BY <2>4, DataAssumption DEF Chunks
    <2> QED BY <1>3, <2>2, <2>3, <2>5
  <1> QED BY <1>4, <1>5

\* A step that is not its own does not disturb a lookup.
LEMMA FirstKept ==
    ASSUME Loading, TypeInv, TypeInv', TableInv, OrderInv, [Next]_vars, NEW r \in Readers, LookupOK(r),
           FirstOK(r), rpc'[r] = rpc[r], rkey'[r] = rkey[r], ri'[r] = ri[r], rslot'[r] = rslot[r],
           rtodo'[r] = rtodo[r], witness'[r] = witness[r]
    PROVE  FirstOK(r)'
  <1>1. \A t \in witness[r], s \in Slots :
          Published(s)' /\ KeyAt(s)' = rkey[r] /\ slots'[s].offset <= slots'[t].offset => s \in witness[r]
    BY WitnessClosed
  <1>2. \A x \in Slots : Keeps(x)
    BY LoadKeeps DEF OrderInv
  <1>3. RSlot(r)' = RSlot(r)
    BY DEF RSlot, Probe
  <1>4. ASSUME witness[r] # {}, rpc[r] \in GetLabels
        PROVE  \A f \in Fields : CopiedField(r, f) => CopiedField(r, f)'
    <2>1. RSlot(r) \in Slots /\ Published(RSlot(r))
      BY <1>4, OnTheWay DEF OrderInv
    <2>2. slots'[RSlot(r)] = slots[RSlot(r)]
      BY <1>2, <2>1 DEF Keeps
    <2> QED BY <1>3, <2>2 DEF CopiedField, Fields
  <1>5. \A s \in witness[r] : slots'[s] = slots[s]
    BY <1>2 DEF Keeps, LookupOK, TypeInv, TypeOK
  <1>6. \A s \in Slots : IsFirst(r, s) => IsFirst(r, s)'
    BY <1>5 DEF IsFirst
  <1> QED BY <1>1, <1>4, <1>6 DEF FirstOK, GetLabels

\* A lookup that finds its key ends at the first of its witnesses.
LEMMA FirstHit ==
    ASSUME TypeInv, TableInv, Ordered, NEW r \in Readers, LookupOK(r), FirstOK(r),
           rpc[r] = "match", matchKeyAt(rslot[r].offset, rkey[r]), witness[r] # {}
    PROVE  IsFirst(r, RSlot(r))
  <1>1. /\ RSlot(r) \in Slots /\ Published(RSlot(r))
        /\ \A t \in witness[r] : slots[RSlot(r)].offset <= slots[t].offset
    BY OnTheWay DEF GetLabels
  <1>2. rslot[r].vlen = slots[RSlot(r)].vlen /\ rslot[r].offset = slots[RSlot(r)].offset
    BY DEF FirstOK, CopiedField, Fields
  <1>3. KeyAt(RSlot(r)) = rkey[r]
    BY <1>2 DEF matchKeyAt, KeyAt
  <1>4. RSlot(r) \in witness[r]
    BY <1>1, <1>3 DEF FirstOK
  <1> QED BY <1>1, <1>2, <1>4 DEF IsFirst

\* Every step of loading, of the lookup or of the writer, keeps FirstInv.
LEMMA FirstNext ==
    ASSUME Loading, TypeInv, TypeInv', TableInv, OrderInv, LookupInv, FirstInv, [Next]_vars
    PROVE  FirstInv'
  <1>a. \A r \in Readers : LookupOK(r) /\ FirstOK(r)
    BY DEF LookupInv, FirstInv
  <1>b. ASSUME UNCHANGED <<table, writers>>
        PROVE  \A s \in Slots : /\ Published(s)' <=> Published(s)
                               /\ KeyAt(s)' = KeyAt(s) /\ slots'[s] = slots[s]
    BY <1>b DEF Published, BeingFilled, Filling, WSlot, Probe, KeyAt, table, writers
  <1>1. ASSUME UNCHANGED <<lookups, witness>>
        PROVE  FirstInv'
    BY <1>1, <1>a, FirstKept DEF FirstInv, lookups
  <1>2. ASSUME NEW r \in Readers, FirstOK(r)',
               \A x \in Readers : x # r => /\ rpc'[x] = rpc[x] /\ rkey'[x] = rkey[x] /\ ri'[x] = ri[x]
                                           /\ rslot'[x] = rslot[x] /\ rtodo'[x] = rtodo[x]
                                           /\ witness'[x] = witness[x]
        PROVE  FirstInv'
    <2>1. \A x \in Readers : x # r => FirstOK(x)'
      BY <1>2, <1>a, FirstKept
    <2> QED BY <1>2, <2>1 DEF FirstInv
  <1>3. ASSUME NEW r \in Readers, NEW k \in Keys, GetBegin(r, k)
        PROVE  FirstInv'
    <2>1. /\ UNCHANGED <<table, writers, rslot, rtodo>>
          /\ rpc'[r] = "load" /\ rkey'[r] = k /\ witness'[r] = Holding(k)
          /\ \A x \in Readers : x # r => /\ rpc'[x] = rpc[x] /\ rkey'[x] = rkey[x] /\ ri'[x] = ri[x]
                                         /\ witness'[x] = witness[x]
      BY <1>3 DEF GetBegin, RGoto, TypeInv, TypeOK
    <2>2. \A s \in Slots : Published(s)' /\ KeyAt(s)' = k => s \in witness'[r]
      BY <2>1, <1>b DEF Holding
    <2>3. FirstOK(r)'
      BY <2>1, <2>2 DEF FirstOK
    <2> QED BY <2>1, <2>3, <1>2
  <1>4. ASSUME NEW r \in Readers, UNCHANGED <<table, writers, rkey, witness>>
        PROVE  \A t \in witness'[r], s \in Slots :
                 Published(s)' /\ KeyAt(s)' = rkey'[r] /\ slots'[s].offset <= slots'[t].offset => s \in witness'[r]
    BY <1>4, <1>a, WitnessClosed
  <1>5. ASSUME NEW r \in Readers, GetStatus(r)
        PROVE  FirstInv'
    <2>1. /\ UNCHANGED <<table, writers, rkey, rslot, witness>>
          /\ \A x \in Readers : x # r => rpc'[x] = rpc[x] /\ ri'[x] = ri[x] /\ rtodo'[x] = rtodo[x]
          /\ rpc'[r] \in {"load", "miss"} \/ (rpc'[r] = "copy" /\ rtodo'[r] = Fields)
      BY <1>5 DEF GetStatus, RGoto, RAdvance, TypeInv, TypeOK, history
    <2>2. FirstOK(r)'
      BY <2>1, <1>4 DEF FirstOK
    <2> QED BY <2>1, <2>2, <1>2
  <1>6. ASSUME NEW r \in Readers, NEW f \in Fields, GetField(r, f)
        PROVE  FirstInv'
    <2>1. /\ UNCHANGED <<table, writers, rkey, ri, witness>>
          /\ rpc[r] = "copy" /\ rpc'[r] = (IF rtodo[r] = {f} THEN "match" ELSE "copy")
          /\ rtodo'[r] = rtodo[r] \ {f} /\ rtodo[r] \subseteq Fields
          /\ \A x \in Readers : x # r => rpc'[x] = rpc[x] /\ rslot'[x] = rslot[x] /\ rtodo'[x] = rtodo[x]
      BY <1>6 DEF GetField, RGoto, TypeInv, TypeOK, history
    <2>2. UNCHANGED slots /\ RSlot(r)' = RSlot(r)
      BY <2>1 DEF table, RSlot, Probe
    <2>3. /\ rslot'[r].hash = IF f = "hash" THEN slots[RSlot(r)].hash ELSE rslot[r].hash
          /\ rslot'[r].offset = IF f = "offset" THEN slots[RSlot(r)].offset ELSE rslot[r].offset
          /\ rslot'[r].vlen = IF f = "vlen" THEN slots[RSlot(r)].vlen ELSE rslot[r].vlen
      <3>1. rslot[r] \in [hash : Nat, offset : Chunks, vlen : Nat]
        BY DEF TypeInv, TypeOK
      <3> QED BY <1>6, <3>1 DEF GetField, TypeInv, TypeOK, Fields
    <2>4. ASSUME witness[r] # {}, NEW g \in Fields, g \notin rtodo'[r]
          PROVE  CopiedField(r, g)'
      <3>1. CASE g = f
        BY <2>2, <2>3, <3>1 DEF CopiedField, Fields
      <3>2. CASE g # f
        <4>1. CopiedField(r, g)
          BY <2>1, <2>4, <3>2, <1>a DEF FirstOK
        <4> QED BY <2>2, <2>3, <3>2, <4>1 DEF CopiedField, Fields
      <3> QED BY <3>1, <3>2
    <2>5. FirstOK(r)'
      BY <2>1, <2>4, <1>4 DEF FirstOK
    <2> QED BY <2>1, <2>5, <1>2
  <1>7. ASSUME NEW r \in Readers, GetMatch(r)
        PROVE  FirstInv'
    <2>1. /\ UNCHANGED <<table, writers, rkey, rslot, rtodo, witness>>
          /\ rpc[r] = "match"
          /\ \A x \in Readers : x # r => rpc'[x] = rpc[x] /\ ri'[x] = ri[x]
          /\ \/ rpc'[r] \in {"load", "miss"}
             \/ rpc'[r] = "hit" /\ matchKeyAt(rslot[r].offset, rkey[r])
      BY <1>7 DEF GetMatch, RGoto, RAdvance, TypeInv, TypeOK, history
    <2>2. rpc'[r] = "hit" /\ witness[r] # {} => \E s \in Slots : IsFirst(r, s)
      BY <2>1, <1>a, FirstHit, IndexSlots DEF OrderInv
    <2>3. \A s \in Slots : IsFirst(r, s) => IsFirst(r, s)'
      BY <2>1 DEF IsFirst, table
    <2>4. FirstOK(r)'
      BY <2>1, <2>2, <2>3, <1>4 DEF FirstOK
    <2> QED BY <2>1, <2>4, <1>2
  <1>8. UNCHANGED vars => UNCHANGED <<lookups, witness>>
    BY DEF vars, history
  <1>9. ASSUME NEW w \in Writers, PutWrite(w) \/ Insert(w) \/ DeleteLoad(w) \/ DeleteMatch(w)
        PROVE  UNCHANGED <<lookups, witness>>
    BY <1>9 DEF PutWrite, Insert, InsertLoad, InsertCAS, InsertField, DeleteLoad, DeleteMatch, history
  <1>10. \A w \in Writers, k \in Keys, v \in Values : PutAlloc(w, k, v) => UNCHANGED <<lookups, witness>>
    BY DEF PutAlloc
  <1>11. \A w \in Writers : ~DeleteStore(w) /\ ~\E k \in Deletable : DeleteBegin(w, k)
    BY DEF Loading, OrderInv, NoTombs, DeleteStore, DeleteLabels
  <1> QED
    BY <1>1, <1>3, <1>5, <1>6, <1>7, <1>8, <1>9, <1>10, <1>11
    DEF Next, WriterStep, Delete, Get

------------------------------------------------------------------------------
(* FirstPutWins                                                              *)

\* A new table has no entries, and no lookup has begun.
LEMMA OrderInit == ASSUME Init PROVE OrderInv /\ FirstInv
  <1>1. /\ \A s \in Slots : slots[s].status = Empty /\ slots[s].offset = 0
        /\ \A w \in Writers : wpc[w] = "idle" /\ wst[w] = Empty
        /\ \A r \in Readers : witness[r] = {}
    BY DEF Init
  <1>2. \A s \in Slots : ~Published(s)
    BY <1>1 DEF Published
  <1> QED
    BY <1>1, <1>2 DEF OrderInv, NoTombs, OffsetsBelow, Ordered, FirstInv, FirstOK, InsertLabels, DeleteLabels

\* While loading, the first layers of LoadInv hold in every reachable state.
LEMMA FirstInvariant ==
    ASSUME Loading
    PROVE  Spec => [](HashTableInv /\ OrderInv /\ FirstInv)
  <1>1. Init => HashTableInv /\ OrderInv /\ FirstInv
    BY OrderInit, TypeInit, TableInit, LookupInit DEF HashTableInv
  <1>2. HashTableInv /\ OrderInv /\ FirstInv /\ [Next]_vars => (HashTableInv /\ OrderInv /\ FirstInv)'
    <2> SUFFICES ASSUME HashTableInv, OrderInv, FirstInv, [Next]_vars
                 PROVE  (HashTableInv /\ OrderInv /\ FirstInv)'
      OBVIOUS
    <2>1. HashTableInv'
      BY TypeNext, TableNext, LookupNext DEF HashTableInv
    <2>2. OrderInv'
      BY <2>1, OrderNext DEF HashTableInv
    <2>3. FirstInv'
      BY <2>1, FirstNext DEF HashTableInv
    <2> QED BY <2>1, <2>2, <2>3
  <1> QED BY <1>1, <1>2, PTL DEF Spec

\* FirstPutWins: with one writer that only inserts, a lookup of a key whose put had
\* returned gives the whole value of the first put of that key, for any number of
\* keys, slots and lookups.
THEOREM FirstWins == Spec => []FirstPutWins
  <1>1. CASE Loading
    <2>1. HashTableInv /\ OrderInv /\ FirstInv => FirstPutWins
      <3> SUFFICES ASSUME HashTableInv, FirstInv, NEW r \in Readers, rpc[r] = "hit", witness[r] # {}
                   PROVE  /\ rslot[r].vlen = VLen[data[rslot[r].offset].val]
                          /\ \A s \in witness[r] : rslot[r].offset <= slots[s].offset
        BY DEF FirstPutWins
      <3>1. PICK s \in Slots : IsFirst(r, s)
        BY DEF FirstInv, FirstOK
      <3>2. slots[s].vlen = VLen[data[slots[s].offset].val]
        BY <3>1 DEF IsFirst, HashTableInv, LookupInv, LookupOK, TableInv, EntryIntact
      <3> QED BY <3>1, <3>2 DEF IsFirst
    <2> QED BY <1>1, <2>1, FirstInvariant, PTL
  <1>2. CASE ~Loading
    <2>1. FirstPutWins
      BY <1>2 DEF FirstPutWins, Loading
    <2> QED BY <1>2, <2>1, PTL
  <1> QED BY <1>1, <1>2

------------------------------------------------------------------------------
(* What lookups may return                                                   *)

\* A key that is in the table stays there.
LEMMA HoldingKept ==
    ASSUME TypeInv, TableInv, NoTombs, [Next]_vars, NEW k \in Keys, NEW s \in Holding(k)
    PROVE  s \in Holding(k)' /\ slots'[s] = slots[s] /\ data'[slots[s].offset] = data[slots[s].offset]
  <1>1. s \in Slots /\ Published(s) /\ KeyAt(s) = k
    BY DEF Holding
  <1>2. Keeps(s)
    BY <1>1, LoadKeeps
  <1>3. Published(s)' /\ slots'[s] = slots[s] /\ data'[slots[s].offset] = data[slots[s].offset]
    BY <1>1, <1>2 DEF Keeps
  <1>4. KeyAt(s)' = k
    BY <1>1, <1>3 DEF KeyAt
  <1> QED BY <1>1, <1>3, <1>4 DEF Holding

\* A put that fails has met an entry, so its chunk is not the first one.
LEMMA FailedPut ==
    ASSUME Loading, TypeInv, TableInv, OrderInv, NEW w \in Writers, InsertLoad(w) \/ InsertCAS(w), wpc'[w] = "idle"
    PROVE  Published(WSlot(w)) /\ woff[w] # 0
  <1>1. WSlot(w) \in Slots /\ slots[WSlot(w)] \in HashSlot /\ slots[WSlot(w)].status # Tomb
    BY IndexSlots DEF TypeInv, TypeOK, OrderInv, NoTombs
  <1>2. slots[WSlot(w)].status # Empty /\ wpc[w] \in {"load", "cas"}
    BY ProbeStep DEF OrderInv
  <1>3. Published(WSlot(w))
    BY <1>1, <1>2 DEF HashSlot, Published, BeingFilled, Filling, Loading, SingleWriter
  <1>4. slots[WSlot(w)].offset < woff[w]
    BY <1>1, <1>2, <1>3 DEF OrderInv, OffsetsBelow, InsertLabels
  <1>5. slots[WSlot(w)].offset \in Nat
    BY <1>1, DataAssumption DEF HashSlot, Chunks
  <1> QED BY <1>3, <1>4, <1>5

\* The key of a chunk gets into the table unless the put fails.
LEMMA BackedKept ==
    ASSUME Loading, TypeInv, TableInv, OrderInv, [Next]_vars, NEW c \in Chunks, Backed(c),
           c = 0 \/ \A w \in Writers : wpc[w] \in {"load", "cas"} => c < woff[w]
    PROVE  Backed(c)'
  <1>1. CASE data[c] \in Entry
    <2>1. data'[c] = data[c] /\ data[c].key \in Keys
      BY <1>1, DataStep, DataAssumption DEF Entry
    <2>2. PICK k \in Keys : data[c].key = k
      BY <2>1
    <2>3. CASE Holding(k) # {}
      <3>1. Holding(k)' # {}
        BY <2>3, HoldingKept DEF OrderInv
      <3> QED BY <2>1, <2>2, <3>1 DEF Backed, Holding
    <2>4. ASSUME NEW w \in Writers, wpc[w] \in InsertLabels, woff[w] = c
          PROVE  Backed(c)'
      <3>0. \A x \in Writers : x = w
        BY DEF Loading, SingleWriter
      <3>1. CASE wpc'[w] \in InsertLabels /\ woff'[w] = c
        BY <3>1 DEF Backed
      <3>2. ASSUME NEW f \in Fields, InsertField(w, f)
            PROVE  Backed(c)'
        <4>1. CASE wtodo[w] # {f}
          BY <3>1, <3>2, <2>4, <4>1, FieldStep DEF InsertLabels
        <4>2. CASE wtodo[w] = {f}
          <5>1. PICK s \in Slots : s = WSlot(w)
            BY <3>2, FieldStep
          <5>2. Published(s)' /\ slots'[s].offset = c
            BY <2>4, <3>2, <4>2, <5>1, FieldStep
          <5>3. KeyAt(s)' = k
            BY <2>1, <2>2, <5>2 DEF KeyAt
          <5>4. s \in Holding(k)'
            BY <5>2, <5>3 DEF Holding
          <5> QED BY <2>1, <2>2, <5>4 DEF Backed, Holding
        <4> QED BY <4>1, <4>2
      <3>3. ASSUME InsertLoad(w) \/ InsertCAS(w)
            PROVE  Backed(c)'
        <4>1. wpc[w] \in {"load", "cas"} /\ wpc'[w] \in {"load", "cas", "fill", "idle"} /\ woff' = woff
          BY <3>3, ProbeStep DEF OrderInv
        <4>2. wpc'[w] # "idle"
          <5>1. c \in Nat
            BY DataAssumption DEF Chunks
          <5> QED BY <2>4, <3>3, <4>1, <5>1, FailedPut
        <4> QED BY <2>4, <3>1, <4>1, <4>2 DEF InsertLabels
      <3>4. ASSUME PutWrite(w) \/ \E j \in Keys, v \in Values : PutAlloc(w, j, v)
            PROVE  Backed(c)'
        BY <2>4, <3>1, <3>4, ChunkStep DEF PutWrite, PutAlloc, InsertLabels
      <3>5. CASE UNCHANGED <<table, writers>>
        BY <2>4, <3>1, <3>5 DEF writers
      <3> QED BY <3>0, <3>2, <3>3, <3>4, <3>5, LoadSteps DEF OrderInv
    <2> QED BY <1>1, <2>2, <2>3, <2>4 DEF Backed
  <1>2. CASE data[c] \notin Entry
    <2>1. CASE data'[c] \notin Entry
      BY <2>1 DEF Backed
    <2>2. CASE data'[c] # data[c]
      <3>1. PICK w \in Writers : PutWrite(w)
        <4>1. UNCHANGED <<table, writers>> => UNCHANGED data
          BY DEF table
        <4>2. \A w \in Writers, k \in Keys, v \in Values : PutAlloc(w, k, v) => UNCHANGED data
          BY DEF PutAlloc
        <4>3. \A w \in Writers : InsertLoad(w) \/ InsertCAS(w) => UNCHANGED data
          BY DEF InsertLoad, InsertCAS, table
        <4>4. \A w \in Writers, f \in Fields : InsertField(w, f) => UNCHANGED data
          BY DEF InsertField
        <4> QED BY <2>2, <4>1, <4>2, <4>3, <4>4, LoadSteps DEF OrderInv
      <3>2. woff'[w] = c /\ wpc'[w] = "load"
        BY <2>2, <3>1 DEF PutWrite, Goto, TypeInv, TypeOK
      <3> QED BY <3>2 DEF Backed, InsertLabels
    <2> QED BY <1>2, <2>1, <2>2
  <1> QED BY <1>1, <1>2

\* A lookup's copy of an offset stays, or is taken from a slot of the same table.
LEMMA CopyStep ==
    ASSUME TypeInv, [Next]_vars, NEW r \in Readers
    PROVE  \/ rslot'[r].offset = rslot[r].offset
           \/ /\ UNCHANGED <<table, writers>>
              /\ \E s \in Slots : rslot'[r].offset = slots[s].offset
  <1>1. ASSUME NEW x \in Readers, NEW f \in Fields, GetField(x, f)
        PROVE  \/ rslot'[r].offset = rslot[r].offset
               \/ /\ UNCHANGED <<table, writers>>
                  /\ \E s \in Slots : rslot'[r].offset = slots[s].offset
    <2>1. CASE x # r
      BY <1>1, <2>1 DEF GetField, TypeInv, TypeOK
    <2>2. CASE x = r
      <3>1. rslot[r] \in [hash : Nat, offset : Chunks, vlen : Nat] /\ RSlot(r) \in Slots
        BY IndexSlots DEF TypeInv, TypeOK
      <3>2. rslot'[r].offset = IF f = "offset" THEN slots[RSlot(r)].offset ELSE rslot[r].offset
        BY <1>1, <2>2, <3>1 DEF GetField, TypeInv, TypeOK, Fields
      <3> QED BY <1>1, <3>1, <3>2 DEF GetField
    <2> QED BY <2>1, <2>2
  <1>2. (\E x \in Readers, f \in Fields : GetField(x, f)) \/ UNCHANGED rslot
    BY DEF Next, vars, lookups, PutAlloc, DeleteBegin, WriterStep, PutWrite, Insert, InsertLoad, InsertCAS,
       InsertField, Delete, DeleteLoad, DeleteMatch, DeleteStore, GetBegin, Get, GetStatus, GetMatch
  <1> QED BY <1>1, <1>2

\* Every step of loading keeps KnownInv.
LEMMA KnownNext ==
    ASSUME Loading, TypeInv, TypeInv', TableInv, OrderInv, OrderInv', KnownInv, [Next]_vars
    PROVE  KnownInv'
  <1>a. /\ dataEnd \in Nat /\ \A w \in Writers : woff[w] \in Chunks
        /\ \A s \in Slots : slots[s].offset \in Chunks /\ slots'[s].offset \in Chunks
        /\ \A r \in Readers : rslot[r].offset \in Chunks /\ rslot'[r].offset \in Chunks
        /\ Chunks \subseteq Nat /\ 0 \in Chunks
    <2>1. \A t \in HashSlot : t.offset \in Chunks
      BY DEF HashSlot
    <2>2. dataEnd \in Nat /\ Chunks \subseteq Nat /\ 0 \in Chunks
      BY DataAssumption DEF TypeInv, TypeOK, Chunks
    <2>3. \A s \in Slots : slots[s] \in HashSlot /\ slots'[s] \in HashSlot
      BY DEF TypeInv, TypeOK
    <2>4. \A r \in Readers : rslot[r].offset \in Chunks /\ rslot'[r].offset \in Chunks
      BY DEF TypeInv, TypeOK
    <2>5. \A w \in Writers : woff[w] \in Chunks
      BY DEF TypeInv, TypeOK
    <2> QED BY <2>1, <2>2, <2>3, <2>4, <2>5
  <1>b. \A s \in Slots : slots[s].offset # 0 => /\ slots[s].offset < dataEnd
                                              /\ \A w \in Writers : wpc[w] \in {"write", "load", "cas"} =>
                                                    slots[s].offset < woff[w]
    BY DEF OrderInv, OffsetsBelow
  <1>1. Backed(0)'
    BY <1>a, BackedKept DEF KnownInv
  <1>2. ASSUME NEW s \in Slots, slots'[s].offset = slots[s].offset
        PROVE  Backed(slots[s].offset)'
    <2>1. PICK c \in Chunks : c = slots[s].offset
      BY <1>a
    <2>2. Backed(c)
      BY <2>1 DEF KnownInv
    <2>3. Backed(c)'
      BY <1>b, <2>1, <2>2, BackedKept
    <2> QED BY <1>2, <2>1, <2>3 DEF Backed
  <1>3. ASSUME NEW s \in Slots, slots'[s].offset # slots[s].offset
        PROVE  Backed(slots[s].offset)'
    <2>1. UNCHANGED <<table, writers>> => UNCHANGED slots
      BY DEF table
    <2>2. \A w \in Writers : PutWrite(w) \/ (\E k \in Keys, v \in Values : PutAlloc(w, k, v)) => UNCHANGED slots
      BY DEF PutWrite, PutAlloc
    <2>3. \A w \in Writers : InsertLoad(w) \/ InsertCAS(w) => slots'[s].offset = slots[s].offset
      BY ProbeStep DEF OrderInv
    <2>4. PICK w \in Writers, f \in Fields : InsertField(w, f)
      BY <1>3, <2>1, <2>2, <2>3, LoadSteps DEF OrderInv
    <2>5. slots'[s].offset = woff[w] /\ wpc[w] = "fill"
      BY <1>3, <2>4, FieldStep
    <2>6. PICK c \in Chunks : c = woff[w]
      BY <1>a
    <2>7. Backed(c) /\ \A x \in Writers : x = w
      BY <2>5, <2>6 DEF Backed, InsertLabels, Loading, SingleWriter
    <2>8. Backed(c)'
      BY <2>5, <2>7, BackedKept
    <2> QED BY <2>5, <2>6, <2>8 DEF Backed
  <1>4. ASSUME NEW r \in Readers
        PROVE  /\ Backed(rslot[r].offset)'
               /\ rslot'[r].offset # 0 => rslot'[r].offset < dataEnd'
               /\ \A w \in Writers : wpc'[w] \in {"write", "load", "cas"} =>
                     rslot'[r].offset = 0 \/ rslot'[r].offset < woff'[w]
    <2>1. CASE UNCHANGED <<table, writers>> /\ \E s \in Slots : rslot'[r].offset = slots[s].offset
      <3>1. PICK s \in Slots : rslot'[r].offset = slots[s].offset
        BY <2>1
      <3>2. UNCHANGED <<slots, dataEnd, wpc, woff>>
        BY <2>1 DEF table, writers
      <3>3. Backed(slots[s].offset)'
        BY <1>2, <3>2
      <3>4. Backed(rslot[r].offset)'
        BY <3>1, <3>2, <3>3 DEF Backed
      <3> QED BY <1>b, <3>1, <3>2, <3>4
    <2>2. CASE rslot'[r].offset = rslot[r].offset
      <3>1. PICK c \in Chunks : c = rslot[r].offset
        BY <1>a
      <3>2. /\ Backed(c) /\ (c # 0 => c < dataEnd)
            /\ \A w \in Writers : wpc[w] \in {"write", "load", "cas"} => c = 0 \/ c < woff[w]
        BY <3>1 DEF KnownInv
      <3>3. Backed(c)'
        BY <3>2, BackedKept
      <3>4. Backed(rslot[r].offset)'
        BY <2>2, <3>1, <3>3 DEF Backed
      <3>. DEFINE Below == /\ c # 0 => c < dataEnd'
                           /\ \A w \in Writers : wpc'[w] \in {"write", "load", "cas"} => c = 0 \/ c < woff'[w]
      <3>5. Below
        <4>1. CASE UNCHANGED <<table, writers>>
          BY <3>2, <4>1 DEF table, writers
        <4>2. ASSUME NEW w \in Writers, NEW k \in Keys, NEW v \in Values, PutAlloc(w, k, v)
              PROVE  Below
          <5>1. dataEnd' = dataEnd + 1 /\ woff'[w] = dataEnd /\ \A x \in Writers : x = w
            BY <4>2 DEF PutAlloc, TypeInv, TypeOK, Loading, SingleWriter
          <5> QED BY <1>a, <3>2, <5>1
        <4>3. ASSUME NEW w \in Writers, PutWrite(w)
              PROVE  Below
          <5>1. wpc[w] = "write" /\ UNCHANGED <<dataEnd, woff>> /\ \A x \in Writers : x = w
            BY <4>3 DEF PutWrite, Loading, SingleWriter
          <5> QED BY <3>2, <5>1
        <4>4. ASSUME NEW w \in Writers, InsertLoad(w) \/ InsertCAS(w)
              PROVE  Below
          <5>1. wpc[w] \in {"load", "cas"} /\ UNCHANGED <<dataEnd, woff>> /\ \A x \in Writers : x = w
            BY <4>4, ProbeStep DEF OrderInv, Loading, SingleWriter
          <5> QED BY <3>2, <5>1
        <4>5. ASSUME NEW w \in Writers, NEW f \in Fields, InsertField(w, f)
              PROVE  Below
          <5>1. /\ wpc'[w] \in {"fill", "idle"} /\ UNCHANGED dataEnd /\ \A x \in Writers : x = w
            BY <4>5, FieldStep DEF Loading, SingleWriter
          <5> QED BY <3>2, <5>1
        <4> QED BY <4>1, <4>2, <4>3, <4>4, <4>5, LoadSteps DEF OrderInv
      <3> QED BY <2>2, <3>1, <3>4, <3>5
    <2> QED BY <2>1, <2>2, CopyStep
  <1> QED BY <1>1, <1>2, <1>3, <1>4 DEF KnownInv

------------------------------------------------------------------------------
(* The inductive invariant of loading                                        *)

\* A new table refers to no chunk but the first, which is zeroed.
LEMMA KnownInit == ASSUME Init PROVE KnownInv
  <1>1. /\ \A s \in Slots : slots[s].offset = 0
        /\ \A r \in Readers : rslot[r].offset = 0
        /\ \A c \in Chunks : data[c] = NoChunk
    BY DEF Init
  <1>2. 0 \in Chunks
    BY DataAssumption DEF Chunks
  <1>3. Backed(0)
    BY <1>1, <1>2, DataAssumption DEF Backed, Entry
  <1> QED BY <1>1, <1>3 DEF KnownInv

\* While loading, LoadInv holds in every reachable state.
LEMMA LoadInvariant ==
    ASSUME Loading
    PROVE  Spec => []LoadInv
  <1>1. Init => KnownInv
    BY KnownInit
  <1>2. /\ HashTableInv /\ OrderInv /\ FirstInv /\ (HashTableInv /\ OrderInv /\ FirstInv)'
        /\ KnownInv /\ [Next]_vars
        => KnownInv'
    BY KnownNext DEF HashTableInv
  <1>3. LoadInv <=> (HashTableInv /\ OrderInv /\ FirstInv) /\ KnownInv
    BY DEF LoadInv
  <1> QED BY <1>1, <1>2, <1>3, FirstInvariant, PTL DEF Spec

------------------------------------------------------------------------------
(* The first put of a set of slots                                           *)

\* Slot s, of slot array sl, has the lowest offset of the slots of set S.
Lowest(sl, S, s) ==
    /\ s \in S
    /\ \A t \in S : sl[t].offset \in Nat /\ sl[s].offset <= sl[t].offset

\* Any slot with the lowest offset has the value of the first put.
LEMMA EarliestIs ==
    ASSUME NEW sl, NEW da, NEW S, NEW s, Lowest(sl, S, s)
    PROVE  Earliest(sl, da, S) = da[sl[s].offset].val
  <1> USE DEF Lowest
  <1>. DEFINE c == CHOOSE x \in S : \A t \in S : sl[x].offset <= sl[t].offset
  <1>1. c \in S /\ \A t \in S : sl[c].offset <= sl[t].offset
    OBVIOUS
  <1>2. Earliest(sl, da, S) = da[sl[c].offset].val
    BY DEF Earliest
  <1>. HIDE DEF c
  <1>3. sl[c].offset = sl[s].offset
    BY <1>1
  <1> QED BY <1>2, <1>3

\* There is a slot with the lowest offset.
LEMMA EarliestExists ==
    ASSUME NEW sl, NEW S, S # {}, \A t \in S : sl[t].offset \in Nat
    PROVE  \E s \in S : Lowest(sl, S, s)
  <1>. DEFINE O == {sl[t].offset : t \in S}
  <1>1. O \subseteq Nat /\ O # {}
    OBVIOUS
  <1>2. PICK n \in O : \A m \in O : n <= m
    BY <1>1, LeastExists
  <1> QED BY <1>2 DEF Lowest

\* The value does not change while the slots and their chunks stay as they are.
LEMMA EarliestSame ==
    ASSUME NEW sl, NEW da, NEW sl2, NEW da2, NEW S,
           \A t \in S : sl[t].offset \in Nat,
           \A t \in S : sl2[t] = sl[t] /\ da2[sl[t].offset] = da[sl[t].offset]
    PROVE  Earliest(sl2, da2, S) = Earliest(sl, da, S)
  <1>1. CASE S = {}
    BY <1>1 DEF Earliest
  <1>2. CASE S # {}
    <2>1. PICK s \in S : Lowest(sl, S, s)
      BY <1>2, EarliestExists
    <2>2. Earliest(sl, da, S) = da[sl[s].offset].val
      BY <2>1, EarliestIs
    <2>3. Lowest(sl2, S, s)
      BY <2>1 DEF Lowest
    <2>4. Earliest(sl2, da2, S) = da2[sl2[s].offset].val
      BY <2>3, EarliestIs
    <2> QED BY <2>2, <2>4
  <1> QED BY <1>1, <1>2

\* The first of a set of published entries stays the first.
LEMMA FirstStays ==
    ASSUME TypeInv, TableInv, NoTombs, [Next]_vars, NEW S \in SUBSET Slots, \A s \in S : Published(s)
    PROVE  Earliest(slots', data', S) = Earliest(slots, data, S)
  <1>1. \A s \in S : slots[s].offset \in Nat
    <2>1. \A s \in S : slots[s].offset \in Chunks
      BY DEF TypeInv, TypeOK, HashSlot
    <2> QED BY <2>1, DataAssumption DEF Chunks
  <1>2. \A s \in S : slots'[s] = slots[s] /\ data'[slots[s].offset] = data[slots[s].offset]
    BY LoadKeeps DEF Keeps
  <1> QED BY <1>1, <1>2, EarliestSame

\* The first of a set of published entries is a value.
LEMMA FirstIsValue ==
    ASSUME TypeInv, TableInv, NEW S \in SUBSET Slots, S # {}, \A s \in S : Published(s)
    PROVE  FirstOf(S) \in Values
  <1>1. \A s \in S : slots[s].offset \in Nat
    <2>1. \A s \in S : slots[s].offset \in Chunks
      BY DEF TypeInv, TypeOK, HashSlot
    <2> QED BY <2>1, DataAssumption DEF Chunks
  <1>2. PICK s \in S : Lowest(slots, S, s)
    BY <1>1, EarliestExists
  <1>3. FirstOf(S) = data[slots[s].offset].val
    BY <1>2, EarliestIs DEF FirstOf
  <1>4. data[slots[s].offset] \in Entry
    BY <1>2 DEF TableInv, EntryIntact
  <1> QED BY <1>3, <1>4 DEF Entry

------------------------------------------------------------------------------
(* The steps of the table are steps of WriteOnceMap, or stutter              *)

\* The map stays as it is while no entry is published.
LEMMA MapStays ==
    ASSUME TypeInv, TableInv, NoTombs, [Next]_vars, \A s \in Slots : Published(s)' <=> Published(s)
    PROVE  UNCHANGED <<mapBar, fullBar>>
  <1>1. ASSUME NEW k \in Keys
        PROVE  Earliest(slots', data', Holding(k)') = Earliest(slots, data, Holding(k))
    <2>1. \A s \in Slots : Published(s) => KeyAt(s)' = KeyAt(s)
      BY LoadKeeps DEF Keeps, KeyAt
    <2>2. Holding(k)' = Holding(k)
      BY <2>1 DEF Holding
    <2>3. Holding(k) \in SUBSET Slots /\ \A s \in Holding(k) : Published(s)
      BY DEF Holding
    <2> QED BY <2>2, <2>3, FirstStays
  <1>2. mapBar' = mapBar
    BY <1>1 DEF mapBar, FirstOf
  <1>3. fullBar' = fullBar
    BY DEF fullBar
  <1> QED BY <1>2, <1>3

\* A lookup's first value and result stay as they are between its own steps.
LEMMA LookupStays ==
    ASSUME TypeInv, TableInv, NoTombs, [Next]_vars, NEW r \in Readers, LookupOK(r), witness'[r] = witness[r]
    PROVE  /\ Earliest(slots', data', witness'[r]) = Earliest(slots, data, witness[r])
           /\ rpc'[r] = rpc[r] /\ rslot'[r] = rslot[r] => Returned(r)' = Returned(r)
  <1>1. Earliest(slots', data', witness'[r]) = Earliest(slots, data, witness[r])
    <2>1. witness[r] \in SUBSET Slots /\ \A s \in witness[r] : Published(s)
      BY DEF TypeInv, TypeOK, LookupOK
    <2> QED BY <2>1, FirstStays
  <1>2. ASSUME rpc[r] = "hit" PROVE data'[rslot[r].offset] = data[rslot[r].offset]
    <2>1. rslot[r].offset \in Chunks /\ data[rslot[r].offset] \in Entry
      BY <1>2 DEF TypeInv, TypeOK, LookupOK, matchKeyAt
    <2> QED BY <2>1, DataStep, DataAssumption DEF Entry
  <1>3. ASSUME rpc'[r] = rpc[r], rslot'[r] = rslot[r] PROVE Returned(r)' = Returned(r)
    BY <1>2, <1>3 DEF Returned
  <1> QED BY <1>1, <1>3

\* A step of the writer leaves the lookups of the map alone.
LEMMA LookupsStay ==
    ASSUME TypeInv, TableInv, NoTombs, LookupInv, [Next]_vars, UNCHANGED <<lookups, witness>>
    PROVE  UNCHANGED <<asksBar, firstBar, resultBar>>
  <1>1. \A r \in Readers : /\ rpc'[r] = rpc[r] /\ rslot'[r] = rslot[r] /\ rkey'[r] = rkey[r]
                           /\ witness'[r] = witness[r] /\ LookupOK(r)
    BY DEF lookups, LookupInv
  <1>2. asksBar' = asksBar
    BY DEF asksBar, lookups
  <1>3. firstBar' = firstBar
    BY <1>1, LookupStays DEF firstBar, FirstOf
  <1>4. resultBar' = resultBar
    BY <1>1, LookupStays DEF resultBar
  <1> QED BY <1>2, <1>3, <1>4

\* A step of a lookup leaves the puts of the map alone.
LEMMA PutsStay ==
    ASSUME TypeInv, TableInv, NoTombs, [Next]_vars, UNCHANGED <<table, writers>>
    PROVE  UNCHANGED <<mapBar, fullBar, putsBar>>
  <1>1. \A s \in Slots : Published(s)' <=> Published(s)
    BY DEF table, writers, Published, BeingFilled, Filling, WSlot, Probe
  <1>2. putsBar' = putsBar
    BY DEF putsBar, writers
  <1> QED BY <1>1, <1>2, MapStays

\* put begins when it allocates its chunk.
LEMMA PutBegins ==
    ASSUME Loading, TypeInv, TableInv, NoTombs, LookupInv, [Next]_vars,
           NEW w \in Writers, NEW k \in Keys, NEW v \in Values, PutAlloc(w, k, v)
    PROVE  Abstract!BeginPut(w, k, v)
  <1>1. /\ UNCHANGED <<lookups, witness>>
        /\ \A s \in Slots : Published(s)' <=> Published(s)
        /\ wpc[w] = "idle" /\ wpc'[w] = "write" /\ wkey'[w] = k /\ wval'[w] = v
        /\ \A x \in Writers : x = w
    BY ChunkStep DEF PutAlloc, TypeInv, TypeOK
  <1>2. putsBar[w] = {} /\ putsBar' = [putsBar EXCEPT ![w] = {[key |-> k, val |-> v]}]
    BY <1>1 DEF putsBar, InsertLabels
  <1> QED BY <1>1, <1>2, MapStays, LookupsStay DEF Abstract!BeginPut

\* Writing the chunk changes nothing that lookups can see.
LEMMA WriteStutters ==
    ASSUME Loading, TypeInv, TableInv, NoTombs, LookupInv, [Next]_vars, NEW w \in Writers, PutWrite(w)
    PROVE  UNCHANGED Abstract!mapVars
  <1>1. /\ UNCHANGED <<lookups, witness>>
        /\ \A s \in Slots : Published(s)' <=> Published(s)
        /\ wpc[w] = "write" /\ wpc'[w] = "load" /\ UNCHANGED <<wkey, wval>>
        /\ \A x \in Writers : x = w
    BY ChunkStep DEF PutWrite
  <1>2. putsBar' = putsBar
    BY <1>1 DEF putsBar, InsertLabels
  <1> QED BY <1>1, <1>2, MapStays, LookupsStay DEF Abstract!mapVars

\* Insert fails only after it has met an entry in every slot.
LEMMA FailsWhenFull ==
    ASSUME Loading, TypeInv, TableInv, OrderInv, NEW w \in Writers, InsertLoad(w) \/ InsertCAS(w), wpc'[w] = "idle"
    PROVE  fullBar
  <1> SUFFICES ASSUME NEW s \in Slots PROVE Published(s)
    BY DEF fullBar
  <1>. DEFINE h == HashOf[wkey[w]]
  <1>1. wpc[w] \in {"load", "cas"} /\ wi[w] + 1 >= Capacity
    BY ProbeStep DEF OrderInv
  <1>2. h \in Nat /\ wi[w] \in Nat /\ Capacity \in Nat \ {0}
    BY DataAssumption, CapacityAssumption DEF TypeInv, TypeOK
  <1>3. PICK i \in Slots : Probe(h, i) = s
    BY <1>2, RemaindersVisited DEF Probe, Slots
  <1>4. i < wi[w] \/ i = wi[w]
    BY <1>1, <1>2, <1>3 DEF Slots
  <1>5. CASE i = wi[w]
    BY <1>3, <1>5, FailedPut DEF WSlot
  <1>6. CASE i < wi[w]
    <2>1. slots[s].status # Empty
      BY <1>1, <1>3, <1>6 DEF TableInv, InsertPath
    <2>2. slots[s] \in HashSlot /\ slots[s].status # Tomb
      BY DEF TypeInv, TypeOK, OrderInv, NoTombs
    <2> QED BY <1>1, <2>1, <2>2 DEF HashSlot, Published, BeingFilled, Filling, Loading, SingleWriter
  <1> QED BY <1>4, <1>5, <1>6

\* An iteration of Insert changes nothing, or ends a put into a full map.
LEMMA ProbeImplements ==
    ASSUME Loading, TypeInv, TableInv, OrderInv, LookupInv, [Next]_vars,
           NEW w \in Writers, InsertLoad(w) \/ InsertCAS(w)
    PROVE  \/ UNCHANGED Abstract!mapVars
           \/ Abstract!EndPut(w, wkey[w], wval[w])
  <1>1. /\ UNCHANGED <<lookups, witness, wkey, wval>>
        /\ \A s \in Slots : Published(s)' <=> Published(s)
        /\ wpc[w] \in {"load", "cas"} /\ wpc'[w] \in {"load", "cas", "fill", "idle"}
        /\ \A x \in Writers : x = w
    BY ProbeStep DEF OrderInv, Loading, SingleWriter
  <1>2. UNCHANGED <<mapBar, fullBar, asksBar, firstBar, resultBar>>
    BY <1>1, MapStays, LookupsStay DEF OrderInv
  <1>3. CASE wpc'[w] # "idle"
    <2>1. putsBar' = putsBar
      BY <1>1, <1>3 DEF putsBar, InsertLabels
    <2> QED BY <1>2, <2>1 DEF Abstract!mapVars
  <1>4. CASE wpc'[w] = "idle"
    <2>1. [key |-> wkey[w], val |-> wval[w]] \in putsBar[w] /\ putsBar' = [putsBar EXCEPT ![w] = {}]
      BY <1>1, <1>4 DEF putsBar, InsertLabels
    <2>2. fullBar
      BY <1>4, FailsWhenFull
    <2> QED BY <1>2, <2>1, <2>2 DEF Abstract!EndPut
  <1> QED BY <1>3, <1>4

\* The last store of Insert gives the key its value, unless it has one.
LEMMA PublishedValue ==
    ASSUME Loading, TypeInv, TableInv, OrderInv, [Next]_vars,
           NEW w \in Writers, NEW f \in Fields, InsertField(w, f), wtodo[w] = {f}
    PROVE  mapBar' = [mapBar EXCEPT ![wkey[w]] = IF @ = NoValue THEN wval[w] ELSE @]
  <1>. DEFINE v == WSlot(w)
  <1>1. /\ v \in Slots /\ ~Published(v) /\ wpc[w] = "fill" /\ data' = data
        /\ \A s \in Slots : s # v => slots'[s] = slots[s] /\ (Published(s)' <=> Published(s))
        /\ \A s \in Slots : s = v => Published(s)'
        /\ slots'[v].offset = woff[w]
    BY FieldStep
  <1>2. data[woff[w]] = [key |-> wkey[w], val |-> wval[w]] /\ woff[w] \in Chunks
    BY <1>1 DEF TableInv, ChunkOwned, TypeInv, TypeOK
  <1>. HIDE DEF v
  <1>3. \A s \in Slots : /\ s # v => KeyAt(s)' = KeyAt(s)
                         /\ s = v => KeyAt(s)' = wkey[w]
    BY <1>1, <1>2 DEF KeyAt
  <1>4. ASSUME NEW k \in Keys, k # wkey[w]
        PROVE  Earliest(slots', data', Holding(k)') = Earliest(slots, data, Holding(k))
    <2>1. Holding(k)' = Holding(k)
      BY <1>1, <1>3, <1>4 DEF Holding
    <2>2. Holding(k) \in SUBSET Slots /\ \A s \in Holding(k) : Published(s)
      BY DEF Holding
    <2> QED BY <2>1, <2>2, FirstStays DEF OrderInv
  <1>. DEFINE k == wkey[w]
              H == Holding(k)
  <1>5. k \in Keys /\ wkey' = wkey
    BY FieldStep DEF TypeInv, TypeOK
  <1>6. Holding(k)' = H \cup {v}
    BY <1>1, <1>3, <1>5 DEF Holding
  <1>7. H \in SUBSET Slots /\ \A s \in H : Published(s) /\ s # v
    BY <1>1 DEF Holding
  <1>8. \A s \in H : slots[s].offset \in Chunks /\ slots[s].offset < woff[w]
    BY <1>1, <1>7 DEF OrderInv, OffsetsBelow, InsertLabels, TypeInv, TypeOK, HashSlot
  <1>9. Chunks \subseteq Nat
    BY DataAssumption DEF Chunks
  <1>. HIDE DEF H
  <1>10. CASE H = {}
    <2>1. Lowest(slots', {v}, v)
      <3>1. slots'[v].offset = woff[w] /\ woff[w] \in Nat
        BY <1>1, <1>2, <1>9
      <3>2. slots'[v].offset <= slots'[v].offset
        BY <3>1
      <3> QED BY <3>1, <3>2 DEF Lowest
    <2>2. Earliest(slots', data', {v}) = data'[slots'[v].offset].val
      BY <2>1, EarliestIs
    <2>3. Earliest(slots', data', Holding(k)') = wval[w]
      BY <1>1, <1>2, <1>6, <1>10, <2>2
    <2>4. Earliest(slots, data, H) = NoValue
      BY <1>10 DEF Earliest
    <2> QED BY <1>4, <1>5, <2>3, <2>4 DEF mapBar, FirstOf, H
  <1>11. CASE H # {}
    <2>1. PICK s \in H : Lowest(slots, H, s)
      BY <1>8, <1>9, <1>11, EarliestExists
    <2>2. Earliest(slots, data, H) = data[slots[s].offset].val
      BY <2>1, EarliestIs
    <2>3. Lowest(slots', H \cup {v}, s)
      <3>1. \A u \in H : slots'[u] = slots[u]
        BY <1>1, <1>7
      <3>2. \A u \in H : slots[u].offset \in Nat /\ slots[s].offset <= slots[u].offset
        BY <2>1 DEF Lowest
      <3>3. slots'[v].offset = woff[w] /\ woff[w] \in Nat /\ slots[s].offset < woff[w]
        BY <1>1, <1>2, <1>8, <1>9
      <3>4. \A u \in H \cup {v} : slots'[u].offset \in Nat /\ slots'[s].offset <= slots'[u].offset
        BY <3>1, <3>2, <3>3
      <3> QED BY <3>4 DEF Lowest
    <2>4. Earliest(slots', data', H \cup {v}) = data'[slots'[s].offset].val
      BY <2>3, EarliestIs
    <2>5. Earliest(slots', data', Holding(k)') = Earliest(slots, data, H)
      BY <1>1, <1>6, <1>7, <2>1, <2>2, <2>4
    <2>6. Earliest(slots, data, H) \in Values
      BY <1>7, <1>11, FirstIsValue DEF FirstOf
    <2>7. Earliest(slots, data, H) # NoValue
      BY <2>6, ResultsAssumption
    <2> QED BY <1>4, <1>5, <2>5, <2>7 DEF mapBar, FirstOf, H
  <1> QED BY <1>10, <1>11

\* A store of Insert changes nothing, or ends its put.
LEMMA FieldImplements ==
    ASSUME Loading, TypeInv, TableInv, OrderInv, LookupInv, [Next]_vars,
           NEW w \in Writers, NEW f \in Fields, InsertField(w, f)
    PROVE  \/ UNCHANGED Abstract!mapVars
           \/ Abstract!EndPut(w, wkey[w], wval[w])
  <1>1. /\ UNCHANGED <<lookups, witness, wkey, wval>> /\ wpc[w] = "fill"
        /\ WSlot(w) \in Slots /\ ~Published(WSlot(w))
        /\ wpc'[w] = IF wtodo[w] = {f} THEN "idle" ELSE "fill"
        /\ \A s \in Slots : s # WSlot(w) => (Published(s)' <=> Published(s))
        /\ \A s \in Slots : s = WSlot(w) => (Published(s)' <=> wtodo[w] = {f})
        /\ \A x \in Writers : x = w
    BY FieldStep DEF Loading, SingleWriter
  <1>2. UNCHANGED <<asksBar, firstBar, resultBar>>
    BY <1>1, LookupsStay DEF OrderInv
  <1>3. CASE wtodo[w] # {f}
    <2>1. UNCHANGED <<mapBar, fullBar>>
      BY <1>1, <1>3, MapStays DEF OrderInv
    <2>2. putsBar' = putsBar
      BY <1>1, <1>3 DEF putsBar, InsertLabels
    <2> QED BY <1>2, <2>1, <2>2 DEF Abstract!mapVars
  <1>4. CASE wtodo[w] = {f}
    <2>1. [key |-> wkey[w], val |-> wval[w]] \in putsBar[w] /\ putsBar' = [putsBar EXCEPT ![w] = {}]
      BY <1>1, <1>4 DEF putsBar, InsertLabels
    <2>2. ~fullBar /\ fullBar' \in BOOLEAN
      BY <1>1 DEF fullBar
    <2>3. mapBar' = [mapBar EXCEPT ![wkey[w]] = IF @ = NoValue THEN wval[w] ELSE @]
      BY <1>4, PublishedValue
    <2> QED BY <1>2, <2>1, <2>2, <2>3 DEF Abstract!EndPut
  <1> QED BY <1>3, <1>4

\* A step of lookup r leaves the other lookups alone.
LookupStep(r) ==
    /\ UNCHANGED <<table, writers>>
    /\ \A x \in Readers : x # r => /\ rpc'[x] = rpc[x] /\ rkey'[x] = rkey[x] /\ rslot'[x] = rslot[x]
                                   /\ witness'[x] = witness[x]

\* What the map sees of it.
LEMMA OneLookup ==
    ASSUME TypeInv, TableInv, NoTombs, LookupInv, [Next]_vars, NEW r \in Readers, LookupStep(r)
    PROVE  /\ UNCHANGED <<mapBar, fullBar, putsBar>>
           /\ asksBar' = [asksBar EXCEPT ![r] = IF rpc'[r] \in GetLabels THEN {rkey'[r]} ELSE {}]
           /\ firstBar' = [firstBar EXCEPT ![r] = Earliest(slots', data', witness'[r])]
           /\ \A res : Returned(r)' = res => resultBar' = [resultBar EXCEPT ![r] = res]
  <1>1. UNCHANGED <<mapBar, fullBar, putsBar>>
    BY PutsStay DEF LookupStep
  <1>2. ASSUME NEW x \in Readers, x # r
        PROVE  /\ rpc'[x] = rpc[x] /\ rkey'[x] = rkey[x] /\ Returned(x)' = Returned(x)
               /\ Earliest(slots', data', witness'[x]) = Earliest(slots, data, witness[x])
    BY <1>2, LookupStays DEF LookupStep, LookupInv
  <1>3. asksBar' = [asksBar EXCEPT ![r] = IF rpc'[r] \in GetLabels THEN {rkey'[r]} ELSE {}]
    BY <1>2 DEF asksBar
  <1>4. firstBar' = [firstBar EXCEPT ![r] = Earliest(slots', data', witness'[r])]
    BY <1>2 DEF firstBar, FirstOf
  <1>5. ASSUME NEW res, Returned(r)' = res
        PROVE  resultBar' = [resultBar EXCEPT ![r] = res]
    BY <1>2, <1>5 DEF resultBar
  <1> QED BY <1>1, <1>3, <1>4, <1>5

\* A lookup begins with the value that its key has in the map.
LEMMA LookupBegins ==
    ASSUME TypeInv, TableInv, NoTombs, LookupInv, [Next]_vars, NEW r \in Readers, NEW k \in Keys, GetBegin(r, k)
    PROVE  Abstract!BeginLookup(r, k)
  <1>1. LookupStep(r)
    BY DEF GetBegin, RGoto, TypeInv, TypeOK, LookupStep
  <1>2. /\ rpc[r] \in Done /\ rpc'[r] = "load" /\ rkey'[r] = k /\ witness'[r] = Holding(k)
        /\ UNCHANGED <<slots, data>>
    BY DEF GetBegin, RGoto, TypeInv, TypeOK, table
  <1>3. asksBar[r] = {} /\ asksBar' = [asksBar EXCEPT ![r] = {k}]
    BY <1>1, <1>2, OneLookup DEF asksBar, Done, GetLabels
  <1>4. firstBar' = [firstBar EXCEPT ![r] = mapBar[k]]
    BY <1>1, <1>2, OneLookup DEF mapBar, FirstOf
  <1>5. Returned(r)' = NoValue
    BY <1>2 DEF Returned
  <1> QED BY <1>1, <1>3, <1>4, <1>5, OneLookup DEF Abstract!BeginLookup

\* An iteration that goes on changes nothing that the map sees.
LEMMA LookupStutters ==
    ASSUME TypeInv, TableInv, NoTombs, LookupInv, [Next]_vars, NEW r \in Readers, LookupStep(r),
           rpc[r] \in GetLabels, rpc'[r] \in GetLabels, rkey'[r] = rkey[r], witness'[r] = witness[r]
    PROVE  UNCHANGED Abstract!mapVars
  <1>1. Returned(r)' = NoValue /\ Returned(r) = NoValue
    BY DEF Returned, GetLabels
  <1>2. asksBar' = asksBar
    BY OneLookup DEF asksBar
  <1>3. firstBar' = firstBar
    <2>1. Earliest(slots', data', witness'[r]) = firstBar[r]
      BY LookupStays DEF LookupInv, firstBar, FirstOf
    <2> QED BY <2>1, OneLookup DEF firstBar
  <1>4. resultBar' = resultBar
    BY <1>1, OneLookup DEF resultBar
  <1> QED BY <1>2, <1>3, <1>4, OneLookup DEF Abstract!mapVars

\* The slice that a hit returns.
Slice(r) == IF rslot[r].vlen = VLen[data[rslot[r].offset].val] THEN data[rslot[r].offset].val ELSE Torn

\* A hit is on a key that the map knows, and on its first value if it had one.
LEMMA HitImplements ==
    ASSUME TypeInv, TableInv, Ordered, NEW r \in Readers, LookupOK(r), FirstOK(r), KnownInv,
           rpc[r] = "match", matchKeyAt(rslot[r].offset, rkey[r])
    PROVE  /\ Slice(r) \in Values \cup {Torn}
           /\ firstBar[r] # NoValue => Slice(r) = firstBar[r]
           /\ Abstract!Known(rkey[r])
  <1>. DEFINE c == rslot[r].offset
  <1>1. c \in Chunks /\ data[c] \in Entry /\ data[c].key = rkey[r] /\ rkey[r] \in Keys
    BY DEF TypeInv, TypeOK, matchKeyAt
  <1>2. Slice(r) = IF rslot[r].vlen = VLen[data[c].val] THEN data[c].val ELSE Torn
    BY DEF Slice
  <1>3. data[c].val \in Values
    BY <1>1 DEF Entry
  <1>4. ASSUME firstBar[r] # NoValue PROVE Slice(r) = firstBar[r]
    <2>1. witness[r] # {} /\ firstBar[r] = Earliest(slots, data, witness[r])
      BY <1>4 DEF firstBar, FirstOf, Earliest
    <2>2. PICK s \in Slots : IsFirst(r, s)
      BY <2>1, FirstHit, IndexSlots
    <2>3. \A u \in witness[r] : slots[u].offset \in Nat
      <3>1. \A u \in witness[r] : slots[u].offset \in Chunks
        BY DEF TypeInv, TypeOK, HashSlot
      <3> QED BY <3>1, DataAssumption DEF Chunks
    <2>4. Lowest(slots, witness[r], s)
      BY <2>2, <2>3 DEF IsFirst, Lowest
    <2>5. firstBar[r] = data[slots[s].offset].val
      BY <2>1, <2>4, EarliestIs
    <2>6. slots[s].vlen = VLen[data[slots[s].offset].val]
      BY <2>2 DEF IsFirst, LookupOK, TableInv, EntryIntact
    <2> QED BY <1>2, <2>2, <2>5, <2>6 DEF IsFirst
  <1>5. Abstract!Known(rkey[r])
    <2>1. Backed(c)
      BY DEF KnownInv
    <2>2. CASE Holding(rkey[r]) # {}
      <3>1. Holding(rkey[r]) \in SUBSET Slots /\ \A s \in Holding(rkey[r]) : Published(s)
        BY DEF Holding
      <3>2. FirstOf(Holding(rkey[r])) \in Values
        BY <2>2, <3>1, FirstIsValue
      <3>3. mapBar[rkey[r]] # NoValue
        BY <1>1, <3>2, ResultsAssumption DEF mapBar
      <3> QED BY <3>3 DEF Abstract!Known
    <2>3. ASSUME NEW w \in Writers, wpc[w] \in InsertLabels, woff[w] = c
          PROVE  Abstract!Known(rkey[r])
      <3>1. wpc[w] # "write"
        BY <1>1, <2>3, DataAssumption DEF TableInv, ChunkOwned, Entry
      <3>2. data[c] = [key |-> wkey[w], val |-> wval[w]]
        BY <2>3, <3>1 DEF TableInv, ChunkOwned, InsertLabels
      <3>3. putsBar[w] = {[key |-> wkey[w], val |-> wval[w]]} /\ wkey[w] = rkey[r]
        BY <1>1, <2>3, <3>2 DEF putsBar
      <3>4. \E p \in putsBar[w] : p.key = rkey[r]
        BY <3>3
      <3> QED BY <3>4 DEF Abstract!Known
    <2> QED BY <1>1, <2>1, <2>2, <2>3 DEF Backed
  <1> QED BY <1>2, <1>3, <1>4, <1>5

\* A lookup that ends returns what the map allows.
LEMMA LookupEnds ==
    ASSUME TypeInv, TableInv, NoTombs, LookupInv, [Next]_vars, NEW r \in Readers, LookupStep(r),
           rpc[r] \in GetLabels, rpc'[r] \in {"hit", "miss"}, witness'[r] = witness[r],
           NEW res \in Values \cup {Miss, Torn}, Returned(r)' = res,
           firstBar[r] # NoValue => res = firstBar[r],
           res # Miss => Abstract!Known(rkey[r])
    PROVE  Abstract!EndLookup(r, rkey[r], res)
  <1>1. rkey[r] \in asksBar[r] /\ asksBar' = [asksBar EXCEPT ![r] = {}]
    BY OneLookup DEF asksBar, GetLabels
  <1>2. firstBar' = firstBar
    <2>1. Earliest(slots', data', witness'[r]) = firstBar[r]
      BY LookupStays DEF LookupInv, firstBar, FirstOf
    <2> QED BY <2>1, OneLookup DEF firstBar
  <1>3. IF firstBar[r] # NoValue THEN res = firstBar[r] ELSE res # Miss => Abstract!Known(rkey[r])
    OBVIOUS
  <1> QED BY <1>1, <1>2, <1>3, OneLookup DEF Abstract!EndLookup

\* A miss is returned only to a lookup that began without a value.
LEMMA MissEnds ==
    ASSUME TypeInv, TableInv, NoTombs, LookupInv, LookupInv', [Next]_vars, NEW r \in Readers, LookupStep(r),
           rpc[r] \in GetLabels, rpc'[r] = "miss", witness'[r] = witness[r]
    PROVE  Abstract!EndLookup(r, rkey[r], Miss)
  <1>1. witness[r] = {}
    BY DEF LookupInv, LookupOK
  <1>2. firstBar[r] = NoValue
    BY <1>1 DEF firstBar, FirstOf, Earliest
  <1>3. Returned(r)' = Miss
    BY DEF Returned
  <1> QED BY <1>2, <1>3, LookupEnds

\* Every step of a lookup is one of the map, or changes nothing that it sees.
LEMMA GetImplements ==
    ASSUME LoadInv, LoadInv', [Next]_vars, NEW r \in Readers, Get(r)
    PROVE  \/ UNCHANGED Abstract!mapVars
           \/ \E res \in Values \cup {Miss, Torn} : Abstract!EndLookup(r, rkey[r], res)
  <1>a. /\ TypeInv /\ TableInv /\ NoTombs /\ Ordered /\ LookupInv /\ LookupInv' /\ KnownInv
        /\ LookupOK(r) /\ FirstOK(r)
    BY DEF LoadInv, HashTableInv, OrderInv, LookupInv, FirstInv
  <1>1. CASE GetStatus(r)
    <2>1. /\ LookupStep(r) /\ rpc[r] = "load" /\ rpc'[r] \in {"load", "copy", "miss"}
          /\ rkey'[r] = rkey[r] /\ witness'[r] = witness[r]
      BY <1>1, <1>a DEF GetStatus, RGoto, RAdvance, TypeInv, TypeOK, LookupStep, history
    <2> QED BY <1>a, <2>1, LookupStutters, MissEnds DEF GetLabels
  <1>2. CASE \E f \in Fields : GetField(r, f)
    <2>1. /\ LookupStep(r) /\ rpc[r] = "copy" /\ rpc'[r] \in {"copy", "match"}
          /\ rkey'[r] = rkey[r] /\ witness'[r] = witness[r]
      BY <1>2, <1>a DEF GetField, RGoto, TypeInv, TypeOK, LookupStep, history
    <2> QED BY <1>a, <2>1, LookupStutters DEF GetLabels
  <1>3. CASE GetMatch(r)
    <2>1. /\ LookupStep(r) /\ rpc[r] = "match" /\ UNCHANGED <<data, rslot>>
          /\ \/ rpc'[r] \in {"load", "miss"}
             \/ rpc'[r] = "hit" /\ matchKeyAt(rslot[r].offset, rkey[r])
          /\ rkey'[r] = rkey[r] /\ witness'[r] = witness[r]
      BY <1>3, <1>a DEF GetMatch, RGoto, RAdvance, TypeInv, TypeOK, LookupStep, history, table
    <2>2. CASE rpc'[r] \in {"load", "miss"}
      BY <1>a, <2>1, <2>2, LookupStutters, MissEnds DEF GetLabels
    <2>3. CASE rpc'[r] = "hit" /\ matchKeyAt(rslot[r].offset, rkey[r])
      <3>1. Returned(r)' = Slice(r)
        BY <2>1, <2>3 DEF Returned, Slice
      <3>2. /\ Slice(r) \in Values \cup {Torn}
            /\ firstBar[r] # NoValue => Slice(r) = firstBar[r]
            /\ Abstract!Known(rkey[r])
        BY <1>a, <2>1, <2>3, HitImplements
      <3>3. Abstract!EndLookup(r, rkey[r], Slice(r))
        BY <1>a, <2>1, <2>3, <3>1, <3>2, LookupEnds DEF GetLabels
      <3> QED BY <3>2, <3>3
    <2> QED BY <2>1, <2>2, <2>3
  <1> QED BY <1>1, <1>2, <1>3 DEF Get

------------------------------------------------------------------------------
(* Refinement                                                                *)

\* A new table is an empty map.
LEMMA InitImplements == ASSUME Init PROVE Abstract!MapInit
  <1>1. \A s \in Slots : ~Published(s)
    BY DEF Init, Published
  <1>2. 0 \in Slots
    BY CapacityAssumption DEF Slots
  <1>3. mapBar = [k \in Keys |-> NoValue]
    BY <1>1 DEF mapBar, FirstOf, Earliest, Holding
  <1>4. fullBar = FALSE
    BY <1>1, <1>2 DEF fullBar
  <1>5. putsBar = [w \in Writers |-> {}]
    BY DEF Init, putsBar, InsertLabels
  <1>6. asksBar = [r \in Readers |-> {}]
    BY DEF Init, asksBar, GetLabels
  <1>7. firstBar = [r \in Readers |-> NoValue]
    BY DEF Init, firstBar, FirstOf, Earliest
  <1>8. resultBar = [r \in Readers |-> NoValue]
    BY DEF Init, resultBar, Returned
  <1> QED BY <1>3, <1>4, <1>5, <1>6, <1>7, <1>8 DEF Abstract!MapInit

\* Every step of loading is a step of the map, or changes nothing that it sees.
LEMMA NextImplements ==
    ASSUME Loading, LoadInv, LoadInv', [Next]_vars
    PROVE  [Abstract!MapNext]_(Abstract!mapVars)
  <1>a. TypeInv /\ TableInv /\ OrderInv /\ NoTombs /\ LookupInv
    BY DEF LoadInv, HashTableInv, OrderInv
  <1>1. ASSUME NEW w \in Writers, NEW k \in Keys, NEW v \in Values, PutAlloc(w, k, v)
        PROVE  Abstract!MapNext
    BY <1>1, <1>a, PutBegins DEF Abstract!MapNext
  <1>2. ASSUME NEW w \in Writers, PutWrite(w) \/ Insert(w)
        PROVE  [Abstract!MapNext]_(Abstract!mapVars)
    <2>1. wkey[w] \in Keys /\ wval[w] \in Values
      BY <1>a DEF TypeInv, TypeOK
    <2>2. UNCHANGED Abstract!mapVars \/ Abstract!EndPut(w, wkey[w], wval[w])
      BY <1>2, <1>a, WriteStutters, ProbeImplements, FieldImplements DEF Insert
    <2> QED BY <2>1, <2>2 DEF Abstract!MapNext
  <1>3. ASSUME NEW r \in Readers, NEW k \in Keys, GetBegin(r, k)
        PROVE  Abstract!MapNext
    BY <1>3, <1>a, LookupBegins DEF Abstract!MapNext
  <1>4. ASSUME NEW r \in Readers, Get(r)
        PROVE  [Abstract!MapNext]_(Abstract!mapVars)
    <2>1. rkey[r] \in Keys
      BY <1>a DEF TypeInv, TypeOK
    <2> QED BY <1>4, <2>1, GetImplements DEF Abstract!MapNext
  <1>5. CASE UNCHANGED vars
    <2>1. UNCHANGED <<table, writers, lookups, witness>>
      BY <1>5 DEF vars, history
    <2> QED BY <1>a, <2>1, PutsStay, LookupsStay DEF Abstract!mapVars
  <1>6. \A w \in Writers : ~Delete(w) /\ ~\E k \in Deletable : DeleteBegin(w, k)
    BY <1>a DEF Loading, NoTombs, Delete, DeleteLoad, DeleteMatch, DeleteStore, DeleteLabels
  <1> QED BY <1>1, <1>2, <1>3, <1>4, <1>5, <1>6 DEF Next, WriterStep

\* ImplementsMap: with one writer that only inserts, the table is a map in which a
\* key keeps its first value, and a lookup that begins after the put of its key has
\* returned gives exactly that value, for any number of keys, slots and lookups.
THEOREM TableImplementsMap ==
    ASSUME Loading
    PROVE  Spec => ImplementsMap
  <1>1. Init => Abstract!MapInit
    BY InitImplements
  <1>2. LoadInv /\ LoadInv' /\ [Next]_vars => [Abstract!MapNext]_(Abstract!mapVars)
    BY NextImplements
  <1> QED BY <1>1, <1>2, LoadInvariant, PTL DEF Spec, ImplementsMap, Abstract!MapSpec
==============================================================================
