------------------------------ MODULE HashTable ------------------------------
(***************************************************************************)
(* The open-addressed, linear-probing table of pkg/featcache/hashtable.go, *)
(* stored in shared memory, written by Loader.put (loader.go) and by       *)
(* HashTable.Delete, and read without locks by HashTable.Get.              *)
(*                                                                         *)
(* One action is one access to shared memory: an atomic load, CAS or store *)
(* of a slot's status word, or one plain load or store of another word of  *)
(* the slot.  Every slot word is aligned and moved by one machine access,  *)
(* so a lookup may run between any two of the writer's stores but never    *)
(* sees half of a word.  The plain accesses between two atomic ones are a  *)
(* data race with the other side: they happen in any order.                *)
(*                                                                         *)
(* Data is abstracted to what lookups tell apart.  The data region is an   *)
(* array of chunks; the offset stored in a slot is a chunk's number, and   *)
(* chunk 0 is at offset 0, the value a zeroed slot holds.  The slice a     *)
(* lookup returns is the pair of a chunk and a length.                     *)
(***************************************************************************)
EXTENDS Integers

CONSTANTS
    Keys,       \* the keys that are put, deleted and looked up
    Values,     \* the values that are put
    VLen,       \* the length in bytes of each value
    HashOf,     \* the full hash of each key under the segment's seed
    Capacity,   \* number of slots
    MaxChunks,  \* bound: number of chunks the data region can hold
    NoChunk,    \* what the zeroed data region holds
    Writers,    \* threads that call Loader.put and HashTable.Delete
    Readers,    \* goroutines, of any process, that call HashTable.Get
    Deletable   \* the keys on which Delete is called

SingleWriter == \A w1, w2 \in Writers : w1 = w2

\* NewHashTable asks for a power of two: only then is `& mask` the remainder.
ASSUME CapacityAssumption ==
    /\ Capacity \in Nat \ {0}
    /\ \E n \in 0 .. Capacity : 2 ^ n = Capacity

ASSUME DataAssumption ==
    /\ MaxChunks \in Nat \ {0}
    /\ Keys # {} /\ Values # {}
    /\ VLen \in [Values -> Nat]
    /\ HashOf \in [Keys -> Nat]
    /\ NoChunk \notin [key : Keys, val : Values]

\* Deletion is for the single writer only: its last store is not a CAS.
ASSUME ContractAssumption ==
    /\ Deletable \subseteq Keys
    /\ SingleWriter \/ Deletable = {}

Slots  == 0 .. Capacity - 1
Chunks == 0 .. MaxChunks - 1

Empty == "empty"
Used  == "used"
Tomb  == "tomb"

Entry    == [key : Keys, val : Values]
HashSlot == [hash : Nat, offset : Chunks, vlen : Nat, status : {Empty, Used, Tomb}]
Fields   == {"hash", "offset", "vlen"}   \* the words of a slot that are not atomic

VARIABLES
    slots,     \* the slot array
    data,      \* the data region
    dataEnd,   \* number of chunks allocated, Loader.dataEnd
    wpc, wkey, wval, woff, wi, wst, wtodo,    \* the writers: program counter and locals
    rpc, rkey, ri, rslot, rtodo,              \* the lookups: program counter and locals
    witness,   \* history: slots that have held rkey, published, ever since the lookup began
    gone,      \* history: keys deleted and not put again since
    rgone      \* history: the lookup began with its key in gone, and no put of it since

table   == <<slots, data, dataEnd>>
writers == <<wpc, wkey, wval, woff, wi, wst, wtodo>>
lookups == <<rpc, rkey, ri, rslot, rtodo>>
history == <<witness, gone, rgone>>
vars    == <<table, writers, lookups, history>>

\* The i-th slot index that a loop starting from hash h visits.
Probe(h, i) == (h + i) % Capacity

WSlot(w) == Probe(HashOf[wkey[w]], wi[w])
RSlot(r) == Probe(HashOf[rkey[r]], ri[r])

\* A zeroed chunk has key length 0, which is the length of no key.
matchKeyAt(dataOff, key) == data[dataOff] \in Entry /\ data[dataOff].key = key

------------------------------------------------------------------------------
(* Which slots hold a complete entry.                                        *)

Filling(w) == wpc[w] = "fill"

BeingFilled(s) == \E w \in Writers : Filling(w) /\ WSlot(w) = s

\* Insert has returned true for the entry in slot s, and it was not deleted.
Published(s) == slots[s].status = Used /\ ~BeingFilled(s)

KeyAt(s) == data[slots[s].offset].key

Holding(k) == {s \in Slots : Published(s) /\ KeyAt(s) = k}

------------------------------------------------------------------------------
(* The writer: Loader.put, then HashTable.Insert.                            *)

Goto(w, label) == wpc' = [wpc EXCEPT ![w] = label]

\* Mutant: the allocation does not move dataEnd.
PutAllocShared(w, k, v) ==
    /\ wpc[w] = "idle"
    /\ dataEnd < MaxChunks
    /\ woff' = [woff EXCEPT ![w] = dataEnd]
    /\ wkey' = [wkey EXCEPT ![w] = k]
    /\ wval' = [wval EXCEPT ![w] = v]
    /\ gone' = gone \ {k}
    /\ rgone' = [r \in Readers |-> rgone[r] /\ rkey[r] # k]
    /\ Goto(w, "write")
    /\ UNCHANGED <<table, wi, wst, wtodo, lookups, witness>>

\* put allocates its chunk with one atomic add.
PutAlloc(w, k, v) ==
    /\ wpc[w] = "idle"
    /\ dataEnd < MaxChunks
    /\ dataEnd' = dataEnd + 1
    /\ woff' = [woff EXCEPT ![w] = dataEnd]
    /\ wkey' = [wkey EXCEPT ![w] = k]
    /\ wval' = [wval EXCEPT ![w] = v]
    /\ gone' = gone \ {k}
    /\ rgone' = [r \in Readers |-> rgone[r] /\ rkey[r] # k]
    /\ Goto(w, "write")
    /\ UNCHANGED <<slots, data, wi, wst, wtodo, lookups, witness>>

\* Mutant: Insert begins behind the home slot.
PutWriteLate(w) ==
    /\ wpc[w] = "write"
    /\ data' = [data EXCEPT ![woff[w]] = [key |-> wkey[w], val |-> wval[w]]]
    /\ wi' = [wi EXCEPT ![w] = 1]
    /\ Goto(w, "load")
    /\ UNCHANGED <<slots, dataEnd, wkey, wval, woff, wst, wtodo, lookups, history>>

\* put writes [keyLen][key][value] before it calls Insert.
PutWrite(w) ==
    /\ wpc[w] = "write"
    /\ data' = [data EXCEPT ![woff[w]] = [key |-> wkey[w], val |-> wval[w]]]
    /\ wi' = [wi EXCEPT ![w] = 0]
    /\ Goto(w, "load")
    /\ UNCHANGED <<slots, dataEnd, wkey, wval, woff, wst, wtodo, lookups, history>>

\* Mutant: the loop has no bound.
AdvanceForever(w, label) ==
    /\ wi' = [wi EXCEPT ![w] = wi[w] + 1]
    /\ Goto(w, label)

\* The loop's next iteration, or Insert's and Delete's `return false`.
Advance(w, label) ==
    /\ wi' = [wi EXCEPT ![w] = wi[w] + 1]
    /\ Goto(w, IF wi[w] + 1 < Capacity THEN label ELSE "idle")

\* Mutant: Insert overwrites the slot of an equal hash.
InsertLoadUpdates(w) ==
    /\ wpc[w] = "load"
    /\ LET slot == slots[WSlot(w)] IN
       \/ /\ slot.status \in {Empty, Tomb}
          /\ wst' = [wst EXCEPT ![w] = slot.status]
          /\ Goto(w, "cas")
          /\ UNCHANGED <<wi, wtodo>>
       \/ /\ slot.status = Used /\ slot.hash = HashOf[wkey[w]]
          /\ wtodo' = [wtodo EXCEPT ![w] = Fields]
          /\ Goto(w, "fill")
          /\ UNCHANGED <<wi, wst>>
       \/ /\ slot.status = Used /\ slot.hash # HashOf[wkey[w]]
          /\ Advance(w, "load")
          /\ UNCHANGED <<wst, wtodo>>
    /\ UNCHANGED <<table, wkey, wval, woff, lookups, history>>

InsertLoad(w) ==
    /\ wpc[w] = "load"
    /\ \/ /\ slots[WSlot(w)].status \in {Empty, Tomb}
          /\ wst' = [wst EXCEPT ![w] = slots[WSlot(w)].status]
          /\ Goto(w, "cas")
          /\ wi' = wi
       \/ /\ slots[WSlot(w)].status = Used
          /\ Advance(w, "load")
          /\ wst' = wst
    /\ UNCHANGED <<table, wkey, wval, woff, wtodo, lookups, history>>

\* Mutant: a plain store in place of the CAS.
InsertCASBlind(w) ==
    /\ wpc[w] = "cas"
    /\ slots' = [slots EXCEPT ![WSlot(w)].status = Used]
    /\ wtodo' = [wtodo EXCEPT ![w] = Fields]
    /\ Goto(w, "fill")
    /\ UNCHANGED <<data, dataEnd, wkey, wval, woff, wi, wst, lookups, history>>

\* The CAS marks the slot used before any of its other words is written.
InsertCAS(w) ==
    /\ wpc[w] = "cas"
    /\ \/ /\ slots[WSlot(w)].status = wst[w]
          /\ slots' = [slots EXCEPT ![WSlot(w)].status = Used]
          /\ wtodo' = [wtodo EXCEPT ![w] = Fields]
          /\ Goto(w, "fill")
          /\ wi' = wi
       \/ /\ slots[WSlot(w)].status # wst[w]
          /\ Advance(w, "load")
          /\ UNCHANGED <<slots, wtodo>>
    /\ UNCHANGED <<data, dataEnd, wkey, wval, woff, wst, lookups, history>>

\* One of the three plain stores; after the last one Insert returns true.
InsertField(w, f) ==
    /\ wpc[w] = "fill"
    /\ f \in wtodo[w]
    /\ slots' = [slots EXCEPT ![WSlot(w)] =
           CASE f = "hash"   -> [@ EXCEPT !.hash = HashOf[wkey[w]]]
             [] f = "offset" -> [@ EXCEPT !.offset = woff[w]]
             [] f = "vlen"   -> [@ EXCEPT !.vlen = VLen[wval[w]]]]
    /\ wtodo' = [wtodo EXCEPT ![w] = @ \ {f}]
    /\ Goto(w, IF wtodo[w] = {f} THEN "idle" ELSE "fill")
    /\ UNCHANGED <<data, dataEnd, wkey, wval, woff, wi, wst, lookups, history>>

------------------------------------------------------------------------------
(* The writer: HashTable.Delete.                                             *)

DeleteBegin(w, k) ==
    /\ wpc[w] = "idle"
    /\ wkey' = [wkey EXCEPT ![w] = k]
    /\ wi' = [wi EXCEPT ![w] = 0]
    /\ Goto(w, "dload")
    /\ UNCHANGED <<table, wval, woff, wst, wtodo, lookups, history>>

DeleteLoad(w) ==
    /\ wpc[w] = "dload"
    /\ \/ slots[WSlot(w)].status = Empty /\ Goto(w, "idle") /\ wi' = wi
       \/ slots[WSlot(w)].status = Used /\ Goto(w, "dmatch") /\ wi' = wi
       \/ slots[WSlot(w)].status = Tomb /\ Advance(w, "dload")
    /\ UNCHANGED <<table, wkey, wval, woff, wst, wtodo, lookups, history>>

\* slotHash and matchKeyAtSlot: no other thread writes these fields.
DeleteMatch(w) ==
    /\ wpc[w] = "dmatch"
    /\ LET slot == slots[WSlot(w)] IN
       IF slot.hash = HashOf[wkey[w]] /\ matchKeyAt(slot.offset, wkey[w])
       THEN Goto(w, "dstore") /\ wi' = wi
       ELSE Advance(w, "dload")
    /\ UNCHANGED <<table, wkey, wval, woff, wst, wtodo, lookups, history>>

\* Mutant: the deleted slot is empty again.
DeleteStoreEmpty(w) ==
    /\ wpc[w] = "dstore"
    /\ slots' = [slots EXCEPT ![WSlot(w)].status = Empty]
    /\ witness' = [r \in Readers |-> witness[r] \ {WSlot(w)}]
    /\ gone' = gone \cup {wkey[w]}
    /\ Goto(w, "idle")
    /\ UNCHANGED <<data, dataEnd, wkey, wval, woff, wi, wst, wtodo, lookups, rgone>>

DeleteStore(w) ==
    /\ wpc[w] = "dstore"
    /\ slots' = [slots EXCEPT ![WSlot(w)].status = Tomb]
    /\ witness' = [r \in Readers |-> witness[r] \ {WSlot(w)}]
    /\ gone' = gone \cup {wkey[w]}
    /\ Goto(w, "idle")
    /\ UNCHANGED <<data, dataEnd, wkey, wval, woff, wi, wst, wtodo, lookups, rgone>>

------------------------------------------------------------------------------
(* The lookup: HashTable.Get.                                                *)

Done == {"idle", "hit", "miss"}

RGoto(r, label) == rpc' = [rpc EXCEPT ![r] = label]

GetBegin(r, k) ==
    /\ rpc[r] \in Done
    /\ rkey' = [rkey EXCEPT ![r] = k]
    /\ ri' = [ri EXCEPT ![r] = 0]
    /\ witness' = [witness EXCEPT ![r] = Holding(k)]
    /\ rgone' = [rgone EXCEPT ![r] = k \in gone]
    /\ RGoto(r, "load")
    /\ UNCHANGED <<table, writers, rslot, rtodo, gone>>

\* Mutant: the lookup does not visit the last slot.
RAdvanceShort(r) ==
    /\ ri' = [ri EXCEPT ![r] = ri[r] + 1]
    /\ RGoto(r, IF ri[r] + 2 < Capacity THEN "load" ELSE "miss")

\* Mutant: the lookup goes round a full table.
RAdvanceForever(r) ==
    /\ ri' = [ri EXCEPT ![r] = (ri[r] + 1) % Capacity]
    /\ RGoto(r, "load")

\* The probe loop's next iteration, or `return nil, false` after the last slot.
RAdvance(r) ==
    /\ ri' = [ri EXCEPT ![r] = ri[r] + 1]
    /\ RGoto(r, IF ri[r] + 1 < Capacity THEN "load" ELSE "miss")

\* Mutant: a tombstone ends the lookup.
GetStatusTombStops(r) ==
    /\ rpc[r] = "load"
    /\ \/ /\ slots[RSlot(r)].status # Used
          /\ RGoto(r, "miss")
          /\ UNCHANGED rtodo
       \/ /\ slots[RSlot(r)].status = Used
          /\ rtodo' = [rtodo EXCEPT ![r] = Fields]
          /\ RGoto(r, "copy")
    /\ UNCHANGED <<table, writers, rkey, ri, rslot, history>>

\* getSlot loads the status first, atomically.  The rest of its copy only
\* matters for a used slot.
GetStatus(r) ==
    /\ rpc[r] = "load"
    /\ \/ /\ slots[RSlot(r)].status = Empty
          /\ RGoto(r, "miss")
          /\ UNCHANGED <<ri, rtodo>>
       \/ /\ slots[RSlot(r)].status = Used
          /\ rtodo' = [rtodo EXCEPT ![r] = Fields]
          /\ RGoto(r, "copy")
          /\ ri' = ri
       \/ /\ slots[RSlot(r)].status = Tomb
          /\ RAdvance(r)
          /\ rtodo' = rtodo
    /\ UNCHANGED <<table, writers, rkey, rslot, history>>

\* One of getSlot's three plain loads.
GetField(r, f) ==
    /\ rpc[r] = "copy"
    /\ f \in rtodo[r]
    /\ rslot' = [rslot EXCEPT ![r] =
           CASE f = "hash"   -> [@ EXCEPT !.hash = slots[RSlot(r)].hash]
             [] f = "offset" -> [@ EXCEPT !.offset = slots[RSlot(r)].offset]
             [] f = "vlen"   -> [@ EXCEPT !.vlen = slots[RSlot(r)].vlen]]
    /\ rtodo' = [rtodo EXCEPT ![r] = @ \ {f}]
    /\ RGoto(r, IF rtodo[r] = {f} THEN "match" ELSE "copy")
    /\ UNCHANGED <<table, writers, rkey, ri, history>>

\* Mutant: equal hashes are taken for equal keys.
GetMatchHash(r) ==
    /\ rpc[r] = "match"
    /\ IF rslot[r].hash = HashOf[rkey[r]]
       THEN RGoto(r, "hit") /\ ri' = ri
       ELSE RAdvance(r)
    /\ UNCHANGED <<table, writers, rkey, rslot, rtodo, history>>

\* matchKeyAt and getValue read the chunk, which is never written again.
GetMatch(r) ==
    /\ rpc[r] = "match"
    /\ IF rslot[r].hash = HashOf[rkey[r]] /\ matchKeyAt(rslot[r].offset, rkey[r])
       THEN RGoto(r, "hit") /\ ri' = ri
       ELSE RAdvance(r)
    /\ UNCHANGED <<table, writers, rkey, rslot, rtodo, history>>

------------------------------------------------------------------------------
SomeKey   == CHOOSE k \in Keys : TRUE
SomeValue == CHOOSE v \in Values : TRUE

\* InitHashTable has zeroed every slot; no thread has called anything yet.
Init ==
    /\ slots = [s \in Slots |-> [hash |-> 0, offset |-> 0, vlen |-> 0, status |-> Empty]]
    /\ data = [c \in Chunks |-> NoChunk]
    /\ dataEnd = 0
    /\ wpc = [w \in Writers |-> "idle"]
    /\ wkey = [w \in Writers |-> SomeKey]
    /\ wval = [w \in Writers |-> SomeValue]
    /\ woff = [w \in Writers |-> 0]
    /\ wi = [w \in Writers |-> 0]
    /\ wst = [w \in Writers |-> Empty]
    /\ wtodo = [w \in Writers |-> {}]
    /\ rpc = [r \in Readers |-> "idle"]
    /\ rkey = [r \in Readers |-> SomeKey]
    /\ ri = [r \in Readers |-> 0]
    /\ rslot = [r \in Readers |-> [hash |-> 0, offset |-> 0, vlen |-> 0]]
    /\ rtodo = [r \in Readers |-> {}]
    /\ witness = [r \in Readers |-> {}]
    /\ gone = {}
    /\ rgone = [r \in Readers |-> FALSE]

Insert(w) ==
    \/ InsertLoad(w)
    \/ InsertCAS(w)
    \/ \E f \in Fields : InsertField(w, f)

Delete(w) == DeleteLoad(w) \/ DeleteMatch(w) \/ DeleteStore(w)

WriterStep(w) == PutWrite(w) \/ Insert(w) \/ Delete(w)

Get(r) ==
    \/ GetStatus(r)
    \/ \E f \in Fields : GetField(r, f)
    \/ GetMatch(r)

Next ==
    \/ \E w \in Writers, k \in Keys, v \in Values : PutAlloc(w, k, v)
    \/ \E w \in Writers, k \in Deletable : DeleteBegin(w, k)
    \/ \E w \in Writers : WriterStep(w)
    \/ \E r \in Readers, k \in Keys : GetBegin(r, k)
    \/ \E r \in Readers : Get(r)

Spec == Init /\ [][Next]_vars

\* A call that has begun is executed to its end by its own goroutine.
Fairness ==
    /\ \A w \in Writers : WF_vars(WriterStep(w))
    /\ \A r \in Readers : WF_vars(Get(r))

FairSpec == Spec /\ Fairness

------------------------------------------------------------------------------
(* Properties                                                                *)

InsertLabels == {"write", "load", "cas", "fill"}
DeleteLabels == {"dload", "dmatch", "dstore"}
GetLabels    == {"load", "copy", "match"}

\* Every variable has its type.  In particular the loops of Insert, Delete and
\* Get never visit more than Capacity slots and no allocation passes the end of
\* the data region.
TypeOK ==
    /\ slots \in [Slots -> HashSlot]
    /\ data \in [Chunks -> Entry \cup {NoChunk}]
    /\ dataEnd \in 0 .. MaxChunks
    /\ wpc \in [Writers -> {"idle"} \cup InsertLabels \cup DeleteLabels]
    /\ wkey \in [Writers -> Keys]
    /\ wval \in [Writers -> Values]
    /\ woff \in [Writers -> Chunks]
    /\ wi \in [Writers -> 0 .. Capacity]
    /\ wst \in [Writers -> {Empty, Tomb}]
    /\ wtodo \in [Writers -> SUBSET Fields]
    /\ rpc \in [Readers -> Done \cup GetLabels]
    /\ rkey \in [Readers -> Keys]
    /\ ri \in [Readers -> 0 .. Capacity]
    /\ rslot \in [Readers -> [hash : Nat, offset : Chunks, vlen : Nat]]
    /\ rtodo \in [Readers -> SUBSET Fields]
    /\ witness \in [Readers -> SUBSET Slots]
    /\ gone \subseteq Keys
    /\ rgone \in [Readers -> BOOLEAN]

\* The CAS gives a slot to one writer: two threads in Insert never write the
\* fields of the same slot, and nobody but the writer filling a slot sees it
\* leave the used state.
ClaimExclusive ==
    /\ \A w1, w2 \in Writers : Filling(w1) /\ Filling(w2) /\ w1 # w2 => WSlot(w1) # WSlot(w2)
    /\ \A w \in Writers : Filling(w) => slots[WSlot(w)].status = Used

\* An entry is reachable: some probe index leads from its hash to slot s, and a
\* lookup cannot stop at an empty slot on the way.
Reachable(h, s) ==
    \E j \in Slots : /\ Probe(h, j) = s
                     /\ \A i \in Slots : i < j => slots[Probe(h, i)].status # Empty

\* Whatever the other writers do and whatever was deleted, an entry whose Insert
\* returned true has the hash, the offset and the length of one chunk that put
\* wrote, and lookups of its key can reach it.
EntryIntact ==
    \A s \in Slots : Published(s) =>
        LET chunk == data[slots[s].offset] IN
        /\ chunk \in Entry
        /\ slots[s].hash = HashOf[chunk.key]
        /\ slots[s].vlen = VLen[chunk.val]
        /\ Reachable(slots[s].hash, s)

\* A lookup does not miss a key that some slot held, published and undeleted,
\* during the whole lookup, whatever is inserted and deleted around it.
NoFalseMiss == \A r \in Readers : rpc[r] = "miss" => witness[r] = {}

\* A hit is a hit on the key asked for, also when two keys have the same 64-bit
\* hash and when the slot was being rewritten while the lookup copied it.
HitHasKey ==
    \A r \in Readers : rpc[r] = "hit" => matchKeyAt(rslot[r].offset, rkey[r])

\* With one writer and no deletions, a lookup of a key whose put had returned
\* gives the whole value of the first put of that key that succeeded.
FirstPutWins ==
    SingleWriter /\ Deletable = {} =>
        \A r \in Readers : rpc[r] = "hit" /\ witness[r] # {} =>
            /\ rslot[r].vlen = VLen[data[rslot[r].offset].val]
            /\ \A s \in witness[r] : rslot[r].offset <= slots[s].offset

\* A chunk is written once: a slice that a lookup returned, a view of shared
\* memory, never changes under its holder.
ViewStable == [][\A c \in Chunks : data[c] # NoChunk => data'[c] = data[c]]_vars

\* Every put and Delete returns, on a full table too, and a lookup of a key
\* that stays published ends in a hit.
CallsReturn ==
    /\ \A w \in Writers : wpc[w] # "idle" ~> wpc[w] = "idle"
    /\ \A r \in Readers : rpc[r] \in GetLabels ~> rpc[r] \in Done
    /\ \A r \in Readers : rpc[r] = "load" /\ witness[r] # {} ~> rpc[r] = "hit" \/ witness[r] = {}

\* "The writer stores data BEFORE marking the slot as SlotUsed (release store),
\* so readers that observe SlotUsed will see the complete data."  A hit returns
\* the value of its chunk, whole.
CompleteRead ==
    \A r \in Readers : rpc[r] = "hit" => rslot[r].vlen = VLen[data[rslot[r].offset].val]

\* "Delete removes a key by setting its slot to tombstone."  A lookup that begins
\* after Delete(k) returned true, with no put of k since, misses.
DeletedKeyMisses == \A r \in Readers : rpc[r] = "hit" => ~rgone[r]

==============================================================================
