---------------------------- MODULE HashTableMap -----------------------------
(***************************************************************************)
(* HashTable, with one writer and no deletions, implements WriteOnceMap.   *)
(***************************************************************************)
EXTENDS HashTable

CONSTANTS NoValue, Miss, Torn

ASSUME ResultsAssumption ==
    /\ NoValue \notin Values /\ Miss \notin Values /\ Torn \notin Values
    /\ NoValue # Miss /\ NoValue # Torn /\ Miss # Torn

\* The value that the first put stored among a set S of slots, of slot array sl and
\* data region da.
Earliest(sl, da, S) ==
    IF S = {} THEN NoValue
              ELSE da[sl[CHOOSE s \in S : \A t \in S : sl[s].offset <= sl[t].offset].offset].val

FirstOf(S) == Earliest(slots, data, S)

\* The slice that a lookup returned.
Returned(r) ==
    CASE rpc[r] = "miss" -> Miss
      [] rpc[r] = "hit"  -> IF rslot[r].vlen = VLen[data[rslot[r].offset].val]
                            THEN data[rslot[r].offset].val ELSE Torn
      [] OTHER           -> NoValue

\* The variables of WriteOnceMap, as functions of the table's state.
mapBar    == [k \in Keys |-> FirstOf(Holding(k))]
fullBar   == \A s \in Slots : Published(s)
putsBar   == [w \in Writers |-> IF wpc[w] \in InsertLabels THEN {[key |-> wkey[w], val |-> wval[w]]} ELSE {}]
asksBar   == [r \in Readers |-> IF rpc[r] \in GetLabels THEN {rkey[r]} ELSE {}]
firstBar  == [r \in Readers |-> FirstOf(witness[r])]
resultBar == [r \in Readers |-> Returned(r)]

Abstract == INSTANCE WriteOnceMap WITH
    map <- mapBar, full <- fullBar, puts <- putsBar, asks <- asksBar, first <- firstBar, result <- resultBar

\* Loading is a map that only grows: a put takes effect when Insert returns, no
\* later put of the same key changes what lookups return, a lookup that begins
\* after the put of its key has returned gives exactly the value of the first
\* one, and a key that nobody has begun to put is a miss.
ImplementsMap == Abstract!MapSpec
==============================================================================
