----------------------------- MODULE MCHashTable -----------------------------
(***************************************************************************)
(* HashTable for TLC.  Two keys share a full hash; their probe sequence    *)
(* starts at the last slot and wraps round to the home slot of the third   *)
(* key, whose hash is 0, the hash a zeroed slot holds.  One value is       *)
(* empty.                                                                  *)
(***************************************************************************)
EXTENDS HashTableMap, TLC

CONSTANTS k1, k2, k3, v0, v1

WriterSymmetry == Permutations(Writers)

MCVLen == [v \in Values |-> IF v = v0 THEN 0 ELSE 2]
MCHash == [k \in Keys |-> IF k = k3 THEN 0 ELSE 2 * Capacity - 1]
==============================================================================
