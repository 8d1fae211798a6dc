---------------------------- MODULE WriteOnceMap -----------------------------
(***************************************************************************)
(* What the hash table of pkg/featcache promises to a program that only    *)
(* inserts: a map in which a key, once it has a value, keeps it for good.  *)
(*                                                                         *)
(* A put has a beginning and an end.  It takes effect at its end, and only *)
(* for a key that has no value yet.  The map has room for some number of   *)
(* puts, after which it is full and puts fail.  A lookup that begins when  *)
(* its key has a value returns exactly that value.  A lookup that begins   *)
(* earlier is promised almost nothing: it misses, or, once a put of its    *)
(* key has begun, returns any value at all, or bytes that are no value.    *)
(***************************************************************************)
CONSTANTS Keys, Values, Writers, Readers, NoValue, Miss, Torn

VARIABLES
    map,     \* the value of each key, or NoValue
    full,    \* there is no room for another put
    puts,    \* the key and value of each writer's put, a set of at most one element
    asks,    \* the key of each reader's lookup, a set of at most one element
    first,   \* the value the key had when the lookup began
    result   \* what the last lookup returned, NoValue before

mapVars == <<map, full, puts, asks, first, result>>

MapInit ==
    /\ map = [k \in Keys |-> NoValue]
    /\ full = FALSE
    /\ puts = [w \in Writers |-> {}]
    /\ asks = [r \in Readers |-> {}]
    /\ first = [r \in Readers |-> NoValue]
    /\ result = [r \in Readers |-> NoValue]

BeginPut(w, k, v) ==
    /\ puts[w] = {}
    /\ puts' = [puts EXCEPT ![w] = {[key |-> k, val |-> v]}]
    /\ UNCHANGED <<map, full, asks, first, result>>

\* A put fails only when the map is full, and then it changes nothing.
EndPut(w, k, v) ==
    /\ [key |-> k, val |-> v] \in puts[w]
    /\ puts' = [puts EXCEPT ![w] = {}]
    /\ \/ /\ ~full
          /\ map' = [map EXCEPT ![k] = IF @ = NoValue THEN v ELSE @]
          /\ full' \in BOOLEAN
       \/ full /\ UNCHANGED <<map, full>>
    /\ UNCHANGED <<asks, first, result>>

BeginLookup(r, k) ==
    /\ asks[r] = {}
    /\ asks' = [asks EXCEPT ![r] = {k}]
    /\ first' = [first EXCEPT ![r] = map[k]]
    /\ result' = [result EXCEPT ![r] = NoValue]
    /\ UNCHANGED <<map, full, puts>>

\* The key has a value, or a put is about to give it one.
Known(k) == map[k] # NoValue \/ \E w \in Writers : \E p \in puts[w] : p.key = k

\* A lookup that began with a value for its key returns that value; of one that began
\* without, only this is promised: it is no hit before a put of the key has begun.
EndLookup(r, k, res) ==
    /\ k \in asks[r]
    /\ IF first[r] # NoValue THEN res = first[r]
                             ELSE res # Miss => Known(k)
    /\ asks' = [asks EXCEPT ![r] = {}]
    /\ result' = [result EXCEPT ![r] = res]
    /\ UNCHANGED <<map, full, puts, first>>

MapNext ==
    \/ \E w \in Writers, k \in Keys, v \in Values : BeginPut(w, k, v) \/ EndPut(w, k, v)
    \/ \E r \in Readers, k \in Keys :
          BeginLookup(r, k) \/ \E res \in Values \cup {Miss, Torn} : EndLookup(r, k, res)

MapSpec == MapInit /\ [][MapNext]_mapVars
==============================================================================
