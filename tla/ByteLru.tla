-------------------------------- MODULE ByteLru --------------------------------
(***************************************************************************)
(* crates/tpk-resolve/src/cache.rs: a cache of decoded assets with a       *)
(* budget in bytes.  Its ticks only order the entries, so the entries are  *)
(* a sequence here, from the least to the most recently used.              *)
(***************************************************************************)
EXTENDS Integers, SequencesExt

CONSTANTS
    Size,       \* the length of each content
    Budget,     \* bytes the cache may hold; 0 disables it
    Fraction    \* one object takes at most this part of it; 4 in the code

EmptyCache == [entries |-> <<>>, used |-> 0]

Holds(cache, key) == \E i \in DOMAIN cache.entries : cache.entries[i].key = key
Place(cache, key) == CHOOSE i \in DOMAIN cache.entries : cache.entries[i].key = key
Held(cache, key) == cache.entries[Place(cache, key)].content
Others(cache, key) == RemoveAt(cache.entries, Place(cache, key))

\* The bytes of the first n entries, for every n.
Totals(entries) ==
    LET T[n \in 0 .. Len(entries)] == IF n = 0 THEN 0 ELSE T[n - 1] + Size[entries[n].content]
    IN  T

Bytes(entries) == Totals(entries)[Len(entries)]

-----------------------------------------------------------------------------
\* A hit moves to the end.
Touch(cache, key) ==
    IF Holds(cache, key)
    THEN [cache EXCEPT !.entries = Append(Others(cache, key), [key |-> key, content |-> Held(cache, key)])]
    ELSE cache

TooLarge(content) == Budget = 0 \/ Size[content] > Budget \div Fraction

\* Mutant: the bytes of a replaced object stay counted.
DroppedCounted(cache, key) ==
    IF Holds(cache, key) THEN [cache EXCEPT !.entries = Others(cache, key)] ELSE cache
Dropped(cache, key) ==
    IF Holds(cache, key)
    THEN [entries |-> Others(cache, key), used |-> cache.used - Size[Held(cache, key)]]
    ELSE cache

\* The cache without its n least recently used entries.
Evicted(cache, n) ==
    [entries |-> SubSeq(cache.entries, n + 1, Len(cache.entries)),
     used    |-> cache.used - Bytes(SubSeq(cache.entries, 1, n))]

\* As many go as are needed, or all.
Room(cache, length) ==
    LET fit == {n \in 0 .. Len(cache.entries) : Evicted(cache, n).used + length <= Budget}
    IN  Evicted(cache, IF fit = {} THEN Len(cache.entries)
                       ELSE CHOOSE n \in fit : \A m \in fit : n <= m)

Insert(cache, key, content) ==
    LET room == Room(Dropped(cache, key), Size[content])
    IN  IF TooLarge(content) THEN cache
        ELSE IF room.used + Size[content] > Budget THEN room
        ELSE [entries |-> Append(room.entries, [key |-> key, content |-> content]),
              used    |-> room.used + Size[content]]
================================================================================
