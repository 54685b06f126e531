------------------------------ MODULE LRUList ------------------------------
(***************************************************************************)
(* The data structure of the in-memory tier (LRUCache in internal/cache)   *)
(* and its operations, each one critical section of LRUCache.mu.           *)
(*                                                                         *)
(* An LRU cache is a record: items maps every key to its entry or to None, *)
(* order is the recency list, front (most recent) first.  An entry holds   *)
(* its value and where its expiresAt lies: "never" (the zero time),        *)
(* "ahead" or "past".                                                      *)
(***************************************************************************)
EXTENDS Integers, Sequences, SequencesExt

CONSTANTS
  Keys,
  Capacity,   \* LRUCache.capacity
  None        \* no entry, no value

ASSUME CapacityAssumption == Capacity \in Nat \ {0}   \* NewLRUCache's default

(* lruEntry; V is the set of values.                                       *)
Entries(V) == [value : V, expires : {"ahead", "never", "past"}]

NewLRUCache == [items |-> [k \in Keys |-> None], order |-> << >>]

Cached(l) == {k \in Keys : l.items[k] # None}

MoveToFront(order, k) == <<k>> \o RemoveFirst(order, k)

\* Mutant: the list element stays behind when the map entry goes.
removeElementKeepsOrder(l, k) == [l EXCEPT !.items[k] = None]

removeElement(l, k) ==
  [items |-> [l.items EXCEPT ![k] = None], order |-> RemoveFirst(l.order, k)]

evictOldest(l) ==
  IF l.order = << >> THEN l ELSE removeElement(l, Last(l.order))

Hit(l, k) == l.items[k] # None /\ l.items[k].expires # "past"

\* Mutant: a hit does not refresh the key's position.
lruGetKeepsOrder(l, k) ==
  IF l.items[k] # None /\ ~Hit(l, k) THEN removeElement(l, k) ELSE l

\* Get: an expired entry is removed, a hit becomes the most recent entry.
lruGet(l, k) ==
  IF Hit(l, k)
    THEN [items |-> l.items, order |-> MoveToFront(l.order, k)]
    ELSE IF l.items[k] # None THEN removeElement(l, k) ELSE l

(* A positive ttl puts expiresAt ahead of the clock; otherwise the entry   *)
(* never expires.                                                          *)
NewEntry(value, expires) == [value |-> value, expires |-> expires]

MakeRoom(l) == IF Len(l.order) >= Capacity THEN evictOldest(l) ELSE l

\* Mutant: a key that is already cached keeps its old value.
lruSetKeepsValue(l, k, value, expires) ==
  IF l.items[k] # None
    THEN [l EXCEPT !.order = MoveToFront(@, k)]
    ELSE LET room == MakeRoom(l) IN
         [items |-> [room.items EXCEPT ![k] = NewEntry(value, expires)],
          order |-> <<k>> \o room.order]

\* Set: an existing key is overwritten in place, a new one may evict.
lruSet(l, k, value, expires) ==
  IF l.items[k] # None
    THEN [items |-> [l.items EXCEPT ![k] = NewEntry(value, expires)],
          order |-> MoveToFront(l.order, k)]
    ELSE LET room == MakeRoom(l) IN
         [items |-> [room.items EXCEPT ![k] = NewEntry(value, expires)],
          order |-> <<k>> \o room.order]

lruDelete(l, k) == IF l.items[k] # None THEN removeElement(l, k) ELSE l

(* Time passes the expiresAt of an entry; nothing is removed until a Get.  *)
lruExpire(l, k) ==
  [items |-> [l.items EXCEPT ![k] = [value |-> @.value, expires |-> "past"]],
   order |-> l.order]
=============================================================================
