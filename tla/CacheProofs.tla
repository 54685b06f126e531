----------------------------- MODULE CacheProofs -----------------------------
(***************************************************************************)
(* Proofs about package internal/cache: the list operations of LRUList,    *)
(* the in-memory tier (LRUCache) and the two-tier cache (RedisCache), for  *)
(* any clients, keys, values, capacity and number of versions.             *)
(*                                                                         *)
(* The in-memory tier: the map and the list name the same keys, each once, *)
(* within the capacity; the list is sorted by last use, so its back is the *)
(* key to evict; and what is cached is what was Set last.                  *)
(*                                                                         *)
(* The two tiers: the LRU tier is always regular (FallbackRegular), and    *)
(* the whole cache is until a Redis command fails (RegularReads).  A       *)
(* version that is being written is not settled, so it is neither dead nor *)
(* about to die; a writer clears from the LRU tier, in its first step,     *)
(* everything that dies when it returns.                                   *)
(***************************************************************************)
EXTENDS RedisCache, LRUCache, SequenceTheorems, WellFoundedInduction, TLAPS

Ver == Keys \X Nat

(* An LRU cache is a record of an items map and an order.                  *)
LRUShape(l) ==
  /\ l = [items |-> l.items, order |-> l.order]
  /\ l.items = [k \in Keys |-> l.items[k]]
  /\ \A k \in Keys : l.items[k] # None =>
       l.items[k] = [value |-> l.items[k].value, expires |-> l.items[k].expires]

(* m holds no entry that l does not hold with the same value.              *)
Forgets(m, l) ==
  \A k \in Keys : m.items[k] # None =>
    l.items[k] # None /\ m.items[k].value = l.items[k].value

(* removeElement (cache.go:300) drops one key and changes nothing else.    *)
LEMMA RemoveForgets ==
  ASSUME NEW l, LRUShape(l), NEW k
  PROVE  /\ LRUShape(removeElement(l, k)) /\ Forgets(removeElement(l, k), l)
         /\ k \in Keys => removeElement(l, k).items[k] = None
<1> DEFINE m == removeElement(l, k)
           it == [l.items EXCEPT ![k] = None]
<1>1. m = [items |-> it, order |-> RemoveFirst(l.order, k)]
  BY DEF LRUShape, removeElement
<1>2. m.items = it
  BY <1>1
<1>3. it = [j \in Keys |-> IF j = k THEN None ELSE l.items[j]]
  BY DEF LRUShape
<1> HIDE DEF m
<1>4. LRUShape(m)
  BY <1>1, <1>2, <1>3 DEF LRUShape
<1>5. Forgets(m, l) /\ (k \in Keys => m.items[k] = None)
  BY <1>2, <1>3 DEF Forgets
<1> QED
  BY <1>4, <1>5 DEF m

(* evictOldest (cache.go:293).                                             *)
LEMMA MakeRoomForgets ==
  ASSUME NEW l, LRUShape(l)
  PROVE  LRUShape(MakeRoom(l)) /\ Forgets(MakeRoom(l), l)
<1>1. Forgets(l, l)
  BY DEF Forgets
<1> QED
  BY <1>1, RemoveForgets DEF MakeRoom, evictOldest

(* Get, Delete and the passing of time add nothing to the LRU tier, and    *)
(* Delete removes its key (cache.go:238, 279).                             *)
LEMMA GetForgets ==
  ASSUME NEW l, LRUShape(l), NEW k \in Keys
  PROVE  LRUShape(lruGet(l, k)) /\ Forgets(lruGet(l, k), l)
<1>1. Forgets(l, l)
  BY DEF Forgets
<1>2. CASE Hit(l, k)
  <2>1. lruGet(l, k) = [items |-> l.items, order |-> MoveToFront(l.order, k)]
    BY <1>2 DEF lruGet
  <2> QED
    BY <2>1 DEF LRUShape, Forgets
<1>3. CASE ~Hit(l, k)
  <2>1. lruGet(l, k) = l \/ lruGet(l, k) = removeElement(l, k)
    BY <1>3 DEF lruGet
  <2> QED
    BY <1>1, <2>1, RemoveForgets
<1> QED
  BY <1>2, <1>3

LEMMA DeleteForgets ==
  ASSUME NEW l, LRUShape(l), NEW k \in Keys
  PROVE  /\ LRUShape(lruDelete(l, k)) /\ Forgets(lruDelete(l, k), l)
         /\ lruDelete(l, k).items[k] = None
<1>1. Forgets(l, l)
  BY DEF Forgets
<1> QED
  BY <1>1, RemoveForgets DEF lruDelete

LEMMA ExpireForgets ==
  ASSUME NEW l, LRUShape(l), NEW k \in Keys, l.items[k] # None
  PROVE  LRUShape(lruExpire(l, k)) /\ Forgets(lruExpire(l, k), l)
<1> DEFINE e == [value |-> l.items[k].value, expires |-> "past"]
           it == [j \in Keys |-> IF j = k THEN e ELSE l.items[j]]
<1>1. lruExpire(l, k) = [items |-> it, order |-> l.order]
  BY DEF LRUShape, lruExpire
<1>2. lruExpire(l, k).items = it
  BY <1>1
<1> QED
  BY <1>1, <1>2 DEF LRUShape, Forgets

(* Set stores its value under its key and adds nothing else                *)
(* (cache.go:254).                                                         *)
LEMMA SetStores ==
  ASSUME NEW l, LRUShape(l), NEW k \in Keys, NEW v, NEW x
  PROVE  /\ LRUShape(lruSet(l, k, v, x))
         /\ \A j \in Keys : lruSet(l, k, v, x).items[j] # None =>
              IF j = k THEN lruSet(l, k, v, x).items[j].value = v
                       ELSE /\ l.items[j] # None
                            /\ lruSet(l, k, v, x).items[j].value = l.items[j].value
<1> DEFINE e == NewEntry(v, x)
<1>1. e = [value |-> e.value, expires |-> e.expires] /\ e.value = v
  BY DEF NewEntry
<1>2. PICK r, o : /\ LRUShape(r) /\ Forgets(r, l)
                  /\ lruSet(l, k, v, x) = [items |-> [r.items EXCEPT ![k] = e], order |-> o]
  <2>1. CASE l.items[k] # None
    <3>1. lruSet(l, k, v, x) = [items |-> [l.items EXCEPT ![k] = e],
                                  order |-> MoveToFront(l.order, k)]
      BY <2>1 DEF lruSet, LRUShape
    <3>2. Forgets(l, l)
      BY DEF Forgets
    <3> QED
      BY <3>1, <3>2
  <2>2. CASE l.items[k] = None
    BY <2>2, MakeRoomForgets DEF lruSet
  <2> QED
    BY <2>1, <2>2
<1> HIDE DEF e
<1>3. [r.items EXCEPT ![k] = e] = [j \in Keys |-> IF j = k THEN e ELSE r.items[j]]
  BY <1>2 DEF LRUShape
<1> DEFINE m == lruSet(l, k, v, x)
<1>4. m = [items |-> [j \in Keys |-> IF j = k THEN e ELSE r.items[j]], order |-> o]
  BY <1>2, <1>3
<1> HIDE DEF m
<1>5. LRUShape(m)
  BY <1>1, <1>2, <1>4 DEF LRUShape
<1>6. \A j \in Keys : m.items[j] # None =>
        IF j = k THEN m.items[j].value = v
                 ELSE l.items[j] # None /\ m.items[j].value = l.items[j].value
  BY <1>1, <1>2, <1>4 DEF Forgets
<1> QED
  BY <1>5, <1>6 DEF m

-----------------------------------------------------------------------------
(* A set of positions has a first one.                                     *)
LEMMA FirstPosition ==
  ASSUME NEW T \in SUBSET Nat, T # {}
  PROVE  Min(T) \in T
<1>1. PICK x \in T : \A y \in T : <<y, x>> \notin OpToRel(<, Nat)
  BY NatLessThanWellFounded, WFMin
<1>2. ASSUME NEW y \in T PROVE x <= y
  <2>1. ~(y < x)
    BY <1>1 DEF OpToRel
  <2> QED
    BY <2>1
<1> QED
  BY <1>2 DEF Min

(* Removing the element of a key: RemoveFirst takes out one position that  *)
(* holds the key.                                                          *)
LEMMA RemoveFirstAt ==
  ASSUME NEW s \in Seq(Keys), NEW k \in ToSet(s)
  PROVE  \E p \in 1 .. Len(s) : s[p] = k /\ RemoveFirst(s, k) = RemoveAt(s, p)
<1> DEFINE I == {i \in 1 .. Len(s) : s[i] = k}
<1>1. DOMAIN s = 1 .. Len(s) /\ Len(s) \in Nat
  OBVIOUS
<1>2. I # {} /\ I \in SUBSET Nat /\ \E i \in 1 .. Len(s) : s[i] = k
  BY <1>1 DEF ToSet
<1>3. RemoveFirst(s, k) = RemoveAt(s, Min(I))
  BY <1>2 DEF RemoveFirst, SelectInSeq
<1>4. Min(I) \in I
  BY <1>2, FirstPosition
<1> QED
  BY <1>3, <1>4

(* list.Remove: the others keep their order and close the gap.             *)
LEMMA RemoveAtFields ==
  ASSUME NEW s \in Seq(Keys), NEW p \in 1 .. Len(s)
  PROVE  /\ RemoveAt(s, p) \in Seq(Keys)
         /\ Len(RemoveAt(s, p)) = Len(s) - 1
         /\ \A i \in 1 .. Len(s) - 1 :
              RemoveAt(s, p)[i] = IF i < p THEN s[i] ELSE s[i + 1]
<1> DEFINE a == SubSeq(s, 1, p - 1)
           b == SubSeq(s, p + 1, Len(s))
<1>1. Len(s) \in Nat /\ p \in Nat /\ 1 <= p /\ p <= Len(s)
  OBVIOUS
<1>2. /\ a \in Seq(Keys) /\ Len(a) = p - 1
      /\ \A i \in 1 .. p - 1 : a[i] = s[i]
  <2>1. \A i \in 1 .. p - 1 : s[i] \in Keys
    BY <1>1, ElementOfSeq
  <2>2. /\ a \in Seq(Keys)
        /\ Len(a) = IF 1 <= p - 1 THEN p - 1 - 1 + 1 ELSE 0
        /\ \A i \in 1 .. p - 1 - 1 + 1 : a[i] = s[1 + i - 1]
    BY <1>1, <2>1, SubSeqProperties
  <2> HIDE DEF a
  <2>3. ASSUME NEW i \in 1 .. p - 1 PROVE a[i] = s[i]
    <3>1. i \in 1 .. p - 1 - 1 + 1 /\ 1 + i - 1 = i
      BY <1>1
    <3> QED
      BY <2>2, <3>1
  <2> QED
    BY <1>1, <2>2, <2>3
<1>3. /\ b \in Seq(Keys) /\ Len(b) = Len(s) - p
      /\ \A i \in 1 .. Len(s) - p : b[i] = s[p + i]
  <2>1. \A i \in p + 1 .. Len(s) : s[i] \in Keys
    BY <1>1, ElementOfSeq
  <2>2. /\ b \in Seq(Keys)
        /\ Len(b) = IF p + 1 <= Len(s) THEN Len(s) - (p + 1) + 1 ELSE 0
        /\ \A i \in 1 .. Len(s) - (p + 1) + 1 : b[i] = s[p + 1 + i - 1]
    BY <1>1, <2>1, SubSeqProperties
  <2> HIDE DEF b
  <2>3. ASSUME NEW i \in 1 .. Len(s) - p PROVE b[i] = s[p + i]
    <3>1. i \in 1 .. Len(s) - (p + 1) + 1 /\ p + 1 + i - 1 = p + i
      BY <1>1
    <3> QED
      BY <2>2, <3>1
  <2> QED
    BY <1>1, <2>2, <2>3
<1>4. RemoveAt(s, p) = a \o b
  BY DEF RemoveAt
<1> HIDE DEF a, b
<1>5. /\ a \o b \in Seq(Keys) /\ Len(a \o b) = Len(a) + Len(b)
      /\ \A i \in 1 .. Len(a) + Len(b) :
           (a \o b)[i] = IF i <= Len(a) THEN a[i] ELSE b[i - Len(a)]
  BY <1>2, <1>3, ConcatProperties
<1>6. ASSUME NEW i \in 1 .. Len(s) - 1
      PROVE  (a \o b)[i] = IF i < p THEN s[i] ELSE s[i + 1]
  <2>1. i \in 1 .. Len(a) + Len(b)
    BY <1>1, <1>2, <1>3
  <2>2. CASE i < p
    <3>1. i <= Len(a) /\ i \in 1 .. p - 1
      BY <1>1, <1>2, <2>2
    <3> QED
      BY <1>2, <1>5, <2>1, <2>2, <3>1
  <2>3. CASE ~(i < p)
    <3>1. ~(i <= Len(a)) /\ i - Len(a) \in 1 .. Len(s) - p /\ p + (i - Len(a)) = i + 1
      BY <1>1, <1>2, <2>3
    <3> QED
      BY <1>3, <1>5, <2>1, <2>3, <3>1
  <2> QED
    BY <2>2, <2>3
<1> QED
  BY <1>1, <1>2, <1>3, <1>4, <1>5, <1>6

-----------------------------------------------------------------------------
(* The recency list.  Sorted says that it is one: whoever stands further   *)
(* back was used longer ago.                                               *)
Sorted(s, age) == \A i, j \in 1 .. Len(s) : i < j => <<s[i], s[j]>> \in age

ListOK(s) == s \in Seq(Keys) /\ IsInjective(s)

(* removeElement's half of the list (cache.go:300).                        *)
LEMMA ListRemove ==
  ASSUME NEW s, ListOK(s), NEW k \in ToSet(s)
  PROVE  /\ ListOK(RemoveFirst(s, k))
         /\ Len(RemoveFirst(s, k)) = Len(s) - 1
         /\ ToSet(RemoveFirst(s, k)) = ToSet(s) \ {k}
         /\ \A age : Sorted(s, age) => Sorted(RemoveFirst(s, k), age)
<1>1. s \in Seq(Keys) /\ DOMAIN s = 1 .. Len(s) /\ Len(s) \in Nat
  BY DEF ListOK
<1>2. PICK p \in 1 .. Len(s) : s[p] = k /\ RemoveFirst(s, k) = RemoveAt(s, p)
  BY <1>1, RemoveFirstAt
<1> DEFINE r == RemoveFirst(s, k)
           n == Len(s)
           At1(i) == IF i < p THEN i ELSE i + 1
<1>3. /\ r \in Seq(Keys) /\ Len(r) = n - 1 /\ DOMAIN r = 1 .. n - 1
      /\ \A i \in 1 .. n - 1 : r[i] = s[At1(i)]
  <2>1. /\ r \in Seq(Keys) /\ Len(r) = n - 1
        /\ \A i \in 1 .. n - 1 : r[i] = IF i < p THEN s[i] ELSE s[i + 1]
    BY <1>1, <1>2, RemoveAtFields
  <2> HIDE DEF r
  <2> QED
    BY <2>1
<1>4. \A i \in 1 .. n - 1 : At1(i) \in 1 .. n /\ At1(i) # p
  BY <1>1
<1>5. \A i, j \in 1 .. n - 1 : /\ At1(i) = At1(j) => i = j
                               /\ i < j => At1(i) < At1(j)
  BY <1>1
<1>6. \A i \in 1 .. n : i # p => \E j \in 1 .. n - 1 : At1(j) = i
  <2> SUFFICES ASSUME NEW i \in 1 .. n, i # p PROVE \E j \in 1 .. n - 1 : At1(j) = i
    OBVIOUS
  <2>1. CASE i < p
    <3>1. i \in 1 .. n - 1 /\ At1(i) = i
      BY <1>1, <2>1
    <3> QED
      BY <3>1
  <2>2. CASE ~(i < p)
    <3>1. i - 1 \in 1 .. n - 1 /\ At1(i - 1) = i
      BY <1>1, <2>2
    <3> QED
      BY <3>1
  <2> QED
    BY <2>1, <2>2
<1>7. \A i, j \in 1 .. n : s[i] = s[j] => i = j
  BY <1>1 DEF ListOK, IsInjective
<1> HIDE DEF r, n, At1
<1>8. \A i, j \in 1 .. n - 1 : r[i] = r[j] => i = j
  BY <1>3, <1>4, <1>5, <1>7
<1>9. ListOK(r)
  BY <1>3, <1>8 DEF ListOK, IsInjective
<1>10. \A x : x \in ToSet(r) <=> \E i \in 1 .. n - 1 : x = r[i]
  BY <1>3 DEF ToSet
<1>11. \A x : x \in ToSet(s) <=> \E i \in 1 .. n : x = s[i]
  BY <1>1 DEF ToSet, n
<1>12. ASSUME NEW x PROVE x \in ToSet(r) <=> x \in ToSet(s) /\ x # k
  <2>1. ASSUME x \in ToSet(r) PROVE x \in ToSet(s) /\ x # k
    <3>1. PICK i \in 1 .. n - 1 : x = r[i]
      BY <1>10, <2>1
    <3>2. x = s[At1(i)] /\ At1(i) \in 1 .. n /\ At1(i) # p
      BY <1>3, <1>4, <3>1
    <3>3. p \in 1 .. n
      BY DEF n
    <3> QED
      BY <1>2, <1>7, <1>11, <3>2, <3>3
  <2>2. ASSUME x \in ToSet(s), x # k PROVE x \in ToSet(r)
    <3>1. PICK i \in 1 .. n : x = s[i]
      BY <1>11, <2>2
    <3>2. i # p
      BY <1>2, <2>2, <3>1
    <3>3. PICK j \in 1 .. n - 1 : At1(j) = i
      BY <1>6, <3>2
    <3> QED
      BY <1>3, <1>10, <3>1, <3>3
  <2> QED
    BY <2>1, <2>2
<1>13. ASSUME NEW age, Sorted(s, age) PROVE Sorted(r, age)
  <2> SUFFICES ASSUME NEW i \in 1 .. n - 1, NEW j \in 1 .. n - 1, i < j
               PROVE  <<r[i], r[j]>> \in age
    BY <1>3 DEF Sorted
  <2>1. r[i] = s[At1(i)] /\ r[j] = s[At1(j)]
    BY <1>3
  <2>2. At1(i) \in 1 .. n /\ At1(j) \in 1 .. n /\ At1(i) < At1(j)
    BY <1>4, <1>5
  <2>3. \A a, b \in 1 .. n : a < b => <<s[a], s[b]>> \in age
    BY <1>13 DEF Sorted, n
  <2> QED
    BY <2>1, <2>2, <2>3
<1>14. ToSet(r) = ToSet(s) \ {k}
  BY <1>12
<1> QED
  BY <1>3, <1>9, <1>13, <1>14 DEF r, n

(* list.PushFront (cache.go:274).                                          *)
LEMMA ListPush ==
  ASSUME NEW s, ListOK(s), NEW k \in Keys \ ToSet(s)
  PROVE  /\ ListOK(<<k>> \o s)
         /\ Len(<<k>> \o s) = Len(s) + 1
         /\ ToSet(<<k>> \o s) = ToSet(s) \cup {k}
         /\ \A age : /\ Sorted(s, age)
                     /\ \A j \in ToSet(s) : <<k, j>> \in age
                     => Sorted(<<k>> \o s, age)
<1>1. s \in Seq(Keys) /\ DOMAIN s = 1 .. Len(s) /\ Len(s) \in Nat
  BY DEF ListOK
<1> DEFINE r == <<k>> \o s
           n == Len(s)
<1>2. /\ r \in Seq(Keys) /\ Len(r) = n + 1 /\ DOMAIN r = 1 .. n + 1
      /\ r[1] = k /\ \A i \in 2 .. n + 1 : r[i] = s[i - 1]
  <2>1. <<k>> \in Seq(Keys) /\ Len(<<k>>) = 1 /\ <<k>>[1] = k
    OBVIOUS
  <2>2. /\ r \in Seq(Keys) /\ Len(r) = 1 + n
        /\ \A i \in 1 .. 1 + n : r[i] = IF i <= 1 THEN <<k>>[i] ELSE s[i - 1]
    BY <1>1, <2>1, ConcatProperties
  <2> HIDE DEF r
  <2>3. \A i \in 2 .. n + 1 : i \in 1 .. 1 + n /\ ~(i <= 1)
    BY <1>1
  <2>4. 1 \in 1 .. 1 + n
    BY <1>1
  <2>5. r[1] = k
    BY <2>1, <2>2, <2>4
  <2>6. \A i \in 2 .. n + 1 : r[i] = s[i - 1]
    BY <2>2, <2>3
  <2> QED
    BY <1>1, <2>2, <2>5, <2>6
<1>3. \A i, j \in 1 .. n : s[i] = s[j] => i = j
  BY <1>1 DEF ListOK, IsInjective
<1>4. \A i \in 1 .. n : s[i] \in ToSet(s) /\ s[i] # k
  BY <1>1 DEF ToSet
<1>5. n \in Nat
  BY <1>1
<1> HIDE DEF r, n
<1>6. ASSUME NEW i \in 1 .. n + 1 PROVE i = 1 \/ (i \in 2 .. n + 1 /\ i - 1 \in 1 .. n)
  BY <1>5
<1>7. \A i, j \in 1 .. n + 1 : r[i] = r[j] => i = j
  <2> SUFFICES ASSUME NEW i \in 1 .. n + 1, NEW j \in 1 .. n + 1, r[i] = r[j] PROVE i = j
    OBVIOUS
  <2>1. CASE i = 1 \/ j = 1
    BY <1>2, <1>4, <1>6, <2>1
  <2>2. CASE i # 1 /\ j # 1
    <3>1. i - 1 = j - 1
      BY <1>2, <1>3, <1>6, <2>2
    <3> QED
      BY <1>5, <3>1
  <2> QED
    BY <2>1, <2>2
<1>8. ListOK(r)
  BY <1>2, <1>7 DEF ListOK, IsInjective
<1>9. ToSet(r) = ToSet(s) \cup {k}
  <2>1. \A x : x \in ToSet(r) <=> \E i \in 1 .. n + 1 : x = r[i]
    BY <1>2 DEF ToSet
  <2>2. \A x : x \in ToSet(s) <=> \E i \in 1 .. n : x = s[i]
    BY <1>1 DEF ToSet, n
  <2>3. ASSUME NEW x \in ToSet(r) PROVE x \in ToSet(s) \cup {k}
    BY <1>2, <1>4, <1>6, <2>1, <2>3
  <2>4. k \in ToSet(r)
    <3>1. 1 \in 1 .. n + 1
      BY <1>5
    <3> QED
      BY <1>2, <2>1, <3>1
  <2>5. ASSUME NEW x \in ToSet(s) PROVE x \in ToSet(r)
    <3>1. PICK i \in 1 .. n : x = s[i]
      BY <2>2, <2>5
    <3>2. i + 1 \in 2 .. n + 1 /\ i + 1 \in 1 .. n + 1 /\ (i + 1) - 1 = i
      BY <1>5
    <3>3. r[i + 1] = s[i]
      BY <1>2, <3>2
    <3> QED
      BY <2>1, <3>1, <3>2, <3>3
  <2> QED
    BY <2>3, <2>4, <2>5
<1>10. ASSUME NEW age, Sorted(s, age), \A j \in ToSet(s) : <<k, j>> \in age
       PROVE  Sorted(r, age)
  <2> SUFFICES ASSUME NEW i \in 1 .. n + 1, NEW j \in 1 .. n + 1, i < j
               PROVE  <<r[i], r[j]>> \in age
    BY <1>2 DEF Sorted
  <2>1. j \in 2 .. n + 1 /\ j - 1 \in 1 .. n /\ r[j] = s[j - 1]
    BY <1>2, <1>5, <1>6
  <2>2. CASE i = 1
    BY <1>2, <1>4, <1>10, <2>1, <2>2
  <2>3. CASE i # 1
    <3>1. i - 1 \in 1 .. n /\ r[i] = s[i - 1] /\ i - 1 < j - 1
      BY <1>2, <1>5, <1>6, <2>1, <2>3
    <3>2. \A a, b \in 1 .. n : a < b => <<s[a], s[b]>> \in age
      BY <1>10 DEF Sorted, n
    <3> QED
      BY <2>1, <3>1, <3>2
  <2> QED
    BY <2>2, <2>3
<1> QED
  BY <1>2, <1>8, <1>9, <1>10 DEF r, n

-----------------------------------------------------------------------------
(* The LRU tier as a whole.  V is the set of values it may hold.           *)
LRUInv(l, V) ==
  /\ l \in [items : [Keys -> Entries(V) \cup {None}], order : Seq(Keys)]
  /\ IsInjective(l.order)
  /\ ToSet(l.order) = Cached(l)
  /\ Len(l.order) <= Capacity

(* The order of use once k has been used again.                            *)
Fresh(age, k) == {e \in age : e[1] # k /\ e[2] # k} \cup {<<k, j>> : j \in Keys \ {k}}

LEMMA LRUInvFields ==
  ASSUME NEW V, NEW l, LRUInv(l, V)
  PROVE  /\ ListOK(l.order) /\ Len(l.order) \in Nat /\ Len(l.order) <= Capacity
         /\ l.items \in [Keys -> Entries(V) \cup {None}]
         /\ ToSet(l.order) = Cached(l) /\ Cached(l) \subseteq Keys
         /\ \A k \in Keys : k \in Cached(l) <=> l.items[k] # None
BY DEF LRUInv, ListOK, Cached

LEMMA LRUInvShape ==
  ASSUME NEW V, NEW l, LRUInv(l, V)
  PROVE  LRUShape(l)
<1>1. l = [items |-> l.items, order |-> l.order]
  BY DEF LRUInv
<1>2. l.items = [k \in Keys |-> l.items[k]]
  BY DEF LRUInv
<1>3. ASSUME NEW k \in Keys, l.items[k] # None
      PROVE  l.items[k] = [value |-> l.items[k].value, expires |-> l.items[k].expires]
  <2>1. l.items[k] \in Entries(V)
    BY <1>3 DEF LRUInv
  <2> QED
    BY <2>1 DEF Entries
<1> QED
  BY <1>1, <1>2, <1>3 DEF LRUShape

(* A record with the fields of an LRU tier is one.                         *)
LEMMA LRUMake ==
  ASSUME NEW V, NEW it \in [Keys -> Entries(V) \cup {None}], NEW o, ListOK(o),
         \A k \in Keys : k \in ToSet(o) <=> it[k] # None,
         ToSet(o) \subseteq Keys, Len(o) <= Capacity
  PROVE  LRUInv([items |-> it, order |-> o], V)
<1> DEFINE l == [items |-> it, order |-> o]
<1>1. l.items = it /\ l.order = o
  OBVIOUS
<1>2. l \in [items : [Keys -> Entries(V) \cup {None}], order : Seq(Keys)]
  BY DEF ListOK
<1> HIDE DEF l
<1>3. ToSet(o) = Cached(l)
  BY <1>1 DEF Cached
<1> QED
  BY <1>1, <1>2, <1>3 DEF LRUInv, ListOK, l

(* k is the most recent key afterwards.                                    *)
LEMMA PushFresh ==
  ASSUME NEW s, ListOK(s), NEW k \in Keys \ ToSet(s), NEW age, Sorted(s, age)
  PROVE  Sorted(<<k>> \o s, Fresh(age, k))
<1>1. s \in Seq(Keys) /\ DOMAIN s = 1 .. Len(s)
  BY DEF ListOK
<1>2. \A i \in 1 .. Len(s) : s[i] \in ToSet(s) /\ s[i] \in Keys /\ s[i] # k
  BY <1>1 DEF ToSet
<1>3. Sorted(s, Fresh(age, k))
  <2> SUFFICES ASSUME NEW i \in 1 .. Len(s), NEW j \in 1 .. Len(s), i < j
               PROVE  <<s[i], s[j]>> \in Fresh(age, k)
    BY DEF Sorted
  <2>1. <<s[i], s[j]>> \in age
    BY DEF Sorted
  <2> QED
    BY <1>2, <2>1 DEF Fresh
<1>4. \A j \in ToSet(s) : j \in Keys \ {k}
  BY <1>1, <1>2 DEF ToSet
<1>5. \A j \in ToSet(s) : <<k, j>> \in Fresh(age, k)
  BY <1>4 DEF Fresh
<1> QED
  BY <1>3, <1>5, ListPush

LEMMA MoveFields ==
  ASSUME NEW s, ListOK(s), NEW k \in ToSet(s), k \in Keys
  PROVE  /\ ListOK(MoveToFront(s, k))
         /\ Len(MoveToFront(s, k)) = Len(s)
         /\ ToSet(MoveToFront(s, k)) = ToSet(s)
         /\ \A age : Sorted(s, age) => Sorted(MoveToFront(s, k), Fresh(age, k))
<1> DEFINE r == RemoveFirst(s, k)
<1>1. /\ ListOK(r) /\ Len(r) = Len(s) - 1 /\ ToSet(r) = ToSet(s) \ {k}
      /\ \A age : Sorted(s, age) => Sorted(r, age)
  BY ListRemove
<1>2. MoveToFront(s, k) = <<k>> \o r
  BY DEF MoveToFront
<1>3. Len(s) \in Nat
  BY DEF ListOK
<1> HIDE DEF r
<1>4. k \in Keys \ ToSet(r)
  BY <1>1
<1>5. /\ ListOK(<<k>> \o r) /\ Len(<<k>> \o r) = Len(r) + 1
      /\ ToSet(<<k>> \o r) = ToSet(r) \cup {k}
  BY <1>1, <1>4, ListPush
<1>6. \A age : Sorted(s, age) => Sorted(<<k>> \o r, Fresh(age, k))
  BY <1>1, <1>4, PushFresh
<1>7. Len(<<k>> \o r) = Len(s)
  BY <1>1, <1>3, <1>5
<1>8. ToSet(<<k>> \o r) = ToSet(s)
  BY <1>1, <1>5
<1> QED
  BY <1>2, <1>5, <1>6, <1>7, <1>8

(* removeElement (cache.go:300): map entry and list element go together.   *)
LEMMA RemoveTier ==
  ASSUME NEW V, NEW l, LRUInv(l, V), NEW k \in Cached(l)
  PROVE  /\ LRUInv(removeElement(l, k), V)
         /\ Cached(removeElement(l, k)) = Cached(l) \ {k}
         /\ Len(removeElement(l, k).order) = Len(l.order) - 1
         /\ \A age : Sorted(l.order, age) => Sorted(removeElement(l, k).order, age)
         /\ removeElement(l, k).items = [l.items EXCEPT ![k] = None]
<1> DEFINE it == [l.items EXCEPT ![k] = None]
           o == RemoveFirst(l.order, k)
           m == removeElement(l, k)
<1>1. /\ ListOK(l.order) /\ Len(l.order) \in Nat /\ Len(l.order) <= Capacity
      /\ l.items \in [Keys -> Entries(V) \cup {None}]
      /\ ToSet(l.order) = Cached(l) /\ Cached(l) \subseteq Keys
      /\ \A j \in Keys : j \in Cached(l) <=> l.items[j] # None
  BY LRUInvFields
<1>2. m = [items |-> it, order |-> o]
  BY DEF removeElement
<1>3. /\ ListOK(o) /\ Len(o) = Len(l.order) - 1 /\ ToSet(o) = Cached(l) \ {k}
      /\ \A age : Sorted(l.order, age) => Sorted(o, age)
  BY <1>1, ListRemove
<1>4. it \in [Keys -> Entries(V) \cup {None}]
  BY <1>1
<1>5. \A j \in Keys : j \in ToSet(o) <=> it[j] # None
  BY <1>1, <1>3
<1>6. Len(o) <= Capacity
  BY <1>1, <1>3, CapacityAssumption
<1> HIDE DEF it, o, m
<1>7. LRUInv(m, V)
  BY <1>1, <1>2, <1>3, <1>4, <1>5, <1>6, LRUMake
<1>8. m.items = it /\ m.order = o
  BY <1>2
<1>9. Cached(m) = ToSet(o)
  BY <1>7, <1>8, LRUInvFields
<1> QED
  BY <1>3, <1>7, <1>8, <1>9 DEF m, it

(* The key at the back is older than all others.                           *)
LEMMA LastIsOldest ==
  ASSUME NEW s, ListOK(s), s # << >>
  PROVE  /\ Last(s) \in ToSet(s)
         /\ \A age : Sorted(s, age) =>
              \A j \in ToSet(s) \ {Last(s)} : <<j, Last(s)>> \in age
<1>1. s \in Seq(Keys) /\ DOMAIN s = 1 .. Len(s) /\ Len(s) \in Nat /\ Len(s) # 0
  BY DEF ListOK
<1>2. Len(s) \in 1 .. Len(s) /\ Last(s) = s[Len(s)]
  BY <1>1 DEF Last
<1>3. Last(s) \in ToSet(s)
  BY <1>1, <1>2 DEF ToSet
<1>4. ASSUME NEW age, Sorted(s, age), NEW j \in ToSet(s) \ {Last(s)}
      PROVE  <<j, Last(s)>> \in age
  <2>1. PICK i \in 1 .. Len(s) : j = s[i]
    BY <1>1, <1>4 DEF ToSet
  <2>2. i # Len(s)
    BY <1>2, <1>4, <2>1
  <2>3. i < Len(s)
    <3>1. Len(s) \in Nat /\ i \in Nat /\ i <= Len(s)
      BY <1>1
    <3> QED
      BY <2>2, <3>1
  <2> QED
    BY <1>2, <1>4, <2>1, <2>3 DEF Sorted
<1> QED
  BY <1>3, <1>4

(* Set makes room for a new key (cache.go:268): a full cache gives up its  *)
(* oldest key and no other.                                                *)
LEMMA RoomTier ==
  ASSUME NEW V, NEW l, LRUInv(l, V)
  PROVE  /\ LRUInv(MakeRoom(l), V)
         /\ Len(MakeRoom(l).order) < Capacity
         /\ Cached(MakeRoom(l)) \subseteq Cached(l)
         /\ \A age : Sorted(l.order, age) =>
              /\ Sorted(MakeRoom(l).order, age)
              /\ \A k \in Cached(l) \ Cached(MakeRoom(l)) :
                   \A j \in Cached(l) \ {k} : <<j, k>> \in age
<1>1. /\ ListOK(l.order) /\ Len(l.order) \in Nat /\ Len(l.order) <= Capacity
      /\ ToSet(l.order) = Cached(l)
  BY LRUInvFields
<1>2. CASE Len(l.order) >= Capacity
  <2> DEFINE k == Last(l.order)
             m == removeElement(l, k)
  <2>1. l.order # << >>
    BY <1>1, <1>2, CapacityAssumption
  <2>2. MakeRoom(l) = m
    BY <1>2, <2>1 DEF MakeRoom, evictOldest
  <2>3. /\ k \in Cached(l)
        /\ \A age : Sorted(l.order, age) => \A j \in Cached(l) \ {k} : <<j, k>> \in age
    BY <1>1, <2>1, LastIsOldest
  <2> HIDE DEF k
  <2>4. /\ LRUInv(m, V) /\ Cached(m) = Cached(l) \ {k}
        /\ Len(m.order) = Len(l.order) - 1
        /\ \A age : Sorted(l.order, age) => Sorted(m.order, age)
    BY <2>3, RemoveTier
  <2>5. Len(m.order) < Capacity
    BY <1>1, <2>4, CapacityAssumption
  <2> HIDE DEF m
  <2> QED
    BY <2>2, <2>3, <2>4, <2>5
<1>3. CASE ~(Len(l.order) >= Capacity)
  <2>1. MakeRoom(l) = l /\ Len(l.order) < Capacity
    BY <1>1, <1>3, CapacityAssumption DEF MakeRoom
  <2> QED
    BY <2>1
<1> QED
  BY <1>2, <1>3

(* Get (cache.go:238).                                                     *)
LEMMA GetTier ==
  ASSUME NEW V, NEW l, LRUInv(l, V), NEW k \in Keys
  PROVE  /\ LRUInv(lruGet(l, k), V)
         /\ Hit(l, k) =>
              /\ Cached(lruGet(l, k)) = Cached(l)
              /\ \A age : Sorted(l.order, age) => Sorted(lruGet(l, k).order, Fresh(age, k))
         /\ ~Hit(l, k) =>
              /\ Cached(lruGet(l, k)) = Cached(l) \ {k}
              /\ \A age : Sorted(l.order, age) => Sorted(lruGet(l, k).order, age)
<1>1. /\ ListOK(l.order) /\ Len(l.order) \in Nat /\ Len(l.order) <= Capacity
      /\ l.items \in [Keys -> Entries(V) \cup {None}]
      /\ ToSet(l.order) = Cached(l) /\ Cached(l) \subseteq Keys
      /\ \A j \in Keys : j \in Cached(l) <=> l.items[j] # None
  BY LRUInvFields
<1>2. CASE Hit(l, k)
  <2> DEFINE o == MoveToFront(l.order, k)
             m == lruGet(l, k)
  <2>1. m = [items |-> l.items, order |-> o]
    BY <1>2 DEF lruGet
  <2>2. k \in ToSet(l.order)
    BY <1>1, <1>2 DEF Hit
  <2>3. /\ ListOK(o) /\ Len(o) = Len(l.order) /\ ToSet(o) = Cached(l)
        /\ \A age : Sorted(l.order, age) => Sorted(o, Fresh(age, k))
    BY <1>1, <2>2, MoveFields
  <2> HIDE DEF o, m
  <2>4. LRUInv(m, V)
    BY <1>1, <2>1, <2>3, LRUMake
  <2>5. m.order = o
    BY <2>1
  <2>6. Cached(m) = Cached(l)
    BY <2>3, <2>4, <2>5, LRUInvFields
  <2> QED
    BY <1>2, <2>3, <2>4, <2>5, <2>6 DEF m
<1>3. CASE ~Hit(l, k)
  <2>1. CASE l.items[k] # None
    <3>1. lruGet(l, k) = removeElement(l, k) /\ k \in Cached(l)
      BY <1>1, <1>3, <2>1 DEF lruGet
    <3>2. /\ LRUInv(removeElement(l, k), V)
          /\ Cached(removeElement(l, k)) = Cached(l) \ {k}
          /\ \A age : Sorted(l.order, age) => Sorted(removeElement(l, k).order, age)
      BY <3>1, RemoveTier
    <3> QED
      BY <1>3, <3>1, <3>2
  <2>2. CASE l.items[k] = None
    <3>1. lruGet(l, k) = l /\ k \notin Cached(l)
      BY <1>1, <1>3, <2>2 DEF lruGet
    <3> QED
      BY <1>3, <3>1
  <2> QED
    BY <2>1, <2>2
<1> QED
  BY <1>2, <1>3

(* Delete (cache.go:279).                                                  *)
LEMMA DeleteTier ==
  ASSUME NEW V, NEW l, LRUInv(l, V), NEW k \in Keys
  PROVE  /\ LRUInv(lruDelete(l, k), V)
         /\ Cached(lruDelete(l, k)) = Cached(l) \ {k}
         /\ \A age : Sorted(l.order, age) => Sorted(lruDelete(l, k).order, age)
<1>1. k \in Cached(l) <=> l.items[k] # None
  BY LRUInvFields
<1>2. CASE k \in Cached(l)
  <2>1. lruDelete(l, k) = removeElement(l, k)
    BY <1>1, <1>2 DEF lruDelete
  <2>2. /\ LRUInv(removeElement(l, k), V)
        /\ Cached(removeElement(l, k)) = Cached(l) \ {k}
        /\ \A age : Sorted(l.order, age) => Sorted(removeElement(l, k).order, age)
    BY <1>2, RemoveTier
  <2> QED
    BY <2>1, <2>2
<1>3. CASE k \notin Cached(l)
  <2>1. lruDelete(l, k) = l
    BY <1>1, <1>3 DEF lruDelete
  <2> QED
    BY <1>3, <2>1
<1> QED
  BY <1>2, <1>3

(* An entry's deadline passes.                                             *)
LEMMA ExpireTier ==
  ASSUME NEW V, None \notin Entries(V), NEW l, LRUInv(l, V), NEW k \in Cached(l)
  PROVE  /\ LRUInv(lruExpire(l, k), V)
         /\ Cached(lruExpire(l, k)) = Cached(l)
         /\ lruExpire(l, k).order = l.order
<1> DEFINE e == [value |-> l.items[k].value, expires |-> "past"]
           it == [l.items EXCEPT ![k] = e]
           m == lruExpire(l, k)
<1>1. /\ ListOK(l.order) /\ Len(l.order) \in Nat /\ Len(l.order) <= Capacity
      /\ l.items \in [Keys -> Entries(V) \cup {None}]
      /\ ToSet(l.order) = Cached(l) /\ Cached(l) \subseteq Keys
      /\ \A j \in Keys : j \in Cached(l) <=> l.items[j] # None
  BY LRUInvFields
<1>2. e \in Entries(V)
  <2>1. l.items[k] \in Entries(V)
    BY <1>1
  <2> QED
    BY <2>1 DEF Entries
<1>3. m = [items |-> it, order |-> l.order]
  BY DEF lruExpire
<1> HIDE DEF e
<1>4. it \in [Keys -> Entries(V) \cup {None}]
  BY <1>1, <1>2
<1>5. \A j \in Keys : j \in ToSet(l.order) <=> it[j] # None
  BY <1>1, <1>2
<1> HIDE DEF it, m
<1>6. LRUInv(m, V)
  BY <1>1, <1>3, <1>4, <1>5, LRUMake
<1>7. m.order = l.order
  BY <1>3
<1>8. Cached(m) = Cached(l)
  BY <1>1, <1>6, <1>7, LRUInvFields
<1> QED
  BY <1>6, <1>7, <1>8 DEF m

(* Set (cache.go:254): the key is stored and is the most recent one; what  *)
(* is dropped for it is older than everything that was cached.             *)
LEMMA SetTier ==
  ASSUME NEW V, None \notin Entries(V), NEW l, LRUInv(l, V), NEW k \in Keys,
         NEW v \in V, NEW x \in {"ahead", "never"}
  PROVE  /\ LRUInv(lruSet(l, k, v, x), V)
         /\ \A age : Sorted(l.order, age) =>
              /\ Sorted(lruSet(l, k, v, x).order, Fresh(age, k))
              /\ \A old \in Cached(l) \ Cached(lruSet(l, k, v, x)) :
                   \A j \in Cached(l) \ {old} : <<j, old>> \in age
<1> DEFINE e == NewEntry(v, x)
           m == lruSet(l, k, v, x)
<1>1. e \in Entries(V) /\ e # None
  BY DEF NewEntry, Entries
<1> HIDE DEF e
<1>2. CASE l.items[k] # None
  <2> DEFINE it == [l.items EXCEPT ![k] = e]
             o == MoveToFront(l.order, k)
  <2>1. /\ ListOK(l.order) /\ Len(l.order) \in Nat /\ Len(l.order) <= Capacity
        /\ l.items \in [Keys -> Entries(V) \cup {None}]
        /\ ToSet(l.order) = Cached(l) /\ Cached(l) \subseteq Keys
        /\ \A j \in Keys : j \in Cached(l) <=> l.items[j] # None
    BY LRUInvFields
  <2>2. m = [items |-> it, order |-> o]
    BY <1>2 DEF lruSet, e
  <2>3. /\ ListOK(o) /\ Len(o) = Len(l.order) /\ ToSet(o) = Cached(l)
        /\ \A age : Sorted(l.order, age) => Sorted(o, Fresh(age, k))
    BY <1>2, <2>1, MoveFields
  <2>4. it \in [Keys -> Entries(V) \cup {None}]
    BY <1>1, <2>1
  <2>5. \A j \in Keys : j \in ToSet(o) <=> it[j] # None
    BY <1>1, <1>2, <2>1, <2>3
  <2> HIDE DEF it, o, m
  <2>6. LRUInv(m, V)
    BY <2>1, <2>2, <2>3, <2>4, <2>5, LRUMake
  <2>7. m.order = o
    BY <2>2
  <2>8. Cached(m) = Cached(l)
    BY <2>3, <2>6, <2>7, LRUInvFields
  <2> QED
    BY <2>3, <2>6, <2>7, <2>8 DEF m
<1>3. CASE l.items[k] = None
  <2> DEFINE r == MakeRoom(l)
             it == [r.items EXCEPT ![k] = e]
             o == <<k>> \o r.order
  <2>1. /\ LRUInv(r, V) /\ Len(r.order) < Capacity /\ Cached(r) \subseteq Cached(l)
        /\ \A age : Sorted(l.order, age) =>
             /\ Sorted(r.order, age)
             /\ \A old \in Cached(l) \ Cached(r) :
                  \A j \in Cached(l) \ {old} : <<j, old>> \in age
    BY RoomTier
  <2>2. m = [items |-> it, order |-> o]
    BY <1>3 DEF lruSet, e
  <2> HIDE DEF r
  <2>3. /\ ListOK(r.order) /\ Len(r.order) \in Nat
        /\ r.items \in [Keys -> Entries(V) \cup {None}]
        /\ ToSet(r.order) = Cached(r) /\ Cached(r) \subseteq Keys
        /\ \A j \in Keys : j \in Cached(r) <=> r.items[j] # None
    BY <2>1, LRUInvFields
  <2>4. k \in Keys \ ToSet(r.order)
    <3>1. k \notin Cached(l)
      BY <1>3 DEF Cached
    <3> QED
      BY <2>1, <2>3, <3>1
  <2>5. ListOK(o) /\ Len(o) = Len(r.order) + 1 /\ ToSet(o) = Cached(r) \cup {k}
    BY <2>3, <2>4, ListPush
  <2>6. \A age : Sorted(l.order, age) => Sorted(o, Fresh(age, k))
    BY <2>1, <2>3, <2>4, PushFresh
  <2>7. it \in [Keys -> Entries(V) \cup {None}]
    BY <1>1, <2>3
  <2>8. \A j \in Keys : j \in ToSet(o) <=> it[j] # None
    BY <1>1, <2>3, <2>5
  <2>9. Len(o) <= Capacity
    BY <2>1, <2>3, <2>5, CapacityAssumption
  <2> HIDE DEF it, o, m
  <2>10. LRUInv(m, V)
    BY <2>2, <2>3, <2>5, <2>7, <2>8, <2>9, LRUMake
  <2>11. m.order = o
    BY <2>2
  <2>12. Cached(m) = Cached(r) \cup {k}
    BY <2>5, <2>10, <2>11, LRUInvFields
  <2>13. \A old \in Cached(l) \ Cached(m) : old \in Cached(l) \ Cached(r)
    BY <2>12
  <2> QED
    BY <2>1, <2>6, <2>10, <2>11, <2>13 DEF m
<1> QED
  BY <1>2, <1>3

-----------------------------------------------------------------------------
(* The LRU tier by itself (LRUCache): the map and the list agree, the list *)
(* is in the order of use, and what is cached is what was Set last.        *)
LRUIInv ==
  /\ LRUInv(cache, Values)
  /\ Sorted(cache.order, newer)
  /\ latest = [k \in Keys |-> latest[k]]
  /\ CachedIsLatest

LEMMA NewTier ==
  ASSUME NEW V
  PROVE  LRUInv(NewLRUCache, V) /\ \A age : Sorted(NewLRUCache.order, age)
<1>1. NewLRUCache.order = << >> /\ NewLRUCache.items = [k \in Keys |-> None]
  BY DEF NewLRUCache
<1>2. ListOK(<< >>) /\ ToSet(<< >>) = {} /\ Len(<< >>) = 0
  BY DEF ListOK, IsInjective, ToSet
<1>3. 0 <= Capacity
  BY CapacityAssumption
<1>4. LRUInv(NewLRUCache, V)
  <2> DEFINE it == [k \in Keys |-> None]
  <2>1. it \in [Keys -> Entries(V) \cup {None}] /\ \A k \in Keys : it[k] = None
    OBVIOUS
  <2>2. NewLRUCache = [items |-> it, order |-> << >>]
    BY DEF NewLRUCache
  <2> HIDE DEF it
  <2>3. /\ \A k \in Keys : k \in ToSet(<< >>) <=> it[k] # None
        /\ ToSet(<< >>) \subseteq Keys /\ Len(<< >>) <= Capacity
    BY <1>2, <1>3, <2>1
  <2>4. LRUInv([items |-> it, order |-> << >>], V)
    BY <1>2, <2>1, <2>3, LRUMake
  <2> QED
    BY <2>2, <2>4
<1>5. ASSUME NEW age PROVE Sorted(<< >>, age)
  BY <1>2 DEF Sorted
<1> QED
  BY <1>1, <1>4, <1>5

LEMMA LRUInitIInv == LRUInit => LRUIInv
<1> SUFFICES ASSUME LRUInit PROVE LRUIInv
  OBVIOUS
<1>1. LRUInv(cache, Values) /\ Sorted(cache.order, newer)
  BY NewTier DEF LRUInit
<1>2. CachedIsLatest
  BY DEF LRUInit, NewLRUCache, CachedIsLatest, Cached
<1> QED
  BY <1>1, <1>2 DEF LRUIInv, LRUInit

(* Nothing but Set brings a value in, so what is cached is the last one.   *)
LEMMA LatestKept ==
  ASSUME CachedIsLatest, Forgets(cache', cache),
         \A k \in Keys : cache'.items[k] # None => latest'[k] = latest[k]
  PROVE  CachedIsLatest'
<1> SUFFICES ASSUME NEW k \in Keys, cache'.items[k] # None
             PROVE  cache'.items[k].value = latest'[k]
  BY DEF CachedIsLatest, Cached
<1>1. cache.items[k] # None /\ cache'.items[k].value = cache.items[k].value
  BY DEF Forgets
<1>2. cache.items[k].value = latest[k]
  BY <1>1 DEF CachedIsLatest, Cached
<1> QED
  BY <1>1, <1>2

LEMMA LRUNextIInv == LRUIInv /\ [LRUNext]_lruVars => LRUIInv'
<1> SUFFICES ASSUME LRUIInv, [LRUNext]_lruVars PROVE LRUIInv'
  OBVIOUS
<1>0. /\ LRUInv(cache, Values) /\ Sorted(cache.order, newer)
      /\ latest = [k \in Keys |-> latest[k]] /\ CachedIsLatest /\ LRUShape(cache)
  BY LRUInvShape DEF LRUIInv
<1>1. ASSUME NEW k \in Keys, LRUGet(k) PROVE LRUIInv'
  <2>1. cache' = lruGet(cache, k) /\ latest' = latest
    BY <1>1 DEF LRUGet
  <2>2. LRUInv(cache', Values)
    BY <1>0, <2>1, GetTier
  <2>3. Sorted(cache'.order, newer')
    <3>1. newer' = IF Hit(cache, k) THEN Fresh(newer, k) ELSE newer
      BY <1>1 DEF LRUGet, Used, Fresh
    <3> QED
      BY <1>0, <2>1, <3>1, GetTier
  <2>4. CachedIsLatest'
    BY <1>0, <2>1, GetForgets, LatestKept
  <2> QED
    BY <1>0, <2>1, <2>2, <2>3, <2>4 DEF LRUIInv
<1>2. ASSUME NEW k \in Keys, NEW v \in Values, NEW x \in {"ahead", "never"}, LRUSet(k, v, x)
      PROVE  LRUIInv'
  <2>1. /\ cache' = lruSet(cache, k, v, x) /\ latest' = [latest EXCEPT ![k] = v]
        /\ newer' = Fresh(newer, k)
    BY <1>2 DEF LRUSet, Used, Fresh
  <2>2. LRUInv(cache', Values) /\ Sorted(cache'.order, newer')
    BY <1>0, <2>1, SetTier, ValueAssumption
  <2>3. CachedIsLatest'
    <3> SUFFICES ASSUME NEW j \in Keys, cache'.items[j] # None
                 PROVE  cache'.items[j].value = latest'[j]
      BY DEF CachedIsLatest, Cached
    <3>1. IF j = k THEN cache'.items[j].value = v
                   ELSE /\ cache.items[j] # None
                        /\ cache'.items[j].value = cache.items[j].value
      BY <1>0, <2>1, SetStores
    <3>2. latest'[j] = IF j = k THEN v ELSE latest[j]
      BY <1>0, <2>1
    <3> QED
      BY <1>0, <3>1, <3>2 DEF CachedIsLatest, Cached
  <2>4. latest' = [j \in Keys |-> latest'[j]]
    BY <1>0, <2>1
  <2> QED
    BY <2>2, <2>3, <2>4 DEF LRUIInv
<1>3. ASSUME NEW k \in Keys, LRUDelete(k) PROVE LRUIInv'
  <2>1. /\ cache' = lruDelete(cache, k) /\ latest' = [latest EXCEPT ![k] = None]
        /\ newer' = newer
    BY <1>3 DEF LRUDelete
  <2>2. LRUInv(cache', Values) /\ Sorted(cache'.order, newer')
    BY <1>0, <2>1, DeleteTier
  <2>3. Forgets(cache', cache) /\ cache'.items[k] = None
    BY <1>0, <2>1, DeleteForgets
  <2>4. \A j \in Keys : j # k => latest'[j] = latest[j]
    BY <1>0, <2>1
  <2>5. CachedIsLatest'
    BY <1>0, <2>3, <2>4, LatestKept
  <2>6. latest' = [j \in Keys |-> latest'[j]]
    BY <1>0, <2>1
  <2> QED
    BY <2>2, <2>5, <2>6 DEF LRUIInv
<1>4. ASSUME NEW k \in Keys, LRUExpire(k) PROVE LRUIInv'
  <2>1. cache' = lruExpire(cache, k) /\ latest' = latest /\ newer' = newer /\ k \in Cached(cache)
    BY <1>4 DEF LRUExpire
  <2>2. LRUInv(cache', Values) /\ Sorted(cache'.order, newer')
    BY <1>0, <2>1, ExpireTier, ValueAssumption
  <2>3. Forgets(cache', cache)
    BY <1>0, <2>1, ExpireForgets DEF Cached
  <2>4. CachedIsLatest'
    BY <1>0, <2>1, <2>3, LatestKept
  <2> QED
    BY <1>0, <2>1, <2>2, <2>4 DEF LRUIInv
<1>5. CASE UNCHANGED lruVars
  <2>1. cache' = cache /\ latest' = latest /\ newer' = newer
    BY <1>5 DEF lruVars
  <2> QED
    BY <1>0, <2>1 DEF LRUIInv, CachedIsLatest
<1> QED
  BY <1>1, <1>2, <1>3, <1>4, <1>5 DEF LRUNext

LEMMA LRUInvariant == LRUSpec => []LRUIInv
BY LRUInitIInv, LRUNextIInv, PTL DEF LRUSpec

(* The map and the list hold the same keys, each once, within the capacity *)
(* (cache.go:224-304).                                                     *)
THEOREM LRUMapMatchesList == LRUSpec => []MapMatchesList
<1>1. LRUIInv => MapMatchesList
  BY DEF LRUIInv, LRUInv, MapMatchesList
<1> QED
  BY <1>1, LRUInvariant, PTL

(* A cached value is the one last Set under its key and not deleted.       *)
THEOREM LRUCachedIsLatest == LRUSpec => []CachedIsLatest
<1>1. LRUIInv => CachedIsLatest
  BY DEF LRUIInv
<1> QED
  BY <1>1, LRUInvariant, PTL

(* What leaves the cache was deleted, had expired, or was the least        *)
(* recently used key (cache.go:245, 268, 281, 293).                        *)
THEOREM LRUEvictsLeastRecent == LRUSpec => EvictsLeastRecent
<1> DEFINE Excused(k) ==
             \/ latest'[k] = None
             \/ cache.items[k].expires = "past" /\ Cached(cache)' = Cached(cache) \ {k}
             \/ \A j \in Cached(cache) \ {k} : <<j, k>> \in newer
<1>1. ASSUME LRUIInv, LRUNext, NEW k \in Cached(cache) \ Cached(cache)'
      PROVE  Excused(k)
  <2>0. /\ LRUInv(cache, Values) /\ Sorted(cache.order, newer)
        /\ latest = [j \in Keys |-> latest[j]]
        /\ k \in Keys /\ k \in Cached(cache) /\ cache.items[k] # None
    BY <1>1 DEF LRUIInv, Cached
  <2>1. ASSUME NEW i \in Keys, LRUGet(i) PROVE Excused(k)
    <3>1. Cached(cache)' = Cached(lruGet(cache, i))
      BY <2>1 DEF LRUGet, Cached
    <3>2. ~Hit(cache, i) /\ Cached(cache)' = Cached(cache) \ {i}
      BY <1>1, <2>0, <3>1, GetTier
    <3>3. i = k
      BY <1>1, <3>2
    <3>4. cache.items[k].expires = "past"
      BY <2>0, <3>2, <3>3 DEF Hit
    <3> QED
      BY <3>2, <3>3, <3>4
  <2>2. ASSUME NEW i \in Keys, NEW v \in Values, NEW x \in {"ahead", "never"}, LRUSet(i, v, x)
        PROVE  Excused(k)
    <3>1. Cached(cache)' = Cached(lruSet(cache, i, v, x))
      BY <2>2 DEF LRUSet, Cached
    <3> QED
      BY <1>1, <2>0, <3>1, SetTier, ValueAssumption
  <2>3. ASSUME NEW i \in Keys, LRUDelete(i) PROVE Excused(k)
    <3>1. Cached(cache)' = Cached(lruDelete(cache, i))
      BY <2>3 DEF LRUDelete, Cached
    <3>2. i = k
      BY <1>1, <2>0, <3>1, DeleteTier
    <3>3. latest'[k] = None
      BY <2>0, <2>3, <3>2 DEF LRUDelete
    <3> QED
      BY <3>3
  <2>4. ASSUME NEW i \in Keys, LRUExpire(i) PROVE FALSE
    <3>1. Cached(cache)' = Cached(lruExpire(cache, i)) /\ i \in Cached(cache)
      BY <2>4 DEF LRUExpire, Cached
    <3> QED
      BY <1>1, <2>0, <3>1, ExpireTier, ValueAssumption
  <2> QED
    BY <1>1, <2>1, <2>2, <2>3, <2>4 DEF LRUNext
<1>2. LRUIInv /\ [LRUNext]_lruVars =>
        [\A k \in Cached(cache) \ Cached(cache)' : Excused(k)]_lruVars
  BY <1>1
<1> QED
  BY <1>2, LRUInvariant, PTL DEF LRUSpec, EvictsLeastRecent

-----------------------------------------------------------------------------
GetPCs == {"get redis", "get lru"}
SetPCs == {"set check", "set redis"}
DeletePCs == {"delete check", "delete redis"}
WritePCs == SetPCs \cup DeletePCs
Tiers == {"none", "redis", "lru", "miss"}

Types ==
  /\ LRUShape(lru)
  /\ redis \in [Keys -> Ver \cup {None}]
  /\ sets \in [Keys -> Nat]
  /\ client \in [Clients -> [pc : GetPCs \cup WritePCs \cup {"idle"},
                             key : Keys \cup {None},
                             version : Ver \cup {None}]]
  /\ got \in [Clients -> [version : Ver \cup {None}, tier : Tiers]]
  /\ settled \in SUBSET Ver
  /\ dead \in SUBSET settled
  /\ seen \in [Clients -> SUBSET settled]

(* Every copy of a version is under the version's own key.                 *)
InPlace ==
  \A k \in Keys :
    /\ lru.items[k] # None => lru.items[k].value \in Ver /\ lru.items[k].value[1] = k
    /\ redis[k] # None => redis[k][1] = k

(* Versions are numbered in the order they are Set.                        *)
Numbered == \A v \in settled : v[2] <= sets[v[1]]

(* What an operation in progress knows: a Set's version is not settled and *)
(* its own, a writer has seen settled versions of its key, a Get has seen  *)
(* dead ones.                                                              *)
PendingAt(c) ==
  /\ client[c].pc # "idle" => client[c].key \in Keys
  /\ client[c].pc \in SetPCs =>
       /\ client[c].version \in Ver
       /\ client[c].version[1] = client[c].key
       /\ client[c].version[2] <= sets[client[c].key]
       /\ client[c].version \notin settled
       /\ \A d \in Clients \ {c} :
            client[d].pc \in SetPCs => client[d].version # client[c].version
  /\ client[c].pc \in DeletePCs => client[c].version = None
  /\ client[c].pc \in WritePCs => \A v \in seen[c] : v[1] = client[c].key
  /\ client[c].pc \in GetPCs => seen[c] \subseteq dead

Pending == \A c \in Clients : PendingAt(c)

(* The LRU tier holds nothing that is dead or dies when a writer returns.  *)
FallbackAlive ==
  \A k \in Keys : lru.items[k] # None =>
    /\ lru.items[k].value \notin dead
    /\ \A c \in Clients : client[c].pc \in WritePCs => lru.items[k].value \notin seen[c]

IInv ==
  /\ Types
  /\ InPlace
  /\ Numbered
  /\ Pending
  /\ FallbackAlive
  /\ FallbackRegular

LEMMA InitIInv == Init => IInv
<1> SUFFICES ASSUME Init PROVE IInv
  OBVIOUS
<1>1. LRUShape(lru) /\ \A k \in Keys : lru.items[k] = None
  BY DEF Init, NewLRUCache, LRUShape
<1>2. Types
  BY <1>1 DEF Init, Types, Idle, Nothing, Tiers, Ver
<1>3. InPlace /\ Numbered /\ FallbackAlive
  BY <1>1 DEF Init, InPlace, Numbered, FallbackAlive
<1>4. Pending /\ FallbackRegular
  BY DEF Init, Pending, PendingAt, FallbackRegular, Idle, Nothing, GetPCs, SetPCs, DeletePCs, WritePCs
<1> QED
  BY <1>2, <1>3, <1>4 DEF IInv

(* Steps that leave the clients, the LRU tier and the history alone.       *)
LEMMA LinkIInv ==
  ASSUME IInv, UNCHANGED <<lru, sets, client, got, settled, dead, seen>>,
         redis' \in [Keys -> Ver \cup {None}],
         \A k \in Keys : redis'[k] \in {redis[k], None}
  PROVE  IInv'
<1>1. Types' /\ InPlace'
  BY DEF IInv, Types, InPlace
<1>2. (Numbered /\ Pending /\ FallbackAlive /\ FallbackRegular)'
  BY DEF IInv, Numbered, Pending, PendingAt, FallbackAlive, FallbackRegular
<1> QED
  BY <1>1, <1>2 DEF IInv

(* A step after which the LRU tier holds no new value and which leaves the *)
(* history alone except that a client moves on within its operation.       *)
LEMMA ForgetKeeps ==
  ASSUME IInv, LRUShape(lru'), Forgets(lru', lru),
         UNCHANGED <<redis, sets, client, got, settled, dead, seen>>
  PROVE  IInv'
<1>1. Types'
  BY DEF IInv, Types
<1>2. (InPlace /\ FallbackAlive)'
  BY DEF IInv, InPlace, FallbackAlive, Forgets
<1>3. (Numbered /\ Pending /\ FallbackRegular)'
  BY DEF IInv, Numbered, Pending, PendingAt, FallbackRegular
<1> QED
  BY <1>1, <1>2, <1>3 DEF IInv

(* The return of a Set or Delete (cache.go:198, 210).                      *)
LEMMA WriteReturnsIInv ==
  ASSUME IInv, NEW c \in Clients, WriteReturns(c), client[c].pc \in WritePCs,
         UNCHANGED <<lru, sets>>,
         redis' \in [Keys -> Ver \cup {None}],
         \A k \in Keys : redis'[k] # None => redis'[k][1] = k
  PROVE  IInv'
<1> DEFINE w == {client[c].version} \ {None}
<1>1. /\ w \subseteq Ver
      /\ \A v \in w : v[2] <= sets[v[1]]
  <2>1. PendingAt(c) /\ client[c].version \in Ver \cup {None}
    BY DEF IInv, Types, Pending
  <2>2. CASE client[c].pc \in SetPCs
    BY <2>1, <2>2 DEF PendingAt
  <2>3. CASE client[c].pc \in DeletePCs
    BY <2>1, <2>3 DEF PendingAt
  <2> QED
    BY <2>2, <2>3 DEF WritePCs
<1>2. /\ client' = [client EXCEPT ![c] = Idle]
      /\ settled' = settled \cup w /\ dead' = dead \cup seen[c]
      /\ seen' = [seen EXCEPT ![c] = {}] /\ got' = got
  BY DEF WriteReturns
<1>3. \A d \in Clients \ {c} :
        client[d].pc \in SetPCs => client[d].version \notin w
  BY DEF IInv, Pending, PendingAt, WritePCs, SetPCs, DeletePCs
<1> HIDE DEF w
<1>4. Types'
  BY <1>1, <1>2 DEF IInv, Types, Idle
<1>5. InPlace' /\ Numbered'
  BY <1>1, <1>2 DEF IInv, InPlace, Numbered
<1>6. Pending'
  <2>1. \A d \in Clients : client'[d] = IF d = c THEN Idle ELSE client[d]
    BY <1>2 DEF IInv, Types
  <2>2. \A d \in Clients : seen'[d] = IF d = c THEN {} ELSE seen[d]
    BY <1>2 DEF IInv, Types
  <2>3. Idle.pc = "idle"
    BY DEF Idle
  <2>4. /\ "idle" \notin GetPCs /\ "idle" \notin WritePCs
        /\ "idle" \notin SetPCs /\ "idle" \notin DeletePCs
    BY DEF GetPCs, WritePCs, SetPCs, DeletePCs
  <2>5. ASSUME NEW d \in Clients PROVE PendingAt(d)'
    <3>1. CASE d = c
      <4>1. client'[d].pc = "idle"
        BY <2>1, <2>3, <3>1
      <4> QED
        BY <2>4, <4>1 DEF PendingAt
    <3>2. CASE d # c
      <4>1. client'[d] = client[d] /\ seen'[d] = seen[d]
        BY <2>1, <2>2, <3>2
      <4>2. \A e \in Clients : client'[e].pc \in SetPCs => client'[e] = client[e]
        BY <2>1, <2>3, <2>4
      <4> QED
        BY <1>2, <1>3, <3>2, <4>1, <4>2 DEF IInv, Pending, PendingAt
    <3> QED
      BY <3>1, <3>2
  <2> QED
    BY <2>5 DEF Pending
<1>7. FallbackAlive'
  BY <1>2 DEF IInv, Types, FallbackAlive, Idle, WritePCs, SetPCs, DeletePCs
<1>8. FallbackRegular'
  BY <1>2 DEF IInv, Types, FallbackRegular
<1> QED
  BY <1>4, <1>5, <1>6, <1>7, <1>8 DEF IInv

(* The first step of an operation (cache.go:158, 182, 203): given what it  *)
(* has seen and what it left in the LRU tier, the invariant holds.         *)
LEMMA BeginIInv ==
  ASSUME IInv, NEW c \in Clients, NEW k \in Keys, NEW label, NEW v,
         Begin(c, label, k, v), UNCHANGED <<redis, settled, dead>>,
         client[c].pc = "idle",
         label \in GetPCs \cup WritePCs, v \in Ver \cup {None},
         label \in SetPCs => v = <<k, sets[k] + 1>> /\ sets'[k] = sets[k] + 1,
         label \in DeletePCs => v = None,
         sets' \in [Keys -> Nat], \A j \in Keys : sets[j] <= sets'[j],
         seen' = [seen EXCEPT ![c] = OfKey(IF label \in GetPCs THEN dead ELSE settled, k)],
         LRUShape(lru'),
         \A j \in Keys : lru'.items[j] # None =>
           \/ j # k \/ label \in GetPCs
           \/ label \in SetPCs /\ lru'.items[j].value = v,
         \A j \in Keys : lru'.items[j] # None /\ (j # k \/ label \in GetPCs) =>
           lru.items[j] # None /\ lru'.items[j].value = lru.items[j].value
  PROVE  IInv'
<1>1. /\ client' = [client EXCEPT ![c] = [pc |-> label, key |-> k, version |-> v]]
      /\ got' = [got EXCEPT ![c] = Nothing]
  BY DEF Begin
<1>2. label \in SetPCs => v \in Ver /\ v[1] = k /\ v[2] = sets[k] + 1 /\ v \notin settled
  BY DEF IInv, Types, Numbered, Ver
<1>3. seen'[c] \subseteq settled /\ \A u \in seen'[c] : u[1] = k
  BY DEF IInv, Types, OfKey
<1>4. Types'
  BY <1>1, <1>3 DEF IInv, Types, Nothing, Tiers
<1>5. InPlace'
  BY <1>2 DEF IInv, InPlace, GetPCs, SetPCs
<1>6. Numbered'
  BY DEF IInv, Types, Numbered, Ver
<1>7. Pending'
  <2> SUFFICES ASSUME NEW e \in Clients PROVE PendingAt(e)'
    BY DEF Pending
  <2>1. CASE e = c
    <3>1. client'[e] = [pc |-> label, key |-> k, version |-> v]
      BY <1>1, <2>1 DEF IInv, Types
    <3>2. label \in SetPCs => \A d \in Clients \ {e} :
            client'[d].pc \in SetPCs => client'[d].version # v
      BY <1>1, <1>2, <2>1 DEF IInv, Types, Pending, PendingAt
    <3>3. label \in GetPCs => seen'[e] \subseteq dead'
      BY <2>1 DEF IInv, Types, OfKey
    <3>4. label \in SetPCs => v[2] <= sets'[k]
      BY <1>2 DEF IInv, Types, Ver
    <3>5. label \in SetPCs => v \in Ver /\ v[1] = k /\ v \notin settled'
      BY <1>2
    <3>6. \A u \in seen'[e] : u[1] = k
      BY <1>3, <2>1
    <3> QED
      BY <3>1, <3>2, <3>3, <3>4, <3>5, <3>6 DEF PendingAt
  <2>2. CASE e # c
    <3>1. client'[e] = client[e] /\ seen'[e] = seen[e]
      BY <1>1, <2>2 DEF IInv, Types
    <3>2. ASSUME client[e].pc \in SetPCs
          PROVE  client[e].version[2] <= sets'[client[e].key]
      <4>1. /\ client[e].key \in Keys /\ client[e].version \in Ver
            /\ client[e].version[2] <= sets[client[e].key]
        BY <3>2 DEF IInv, Pending, PendingAt, SetPCs
      <4>2. /\ client[e].version[2] \in Nat
            /\ sets[client[e].key] \in Nat /\ sets'[client[e].key] \in Nat
            /\ sets[client[e].key] <= sets'[client[e].key]
        BY <4>1 DEF IInv, Types, Ver
      <4> QED
        BY <4>1, <4>2
    <3>3. client[e].pc \in SetPCs => \A d \in Clients \ {e} :
            client'[d].pc \in SetPCs => client'[d].version # client[e].version
      <4> SUFFICES ASSUME client[e].pc \in SetPCs, NEW d \in Clients \ {e},
                          client'[d].pc \in SetPCs
                   PROVE  client'[d].version # client[e].version
        OBVIOUS
      <4>1. CASE d = c
        <5>1. client'[d].version = v /\ label \in SetPCs
          BY <1>1, <4>1 DEF IInv, Types
        <5>2. client[e].version[2] <= sets[client[e].version[1]] /\ client[e].version \in Ver
          BY DEF IInv, Pending, PendingAt
        <5> QED
          BY <1>2, <5>1, <5>2 DEF IInv, Types, Ver
      <4>2. CASE d # c
        BY <1>1, <4>2 DEF IInv, Types, Pending, PendingAt
      <4> QED
        BY <4>1, <4>2
    <3> QED
      BY <3>1, <3>2, <3>3 DEF IInv, Pending, PendingAt
  <2> QED
    BY <2>1, <2>2
<1>8. FallbackAlive'
  <2> SUFFICES ASSUME NEW j \in Keys, lru'.items[j] # None
               PROVE  /\ lru'.items[j].value \notin dead
                      /\ \A e \in Clients : client'[e].pc \in WritePCs =>
                           lru'.items[j].value \notin seen'[e]
    BY DEF FallbackAlive
  <2>1. CASE j = k /\ label \in SetPCs
    <3>1. lru'.items[j].value = v /\ v \notin settled
      BY <1>2, <2>1 DEF GetPCs, SetPCs
    <3> QED
      BY <1>4, <3>1 DEF IInv, Types
  <2>2. CASE ~(j = k /\ label \in SetPCs)
    <3>1. /\ j # k \/ label \in GetPCs
          /\ lru.items[j] # None /\ lru'.items[j].value = lru.items[j].value
      BY <2>2
    <3>2. lru'.items[j].value \notin dead
      BY <3>1 DEF IInv, FallbackAlive
    <3>3. ASSUME NEW e \in Clients, client'[e].pc \in WritePCs
          PROVE  lru'.items[j].value \notin seen'[e]
      <4>1. CASE e = c
        <5>1. label \in WritePCs
          BY <1>1, <3>3, <4>1 DEF IInv, Types
        <5>2. j # k
          BY <3>1, <5>1 DEF GetPCs, WritePCs, SetPCs, DeletePCs
        <5>3. lru'.items[j].value[1] = j
          BY <3>1 DEF IInv, InPlace
        <5> QED
          BY <1>3, <4>1, <5>2, <5>3
      <4>2. CASE e # c
        BY <1>1, <3>1, <3>3, <4>2 DEF IInv, Types, FallbackAlive
      <4> QED
        BY <4>1, <4>2
    <3> QED
      BY <3>2, <3>3
  <2> QED
    BY <2>1, <2>2
<1>9. FallbackRegular'
  BY <1>1 DEF IInv, Types, FallbackRegular, Nothing
<1> QED
  BY <1>4, <1>5, <1>6, <1>7, <1>8, <1>9 DEF IInv

LEMMA GetBeginIInv ==
  ASSUME IInv, NEW c \in Clients, NEW k \in Keys, GetBegin(c, k)
  PROVE  IInv'
<1>1. PICK label \in GetPCs : Begin(c, label, k, None)
  BY DEF GetBegin, GetPCs
<1>2. /\ UNCHANGED <<lru, redis, sets, settled, dead>>
      /\ client[c].pc = "idle"
      /\ seen' = [seen EXCEPT ![c] = OfKey(dead, k)]
  BY DEF GetBegin, dataVars, At
<1>3. /\ LRUShape(lru') /\ sets' \in [Keys -> Nat]
      /\ \A j \in Keys : sets[j] <= sets'[j]
  BY <1>2 DEF IInv, Types
<1>4. label \notin SetPCs /\ label \notin DeletePCs
  BY DEF GetPCs, SetPCs, DeletePCs
<1> QED
  BY <1>1, <1>2, <1>3, <1>4, BeginIInv

LEMMA SetBeginIInv ==
  ASSUME IInv, NEW c \in Clients, NEW k \in Keys, SetBegin(c, k)
  PROVE  IInv'
<1>0. PICK v : v = <<k, sets[k] + 1>>
  OBVIOUS
<1>1. /\ Begin(c, "set check", k, v)
      /\ UNCHANGED <<redis, settled, dead>>
      /\ client[c].pc = "idle"
      /\ seen' = [seen EXCEPT ![c] = OfKey(settled, k)]
  BY <1>0 DEF SetBegin, At
<1>2. sets \in [Keys -> Nat] /\ LRUShape(lru)
  BY DEF IInv, Types
<1>3. v \in Ver
  BY <1>2, <1>0 DEF Ver
<1>4. sets' = [sets EXCEPT ![k] = @ + 1]
  BY DEF SetBegin
<1>5. /\ sets'[k] = sets[k] + 1 /\ sets' \in [Keys -> Nat]
      /\ \A j \in Keys : sets[j] <= sets'[j]
  BY <1>2, <1>4
<1>6. "set check" \in SetPCs /\ "set check" \notin GetPCs /\ "set check" \notin DeletePCs
  BY DEF GetPCs, SetPCs, DeletePCs
<1>7. lru' = lruSet(lru, k, v, "ahead")
  BY <1>0 DEF SetBegin
<1>8. /\ LRUShape(lru')
      /\ \A j \in Keys : lru'.items[j] # None =>
           IF j = k THEN lru'.items[j].value = v
                    ELSE lru.items[j] # None /\ lru'.items[j].value = lru.items[j].value
  BY <1>2, <1>7, SetStores
<1>10. seen' = [seen EXCEPT ![c] = OfKey(IF "set check" \in GetPCs THEN dead ELSE settled, k)]
  BY <1>1, <1>6
<1>11. "set check" \in GetPCs \cup WritePCs /\ v \in Ver \cup {None}
  BY <1>3, <1>6 DEF WritePCs
<1>12. \A j \in Keys : lru'.items[j] # None =>
         j # k \/ "set check" \in GetPCs \/ ("set check" \in SetPCs /\ lru'.items[j].value = v)
  BY <1>6, <1>8
<1>13. \A j \in Keys : lru'.items[j] # None /\ (j # k \/ "set check" \in GetPCs) =>
         lru.items[j] # None /\ lru'.items[j].value = lru.items[j].value
  BY <1>6, <1>8
<1>14. /\ "set check" \in SetPCs => v = <<k, sets[k] + 1>> /\ sets'[k] = sets[k] + 1
       /\ "set check" \in DeletePCs => v = None
  BY <1>0, <1>5, <1>6
<1> QED
  BY <1>1, <1>5, <1>8, <1>10, <1>11, <1>12, <1>13, <1>14, BeginIInv, ZenonT(60)

LEMMA DeleteBeginIInv ==
  ASSUME IInv, NEW c \in Clients, NEW k \in Keys, DeleteBegin(c, k)
  PROVE  IInv'
<1>1. /\ Begin(c, "delete check", k, None)
      /\ UNCHANGED <<redis, sets, settled, dead>>
      /\ client[c].pc = "idle"
      /\ lru' = lruDelete(lru, k)
      /\ seen' = [seen EXCEPT ![c] = OfKey(settled, k)]
  BY DEF DeleteBegin, At
<1>2. LRUShape(lru') /\ Forgets(lru', lru) /\ lru'.items[k] = None
  BY <1>1, DeleteForgets DEF IInv, Types
<1>3. sets' \in [Keys -> Nat] /\ \A j \in Keys : sets[j] <= sets'[j]
  <2>1. sets \in [Keys -> Nat] /\ sets' = sets
    BY <1>1 DEF IInv, Types
  <2> QED
    BY <2>1
<1>4. "delete check" \in DeletePCs /\ "delete check" \notin GetPCs /\ "delete check" \notin SetPCs
  BY DEF GetPCs, SetPCs, DeletePCs
<1> QED
  BY <1>1, <1>2, <1>3, <1>4, BeginIInv DEF WritePCs, Forgets

(* A client moves on within its operation.                                 *)
LEMMA GotoIInv ==
  ASSUME IInv, NEW c \in Clients, NEW label, Goto(c, label),
         UNCHANGED <<lru, redis, sets, got, settled, dead, seen>>,
         \/ client[c].pc \in GetPCs /\ label \in GetPCs
         \/ client[c].pc \in SetPCs /\ label \in SetPCs
         \/ client[c].pc \in DeletePCs /\ label \in DeletePCs
  PROVE  IInv'
<1>1. client' = [client EXCEPT ![c] = [pc |-> label, key |-> client[c].key,
                                       version |-> client[c].version]]
  BY DEF Goto
<1>2. /\ client[c].pc \in GetPCs <=> label \in GetPCs
      /\ client[c].pc \in SetPCs <=> label \in SetPCs
      /\ client[c].pc \in DeletePCs <=> label \in DeletePCs
      /\ client[c].pc # "idle"
  BY DEF GetPCs, SetPCs, DeletePCs
<1>3. \A d \in Clients :
        /\ client'[d].key = client[d].key /\ client'[d].version = client[d].version
        /\ client'[d].pc \in GetPCs <=> client[d].pc \in GetPCs
        /\ client'[d].pc \in SetPCs <=> client[d].pc \in SetPCs
        /\ client'[d].pc \in DeletePCs <=> client[d].pc \in DeletePCs
        /\ client'[d].pc # "idle" => client[d].pc # "idle"
  BY <1>1, <1>2 DEF IInv, Types
<1>4. Types'
  BY <1>1 DEF IInv, Types, WritePCs
<1>5. InPlace' /\ Numbered' /\ FallbackRegular'
  BY DEF IInv, InPlace, Numbered, FallbackRegular
<1>6. Pending'
  BY <1>3 DEF IInv, Pending, PendingAt, WritePCs
<1>7. FallbackAlive'
  BY <1>3 DEF IInv, FallbackAlive, WritePCs
<1> QED
  BY <1>4, <1>5, <1>6, <1>7 DEF IInv

(* The return of a Get (cache.go:162, 174, 177).                           *)
LEMMA GetReturnsIInv ==
  ASSUME IInv, NEW c \in Clients, client[c].pc \in GetPCs,
         NEW v \in Ver \cup {None}, NEW tier \in Tiers, GetReturns(c, v, tier),
         tier = "lru" => v \notin dead,
         LRUShape(lru'), Forgets(lru', lru),
         UNCHANGED <<redis, sets, settled, dead, seen>>
  PROVE  IInv'
<1>1. /\ client' = [client EXCEPT ![c] = Idle]
      /\ got' = [got EXCEPT ![c] = [version |-> v, tier |-> tier]]
  BY DEF GetReturns
<1>2. seen[c] \subseteq dead
  BY DEF IInv, Pending, PendingAt
<1>3. Types'
  BY <1>1 DEF IInv, Types, Idle
<1>4. InPlace' /\ Numbered'
  BY DEF IInv, InPlace, Numbered, Forgets
<1>5. Pending'
  <2>1. \A d \in Clients : client'[d].pc # "idle" => client'[d] = client[d]
    BY <1>1 DEF IInv, Types, Idle
  <2>2. "idle" \notin GetPCs /\ "idle" \notin SetPCs /\ "idle" \notin DeletePCs
    BY DEF GetPCs, SetPCs, DeletePCs
  <2> QED
    BY <2>1, <2>2 DEF IInv, Pending, PendingAt, WritePCs
<1>6. FallbackAlive'
  BY <1>1 DEF IInv, Types, FallbackAlive, Forgets, Idle, WritePCs, SetPCs, DeletePCs
<1>7. FallbackRegular'
  <2> SUFFICES ASSUME NEW d \in Clients, got'[d].tier = "lru"
               PROVE  got'[d].version \notin seen'[d]
    BY DEF FallbackRegular
  <2>1. CASE d = c
    BY <1>1, <1>2, <2>1 DEF IInv, Types
  <2>2. CASE d # c
    BY <1>1, <2>2 DEF IInv, Types, FallbackRegular
  <2> QED
    BY <2>1, <2>2
<1> QED
  BY <1>3, <1>4, <1>5, <1>6, <1>7 DEF IInv

LEMMA GetStepIInv ==
  ASSUME IInv, NEW c \in Clients, GetFromRedis(c) \/ GetFails(c) \/ GetFromLRU(c)
  PROVE  IInv'
<1>0. LRUShape(lru) /\ Forgets(lru, lru)
  BY DEF IInv, Types, Forgets
<1>1. CASE GetFromRedis(c)
  <2>1. /\ client[c].pc \in GetPCs
        /\ UNCHANGED <<lru, redis, sets, settled, dead, seen>>
    BY <1>1 DEF GetFromRedis, At, GetPCs, dataVars, historyVars
  <2>2. Key(c) \in Keys
    BY <2>1 DEF Key, IInv, Pending, PendingAt, GetPCs
  <2>3. CASE redis[Key(c)] # None
    <3>1. GetReturns(c, redis[Key(c)], "redis") /\ redis[Key(c)] \in Ver \cup {None}
      BY <1>1, <2>2, <2>3 DEF GetFromRedis, IInv, Types
    <3>2. "redis" \in Tiers /\ "redis" # "lru"
      BY DEF Tiers
    <3>3. LRUShape(lru') /\ Forgets(lru', lru)
      BY <1>0, <2>1
    <3> QED
      BY <2>1, <3>1, <3>2, <3>3, GetReturnsIInv
  <2>4. CASE redis[Key(c)] = None
    <3>1. Goto(c, "get lru") /\ UNCHANGED got /\ "get lru" \in GetPCs
      BY <1>1, <2>4 DEF GetFromRedis, GetPCs
    <3> QED
      BY <2>1, <3>1, GotoIInv
  <2> QED
    BY <2>3, <2>4
<1>2. CASE GetFails(c)
  <2>1. /\ client[c].pc \in GetPCs /\ "get lru" \in GetPCs /\ Goto(c, "get lru")
        /\ UNCHANGED <<lru, redis, sets, got, settled, dead, seen>>
    BY <1>2 DEF GetFails, At, GetPCs, dataVars, historyVars
  <2> QED
    BY <2>1, GotoIInv
<1>3. CASE GetFromLRU(c)
  <2>1. /\ client[c].pc \in GetPCs
        /\ UNCHANGED <<redis, sets, settled, dead, seen>>
        /\ lru' = lruGet(lru, Key(c))
    BY <1>3 DEF GetFromLRU, At, GetPCs, historyVars
  <2>2. Key(c) \in Keys
    BY <2>1 DEF Key, IInv, Pending, PendingAt, GetPCs
  <2>3. LRUShape(lru') /\ Forgets(lru', lru)
    BY <1>0, <2>1, <2>2, GetForgets
  <2>4. CASE Hit(lru, Key(c))
    <3>1. GetReturns(c, lru.items[Key(c)].value, "lru")
      BY <1>3, <2>4 DEF GetFromLRU
    <3>2. lru.items[Key(c)].value \in Ver /\ lru.items[Key(c)].value \notin dead
      BY <2>2, <2>4 DEF Hit, IInv, InPlace, FallbackAlive
    <3>3. "lru" \in Tiers
      BY DEF Tiers
    <3> QED
      BY <2>1, <2>3, <3>1, <3>2, <3>3, GetReturnsIInv
  <2>5. CASE ~Hit(lru, Key(c))
    <3>1. GetReturns(c, None, "miss") /\ "miss" \in Tiers /\ "miss" # "lru"
      BY <1>3, <2>5 DEF GetFromLRU, Tiers
    <3> QED
      BY <2>1, <2>3, <3>1, GetReturnsIInv
  <2> QED
    BY <2>4, <2>5
<1> QED
  BY <1>1, <1>2, <1>3

LEMMA CheckIInv ==
  ASSUME IInv, NEW c \in Clients, SetCheck(c) \/ DeleteCheck(c)
  PROVE  IInv'
<1>1. /\ UNCHANGED <<lru, redis, sets>>
      /\ redis' \in [Keys -> Ver \cup {None}]
      /\ \A k \in Keys : redis'[k] # None => redis'[k][1] = k
  BY DEF SetCheck, DeleteCheck, Check, dataVars, IInv, Types, InPlace
<1>2. CASE redisOK
  <2>1. UNCHANGED <<got, settled, dead, seen>>
    BY <1>2 DEF SetCheck, DeleteCheck, Check, historyVars
  <2>2. \/ /\ Goto(c, "set redis")
           /\ client[c].pc \in SetPCs /\ "set redis" \in SetPCs
        \/ /\ Goto(c, "delete redis")
           /\ client[c].pc \in DeletePCs /\ "delete redis" \in DeletePCs
    BY <1>2 DEF SetCheck, DeleteCheck, Check, At, SetPCs, DeletePCs
  <2> QED
    BY <1>1, <2>1, <2>2, GotoIInv
<1>3. CASE ~redisOK
  <2>1. WriteReturns(c) /\ client[c].pc \in WritePCs
    BY <1>3 DEF SetCheck, DeleteCheck, Check, At, WritePCs, SetPCs, DeletePCs
  <2> QED
    BY <1>1, <2>1, WriteReturnsIInv
<1> QED
  BY <1>2, <1>3

(* The Redis command of a Set or Delete (cache.go:188, 205), whatever      *)
(* becomes of it.                                                          *)
LEMMA CommandIInv ==
  ASSUME IInv, NEW c \in Clients,
         SetRedis(c) \/ SetFails(c) \/ DeleteRedis(c) \/ DeleteFails(c)
  PROVE  IInv'
<1>1. WriteReturns(c) /\ UNCHANGED <<lru, sets>> /\ client[c].pc \in WritePCs
  BY DEF SetRedis, SetFails, DeleteRedis, DeleteFails, At, WritePCs, SetPCs, DeletePCs
<1>2. Key(c) \in Keys /\ Key(c) = client[c].key
  BY <1>1 DEF Key, IInv, Pending, PendingAt, WritePCs, SetPCs, DeletePCs
<1>3. PICK v \in Ver \cup {None} :
        /\ v # None => v[1] = Key(c)
        /\ redis' = redis \/ redis' = [redis EXCEPT ![Key(c)] = v]
  <2>1. CASE SetRedis(c) \/ SetFails(c)
    <3>1. client[c].version \in Ver /\ client[c].version[1] = Key(c)
      BY <2>1, <1>2 DEF SetRedis, SetFails, At, IInv, Pending, PendingAt, SetPCs
    <3> QED
      BY <2>1, <3>1 DEF SetRedis, SetFails, MayApply
  <2>2. CASE DeleteRedis(c) \/ DeleteFails(c)
    BY <2>2 DEF DeleteRedis, DeleteFails, MayApply
  <2> QED
    BY <2>1, <2>2
<1>4. /\ redis' \in [Keys -> Ver \cup {None}]
      /\ \A k \in Keys : redis'[k] # None => redis'[k][1] = k
  <2>1. redis \in [Keys -> Ver \cup {None}] /\ \A k \in Keys : redis[k] # None => redis[k][1] = k
    BY DEF IInv, Types, InPlace
  <2>2. CASE redis' = redis
    BY <2>1, <2>2
  <2>3. CASE redis' = [redis EXCEPT ![Key(c)] = v]
    <3>1. \A k \in Keys : redis'[k] = IF k = Key(c) THEN v ELSE redis[k]
      BY <1>2, <2>1, <2>3
    <3>2. redis' \in [Keys -> Ver \cup {None}]
      BY <1>2, <1>3, <2>1, <2>3
    <3> QED
      BY <1>3, <2>1, <3>1, <3>2
  <2> QED
    BY <1>3, <2>2, <2>3
<1> QED
  BY <1>1, <1>4, WriteReturnsIInv

LEMMA WorldIInv ==
  ASSUME IInv,
         \/ ProbeStart \/ ProbeReply \/ ProbeEnd \/ ProbeInterval \/ RedisDown \/ RedisBack
         \/ \E k \in Keys : RedisExpires(k) \/ LRUExpires(k)
  PROVE  IInv'
<1>1. redis \in [Keys -> Ver \cup {None}] /\ LRUShape(lru)
  BY DEF IInv, Types
<1>2. CASE ProbeStart \/ ProbeReply \/ ProbeEnd \/ ProbeInterval \/ RedisDown
  <2>1. UNCHANGED <<lru, redis, sets, client, got, settled, dead, seen>>
    BY <1>2 DEF ProbeStart, ProbeReply, ProbeEnd, ProbeInterval, RedisDown, dataVars, historyVars
  <2> QED
    BY <1>1, <2>1, LinkIInv
<1>3. CASE RedisBack
  <2>1. /\ UNCHANGED <<lru, sets, client, got, settled, dead, seen>>
        /\ redis' \in [Keys -> Ver \cup {None}]
        /\ \A k \in Keys : redis'[k] \in {redis[k], None}
    BY <1>1, <1>3 DEF RedisBack, historyVars
  <2> QED
    BY <2>1, LinkIInv
<1>4. CASE \E k \in Keys : RedisExpires(k)
  <2>1. /\ UNCHANGED <<lru, sets, client, got, settled, dead, seen>>
        /\ redis' \in [Keys -> Ver \cup {None}]
        /\ \A k \in Keys : redis'[k] \in {redis[k], None}
    BY <1>1, <1>4 DEF RedisExpires, historyVars
  <2> QED
    BY <2>1, LinkIInv
<1>5. CASE \E k \in Keys : LRUExpires(k)
  <2>1. PICK k \in Keys : LRUExpires(k)
    BY <1>5
  <2>2. /\ UNCHANGED <<redis, sets, client, got, settled, dead, seen>>
        /\ lru' = lruExpire(lru, k) /\ lru.items[k] # None
    BY <2>1 DEF LRUExpires, Cached, historyVars
  <2> QED
    BY <1>1, <2>2, ExpireForgets, ForgetKeeps
<1> QED
  BY <1>2, <1>3, <1>4, <1>5

LEMMA NextIInv == IInv /\ [Next]_vars => IInv'
<1> SUFFICES ASSUME IInv, [Next]_vars PROVE IInv'
  OBVIOUS
<1>1. CASE \E c \in Clients, k \in Keys : GetBegin(c, k) \/ SetBegin(c, k) \/ DeleteBegin(c, k)
  BY <1>1, GetBeginIInv, SetBeginIInv, DeleteBeginIInv
<1>2. CASE \E c \in Clients : ClientStep(c)
  BY <1>2, GetStepIInv, CheckIInv, CommandIInv DEF ClientStep
<1>3. CASE \/ ProbeStart \/ ProbeReply \/ ProbeEnd \/ ProbeInterval \/ RedisDown \/ RedisBack
           \/ \E k \in Keys : RedisExpires(k) \/ LRUExpires(k)
  BY <1>3, WorldIInv
<1>4. CASE UNCHANGED vars
  <2>1. /\ UNCHANGED <<lru, redis, sets, client, got, settled, dead, seen>>
        /\ redis \in [Keys -> Ver \cup {None}]
    BY <1>4 DEF vars, IInv, Types
  <2> QED
    BY <2>1, LinkIInv
<1> QED
  BY <1>1, <1>2, <1>3, <1>4 DEF Next

LEMMA CacheIInv == Spec => []IInv
BY InitIInv, NextIInv, PTL DEF Spec

(* Whatever happens to Redis and to the clients, the LRU tier never        *)
(* answers with a version that had been replaced or purged before the Get  *)
(* began (cache.go:172, 182, 203).                                         *)
THEOREM CacheFallbackRegular == Spec => []FallbackRegular
BY CacheIInv, PTL DEF IInv

-----------------------------------------------------------------------------
(* Until a command fails Redis is always asked, and holds nothing dead: a  *)
(* version dies in the very step in which its replacement reaches Redis.   *)
RInv ==
  /\ clean \in BOOLEAN
  /\ clean => redisOK = TRUE
  /\ clean => \A k \in Keys : redis[k] # None => redis[k] \notin dead
  /\ RegularReads

(* Steps in which no operation returns and Redis gains nothing.            *)
LEMMA QuietRInv ==
  ASSUME IInv, RInv, clean' = clean, redisOK' = redisOK \/ redisOK' = TRUE,
         dead' = dead,
         \A k \in Keys : redis'[k] \in {redis[k], None},
         \A c \in Clients : \/ got'[c].version = None
                            \/ got'[c] = got[c] /\ seen'[c] = seen[c]
  PROVE  RInv'
BY DEF RInv, RegularReads

LEMMA ReadRInv ==
  ASSUME IInv, RInv, NEW c \in Clients, client[c].pc \in GetPCs, NEW v, NEW tier,
         GetReturns(c, v, tier), clean /\ v # None => v \notin dead,
         UNCHANGED <<redis, redisOK, dead, seen, clean>>
  PROVE  RInv'
<1>1. seen[c] \subseteq dead
  BY DEF IInv, Pending, PendingAt
<1>2. got' = [got EXCEPT ![c] = [version |-> v, tier |-> tier]]
  BY DEF GetReturns
<1>3. RegularReads'
  <2> SUFFICES ASSUME clean, NEW d \in Clients, got'[d].version # None
               PROVE  got'[d].version \notin seen[d]
    BY DEF RegularReads
  <2>1. CASE d = c
    BY <1>1, <1>2, <2>1 DEF IInv, Types
  <2>2. CASE d # c
    BY <1>2, <2>2 DEF IInv, Types, RInv, RegularReads
  <2> QED
    BY <2>1, <2>2
<1> QED
  BY <1>3 DEF RInv

LEMMA WriteRInv ==
  ASSUME IInv, RInv, NEW c \in Clients, SetRedis(c) \/ DeleteRedis(c)
  PROVE  RInv'
<1>1. /\ client[c].pc \in WritePCs
      /\ dead' = dead \cup seen[c] /\ got' = got
      /\ seen' = [seen EXCEPT ![c] = {}]
      /\ UNCHANGED <<redisOK, clean>>
  BY DEF SetRedis, DeleteRedis, WriteReturns, At, linkVars, WritePCs, SetPCs, DeletePCs
<1>2. Key(c) \in Keys /\ \A v \in seen[c] : v[1] = Key(c)
  BY <1>1 DEF Key, IInv, Pending, PendingAt, WritePCs, SetPCs, DeletePCs
<1>3. PICK v : /\ redis' = [redis EXCEPT ![Key(c)] = v]
               /\ v # None => v \notin settled
  <2>1. CASE SetRedis(c)
    BY <2>1 DEF SetRedis, At, IInv, Pending, PendingAt, SetPCs
  <2>2. CASE DeleteRedis(c)
    BY <2>2 DEF DeleteRedis
  <2> QED
    BY <2>1, <2>2
<1>4. ASSUME clean, NEW k \in Keys, redis'[k] # None
      PROVE  redis'[k] \notin dead'
  <2>1. CASE k = Key(c)
    BY <1>1, <1>3, <1>4, <2>1 DEF IInv, Types
  <2>2. CASE k # Key(c)
    <3>1. redis'[k] = redis[k]
      BY <1>3, <2>2 DEF IInv, Types
    <3>2. redis[k] \notin dead /\ redis[k][1] = k
      BY <1>4, <3>1 DEF RInv, IInv, InPlace
    <3> QED
      BY <1>1, <1>2, <2>2, <3>1, <3>2
  <2> QED
    BY <2>1, <2>2
<1>5. RegularReads'
  BY <1>1 DEF IInv, Types, RInv, RegularReads
<1> QED
  BY <1>1, <1>4, <1>5 DEF RInv

LEMMA ClientRInv ==
  ASSUME IInv, RInv, NEW c \in Clients, ClientStep(c)
  PROVE  RInv'
<1>1. CASE GetFails(c) \/ SetFails(c) \/ DeleteFails(c)
  <2>1. clean' = FALSE
    BY <1>1 DEF GetFails, SetFails, DeleteFails, CommandFails
  <2> QED
    BY <2>1 DEF RInv, RegularReads
<1>2. CASE GetFromRedis(c)
  <2>1. /\ client[c].pc \in GetPCs
        /\ UNCHANGED <<redis, redisOK, dead, seen, clean>>
    BY <1>2 DEF GetFromRedis, At, GetPCs, dataVars, linkVars, historyVars
  <2>2. CASE redis[Key(c)] # None
    <3>1. GetReturns(c, redis[Key(c)], "redis") /\ Key(c) \in Keys
      BY <1>2, <2>1, <2>2 DEF GetFromRedis, Key, IInv, Pending, PendingAt, GetPCs
    <3>2. clean => redis[Key(c)] \notin dead
      BY <2>2, <3>1 DEF RInv
    <3> QED
      BY <2>1, <3>1, <3>2, ReadRInv
  <2>3. CASE redis[Key(c)] = None
    BY <1>2, <2>1, <2>3, QuietRInv DEF GetFromRedis, RInv
  <2> QED
    BY <2>2, <2>3
<1>3. CASE GetFromLRU(c)
  <2>1. /\ client[c].pc \in GetPCs
        /\ UNCHANGED <<redis, redisOK, dead, seen, clean>>
    BY <1>3 DEF GetFromLRU, At, GetPCs, linkVars, historyVars
  <2>2. Key(c) \in Keys
    BY <2>1 DEF Key, IInv, Pending, PendingAt, GetPCs
  <2>3. CASE Hit(lru, Key(c))
    <3>1. GetReturns(c, lru.items[Key(c)].value, "lru")
      BY <1>3, <2>3 DEF GetFromLRU
    <3>2. lru.items[Key(c)].value \notin dead
      BY <2>2, <2>3 DEF Hit, IInv, FallbackAlive
    <3> QED
      BY <2>1, <3>1, <3>2, ReadRInv
  <2>4. CASE ~Hit(lru, Key(c))
    <3>1. GetReturns(c, None, "miss")
      BY <1>3, <2>4 DEF GetFromLRU
    <3> QED
      BY <2>1, <3>1, ReadRInv
  <2> QED
    BY <2>3, <2>4
<1>4. CASE SetCheck(c) \/ DeleteCheck(c)
  <2>1. UNCHANGED <<redis, redisOK, clean>>
    BY <1>4 DEF SetCheck, DeleteCheck, Check, dataVars, linkVars, historyVars
  <2>2. CASE redisOK
    BY <1>4, <2>1, <2>2, QuietRInv DEF SetCheck, DeleteCheck, Check, historyVars
  <2>3. CASE ~redisOK
    BY <2>1, <2>3 DEF RInv, RegularReads
  <2> QED
    BY <2>2, <2>3
<1>5. CASE SetRedis(c) \/ DeleteRedis(c)
  BY <1>5, WriteRInv
<1> QED
  BY <1>1, <1>2, <1>3, <1>4, <1>5 DEF ClientStep

LEMMA NextRInv == IInv /\ RInv /\ [Next]_vars => RInv'
<1> SUFFICES ASSUME IInv, RInv, [Next]_vars PROVE RInv'
  OBVIOUS
<1>1. ASSUME NEW c \in Clients, NEW k \in Keys,
             GetBegin(c, k) \/ SetBegin(c, k) \/ DeleteBegin(c, k)
      PROVE  RInv'
  <2>1. /\ got' = [got EXCEPT ![c] = Nothing]
        /\ UNCHANGED <<redis, redisOK, dead, clean>>
        /\ \A d \in Clients \ {c} : seen'[d] = seen[d]
    BY <1>1 DEF GetBegin, SetBegin, DeleteBegin, Begin, dataVars, linkVars, IInv, Types
  <2>2. \A d \in Clients : \/ got'[d].version = None
                           \/ got'[d] = got[d] /\ seen'[d] = seen[d]
    BY <2>1 DEF IInv, Types, Nothing
  <2> QED
    BY <2>1, <2>2, QuietRInv DEF RInv
<1>2. CASE \E c \in Clients : ClientStep(c)
  BY <1>2, ClientRInv
<1>3. CASE ProbeStart \/ ProbeReply \/ ProbeEnd \/ ProbeInterval
  BY <1>3, QuietRInv
  DEF ProbeStart, ProbeReply, ProbeEnd, ProbeInterval, RInv, dataVars, historyVars
<1>4. CASE RedisDown \/ RedisBack
  BY <1>4, QuietRInv DEF RedisDown, RedisBack, RInv, IInv, Types, dataVars, historyVars
<1>5. CASE \E k \in Keys : RedisExpires(k) \/ LRUExpires(k)
  BY <1>5, QuietRInv
  DEF RedisExpires, LRUExpires, RInv, IInv, Types, linkVars, historyVars
<1>6. CASE UNCHANGED vars
  BY <1>6, QuietRInv DEF vars, RInv
<1> QED
  BY <1>1, <1>2, <1>3, <1>4, <1>5, <1>6 DEF Next

(* Until a Redis command fails, a Get of the two-tier cache never returns  *)
(* a version that a Set or Delete had replaced before it began, whatever   *)
(* the interleaving, evictions, expiries and restarts of Redis             *)
(* (cache.go:157-211).                                                     *)
THEOREM CacheRegularReads == Spec => []RegularReads
<1>1. Init => RInv
  BY CacheAssumption DEF Init, RInv, RegularReads, Nothing
<1>2. IInv /\ RInv /\ [Next]_vars => RInv'
  BY NextRInv
<1>3. RInv => RegularReads
  BY DEF RInv
<1> QED
  BY <1>1, <1>2, <1>3, CacheIInv, PTL DEF Spec

-----------------------------------------------------------------------------
(* The LRU tier behind Redis keeps the shape it has by itself.             *)
Tier == LRUInv(lru, Versions)

(* The steps of the cache that touch the LRU tier at all.                  *)
LEMMA TierStep ==
  ASSUME [Next]_vars
  PROVE  \/ UNCHANGED lru
         \/ \E c \in Clients : GetFromLRU(c)
         \/ \E c \in Clients, k \in Keys : SetBegin(c, k) \/ DeleteBegin(c, k)
         \/ \E k \in Keys : LRUExpires(k)
<1>1. CASE \E c \in Clients, k \in Keys : GetBegin(c, k) \/ SetBegin(c, k) \/ DeleteBegin(c, k)
  BY <1>1 DEF GetBegin, dataVars
<1>2. CASE \E c \in Clients : ClientStep(c)
  <2>1. PICK c \in Clients : ClientStep(c)
    BY <1>2
  <2>2. CASE GetFromRedis(c) \/ GetFails(c) \/ GetFromLRU(c)
    BY <2>2 DEF GetFromRedis, GetFails, dataVars
  <2>3. CASE SetCheck(c) \/ DeleteCheck(c)
    BY <2>3 DEF SetCheck, DeleteCheck, Check, dataVars
  <2>4. CASE SetRedis(c) \/ SetFails(c) \/ DeleteRedis(c) \/ DeleteFails(c)
    BY <2>4 DEF SetRedis, SetFails, DeleteRedis, DeleteFails
  <2> QED
    BY <2>1, <2>2, <2>3, <2>4 DEF ClientStep
<1>3. CASE \/ ProbeStart \/ ProbeReply \/ ProbeEnd \/ ProbeInterval \/ RedisDown \/ RedisBack
           \/ \E k \in Keys : RedisExpires(k) \/ LRUExpires(k)
  BY <1>3 DEF ProbeStart, ProbeReply, ProbeEnd, ProbeInterval, RedisDown, RedisBack,
              RedisExpires, dataVars
<1>4. CASE UNCHANGED vars
  BY <1>4 DEF vars
<1> QED
  BY <1>1, <1>2, <1>3, <1>4 DEF Next

LEMMA NextTier == IInv /\ Tier /\ [Next]_vars => Tier'
<1> SUFFICES ASSUME IInv, Tier, [Next]_vars PROVE LRUInv(lru', Versions)
  BY DEF Tier
<1>1. LRUInv(lru, Versions) /\ None \notin Entries(Versions)
  BY CacheAssumption DEF Tier
<1>2. CASE UNCHANGED lru
  BY <1>1, <1>2
<1>3. ASSUME NEW c \in Clients, GetFromLRU(c) PROVE LRUInv(lru', Versions)
  <2>1. Key(c) \in Keys /\ lru' = lruGet(lru, Key(c))
    BY <1>3 DEF GetFromLRU, At, Key, IInv, Pending, PendingAt
  <2> QED
    BY <1>1, <2>1, GetTier
<1>4. ASSUME NEW c \in Clients, NEW k \in Keys, SetBegin(c, k) PROVE LRUInv(lru', Versions)
  <2> DEFINE v == <<k, sets[k] + 1>>
  <2>1. sets[k] \in Nat /\ sets[k] < MaxSets /\ MaxSets \in Nat
    BY <1>4, CacheAssumption DEF SetBegin, IInv, Types
  <2>2. v \in Versions
    BY <2>1 DEF Versions
  <2>3. lru' = lruSet(lru, k, v, "ahead")
    BY <1>4 DEF SetBegin
  <2> HIDE DEF v
  <2>4. LRUInv(lruSet(lru, k, v, "ahead"), Versions)
    BY <1>1, <2>2, SetTier
  <2> QED
    BY <2>3, <2>4
<1>5. ASSUME NEW c \in Clients, NEW k \in Keys, DeleteBegin(c, k) PROVE LRUInv(lru', Versions)
  BY <1>1, <1>5, DeleteTier DEF DeleteBegin
<1>6. ASSUME NEW k \in Keys, LRUExpires(k) PROVE LRUInv(lru', Versions)
  BY <1>1, <1>6, ExpireTier DEF LRUExpires
<1> QED
  BY <1>2, <1>3, <1>4, <1>5, <1>6, TierStep

(* Through every interleaving of the clients' steps with Redis failing and *)
(* coming back, the fallback tier's map and list agree and stay within the *)
(* capacity (cache.go:156-213, 224-304).                                   *)
THEOREM CacheTier == Spec => []LRUInv(lru, Versions)
<1>1. Init => Tier
  BY NewTier DEF Init, Tier
<1>2. Spec => []Tier
  BY <1>1, NextTier, CacheIInv, PTL DEF Spec
<1> QED
  BY <1>2 DEF Tier

=============================================================================
