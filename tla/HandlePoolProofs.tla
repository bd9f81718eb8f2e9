--------------------------- MODULE HandlePoolProofs ---------------------------
(***************************************************************************)
(* The reader pool is an LRU cache for every set of dimensions, every      *)
(* number of threads and every limit.  TLC checks the same properties on   *)
(* three and four dimensions (MCHandlePool).                               *)
(***************************************************************************)
EXTENDS HandlePool, SequenceTheorems, FiniteSetTheorems, TLAPS

LEMMA CapacityType == Capacity \in Nat \ {0}
BY PoolAssumption DEF Capacity

-----------------------------------------------------------------------------
(* What Touch does to a queue without duplicates                           *)

Distinct(s) == \A i, j \in DOMAIN s : s[i] = s[j] => i = j

LEMMA TouchFresh ==
  ASSUME NEW S, NEW s \in Seq(S), NEW e \in S, \A i \in DOMAIN s : s[i] # e
  PROVE  Touch(s, e) = Append(s, e)
BY DEF Touch, RemoveFirst, SelectInSeq

LEMMA RemoveFirstAt ==
  ASSUME NEW S, NEW s \in Seq(S), Distinct(s),
         NEW p \in DOMAIN s
  PROVE  RemoveFirst(s, s[p]) = RemoveAt(s, p)
<1> DEFINE I == {i \in 1..Len(s) : s[i] = s[p]}
<1>1. I = {p}
  BY DEF Distinct
<1>2. Min(I) = p
  BY <1>1 DEF Min
<1>3. \E i \in 1..Len(s) : s[i] = s[p]
  OBVIOUS
<1>4. RemoveFirst(s, s[p]) = RemoveAt(s, IF I # {} THEN Min(I) ELSE 0)
  BY <1>3 DEF RemoveFirst, SelectInSeq
<1> QED
  BY <1>1, <1>2, <1>4

LEMMA RemoveAtElements ==
  ASSUME NEW S, NEW s \in Seq(S), NEW p \in DOMAIN s
  PROVE  /\ RemoveAt(s, p) \in Seq(S)
         /\ Len(RemoveAt(s, p)) = Len(s) - 1
         /\ \A i \in 1..(Len(s) - 1) :
              RemoveAt(s, p)[i] = s[IF i < p THEN i ELSE i + 1]
<1> DEFINE a == SubSeq(s, 1, p - 1)
           b == SubSeq(s, p + 1, Len(s))
<1>1. /\ a \in Seq(S) /\ Len(a) = p - 1
      /\ \A i \in 1..(p - 1) : a[i] = s[i]
  BY SubSeqProperties
<1>2. /\ b \in Seq(S) /\ Len(b) = Len(s) - p
      /\ \A i \in 1..(Len(s) - p) : b[i] = s[p + i]
  BY SubSeqProperties
<1>3. RemoveAt(s, p) = a \o b
  BY DEF RemoveAt
<1> HIDE DEF a, b
<1>4. /\ a \o b \in Seq(S)
      /\ Len(a \o b) = Len(s) - 1
      /\ \A i \in 1..(Len(s) - 1) :
           (a \o b)[i] = IF i <= Len(a) THEN a[i] ELSE b[i - Len(a)]
  <2>1. /\ a \o b \in Seq(S)
        /\ Len(a \o b) = Len(a) + Len(b)
        /\ \A i \in 1..(Len(a) + Len(b)) :
             (a \o b)[i] = IF i <= Len(a) THEN a[i] ELSE b[i - Len(a)]
    BY <1>1, <1>2, ConcatProperties
  <2>2. Len(a) + Len(b) = Len(s) - 1
    <3> DEFINE n == Len(s)
    <3>1. n \in Nat /\ p \in 1..n
      OBVIOUS
    <3> HIDE DEF n
    <3>2. (p - 1) + (n - p) = n - 1
      BY <3>1
    <3> QED
      BY <1>1, <1>2, <3>2 DEF n
  <2> QED
    BY <2>1, <2>2
<1>5. ASSUME NEW i \in 1..(Len(s) - 1)
      PROVE  (a \o b)[i] = s[IF i < p THEN i ELSE i + 1]
  <2>1. CASE i < p
    BY <2>1, <1>1, <1>4
  <2>2. CASE ~(i < p)
    <3>1. i - (p - 1) \in 1..(Len(s) - p) /\ p + (i - (p - 1)) = i + 1
      BY <2>2
    <3>2. (a \o b)[i] = b[i - (p - 1)]
      BY <2>2, <1>1, <1>4
    <3> QED
      BY <3>1, <3>2, <2>2, <1>2
  <2> QED
    BY <2>1, <2>2
<1> QED
  BY <1>3, <1>4, <1>5

\* t is s with element e moved to the end, the others in the order of s.
MovedToEnd(s, t, e) ==
  LET n == Len(s) IN
  /\ Len(t) = n
  /\ t[n] = e
  /\ \A i \in 1..(n - 1) : t[i] # e
  /\ \A i \in 1..n : \E a \in 1..n : s[a] = t[i]
  /\ \A a \in 1..n : \E i \in 1..n : t[i] = s[a]
  /\ \A i, j \in 1..(n - 1) :
       i < j => \E a, b \in 1..n : a < b /\ s[a] = t[i] /\ s[b] = t[j]
  /\ Distinct(t)

LEMMA TouchKnown ==
  ASSUME NEW S, NEW s \in Seq(S), Distinct(s), NEW p \in DOMAIN s
  PROVE  /\ Touch(s, s[p]) \in Seq(S)
         /\ MovedToEnd(s, Touch(s, s[p]), s[p])
<1> DEFINE r == RemoveAt(s, p)
           n == Len(s)
           f == [i \in 1..n |-> IF i = n THEN p ELSE IF i < p THEN i ELSE i + 1]
<1>1. Touch(s, s[p]) = Append(r, s[p])
  BY RemoveFirstAt DEF Touch
<1>2. /\ r \in Seq(S) /\ Len(r) = n - 1
      /\ \A i \in 1..(n - 1) : r[i] = s[IF i < p THEN i ELSE i + 1]
  BY RemoveAtElements
<1>3. s[p] \in S /\ n \in Nat \ {0} /\ p \in 1..n
  OBVIOUS
<1>4. /\ f[n] = p
      /\ \A i \in 1..(n - 1) : f[i] = IF i < p THEN i ELSE i + 1
  BY <1>3
<1> DEFINE t == Append(r, s[p])
<1>5. /\ t \in Seq(S) /\ Len(t) = n
      /\ \A i \in 1..(n - 1) : t[i] = r[i]
      /\ t[n] = s[p]
  <2> HIDE DEF r, n
  <2> QED
    BY <1>2, <1>3, AppendProperties
<1> HIDE DEF r, n, f, t
<1>6. /\ \A i \in 1..n : f[i] \in 1..n
      /\ \A i \in 1..(n - 1) : f[i] # p
      /\ \A i, j \in 1..(n - 1) : i < j => f[i] < f[j]
  BY <1>3, <1>4
<1>7. \A i \in 1..n : t[i] = s[f[i]]
  <2>1. ASSUME NEW i \in 1..(n - 1)
        PROVE  t[i] = s[f[i]]
    <3>1. r[i] = s[IF i < p THEN i ELSE i + 1] /\ f[i] = (IF i < p THEN i ELSE i + 1)
      BY <1>2, <1>4
    <3> QED
      BY <3>1, <1>5
  <2> QED
    BY <2>1, <1>3, <1>4, <1>5
<1>8. ASSUME NEW j \in 1..n
      PROVE  \E i \in 1..n : f[i] = j
  <2>1. CASE j < p
    BY <2>1, <1>3, <1>4
  <2>2. CASE j = p
    BY <2>2, <1>3, <1>4
  <2>3. CASE j > p
    <3>1. j - 1 \in 1..(n - 1) /\ ~(j - 1 < p)
      BY <2>3, <1>3
    <3>2. f[j - 1] = j
      BY <3>1, <1>3, <1>4
    <3> QED
      BY <3>1, <3>2, <1>3
  <2> QED
    BY <2>1, <2>2, <2>3, <1>3
<1>9. ASSUME NEW i \in 1..n, NEW j \in 1..n, f[i] = f[j]
      PROVE  i = j
  BY <1>3, <1>4, <1>9
<1>10. \A i, j \in 1..n : s[i] = s[j] => i = j
  BY DEF Distinct, n
<1>11. DOMAIN t = 1..n
  BY <1>5
<1>12. MovedToEnd(s, t, s[p])
  <2>1. \A i \in 1..(n - 1) : t[i] # s[p]
    BY <1>3, <1>6, <1>7, <1>10
  <2>2. \A a \in 1..n : \E i \in 1..n : t[i] = s[a]
    BY <1>7, <1>8
  <2>3. ASSUME NEW i \in 1..(n - 1), NEW j \in 1..(n - 1), i < j
        PROVE  \E a, b \in 1..n : a < b /\ s[a] = t[i] /\ s[b] = t[j]
    <3>1. i \in 1..n /\ j \in 1..n
      BY <1>3
    <3>2. f[i] \in 1..n /\ f[j] \in 1..n /\ f[i] < f[j]
      BY <3>1, <2>3, <1>6
    <3>3. s[f[i]] = t[i] /\ s[f[j]] = t[j]
      BY <3>1, <1>7
    <3> QED
      BY <3>2, <3>3
  <2>4. Distinct(t)
    BY <1>6, <1>7, <1>9, <1>10, <1>11 DEF Distinct
  <2>5. \A i \in 1..n : \E a \in 1..n : s[a] = t[i]
    BY <1>6, <1>7
  <2> QED
    BY <2>1, <2>2, <2>3, <2>4, <2>5, <1>5 DEF MovedToEnd, n
<1> QED
  BY <1>1, <1>5, <1>12 DEF t

-----------------------------------------------------------------------------
(* Types                                                                   *)

LEMMA NoneIsNoReader ==
  ASSUME NEW r \in Reader
  PROVE  r # None
BY NoneAssumption

LEMMA TouchType ==
  ASSUME NEW S, NEW s \in Seq(S), Distinct(s), NEW e \in S
  PROVE  Touch(s, e) \in Seq(S)
<1>1. CASE \E p \in DOMAIN s : s[p] = e
  BY <1>1, TouchKnown
<1>2. CASE \A p \in DOMAIN s : s[p] # e
  BY <1>2, TouchFresh
<1> QED
  BY <1>1, <1>2

LEMMA PoolInit == Init => TypeOK /\ PoolInv
BY CapacityType DEF Init, TypeOK, PoolInv, LruTracksHandles, QueueInOrderOfUse,
   Error

-----------------------------------------------------------------------------
(* One lemma per action that changes the queue                             *)

LEMMA HitStep ==
  ASSUME TypeOK, PoolInv, NEW c \in Caller, NEW k \in Key, Hit(c, k)
  PROVE  TypeOK' /\ PoolInv'
<1> DEFINE n == Len(lru)
<1>1. /\ lru \in Seq(Known) /\ k \in Known
      /\ clock \in Nat /\ lastUse \in [Known -> 0..clock]
  BY DEF TypeOK, Hit
<1>2. PICK p \in DOMAIN lru : lru[p] = k
  BY <1>1 DEF PoolInv, LruTracksHandles, Hit
<1>3. Distinct(lru) /\ lru' = Touch(lru, lru[p])
  BY <1>2 DEF Distinct, Hit, PoolInv, LruTracksHandles
<1>4. lru' \in Seq(Known) /\ MovedToEnd(lru, lru', k)
  BY <1>1, <1>2, <1>3, TouchKnown
<1>5. /\ n \in Nat /\ 1 <= n
      /\ DOMAIN lru = 1..n /\ DOMAIN lru' = 1..n /\ Len(lru') = n
  BY <1>1, <1>2, <1>4 DEF MovedToEnd
<1>order. /\ \A i \in 1..n : \E a \in 1..n : lru[a] = lru'[i]
          /\ \A a \in 1..n : \E i \in 1..n : lru'[i] = lru[a]
          /\ \A i, j \in 1..(n - 1) :
               i < j => \E a, b \in 1..n : a < b /\ lru[a] = lru'[i] /\ lru[b] = lru'[j]
  BY <1>4 DEF MovedToEnd
<1> HIDE DEF n
<1>6. lastUse'[k] = clock + 1 /\ \A j \in Known \ {k} : lastUse'[j] = lastUse[j]
  BY <1>1 DEF Hit, Return
<1>7. TypeOK'
  <2>1. lastUse' \in [Known -> 0..clock'] /\ clock' \in Nat
    BY <1>1 DEF Hit, Return
  <2>2. held' \in [Caller -> Reader \cup Error \cup {None}]
    BY <1>1 DEF TypeOK, Hit, Return
  <2>3. broken' \in SUBSET Known /\ handles' \in [Known -> Reader \cup {None}]
    BY DEF TypeOK, Hit
  <2> QED
    BY <2>1, <2>2, <2>3, <1>4 DEF TypeOK
<1>8. LruTracksHandles'
  <2>1. \A j \in Known :
          (\E i \in DOMAIN lru : lru[i] = j) <=> (\E i \in DOMAIN lru' : lru'[i] = j)
    <3>1. ASSUME NEW j \in Known, NEW i \in 1..n, lru[i] = j
          PROVE  \E m \in 1..n : lru'[m] = j
      BY <3>1, <1>order
    <3>2. ASSUME NEW j \in Known, NEW i \in 1..n, lru'[i] = j
          PROVE  \E m \in 1..n : lru[m] = j
      BY <3>2, <1>order
    <3> QED
      BY <3>1, <3>2, <1>5
  <2>2. \A i, j \in DOMAIN lru' : lru'[i] = lru'[j] => i = j
    BY <1>4 DEF MovedToEnd, Distinct
  <2>3. handles' = handles /\ Len(lru') <= Capacity
    BY <1>5 DEF Hit, PoolInv, LruTracksHandles, n
  <2> QED
    BY <2>1, <2>2, <2>3 DEF PoolInv, LruTracksHandles
<1>9. QueueInOrderOfUse'
  <2>1. ASSUME NEW i \in 1..(n - 1)
        PROVE  /\ lru'[i] \in Known \ {k}
               /\ lastUse'[lru'[i]] = lastUse[lru'[i]]
               /\ lastUse[lru'[i]] \in 0..clock
    <3>1. lru'[i] \in Known \ {k}
      BY <1>4, <1>5 DEF MovedToEnd, n
    <3> QED
      BY <3>1, <1>1, <1>6
  <2>2. lastUse'[lru'[n]] = clock + 1
    BY <1>4, <1>6 DEF MovedToEnd, n
  <2>3. ASSUME NEW i \in DOMAIN lru'
        PROVE  lastUse'[lru'[i]] > 0
    <3>1. CASE i = n
      BY <3>1, <2>2, <1>1
    <3>2. CASE i # n
      <4>1. PICK a \in DOMAIN lru : lru[a] = lru'[i]
        BY <1>5, <1>order
      <4>2. lastUse[lru[a]] > 0
        BY DEF PoolInv, QueueInOrderOfUse
      <4> QED
        BY <4>1, <4>2, <3>2, <2>1, <1>5
    <3> QED
      BY <3>1, <3>2
  <2>4. ASSUME NEW i \in DOMAIN lru', NEW j \in DOMAIN lru', i < j
        PROVE  lastUse'[lru'[i]] < lastUse'[lru'[j]]
    <3>1. i \in 1..(n - 1)
      BY <2>4, <1>5
    <3>2. CASE j = n
      BY <3>1, <3>2, <2>1, <2>2, <1>1
    <3>3. CASE j # n
      <4>1. j \in 1..(n - 1)
        BY <3>3, <1>5
      <4>2. \E a, b \in 1..n : a < b /\ lru[a] = lru'[i] /\ lru[b] = lru'[j]
        BY <3>1, <4>1, <2>4, <1>order
      <4>3. PICK a \in 1..n, b \in 1..n :
              a < b /\ lru[a] = lru'[i] /\ lru[b] = lru'[j]
        BY <4>2
      <4>4. lastUse[lru[a]] < lastUse[lru[b]]
        BY <4>3, <1>5 DEF PoolInv, QueueInOrderOfUse
      <4> QED
        BY <3>1, <4>1, <4>3, <4>4, <2>1
    <3> QED
      BY <3>2, <3>3
  <2>5. ASSUME NEW j \in Known, handles'[j] = None, lastUse'[j] > 0
        PROVE  /\ Len(lru') = Capacity
               /\ \A i \in DOMAIN lru' : lastUse'[j] < lastUse'[lru'[i]]
    <3>1. j # k /\ lastUse'[j] = lastUse[j] /\ handles[j] = None
      BY <2>5, <1>6 DEF Hit
    <3>2. n = Capacity /\ \A i \in DOMAIN lru : lastUse[j] < lastUse[lru[i]]
      BY <3>1, <2>5 DEF PoolInv, QueueInOrderOfUse, n
    <3>3. lastUse[j] < clock + 1
      BY <1>1
    <3>4. ASSUME NEW i \in 1..(n - 1)
          PROVE  lastUse[j] < lastUse[lru'[i]]
      <4>0. i \in 1..n
        BY <1>5
      <4>1. PICK a \in 1..n : lru[a] = lru'[i]
        BY <4>0, <1>order
      <4> QED
        BY <4>1, <3>2, <1>5
    <3> QED
      BY <3>1, <3>2, <3>3, <3>4, <1>5, <2>1, <2>2
  <2> QED
    BY <2>3, <2>4, <2>5 DEF QueueInOrderOfUse
<1> QED
  BY <1>7, <1>8, <1>9 DEF PoolInv

\* The queue is not full: the new key joins it and nothing is evicted.
LEMMA OpenWithRoom ==
  ASSUME TypeOK, PoolInv, NEW c \in Caller, NEW k \in Key, Open(c, k),
         Len(lru) < Capacity
  PROVE  /\ lru' = Append(lru, k)
         /\ handles' = [handles EXCEPT ![k] = [key |-> k, opened |-> clock + 1]]
<1>1. lru \in Seq(Known) /\ k \in Known /\ Capacity \in Nat
  BY CapacityType DEF TypeOK, Open
<1>2. Touch(lru, k) = Append(lru, k)
  BY <1>1, TouchFresh DEF Open, PoolInv, LruTracksHandles
<1> DEFINE queue == Append(lru, k)
<1>3. queue \in Seq(Known) /\ Len(queue) = Len(lru) + 1
  BY <1>1, AppendProperties
<1> HIDE DEF queue
<1>4. ~(Len(queue) > Capacity)
  BY <1>1, <1>3
<1>5. /\ lru' = SubSeq(queue, 0 + 1, Len(queue))
      /\ handles' = [j \in Known |->
            IF j \in {queue[i] : i \in 1..0} THEN None
            ELSE IF j = k THEN [key |-> k, opened |-> clock + 1] ELSE handles[j]]
  BY <1>2, <1>4 DEF Open, queue
<1>6. lru' = queue
  BY <1>3, <1>5, SubSeqFull
<1>7. handles' = [j \in Known |->
            IF j = k THEN [key |-> k, opened |-> clock + 1] ELSE handles[j]]
  BY <1>5
<1> QED
  BY <1>1, <1>6, <1>7 DEF queue, TypeOK

\* The queue is full: its first key leaves it, and its reader the map.
LEMMA OpenWhenFull ==
  ASSUME TypeOK, PoolInv, NEW c \in Caller, NEW k \in Key, Open(c, k),
         Len(lru) = Capacity
  PROVE  /\ lru' \in Seq(Known) /\ Len(lru') = Len(lru)
         /\ \A i \in 1..(Len(lru) - 1) : lru'[i] = lru[i + 1]
         /\ lru'[Len(lru)] = k
         /\ handles' = [j \in Known |->
              IF j = lru[1] THEN None
              ELSE IF j = k THEN [key |-> k, opened |-> clock + 1] ELSE handles[j]]
<1> DEFINE n == Len(lru)
<1>1. lru \in Seq(Known) /\ k \in Known /\ n = Capacity /\ n \in Nat \ {0}
  BY CapacityType DEF TypeOK, Open
<1>2. Touch(lru, k) = Append(lru, k)
  <2>1. \A i \in DOMAIN lru : lru[i] # k
    BY DEF Open, PoolInv, LruTracksHandles
  <2>2. lru \in Seq(Known) /\ k \in Known
    BY <1>1
  <2> QED
    BY <2>1, <2>2, TouchFresh
<1> DEFINE queue == Append(lru, k)
<1>3. /\ queue \in Seq(Known) /\ Len(queue) = n + 1
      /\ \A i \in 1..n : queue[i] = lru[i]
      /\ queue[n + 1] = k
  BY <1>1, AppendProperties
<1> HIDE DEF queue, n
<1>4. Len(queue) > Capacity /\ Len(queue) - Capacity = 1
  BY <1>1, <1>3
<1>5. /\ lru' = SubSeq(queue, 1 + 1, Len(queue))
      /\ handles' = [j \in Known |->
            IF j \in {queue[i] : i \in 1..1} THEN None
            ELSE IF j = k THEN [key |-> k, opened |-> clock + 1] ELSE handles[j]]
  BY <1>2, <1>4 DEF Open, queue
<1>6. lru' = SubSeq(queue, 2, n + 1)
  BY <1>3, <1>5
<1>7. \A i \in 2..(n + 1) : queue[i] \in Known
  BY <1>1, <1>3
<1>8. /\ lru' \in Seq(Known) /\ Len(lru') = n
      /\ \A i \in 1..n : lru'[i] = queue[i + 1]
  BY <1>1, <1>6, <1>7, SubSeqProperties
<1>9. {queue[i] : i \in 1..1} = {lru[1]}
  BY <1>1, <1>3
<1>10. \A i \in 1..(n - 1) : lru'[i] = lru[i + 1]
  BY <1>1, <1>3, <1>8
<1>11. lru'[n] = k
  BY <1>1, <1>3, <1>8
<1> QED
  BY <1>5, <1>8, <1>9, <1>10, <1>11 DEF n

LEMMA OpenType ==
  ASSUME TypeOK, PoolInv, NEW c \in Caller, NEW k \in Key, Open(c, k)
  PROVE  TypeOK'
<1>1. k \in Known /\ clock \in Nat /\ lastUse \in [Known -> 0..clock]
  BY DEF TypeOK, Open
<1>2. [key |-> k, opened |-> clock + 1] \in Reader
  BY <1>1 DEF Reader
<1>3. lastUse' \in [Known -> 0..clock'] /\ clock' \in Nat
  BY <1>1 DEF Open, Return
<1>4. held' \in [Caller -> Reader \cup Error \cup {None}]
  BY <1>2 DEF TypeOK, Open, Return
<1>5. broken' \in SUBSET Known
  BY DEF TypeOK, Open
<1>6. handles' \in [Known -> Reader \cup {None}] /\ lru' \in Seq(Known)
  <2>1. CASE Len(lru) < Capacity
    <3>1. lru' \in Seq(Known)
      BY <1>1, <2>1, OpenWithRoom, AppendProperties DEF TypeOK
    <3> QED
      BY <1>1, <1>2, <2>1, <3>1, OpenWithRoom DEF TypeOK
  <2>2. CASE Len(lru) = Capacity
    BY <1>1, <1>2, <2>2, OpenWhenFull DEF TypeOK
  <2> QED
    BY <2>1, <2>2, CapacityType DEF TypeOK, PoolInv, LruTracksHandles
<1> QED
  BY <1>3, <1>4, <1>5, <1>6 DEF TypeOK

LEMMA OpenStep ==
  ASSUME TypeOK, PoolInv, NEW c \in Caller, NEW k \in Key, Open(c, k)
  PROVE  TypeOK' /\ PoolInv'
<1> DEFINE n == Len(lru)
           reader == [key |-> k, opened |-> clock + 1]
<1>1. /\ lru \in Seq(Known) /\ k \in Known /\ handles[k] = None
      /\ clock \in Nat /\ lastUse \in [Known -> 0..clock]
      /\ handles \in [Known -> Reader \cup {None}]
  BY DEF TypeOK, Open
<1>2. /\ \A i \in 1..n : lru[i] \in Known \ {k} /\ lastUse[lru[i]] \in 0..clock
      /\ \A i \in 1..n : lastUse[lru[i]] > 0
      /\ \A i, j \in 1..n : i < j => lastUse[lru[i]] < lastUse[lru[j]]
      /\ \A i, j \in 1..n : lru[i] = lru[j] => i = j
      /\ n <= Capacity /\ n \in Nat
  <2>1. DOMAIN lru = 1..n /\ n \in Nat
    BY <1>1
  <2>2. \A i \in 1..n : lru[i] \in Known \ {k}
    BY <1>1, <2>1 DEF PoolInv, LruTracksHandles
  <2>3. \A i \in 1..n : lastUse[lru[i]] \in 0..clock
    BY <1>1, <2>2
  <2>4. /\ \A i \in 1..n : lastUse[lru[i]] > 0
        /\ \A i, j \in 1..n : i < j => lastUse[lru[i]] < lastUse[lru[j]]
    BY <2>1 DEF PoolInv, QueueInOrderOfUse
  <2>5. (\A i, j \in 1..n : lru[i] = lru[j] => i = j) /\ n <= Capacity
    BY <2>1 DEF PoolInv, LruTracksHandles
  <2> QED
    BY <2>1, <2>2, <2>3, <2>4, <2>5
<1>3. \A j \in Known : (handles[j] # None) <=> (\E i \in 1..n : lru[i] = j)
  BY <1>1 DEF PoolInv, LruTracksHandles
<1>4. \A j \in Known : handles[j] # None => handles[j].key = j
  BY DEF PoolInv, LruTracksHandles
<1>5. \A j \in Known : handles[j] = None /\ lastUse[j] > 0 =>
                         /\ n = Capacity
                         /\ \A i \in 1..n : lastUse[j] < lastUse[lru[i]]
  BY <1>1 DEF PoolInv, QueueInOrderOfUse
<1>6. reader \in Reader /\ reader.key = k /\ reader # None
  BY <1>1, NoneIsNoReader DEF Reader
<1>7. lastUse'[k] = clock + 1 /\ \A j \in Known \ {k} : lastUse'[j] = lastUse[j]
  BY <1>1 DEF Open, Return
<1>8. Capacity \in Nat \ {0}
  BY CapacityType
<1>9. CASE n < Capacity
  <2>1. lru' = Append(lru, k) /\ handles' = [handles EXCEPT ![k] = reader]
    BY <1>9, OpenWithRoom
  <2> HIDE DEF n, reader
  <2>2. /\ Len(lru') = n + 1 /\ DOMAIN lru' = 1..(n + 1) /\ lru'[n + 1] = k
        /\ \A i \in 1..n : lru'[i] = lru[i]
    BY <1>1, <2>1, AppendProperties DEF n
  <2>3. \A j \in Known \ {k} : handles'[j] = handles[j]
    BY <1>1, <2>1
  <2>4. handles'[k] = reader
    BY <1>1, <2>1
  <2>5. \A j \in Known :
          /\ (handles'[j] # None) <=> (\E i \in 1..(n + 1) : lru'[i] = j)
          /\ handles'[j] # None => handles'[j].key = j
    BY <1>2, <1>3, <1>4, <1>6, <2>2, <2>3, <2>4
  <2>6. \A i, j \in 1..(n + 1) : lru'[i] = lru'[j] => i = j
    BY <1>2, <2>2
  <2>7. LruTracksHandles'
    BY <1>2, <1>8, <1>9, <2>2, <2>5, <2>6 DEF LruTracksHandles
  <2>8. \A i \in 1..(n + 1) : lastUse'[lru'[i]] > 0
    BY <1>1, <1>2, <1>7, <2>2
  <2>9. ASSUME NEW i \in 1..(n + 1), NEW j \in 1..(n + 1), i < j
        PROVE  lastUse'[lru'[i]] < lastUse'[lru'[j]]
    <3>1. i \in 1..n /\ lastUse'[lru'[i]] = lastUse[lru[i]]
      BY <1>2, <1>7, <2>2, <2>9
    <3>2. CASE j = n + 1
      BY <1>1, <1>2, <1>7, <2>2, <3>1, <3>2
    <3>3. CASE j \in 1..n
      BY <1>2, <1>7, <2>2, <2>9, <3>1, <3>3
    <3> QED
      BY <1>2, <3>2, <3>3
  <2>10. \A j \in Known : ~(handles'[j] = None /\ lastUse'[j] > 0)
    BY <1>5, <1>6, <1>7, <1>8, <1>9, <2>3, <2>4
  <2>11. QueueInOrderOfUse'
    BY <2>2, <2>8, <2>9, <2>10 DEF QueueInOrderOfUse
  <2> QED
    BY <2>7, <2>11, OpenType DEF PoolInv
<1>10. CASE n = Capacity
  <2>1. /\ lru' \in Seq(Known) /\ Len(lru') = n
        /\ \A i \in 1..(n - 1) : lru'[i] = lru[i + 1]
        /\ lru'[n] = k
        /\ handles' = [j \in Known |->
              IF j = lru[1] THEN None ELSE IF j = k THEN reader ELSE handles[j]]
    BY <1>10, OpenWhenFull
  <2> HIDE DEF n, reader
  <2>2. DOMAIN lru' = 1..n /\ n >= 1 /\ 1 \in 1..n /\ n \in 1..n
    BY <1>8, <1>10, <2>1
  <2>3. /\ lru[1] \in Known \ {k} /\ handles'[lru[1]] = None
        /\ handles'[k] = reader
        /\ \A j \in Known \ {k, lru[1]} : handles'[j] = handles[j]
    BY <1>1, <1>2, <2>1, <2>2
  <2>4. \A i \in 1..(n - 1) : i + 1 \in 1..n /\ i + 1 # 1
    BY <1>2
  <2>5. \A i \in 1..(n - 1) : lru'[i] \in Known \ {k, lru[1]}
    BY <1>2, <2>1, <2>2, <2>4
  <2>6. ASSUME NEW j \in Known
        PROVE  /\ (handles'[j] # None) <=> (\E i \in 1..n : lru'[i] = j)
               /\ handles'[j] # None => handles'[j].key = j
    <3>1. CASE j = k
      BY <1>6, <2>1, <2>2, <2>3, <3>1
    <3>2. CASE j = lru[1]
      BY <1>2, <2>1, <2>2, <2>3, <2>5, <3>2
    <3>3. CASE j # k /\ j # lru[1]
      <4>1. ASSUME handles[j] # None
            PROVE  \E i \in 1..n : lru'[i] = j
        <5>1. PICK a \in 1..n : lru[a] = j
          BY <1>3, <4>1
        <5>2. a - 1 \in 1..(n - 1) /\ (a - 1) + 1 = a
          BY <1>2, <3>3, <5>1
        <5> QED
          BY <1>2, <2>1, <5>1, <5>2
      <4>2. ASSUME NEW i \in 1..n, lru'[i] = j
            PROVE  handles[j] # None
        <5>1. i \in 1..(n - 1)
          BY <1>2, <2>1, <3>3, <4>2
        <5> QED
          BY <1>3, <2>1, <2>4, <4>2, <5>1
      <4>3. handles'[j] = handles[j]
        BY <2>3, <3>3
      <4> QED
        BY <1>4, <4>1, <4>2, <4>3
    <3> QED
      BY <3>1, <3>2, <3>3
  <2>7. ASSUME NEW i \in 1..n, NEW j \in 1..n, lru'[i] = lru'[j]
        PROVE  i = j
    <3>1. CASE i = n \/ j = n
      BY <1>2, <2>1, <2>5, <2>7, <3>1
    <3>2. CASE i # n /\ j # n
      <4>1. i \in 1..(n - 1) /\ j \in 1..(n - 1)
        BY <1>2, <3>2
      <4>2. lru[i + 1] = lru[j + 1] /\ i + 1 \in 1..n /\ j + 1 \in 1..n
        BY <2>1, <2>4, <2>7, <4>1
      <4> QED
        BY <1>2, <4>1, <4>2
    <3> QED
      BY <3>1, <3>2
  <2>8. LruTracksHandles'
    BY <1>10, <1>8, <2>1, <2>2, <2>6, <2>7 DEF LruTracksHandles
  <2>9. \A i \in 1..(n - 1) :
          /\ lastUse'[lru'[i]] = lastUse[lru[i + 1]]
          /\ lastUse[lru[i + 1]] \in 1..clock
    BY <1>1, <1>2, <1>7, <2>1, <2>4, <2>5
  <2>10. lastUse'[lru'[n]] = clock + 1
    BY <1>7, <2>1
  <2>11. \A i \in 1..n : lastUse'[lru'[i]] > 0
    <3>1. \A i \in 1..(n - 1) : lastUse'[lru'[i]] > 0
      BY <1>1, <2>9
    <3>2. lastUse'[lru'[n]] > 0
      BY <1>1, <2>10
    <3>3. \A i \in 1..n : i = n \/ i \in 1..(n - 1)
      BY <1>2
    <3> QED
      BY <3>1, <3>2, <3>3
  <2>12. ASSUME NEW i \in 1..n, NEW j \in 1..n, i < j
         PROVE  lastUse'[lru'[i]] < lastUse'[lru'[j]]
    <3>1. i \in 1..(n - 1)
      BY <1>2, <2>12
    <3>2. CASE j = n
      BY <1>1, <2>9, <2>10, <3>1, <3>2
    <3>3. CASE j # n
      <4>1. j \in 1..(n - 1) /\ i + 1 \in 1..n /\ j + 1 \in 1..n /\ i + 1 < j + 1
        BY <1>2, <2>12, <3>1, <3>3
      <4>2. lastUse[lru[i + 1]] < lastUse[lru[j + 1]]
        BY <1>2, <4>1
      <4> QED
        BY <2>9, <3>1, <4>1, <4>2
    <3> QED
      BY <3>2, <3>3
  <2>13. ASSUME NEW j \in Known, handles'[j] = None, lastUse'[j] > 0
         PROVE  \A i \in 1..n : lastUse'[j] < lastUse'[lru'[i]]
    <3>1. j # k /\ lastUse'[j] = lastUse[j]
      BY <1>6, <1>7, <2>3, <2>13
    <3>2. \A i \in 1..(n - 1) : lastUse[j] < lastUse[lru[i + 1]]
      <4>1. CASE j = lru[1]
        BY <1>2, <2>2, <2>4, <4>1
      <4>2. CASE j # lru[1]
        BY <1>5, <2>3, <2>4, <2>13, <3>1, <4>2
      <4> QED
        BY <4>1, <4>2
    <3>3. lastUse[j] < clock + 1
      BY <1>1
    <3>4. ASSUME NEW i \in 1..n
          PROVE  lastUse'[j] < lastUse'[lru'[i]]
      <4>1. CASE i = n
        BY <2>10, <3>1, <3>3, <4>1
      <4>2. CASE i # n
        <5>1. i \in 1..(n - 1)
          BY <1>2, <4>2
        <5> QED
          BY <2>9, <3>1, <3>2, <5>1
      <4> QED
        BY <4>1, <4>2
    <3> QED
      BY <3>4
  <2>14. QueueInOrderOfUse'
    BY <1>10, <2>1, <2>2, <2>11, <2>12, <2>13 DEF QueueInOrderOfUse, Capacity
  <2> QED
    BY <2>8, <2>14, OpenType DEF PoolInv
<1> QED
  BY <1>2, <1>8, <1>9, <1>10

-----------------------------------------------------------------------------
(* The invariant                                                           *)

LEMMA PoolStep == TypeOK /\ PoolInv /\ [Next]_vars => TypeOK' /\ PoolInv'
<1> SUFFICES ASSUME TypeOK, PoolInv, [Next]_vars
             PROVE  TypeOK' /\ PoolInv'
  OBVIOUS
<1> USE DEF PoolInv, LruTracksHandles, QueueInOrderOfUse, Capacity
<1>1. ASSUME NEW c \in Caller, NEW k \in Key, Hit(c, k)
      PROVE  TypeOK' /\ PoolInv'
  BY <1>1, HitStep
<1>2. ASSUME NEW c \in Caller, NEW k \in Key, Open(c, k)
      PROVE  TypeOK' /\ PoolInv'
  BY <1>2, OpenStep
<1>3. ASSUME NEW c \in Caller, NEW k \in Key, Fail(c, k)
      PROVE  TypeOK' /\ PoolInv'
  BY <1>3 DEF Fail, TypeOK, Error
<1>4. ASSUME NEW c \in Caller, Release(c)
      PROVE  TypeOK' /\ PoolInv'
  BY <1>4 DEF Release, TypeOK
<1>5. CASE FilesChange
  BY <1>5 DEF FilesChange, TypeOK
<1>6. CASE UNCHANGED vars
  BY <1>6 DEF vars, TypeOK
<1> QED
  BY <1>1, <1>2, <1>3, <1>4, <1>5, <1>6 DEF Next, GetOrOpen

\* The map of open readers and the queue of HandlePool.state agree, and the
\* queue is in the order of last use, in every reachable state (get_or_open).
THEOREM PoolIsConsistent == Spec => [](TypeOK /\ PoolInv)
BY PoolInit, PoolStep, PTL DEF Spec

-----------------------------------------------------------------------------
(* The LRU cache                                                           *)

\* The keys used after the key at p in the queue are those behind it.
LEMMA UsedAfter ==
  ASSUME TypeOK, PoolInv, NEW p \in DOMAIN lru
  PROVE  /\ {j \in Known : lastUse[j] > lastUse[lru[p]]} =
              {lru[i] : i \in (p + 1)..Len(lru)}
         /\ Cardinality({lru[i] : i \in (p + 1)..Len(lru)}) = Len(lru) - p
<1> DEFINE n == Len(lru)
           later == {j \in Known : lastUse[j] > lastUse[lru[p]]}
           behind == {lru[i] : i \in (p + 1)..n}
<1>1. /\ DOMAIN lru = 1..n /\ n \in Nat /\ p \in 1..n
      /\ \A i \in 1..n : lru[i] \in Known
      /\ \A j \in Known : lastUse[j] \in Nat
  BY DEF TypeOK
<1>2. /\ \A i, j \in 1..n : i < j => lastUse[lru[i]] < lastUse[lru[j]]
      /\ \A i, j \in 1..n : lru[i] = lru[j] => i = j
      /\ \A j \in Known : handles[j] = None /\ lastUse[j] > 0 => lastUse[j] < lastUse[lru[p]]
      /\ \A j \in Known : handles[j] # None => \E i \in 1..n : lru[i] = j
  BY <1>1 DEF PoolInv, LruTracksHandles, QueueInOrderOfUse
<1> HIDE DEF n
<1>3. ASSUME NEW j \in later
      PROVE  j \in behind
  <2>1. handles[j] # None
    BY <1>1, <1>2
  <2>2. PICK i \in 1..n : lru[i] = j
    BY <1>2, <2>1
  <2>3. ~(i < p) /\ i # p
    BY <1>1, <1>2, <2>2
  <2> QED
    BY <1>1, <2>2, <2>3
<1>4. ASSUME NEW i \in (p + 1)..n
      PROVE  lru[i] \in later
  BY <1>1, <1>2
<1>5. later = behind
  BY <1>3, <1>4
<1>6. Cardinality(behind) = n - p
  <2> DEFINE I == (p + 1)..n
             f == [i \in I |-> lru[i]]
  <2>1. \A i \in I : i \in 1..n
    BY <1>1
  <2>2. f \in Bijection(I, behind)
    BY <1>2, <2>1 DEF Bijection, Injection, Surjection, IsInjective
  <2>3. ExistsBijection(I, behind)
    BY <2>2 DEF ExistsBijection
  <2>4. IsFiniteSet(I) /\ Cardinality(I) = n - p
    <3>1. p + 1 \in Int /\ p \in Int /\ n \in Int /\ p <= n
      BY <1>1
    <3>2. IsFiniteSet(I) /\ Cardinality(I) = IF p + 1 > n THEN 0 ELSE n - (p + 1) + 1
      BY <3>1, FS_Interval
    <3> HIDE DEF I
    <3> QED
      BY <3>1, <3>2
  <2> QED
    BY <2>3, <2>4, FS_Bijection
<1> QED
  BY <1>5, <1>6 DEF n

LEMMA OpenAreMostRecent == TypeOK /\ PoolInv => MostRecentAreOpen
<1> SUFFICES ASSUME TypeOK, PoolInv, NEW k \in Known
             PROVE  (handles[k] # None) <=>
                      /\ lastUse[k] > 0
                      /\ Cardinality({j \in Known : lastUse[j] > lastUse[k]}) < Capacity
  BY DEF MostRecentAreOpen
<1> DEFINE later == {j \in Known : lastUse[j] > lastUse[k]}
<1>1. /\ Len(lru) \in Nat /\ DOMAIN lru = 1..Len(lru) /\ Capacity \in Nat \ {0}
      /\ Len(lru) <= Capacity
  BY CapacityType DEF TypeOK, PoolInv, LruTracksHandles
<1>2. ASSUME handles[k] # None
      PROVE  lastUse[k] > 0 /\ Cardinality(later) < Capacity
  <2>1. PICK p \in DOMAIN lru : lru[p] = k
    BY <1>2 DEF PoolInv, LruTracksHandles
  <2>2. Cardinality(later) = Len(lru) - p
    BY <2>1, UsedAfter
  <2>3. lastUse[k] > 0
    BY <2>1 DEF PoolInv, QueueInOrderOfUse
  <2> QED
    BY <1>1, <2>2, <2>3
<1>3. ASSUME handles[k] = None, lastUse[k] > 0
      PROVE  ~(Cardinality(later) < Capacity)
  <2>1. Len(lru) = Capacity /\ \A i \in DOMAIN lru : lastUse[k] < lastUse[lru[i]]
    BY <1>3 DEF PoolInv, QueueInOrderOfUse
  <2> DEFINE queued == {lru[i] : i \in 1..Capacity}
             f == [i \in 1..Capacity |-> lru[i]]
  <2>2. queued \subseteq later
    BY <1>1, <2>1 DEF TypeOK
  <2>3. \A i, j \in 1..Capacity : lru[i] = lru[j] => i = j
    BY <1>1, <2>1 DEF PoolInv, LruTracksHandles
  <2>4. f \in Bijection(1..Capacity, queued)
    BY <2>3 DEF Bijection, Injection, Surjection, IsInjective
  <2>5. ExistsBijection(1..Capacity, queued)
    BY <2>4 DEF ExistsBijection
  <2>6. IsFiniteSet(1..Capacity) /\ Cardinality(1..Capacity) = Capacity
    BY <1>1, FS_Interval
  <2>7. Cardinality(queued) = Capacity
    BY <2>5, <2>6, FS_Bijection
  <2>8. IsFiniteSet(later)
    BY PoolAssumption, FS_Subset
  <2>9. Cardinality(queued) <= Cardinality(later) /\ Cardinality(later) \in Nat
    BY <2>2, <2>8, FS_Subset, FS_CardinalityType
  <2> QED
    BY <1>1, <2>7, <2>9
<1> QED
  BY <1>2, <1>3

\* get_or_open keeps exactly the Capacity most recently returned dimensions
\* open, for every number of dimensions, every limit and every history.
THEOREM PoolIsLru == Spec => []MostRecentAreOpen
BY PoolIsConsistent, OpenAreMostRecent, PTL

-----------------------------------------------------------------------------
(* The reader a call returns                                               *)

LEMMA ReturnStep ==
  ASSUME TypeOK, PoolInv, [Next]_vars,
         NEW c \in Caller, NEW k \in Known,
         held[c] = None, lastUse'[k] # lastUse[k], held'[c] # held[c]
  PROVE  held'[c] = handles'[k] /\ held'[c].key = k
<1>1. ASSUME NEW d \in Caller, NEW m \in Key, Hit(d, m)
      PROVE  held'[c] = handles'[k] /\ held'[c].key = k
  <2>1. m = k /\ d = c /\ handles' = handles /\ held'[c] = handles[k] /\ handles[k] # None
    BY <1>1 DEF Hit, Return, TypeOK
  <2> QED
    BY <2>1 DEF PoolInv, LruTracksHandles
<1>2. ASSUME NEW d \in Caller, NEW m \in Key, Open(d, m)
      PROVE  held'[c] = handles'[k] /\ held'[c].key = k
  <2>1. m = k /\ d = c /\ held'[c] = [key |-> k, opened |-> clock + 1] /\ handles[k] = None
    BY <1>2 DEF Open, Return, TypeOK
  <2>2. CASE Len(lru) < Capacity
    BY <1>2, <2>1, <2>2, OpenWithRoom DEF TypeOK
  <2>3. CASE Len(lru) = Capacity
    <3>1. lru[1] # k
      BY <2>1, <2>3, CapacityType DEF TypeOK, PoolInv, LruTracksHandles
    <3> QED
      BY <1>2, <2>1, <2>3, <3>1, OpenWhenFull
  <2> QED
    BY <2>2, <2>3, CapacityType DEF TypeOK, PoolInv, LruTracksHandles
<1>3. ASSUME NEW d \in Caller, NEW m \in Key, Fail(d, m)
      PROVE  FALSE
  BY <1>3 DEF Fail
<1>4. ASSUME NEW d \in Caller, Release(d)
      PROVE  FALSE
  BY <1>4 DEF Release
<1>5. ~FilesChange /\ ~UNCHANGED vars
  BY DEF FilesChange, vars
<1> QED
  BY <1>1, <1>2, <1>3, <1>4, <1>5 DEF Next, GetOrOpen

\* A call returns a reader of the dimension it names, and the pool keeps that
\* reader, whatever --max-open-handles is (the while loop of get_or_open).
THEOREM ReturnedReaderIsCached == Spec => ReturnedIsCached
<1>1. TypeOK /\ PoolInv /\ [Next]_vars =>
        [\A c \in Caller, k \in Known :
           (held[c] = None /\ lastUse'[k] # lastUse[k] /\ held'[c] # held[c]) =>
              held'[c] = handles'[k] /\ held'[c].key = k]_vars
  BY ReturnStep
<1> QED
  BY <1>1, PoolIsConsistent, PTL DEF Spec, ReturnedIsCached

-----------------------------------------------------------------------------
(* Memory                                                                  *)

\* The dimensions with an open reader are those of the queue.
LEMMA OpenAreQueued ==
  ASSUME TypeOK, PoolInv
  PROVE  /\ {k \in Known : handles[k] # None} = {lru[i] : i \in 1..Len(lru)}
         /\ IsFiniteSet({k \in Known : handles[k] # None})
         /\ Cardinality({k \in Known : handles[k] # None}) = Len(lru)
<1> DEFINE n == Len(lru)
           open == {k \in Known : handles[k] # None}
           queued == {lru[i] : i \in 1..n}
           f == [i \in 1..n |-> lru[i]]
<1>1. n \in Nat /\ DOMAIN lru = 1..n /\ \A i \in 1..n : lru[i] \in Known
  BY DEF TypeOK
<1>2. open = queued
  BY <1>1 DEF PoolInv, LruTracksHandles
<1>3. \A i, j \in 1..n : lru[i] = lru[j] => i = j
  BY <1>1 DEF PoolInv, LruTracksHandles
<1>4. f \in Bijection(1..n, queued)
  BY <1>3 DEF Bijection, Injection, Surjection, IsInjective
<1>5. ExistsBijection(1..n, queued)
  BY <1>4 DEF ExistsBijection
<1>6. IsFiniteSet(1..n) /\ Cardinality(1..n) = n
  BY <1>1, FS_Interval
<1>7. IsFiniteSet(queued) /\ Cardinality(queued) = n
  BY <1>5, <1>6, FS_Bijection
<1> QED
  BY <1>2, <1>7

LEMMA MappedBound == TypeOK /\ PoolInv => MappedIsBounded
<1> SUFFICES ASSUME TypeOK, PoolInv
             PROVE  Cardinality(Mapped) <= Capacity + Cardinality(Caller)
  BY DEF MappedIsBounded
<1> DEFINE open == {k \in Known : handles[k] # None}
           H == {handles[k] : k \in open}
           U == {held[c] : c \in Caller}
<1>1. Capacity \in Nat /\ Len(lru) \in Nat /\ Len(lru) <= Capacity
  BY CapacityType DEF TypeOK, PoolInv, LruTracksHandles
<1>2. IsFiniteSet(H) /\ Cardinality(H) <= Capacity /\ Cardinality(H) \in Nat
  <2>1. IsFiniteSet(open) /\ Cardinality(open) = Len(lru)
    BY OpenAreQueued
  <2> DEFINE f == [k \in open |-> handles[k]]
  <2>2. f \in Surjection(open, H)
    BY DEF Surjection
  <2> HIDE DEF f, open, H
  <2>3. IsFiniteSet(H) /\ Cardinality(H) <= Cardinality(open)
    BY <2>1, <2>2, FS_Surjection
  <2> QED
    BY <1>1, <2>1, <2>3, FS_CardinalityType
<1>3. IsFiniteSet(U) /\ Cardinality(U) <= Cardinality(Caller)
      /\ Cardinality(U) \in Nat /\ Cardinality(Caller) \in Nat
  <2> DEFINE f == [c \in Caller |-> held[c]]
  <2>1. f \in Surjection(Caller, U)
    BY DEF Surjection
  <2>2. IsFiniteSet(Caller)
    BY PoolAssumption
  <2> HIDE DEF f, U
  <2>3. IsFiniteSet(U) /\ Cardinality(U) <= Cardinality(Caller)
    BY <2>1, <2>2, FS_Surjection
  <2> QED
    BY <2>2, <2>3, FS_CardinalityType
<1>4. Mapped \subseteq H \cup U
  BY DEF Mapped, Live
<1> HIDE DEF H, U
<1>5. IsFiniteSet(H \cup U)
      /\ Cardinality(H \cup U) = Cardinality(H) + Cardinality(U) - Cardinality(H \cap U)
  BY <1>2, <1>3, FS_Union
<1>6. Cardinality(H \cap U) \in Nat
  BY <1>2, FS_Intersection, FS_CardinalityType
<1>7. Cardinality(Mapped) <= Cardinality(H \cup U) /\ Cardinality(Mapped) \in Nat
  BY <1>4, <1>5, FS_Subset, FS_CardinalityType
<1> QED
  BY <1>1, <1>2, <1>3, <1>5, <1>6, <1>7

\* Files stay mapped for at most Capacity readers of the pool and one reader of
\* each thread, whatever is evicted while it is in use (get_or_open returns an
\* Arc).
THEOREM MappedReadersAreBounded == Spec => []MappedIsBounded
BY PoolIsConsistent, MappedBound, PTL

-----------------------------------------------------------------------------
(* The pool as a cache of readers                                          *)

LEMMA CacheInit == Init => Cache!Init
BY DEF Init, Cache!Init

\* The cache counts with the same cardinality as the pool.
LEMMA CardinalitySame ==
  ASSUME NEW S
  PROVE  Cache!Cardinality(S) = Cardinality(S)
BY DEF Cache!Cardinality, Cardinality

LEMMA OpenIsOpenNew ==
  ASSUME TypeOK, PoolInv, NEW c \in Caller, NEW k \in Key, Open(c, k)
  PROVE  k \in Known /\ Cache!OpenNew(c, k)
<1> DEFINE reader == [key |-> k, opened |-> clock + 1]
<1>1. /\ k \in Known /\ handles[k] = None /\ k \notin broken
      /\ held[c] = None /\ held' = [held EXCEPT ![c] = reader]
      /\ clock' = clock + 1 /\ UNCHANGED broken
  BY DEF Open, Return
<1>2. Cache!Cardinality(Cache!Kept) = Len(lru)
  BY OpenAreQueued, CardinalitySame DEF Cache!Kept
<1>3. Cache!Answer(c, reader)
  BY <1>1 DEF Cache!Answer
<1>4. handles \in [Known -> Reader \cup {None}] /\ lru \in Seq(Known)
      /\ Len(lru) \in Nat /\ Capacity \in Nat \ {0} /\ Len(lru) <= Capacity
  BY CapacityType DEF TypeOK, PoolInv, LruTracksHandles
<1>5. CASE Len(lru) < Capacity
  <2>1. handles' = [handles EXCEPT ![k] = reader]
    BY <1>5, OpenWithRoom
  <2>2. Cache!Cardinality(Cache!Kept) < Capacity
    BY <1>2, <1>5
  <2> QED
    BY <1>1, <1>3, <2>1, <2>2 DEF Cache!OpenNew
<1>6. CASE Len(lru) = Capacity
  <2>1. handles' = [j \in Known |->
          IF j = lru[1] THEN None ELSE IF j = k THEN reader ELSE handles[j]]
    BY <1>6, OpenWhenFull
  <2>2. 1 \in DOMAIN lru
    BY <1>4, <1>6
  <2>3. lru[1] \in Known /\ handles[lru[1]] # None /\ lru[1] # k
    BY <1>1, <1>4, <2>2 DEF PoolInv, LruTracksHandles
  <2>4. lru[1] \in Cache!Kept
    BY <2>3 DEF Cache!Kept
  <2> DEFINE j == lru[1]
  <2> HIDE DEF reader, j
  <2>5. handles' = [handles EXCEPT ![k] = reader, ![j] = None]
    BY <1>1, <1>4, <2>1, <2>3 DEF j
  <2>6. /\ Cache!Cardinality(Cache!Kept) = Capacity
        /\ \E i \in Cache!Kept :
             handles' = [handles EXCEPT ![k] = [key |-> k, opened |-> clock + 1], ![i] = None]
    BY <1>2, <1>6, <2>4, <2>5 DEF reader, j
  <2> QED
    BY <1>1, <1>3, <2>6 DEF Cache!OpenNew, reader
<1> QED
  BY <1>4, <1>5, <1>6

LEMMA CacheStep == TypeOK /\ PoolInv /\ [Next]_vars => [Cache!Next]_(Cache!cacheVars)
<1> SUFFICES ASSUME TypeOK, PoolInv, [Next]_vars
             PROVE  [Cache!Next]_(Cache!cacheVars)
  OBVIOUS
<1>1. ASSUME NEW c \in Caller, NEW k \in Key, Hit(c, k)
      PROVE  Cache!Next
  <2>1. k \in Known /\ Cache!Share(c, k)
    BY <1>1 DEF Hit, Return, Cache!Share, Cache!Answer
  <2> QED
    BY <2>1 DEF Cache!Next
<1>2. ASSUME NEW c \in Caller, NEW k \in Key, Open(c, k)
      PROVE  Cache!Next
  BY <1>2, OpenIsOpenNew DEF Cache!Next
<1>3. ASSUME NEW c \in Caller, NEW k \in Key, Fail(c, k)
      PROVE  Cache!Next
  <2>1. Cache!Refuse(c, k)
    BY <1>3 DEF Fail, Cache!Refuse, Cache!Answer
  <2> QED
    BY <2>1 DEF Cache!Next
<1>4. ASSUME NEW c \in Caller, Release(c)
      PROVE  Cache!Next
  <2>1. Cache!Drop(c)
    BY <1>4 DEF Release, Cache!Drop
  <2> QED
    BY <2>1 DEF Cache!Next
<1>5. CASE FilesChange
  <2>1. Cache!FilesChange
    BY <1>5 DEF FilesChange, Cache!FilesChange
  <2> QED
    BY <2>1 DEF Cache!Next
<1>6. CASE UNCHANGED vars
  BY <1>6 DEF vars, Cache!cacheVars
<1> QED
  BY <1>1, <1>2, <1>3, <1>4, <1>5, <1>6 DEF Next, GetOrOpen

\* The pool is a cache of readers: its queue decides which reader goes, never
\* whether one is kept, shared or given up (HandlePool::get_or_open).
THEOREM PoolImplementsCache == Spec => PoolIsReaderCache
<1>1. Spec => Cache!Spec
  BY PoolIsConsistent, CacheInit, CacheStep, PTL DEF Spec, Cache!Spec
<1> QED
  BY <1>1 DEF PoolIsReaderCache

\* Every variable of the pool keeps its type.
THEOREM PoolTypes == Spec => []TypeOK
BY PoolIsConsistent, PTL
=============================================================================
