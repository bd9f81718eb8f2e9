--------------------------- MODULE ServicePoolProofs ---------------------------
(***************************************************************************)
(* The pool of the HTTP service keeps its map and its queue together, and  *)
(* is a cache of readers, for every set of dimensions, every number of     *)
(* threads between the two locks and every limit.                          *)
(***************************************************************************)
EXTENDS ServicePool, SequenceTheorems, FiniteSetTheorems, TLAPS

LEMMA CapacityType == Capacity \in Nat \ {0}
BY PoolAssumption DEF Capacity

-----------------------------------------------------------------------------
(* The queue                                                               *)

Distinct(s) == \A i, j \in DOMAIN s : s[i] = s[j] => i = j
Elements(s) == {s[i] : i \in DOMAIN s}

LEMMA TouchNew ==
  ASSUME NEW S, NEW s \in Seq(S), NEW e \in S, e \notin Elements(s)
  PROVE  Touch(s, e) = Append(s, e)
<1>1. ~\E i \in 1..Len(s) : s[i] = e
  BY DEF Elements
<1> QED
  BY <1>1 DEF Touch, RemoveFirst, SelectInSeq

\* A key of the queue that is used again changes its place, and no other key
\* joins or leaves.
LEMMA TouchKept ==
  ASSUME NEW S, NEW s \in Seq(S), Distinct(s), NEW p \in DOMAIN s
  PROVE  LET t == Touch(s, s[p]) IN
         /\ t \in Seq(S) /\ Len(t) = Len(s)
         /\ Distinct(t) /\ Elements(t) = Elements(s)
<1> DEFINE n == Len(s)
           I == {i \in 1..n : s[i] = s[p]}
           a == SubSeq(s, 1, p - 1)
           b == SubSeq(s, p + 1, n)
           r == a \o b
           t == Append(r, s[p])
           \* where an entry of t was in s, and an entry of s is in t
           f == [i \in 1..n |-> IF i = n THEN p ELSE IF i < p THEN i ELSE i + 1]
           g == [i \in 1..n |-> IF i = p THEN n ELSE IF i < p THEN i ELSE i - 1]
<1>1. n \in Nat /\ p \in 1..n /\ DOMAIN s = 1..n
  OBVIOUS
<1>2. Touch(s, s[p]) = t
  <2>1. I = {p}
    BY DEF Distinct
  <2>2. Min(I) = p
    BY <2>1 DEF Min
  <2>3. \E i \in 1..n : s[i] = s[p]
    BY <1>1
  <2>4. RemoveFirst(s, s[p]) = RemoveAt(s, IF I # {} THEN Min(I) ELSE 0)
    BY <2>3 DEF RemoveFirst, SelectInSeq
  <2>5. RemoveFirst(s, s[p]) = RemoveAt(s, p)
    BY <2>1, <2>2, <2>4
  <2> QED
    BY <2>5 DEF Touch, RemoveAt
<1>3. /\ a \in Seq(S) /\ Len(a) = p - 1
      /\ \A i \in 1..(p - 1) : a[i] = s[i]
  BY SubSeqProperties
<1>4. /\ b \in Seq(S) /\ Len(b) = n - p
      /\ \A i \in 1..(n - p) : b[i] = s[p + i]
  BY SubSeqProperties
<1>5. s[p] \in S
  BY <1>1
<1> HIDE DEF a, b, n
<1>6. /\ r \in Seq(S) /\ Len(r) = n - 1
      /\ \A i \in 1..(n - 1) : r[i] = IF i < p THEN a[i] ELSE b[i - (p - 1)]
  <2>1. Len(a) + Len(b) = n - 1
    BY <1>1, <1>3, <1>4
  <2>2. /\ r \in Seq(S) /\ Len(r) = Len(a) + Len(b)
        /\ \A i \in 1..(Len(a) + Len(b)) : r[i] = IF i <= Len(a) THEN a[i] ELSE b[i - Len(a)]
    BY <1>3, <1>4, ConcatProperties
  <2> HIDE DEF r
  <2>3. ASSUME NEW i \in 1..(n - 1)
        PROVE  r[i] = IF i < p THEN a[i] ELSE b[i - (p - 1)]
    <3>1. i <= p - 1 <=> i < p
      BY <1>1
    <3> QED
      BY <1>3, <2>1, <2>2, <3>1
  <2> QED
    BY <2>1, <2>2, <2>3
<1> HIDE DEF r
<1>7. t \in Seq(S) /\ Len(t) = n /\ t[n] = s[p]
      /\ \A i \in 1..(n - 1) : t[i] = r[i]
  BY <1>1, <1>5, <1>6, AppendProperties
<1> HIDE DEF t
<1>8. ASSUME NEW i \in 1..n
      PROVE  f[i] \in 1..n /\ g[i] \in 1..n /\ g[f[i]] = i /\ f[g[i]] = i
  BY <1>1
<1>9. ASSUME NEW i \in 1..n
      PROVE  t[i] = s[f[i]]
  <2>1. CASE i = n
    BY <1>7, <2>1
  <2>2. CASE i \in 1..(n - 1) /\ i < p
    <3>1. f[i] = i /\ t[i] = a[i] /\ i \in 1..(p - 1)
      BY <1>1, <1>6, <1>7, <2>2
    <3> QED
      BY <1>3, <3>1
  <2>3. CASE i \in 1..(n - 1) /\ ~(i < p)
    <3>1. f[i] = i + 1 /\ t[i] = b[i - (p - 1)]
          /\ i - (p - 1) \in 1..(n - p) /\ p + (i - (p - 1)) = i + 1
      BY <1>1, <1>6, <1>7, <2>3
    <3> QED
      BY <1>4, <3>1
  <2> QED
    BY <1>1, <2>1, <2>2, <2>3
<1>10. DOMAIN t = 1..n
  BY <1>7
<1> HIDE DEF f, g
<1>11. Distinct(t)
  <2>1. ASSUME NEW i \in 1..n, NEW j \in 1..n, t[i] = t[j]
        PROVE  i = j
    <3>1. s[f[i]] = s[f[j]] /\ f[i] \in 1..n /\ f[j] \in 1..n
      BY <1>8, <1>9, <2>1
    <3>2. f[i] = f[j]
      BY <1>1, <3>1 DEF Distinct
    <3> QED
      BY <1>8, <3>2
  <2> QED
    BY <1>10, <2>1 DEF Distinct
<1>12. Elements(t) = Elements(s)
  <2>1. ASSUME NEW i \in 1..n
        PROVE  t[i] \in Elements(s) /\ s[i] \in Elements(t)
    <3>1. t[i] = s[f[i]] /\ f[i] \in 1..n
      BY <1>8, <1>9
    <3>2. s[i] = t[g[i]] /\ g[i] \in 1..n
      BY <1>8, <1>9
    <3> QED
      BY <1>1, <1>10, <3>1, <3>2 DEF Elements
  <2> QED
    BY <1>1, <1>10, <2>1 DEF Elements
<1> QED
  BY <1>2, <1>7, <1>11, <1>12 DEF n

-----------------------------------------------------------------------------
(* Map and queue                                                           *)

\* A thread that waits for the write lock holds no reader.
WaitersHoldNothing == \A c \in Caller : wanted[c] # None => held[c] = None

PoolInv == LruTracksHandles /\ WaitersHoldNothing

LEMMA PoolInit == Init => TypeOK /\ PoolInv
BY CapacityType DEF Init, TypeOK, PoolInv, LruTracksHandles, WaitersHoldNothing

\* What SlowOpen does to the queue and the map: it takes the first key, if the
\* queue is full, and its reader out.
Opened(k, reader) ==
  /\ handles' = IF Len(lru) < Capacity THEN [handles EXCEPT ![k] = reader]
                ELSE [handles EXCEPT ![k] = reader, ![lru[1]] = None]
  /\ lru' = IF Len(lru) < Capacity THEN Append(lru, k) ELSE Append(Tail(lru), k)

LEMMA SlowOpenOpens ==
  ASSUME TypeOK, PoolInv, NEW c \in Caller, SlowOpen(c)
  PROVE  Opened(wanted[c], [key |-> wanted[c], opened |-> clock + 1])
<1> DEFINE n == Len(lru)
           k == wanted[c]
           reader == [key |-> k, opened |-> clock + 1]
           queue == Append(lru, k)
<1>1. /\ lru \in Seq(Known) /\ k \in Known /\ n \in Nat /\ DOMAIN lru = 1..n
      /\ Capacity \in Nat \ {0} /\ n <= Capacity
      /\ handles \in [Known -> Reader \cup {None}]
  BY CapacityType DEF TypeOK, SlowOpen, PoolInv, LruTracksHandles
<1>2. k \notin Elements(lru)
  BY <1>1 DEF SlowOpen, Cached, PoolInv, LruTracksHandles, Elements
<1>3. Touch(lru, k) = queue
  BY <1>1, <1>2, TouchNew
<1>4. /\ queue \in Seq(Known) /\ Len(queue) = n + 1
      /\ \A i \in 1..n : queue[i] = lru[i]
      /\ queue[n + 1] = k
  BY <1>1, AppendProperties
<1> HIDE DEF queue, n, reader
<1>5. CASE n < Capacity
  <2>1. ~(n + 1 > Capacity)
    BY <1>1, <1>5
  <2>2. /\ lru' = SubSeq(queue, 0 + 1, Len(queue))
        /\ handles' = [j \in Known |-> IF j \in {queue[i] : i \in 1..0} THEN None
                                       ELSE IF j = k THEN reader ELSE handles[j]]
    BY <1>3, <1>4, <2>1 DEF SlowOpen, reader
  <2>3. lru' = queue
    BY <1>4, <2>2, SubSeqFull
  <2>4. handles' = [j \in Known |-> IF j = k THEN reader ELSE handles[j]]
    BY <2>2
  <2>5. handles' = [handles EXCEPT ![k] = reader]
    BY <1>1, <2>4
  <2> QED
    BY <1>5, <2>3, <2>5 DEF Opened, queue, n, reader
<1>6. CASE n = Capacity
  <2>1. /\ Len(queue) > Capacity /\ Len(queue) - Capacity = 1
        /\ ~(n < Capacity) /\ 1 \in 1..n
    BY <1>1, <1>4, <1>6
  <2>2. /\ lru' = SubSeq(queue, 1 + 1, Len(queue))
        /\ handles' = [j \in Known |-> IF j \in {queue[i] : i \in 1..1} THEN None
                                       ELSE IF j = k THEN reader ELSE handles[j]]
    BY <1>3, <2>1 DEF SlowOpen, reader
  <2>3. lru[1] \in Known /\ lru[1] # k
    BY <1>1, <1>2, <2>1 DEF Elements
  <2>4. {queue[i] : i \in 1..1} = {lru[1]}
    BY <1>4, <2>1
  <2>5. handles' = [handles EXCEPT ![k] = reader, ![lru[1]] = None]
    BY <1>1, <2>2, <2>3, <2>4
  <2>6. lru' = Append(Tail(lru), k)
    <3>1. lru # <<>> /\ queue # <<>>
      BY <1>1, <1>4, <2>1
    <3>2. lru' = Tail(queue)
      BY <1>4, <2>2, <3>1, TailIsSubSeq
    <3>3. Tail(queue) = Append(Tail(lru), k)
      BY <1>1, <3>1, HeadTailAppend DEF queue
    <3> QED
      BY <3>2, <3>3
  <2> QED
    BY <2>1, <2>5, <2>6 DEF Opened, n, reader
<1> QED
  BY <1>1, <1>5, <1>6

\* A queue that is full loses its first key and gets one that it had not.
LEMMA NextQueue ==
  ASSUME TypeOK, LruTracksHandles, NEW k \in Known, handles[k] = None,
         NEW t, t = IF Len(lru) < Capacity THEN Append(lru, k) ELSE Append(Tail(lru), k)
  PROVE  /\ t \in Seq(Known) /\ Len(t) <= Capacity
         /\ Distinct(t)
         /\ Elements(t) = IF Len(lru) < Capacity THEN Elements(lru) \cup {k}
                          ELSE (Elements(lru) \ {lru[1]}) \cup {k}
         /\ Len(lru) < Capacity \/ lru[1] \in Known \ {k}
<1> DEFINE n == Len(lru)
<1>1. /\ lru \in Seq(Known) /\ n \in Nat /\ DOMAIN lru = 1..n
      /\ Capacity \in Nat \ {0} /\ n <= Capacity
  BY CapacityType DEF TypeOK, LruTracksHandles
<1>2. \A i \in 1..n : lru[i] \in Known /\ lru[i] # k
  BY <1>1 DEF LruTracksHandles
<1>3. \A i, j \in 1..n : lru[i] = lru[j] => i = j
  BY <1>1 DEF LruTracksHandles
<1> HIDE DEF n
<1>4. CASE n < Capacity
  <2>1. /\ t \in Seq(Known) /\ Len(t) = n + 1 /\ DOMAIN t = 1..(n + 1)
        /\ \A i \in 1..n : t[i] = lru[i]
        /\ t[n + 1] = k
    BY <1>1, <1>4, AppendProperties DEF n
  <2>2. Distinct(t)
    BY <1>1, <1>2, <1>3, <2>1 DEF Distinct
  <2>3. Elements(t) = Elements(lru) \cup {k}
    <3>1. ASSUME NEW i \in 1..(n + 1)
          PROVE  t[i] \in Elements(lru) \cup {k}
      BY <1>1, <2>1 DEF Elements
    <3>2. ASSUME NEW i \in 1..n
          PROVE  lru[i] \in Elements(t)
      <4>1. i \in DOMAIN t /\ t[i] = lru[i]
        BY <1>1, <2>1
      <4> QED
        BY <4>1 DEF Elements
    <3>3. k \in Elements(t)
      <4>1. n + 1 \in DOMAIN t /\ t[n + 1] = k
        BY <1>1, <2>1
      <4> QED
        BY <4>1 DEF Elements
    <3> QED
      BY <1>1, <2>1, <3>1, <3>2, <3>3 DEF Elements
  <2> QED
    BY <1>1, <1>4, <2>1, <2>2, <2>3 DEF n
<1>5. CASE n = Capacity
  <2>1. lru # <<>> /\ 1 \in 1..n
    BY <1>1, <1>5 DEF n
  <2>2. /\ Tail(lru) \in Seq(Known) /\ Len(Tail(lru)) = n - 1
        /\ \A i \in 1..(n - 1) : Tail(lru)[i] = lru[i + 1]
    BY <1>1, <2>1, HeadTailProperties DEF n
  <2>3. t = Append(Tail(lru), k)
    BY <1>1, <1>5 DEF n
  <2>4. /\ t \in Seq(Known) /\ Len(t) = n /\ DOMAIN t = 1..n
        /\ \A i \in 1..(n - 1) : t[i] = lru[i + 1]
        /\ t[n] = k
    BY <1>1, <2>1, <2>2, <2>3, AppendProperties
  <2>5. Distinct(t)
    <3>1. ASSUME NEW i \in 1..n, NEW j \in 1..n, t[i] = t[j]
          PROVE  i = j
      <4>1. CASE i # n /\ j # n
        BY <1>1, <1>3, <2>4, <3>1, <4>1
      <4>2. CASE i = n \/ j = n
        BY <1>1, <1>2, <2>4, <3>1, <4>2
      <4> QED
        BY <4>1, <4>2
    <3> QED
      BY <2>4, <3>1 DEF Distinct
  <2>6. Elements(t) = (Elements(lru) \ {lru[1]}) \cup {k}
    <3>1. ASSUME NEW i \in 1..n
          PROVE  t[i] \in (Elements(lru) \ {lru[1]}) \cup {k}
      <4>1. CASE i = n
        BY <2>4, <4>1
      <4>2. CASE i # n
        <5>1. t[i] = lru[i + 1] /\ i + 1 \in 1..n /\ i + 1 # 1
          BY <1>1, <2>4, <4>2
        <5>2. lru[i + 1] # lru[1]
          BY <1>3, <2>1, <5>1
        <5> QED
          BY <1>1, <5>1, <5>2 DEF Elements
      <4> QED
        BY <4>1, <4>2
    <3>2. ASSUME NEW i \in 1..n, lru[i] # lru[1]
          PROVE  lru[i] \in Elements(t)
      <4>1. i - 1 \in 1..(n - 1) /\ (i - 1) + 1 = i
        BY <1>1, <3>2
      <4>2. i - 1 \in DOMAIN t /\ t[i - 1] = lru[i]
        BY <1>1, <2>4, <4>1
      <4> QED
        BY <4>2 DEF Elements
    <3>3. k \in Elements(t)
      <4>1. n \in DOMAIN t /\ t[n] = k
        BY <2>1, <2>4, <1>1
      <4> QED
        BY <4>1 DEF Elements
    <3>4. \A e \in Elements(t) : e \in (Elements(lru) \ {lru[1]}) \cup {k}
      BY <2>4, <3>1 DEF Elements
    <3>5. \A e \in Elements(lru) \ {lru[1]} : e \in Elements(t)
      BY <1>1, <3>2 DEF Elements
    <3> QED
      BY <3>3, <3>4, <3>5
  <2>7. lru[1] \in Known \ {k} /\ ~(n < Capacity)
    BY <1>1, <1>2, <1>5, <2>1
  <2> QED
    BY <1>1, <1>5, <2>4, <2>5, <2>6, <2>7 DEF n
<1> QED
  BY <1>1, <1>4, <1>5

\* The agreement of map and queue, in terms of the keys of the queue.
Agree ==
  /\ \A k \in Known :
       /\ (handles[k] # None) <=> (k \in Elements(lru))
       /\ handles[k] # None => handles[k].key = k
  /\ Distinct(lru)
  /\ Len(lru) <= Capacity

LEMMA TracksByElements == LruTracksHandles <=> Agree
<1>1. \A k : k \in Elements(lru) <=> \E i \in DOMAIN lru : lru[i] = k
  BY DEF Elements
<1> QED
  BY <1>1 DEF LruTracksHandles, Distinct, Agree

LEMMA SlowOpenStep ==
  ASSUME TypeOK, PoolInv, NEW c \in Caller, SlowOpen(c)
  PROVE  TypeOK' /\ LruTracksHandles'
<1> DEFINE k == wanted[c]
           reader == [key |-> k, opened |-> clock + 1]
<1>1. /\ k \in Known /\ handles[k] = None /\ clock \in Nat
      /\ handles \in [Known -> Reader \cup {None}]
  BY DEF TypeOK, SlowOpen, Cached
<1>2. Opened(k, reader)
  BY SlowOpenOpens
<1>3. reader \in Reader /\ reader # None /\ reader.key = k
  BY <1>1, NoneAssumption DEF Reader
<1>4. /\ lru' \in Seq(Known) /\ Len(lru') <= Capacity
      /\ Distinct(lru')
      /\ Elements(lru') = IF Len(lru) < Capacity THEN Elements(lru) \cup {k}
                          ELSE (Elements(lru) \ {lru[1]}) \cup {k}
      /\ Len(lru) < Capacity \/ lru[1] \in Known \ {k}
  BY <1>1, <1>2, NextQueue DEF Opened, PoolInv
<1>5. TypeOK'
  <2>1. handles' \in [Known -> Reader \cup {None}]
    BY <1>1, <1>2, <1>3, <1>4 DEF Opened
  <2>2. held' \in [Caller -> Reader \cup Error \cup {None}] /\ clock' \in Nat
    BY <1>1, <1>3 DEF TypeOK, SlowOpen, Return
  <2>3. wanted' \in [Caller -> Key \cup {None}] /\ broken' \in SUBSET Known
    BY DEF TypeOK, SlowOpen
  <2> QED
    BY <1>4, <2>1, <2>2, <2>3 DEF TypeOK
<1>6. \A j \in Known : /\ handles[j] # None <=> j \in Elements(lru)
                       /\ handles[j] # None => handles[j].key = j
  BY TracksByElements DEF PoolInv, Agree
<1> HIDE DEF reader, k
<1>7. ASSUME NEW j \in Known
      PROVE  /\ handles'[j] # None <=> j \in Elements(lru')
             /\ handles'[j] # None => handles'[j].key = j
  <2>1. CASE j = k
    <3>1. handles'[j] = reader
      BY <1>1, <1>2, <1>4, <2>1 DEF Opened
    <3> QED
      BY <1>3, <1>4, <2>1, <3>1
  <2>2. CASE j # k /\ ~(Len(lru) < Capacity) /\ j = lru[1]
    <3>1. handles'[j] = None
      BY <1>1, <1>2, <1>4, <2>2 DEF Opened
    <3> QED
      BY <1>4, <2>2, <3>1
  <2>3. CASE j # k /\ (Len(lru) < Capacity \/ j # lru[1])
    <3>1. handles'[j] = handles[j]
      BY <1>1, <1>2, <1>4, <2>3 DEF Opened
    <3> QED
      BY <1>4, <1>6, <2>3, <3>1
  <2> QED
    BY <2>1, <2>2, <2>3
<1>8. LruTracksHandles'
  BY <1>4, <1>7 DEF LruTracksHandles, Elements, Distinct
<1> QED
  BY <1>5, <1>8

LEMMA SlowHitStep ==
  ASSUME TypeOK, PoolInv, NEW c \in Caller, SlowHit(c)
  PROVE  TypeOK' /\ LruTracksHandles'
<1> DEFINE k == wanted[c]
<1>1. k \in Known /\ handles[k] # None /\ handles' = handles /\ lru' = Touch(lru, k)
  BY DEF SlowHit, Cached
<1>2. /\ \A j \in Known : /\ handles[j] # None <=> j \in Elements(lru)
                          /\ handles[j] # None => handles[j].key = j
      /\ Distinct(lru) /\ Len(lru) <= Capacity
  BY TracksByElements DEF PoolInv, Agree
<1>3. lru \in Seq(Known)
  BY DEF TypeOK
<1>4. PICK p \in DOMAIN lru : lru[p] = k
  BY <1>1, <1>2 DEF Elements
<1>5. /\ lru' \in Seq(Known) /\ Len(lru') = Len(lru)
      /\ Distinct(lru') /\ Elements(lru') = Elements(lru)
  BY <1>1, <1>2, <1>3, <1>4, TouchKept
<1>6. LruTracksHandles'
  <2>1. \A j : j \in Elements(lru') <=> \E i \in DOMAIN lru' : lru'[i] = j
    BY DEF Elements
  <2>2. \A j \in Known : /\ handles'[j] # None <=> j \in Elements(lru')
                         /\ handles'[j] # None => handles'[j].key = j
    BY <1>1, <1>2, <1>5
  <2>3. \A i, j \in DOMAIN lru' : lru'[i] = lru'[j] => i = j
    BY <1>5 DEF Distinct
  <2>4. Len(lru') <= Capacity
    BY <1>2, <1>5
  <2> QED
    BY <2>1, <2>2, <2>3, <2>4 DEF LruTracksHandles
<1>7. TypeOK'
  <2>1. handles[k] \in Reader
    BY <1>1 DEF TypeOK
  <2>2. held' \in [Caller -> Reader \cup Error \cup {None}] /\ clock' \in Nat
    BY <2>1 DEF TypeOK, SlowHit, Return
  <2>3. wanted' \in [Caller -> Key \cup {None}] /\ broken' \in SUBSET Known
    BY DEF TypeOK, SlowHit
  <2> QED
    BY <1>1, <1>5, <2>2, <2>3 DEF TypeOK
<1> QED
  BY <1>6, <1>7

\* The steps that leave the map and the queue alone.
LEMMA OtherTypes ==
  ASSUME TypeOK, LruTracksHandles, UNCHANGED <<handles, lru>>,
         \/ \E c \in Caller, k \in Key : FastHit(c, k) \/ FastMiss(c, k)
         \/ \E c \in Caller : SlowFail(c) \/ Release(c)
         \/ FilesChange
  PROVE  TypeOK' /\ LruTracksHandles'
<1>1. LruTracksHandles'
  BY DEF LruTracksHandles
<1>2. ASSUME NEW c \in Caller, NEW k \in Key, FastHit(c, k)
      PROVE  TypeOK'
  BY <1>2 DEF TypeOK, FastHit, Return, Cached
<1>3. ASSUME NEW c \in Caller, NEW k \in Key, FastMiss(c, k)
      PROVE  TypeOK'
  BY <1>3 DEF TypeOK, FastMiss
<1>4. ASSUME NEW c \in Caller, SlowFail(c)
      PROVE  TypeOK'
  BY <1>4 DEF TypeOK, SlowFail, Error
<1>5. ASSUME NEW c \in Caller, Release(c)
      PROVE  TypeOK'
  BY <1>5 DEF TypeOK, Release
<1>6. ASSUME FilesChange
      PROVE  TypeOK'
  <2>1. broken' \in SUBSET Known
    BY <1>6 DEF TypeOK, FilesChange
  <2> QED
    BY <1>6, <2>1 DEF TypeOK, FilesChange
<1> QED
  BY <1>1, <1>2, <1>3, <1>4, <1>5, <1>6

LEMMA WaitersStep ==
  ASSUME TypeOK, WaitersHoldNothing, [Next]_vars
  PROVE  WaitersHoldNothing'
<1> USE DEF TypeOK, WaitersHoldNothing
<1>1. ASSUME NEW c \in Caller, NEW k \in Key, FastHit(c, k)
      PROVE  WaitersHoldNothing'
  BY <1>1 DEF FastHit, Idle, Return
<1>2. ASSUME NEW c \in Caller, NEW k \in Key, FastMiss(c, k)
      PROVE  WaitersHoldNothing'
  BY <1>2 DEF FastMiss, Idle
<1>3. ASSUME NEW c \in Caller, Slow(c)
      PROVE  WaitersHoldNothing'
  BY <1>3 DEF Slow, SlowHit, SlowOpen, SlowFail, Return
<1>4. ASSUME NEW c \in Caller, Release(c)
      PROVE  WaitersHoldNothing'
  BY <1>4 DEF Release
<1>5. CASE FilesChange
  BY <1>5 DEF FilesChange
<1>6. CASE UNCHANGED vars
  BY <1>6 DEF vars
<1> QED
  BY <1>1, <1>2, <1>3, <1>4, <1>5, <1>6 DEF Next

LEMMA PoolStep == TypeOK /\ PoolInv /\ [Next]_vars => TypeOK' /\ PoolInv'
<1> SUFFICES ASSUME TypeOK, PoolInv, [Next]_vars
             PROVE  TypeOK' /\ LruTracksHandles'
  BY WaitersStep DEF PoolInv
<1>1. ASSUME NEW c \in Caller, NEW k \in Key, FastHit(c, k) \/ FastMiss(c, k)
      PROVE  TypeOK' /\ LruTracksHandles'
  <2>1. UNCHANGED <<handles, lru>>
    BY <1>1 DEF FastHit, FastMiss
  <2> QED
    BY <1>1, <2>1, OtherTypes DEF PoolInv
<1>2. ASSUME NEW c \in Caller, Slow(c) \/ Release(c)
      PROVE  TypeOK' /\ LruTracksHandles'
  <2>1. CASE SlowFail(c) \/ Release(c)
    <3>1. UNCHANGED <<handles, lru>>
      BY <2>1 DEF SlowFail, Release
    <3> QED
      BY <2>1, <3>1, OtherTypes DEF PoolInv
  <2> QED
    BY <1>2, <2>1, SlowHitStep, SlowOpenStep DEF Slow
<1>3. CASE FilesChange
  <2>1. UNCHANGED <<handles, lru>>
    BY <1>3 DEF FilesChange
  <2> QED
    BY <1>3, <2>1, OtherTypes DEF PoolInv
<1>4. CASE UNCHANGED vars
  BY <1>4 DEF vars, TypeOK, PoolInv, LruTracksHandles
<1> QED
  BY <1>1, <1>2, <1>3, <1>4 DEF Next

LEMMA PoolInvariant == Spec => [](TypeOK /\ PoolInv)
BY PoolInit, PoolStep, PTL DEF Spec

\* Map and queue agree whatever happens between the read lock and the write
\* lock (get_or_open of dimension_handle_pool.rs), and every variable keeps its
\* type.
THEOREM PoolIsConsistent == Spec => [](TypeOK /\ LruTracksHandles)
<1>1. TypeOK /\ PoolInv => LruTracksHandles
  BY DEF PoolInv
<1> QED
  BY <1>1, PoolInvariant, PTL

\* Every thread waits for a dimension it named, and holds a reader or an error
\* of the pool or nothing (get_or_open of dimension_handle_pool.rs).
THEOREM PoolTypes == Spec => []TypeOK
BY PoolInvariant, PTL

-----------------------------------------------------------------------------
(* The pool as a cache of readers                                          *)

LEMMA CacheInit == Init => Cache!Init
BY DEF Init, Cache!Init

\* The cache counts with the same cardinality as the pool.
LEMMA CardinalitySame ==
  ASSUME NEW S
  PROVE  Cache!Cardinality(S) = Cardinality(S)
BY DEF Cache!Cardinality, Cardinality

\* The pool keeps as many readers as its queue has keys.
LEMMA KeptAreQueued ==
  ASSUME TypeOK, PoolInv
  PROVE  Cache!Cardinality(Cache!Kept) = Len(lru)
<1> DEFINE n == Len(lru)
<1>1. n \in Nat /\ DOMAIN lru = 1..n
  BY DEF TypeOK
<1>2. Agree /\ \A i \in 1..n : lru[i] \in Known
  BY <1>1, TracksByElements DEF PoolInv, TypeOK
<1>3. Cache!Kept = Elements(lru)
  BY <1>1, <1>2 DEF Cache!Kept, Agree, Elements
<1> DEFINE f == [i \in 1..n |-> lru[i]]
<1>4. f \in Bijection(1..n, Elements(lru))
  BY <1>1, <1>2 DEF Agree, Distinct, Elements, Bijection, Injection, Surjection, IsInjective
<1>5. ExistsBijection(1..n, Elements(lru))
  BY <1>4 DEF ExistsBijection
<1> HIDE DEF n, f
<1>6. IsFiniteSet(1..n) /\ Cardinality(1..n) = n
  BY <1>1, FS_Interval
<1>7. Cardinality(Elements(lru)) = n
  BY <1>5, <1>6, FS_Bijection
<1> QED
  BY <1>3, <1>7, CardinalitySame DEF n

LEMMA SlowOpenIsOpenNew ==
  ASSUME TypeOK, PoolInv, NEW c \in Caller, SlowOpen(c)
  PROVE  wanted[c] \in Known /\ Cache!OpenNew(c, wanted[c])
<1> DEFINE k == wanted[c]
           reader == [key |-> k, opened |-> clock + 1]
<1>1. /\ k \in Known /\ handles[k] = None /\ k \notin broken
      /\ k # None /\ clock' = clock + 1 /\ UNCHANGED broken
      /\ held' = [held EXCEPT ![c] = reader]
  BY PoolAssumption DEF SlowOpen, Cached, Return
<1>2. held[c] = None
  BY <1>1 DEF PoolInv, WaitersHoldNothing
<1>3. Cache!Answer(c, reader)
  BY <1>1, <1>2 DEF Cache!Answer
<1>4. Opened(k, reader)
  BY SlowOpenOpens
<1>5. /\ lru \in Seq(Known) /\ Len(lru) \in Nat /\ DOMAIN lru = 1..Len(lru)
      /\ Capacity \in Nat \ {0} /\ Len(lru) <= Capacity
  BY CapacityType DEF TypeOK, PoolInv, LruTracksHandles
<1>6. CASE Len(lru) < Capacity
  <2>1. handles' = [handles EXCEPT ![k] = reader]
    BY <1>4, <1>6 DEF Opened
  <2>2. Cache!Cardinality(Cache!Kept) < Capacity
    BY <1>6, KeptAreQueued
  <2> QED
    BY <1>1, <1>3, <2>1, <2>2 DEF Cache!OpenNew
<1>7. CASE Len(lru) = Capacity
  <2> DEFINE j == lru[1]
  <2>1. handles' = [handles EXCEPT ![k] = reader, ![j] = None]
    BY <1>4, <1>5, <1>7 DEF Opened
  <2>2. 1 \in DOMAIN lru
    BY <1>5, <1>7
  <2>3. j \in Cache!Kept
    <3>1. j \in Known
      BY <1>5, <2>2
    <3>2. handles[j] # None
      BY <2>2, <3>1 DEF PoolInv, LruTracksHandles
    <3> QED
      BY <3>1, <3>2 DEF Cache!Kept
  <2>4. Cache!Cardinality(Cache!Kept) = Capacity
    BY <1>7, KeptAreQueued
  <2> HIDE DEF j
  <2> QED
    BY <1>1, <1>3, <2>1, <2>3, <2>4 DEF Cache!OpenNew
<1> HIDE DEF k, reader
<1>8. Len(lru) < Capacity \/ Len(lru) = Capacity
  <2>1. \A m, n \in Nat : m <= n => m < n \/ m = n
    OBVIOUS
  <2> QED
    BY <1>5, <2>1
<1> QED
  BY <1>1, <1>6, <1>7, <1>8 DEF k

LEMMA CacheStep == TypeOK /\ PoolInv /\ [Next]_vars => [Cache!Next]_(Cache!cacheVars)
<1> SUFFICES ASSUME TypeOK, PoolInv, [Next]_vars
             PROVE  [Cache!Next]_(Cache!cacheVars)
  OBVIOUS
<1>1. ASSUME NEW c \in Caller, NEW k \in Key, FastHit(c, k)
      PROVE  Cache!Next
  <2>1. k \in Known /\ Cache!Share(c, k)
    BY <1>1 DEF FastHit, Idle, Cached, Return, Cache!Share, Cache!Answer
  <2> QED
    BY <2>1 DEF Cache!Next
<1>2. ASSUME NEW c \in Caller, NEW k \in Key, FastMiss(c, k)
      PROVE  UNCHANGED Cache!cacheVars
  BY <1>2 DEF FastMiss, Cache!cacheVars
<1>3. ASSUME NEW c \in Caller, SlowHit(c)
      PROVE  Cache!Next
  <2>1. wanted[c] \in Known /\ held[c] = None
    BY <1>3 DEF SlowHit, Cached, PoolInv, WaitersHoldNothing
  <2>2. Cache!Share(c, wanted[c])
    BY <1>3, <2>1 DEF SlowHit, Cached, Return, Cache!Share, Cache!Answer
  <2> QED
    BY <2>1, <2>2 DEF Cache!Next
<1>4. ASSUME NEW c \in Caller, SlowOpen(c)
      PROVE  Cache!Next
  BY <1>4, SlowOpenIsOpenNew DEF Cache!Next
<1>5. ASSUME NEW c \in Caller, SlowFail(c)
      PROVE  Cache!Next
  <2>1. wanted[c] \in Key /\ held[c] = None
    BY <1>5 DEF SlowFail, TypeOK, PoolInv, WaitersHoldNothing
  <2>2. wanted[c] \in broken => wanted[c] \in Known
    BY DEF TypeOK
  <2>3. Cache!Refuse(c, wanted[c])
    BY <1>5, <2>1, <2>2 DEF SlowFail, Cached, Cache!Refuse, Cache!Answer
  <2> QED
    BY <2>1, <2>3 DEF Cache!Next
<1>6. ASSUME NEW c \in Caller, Release(c)
      PROVE  Cache!Next
  <2>1. Cache!Drop(c)
    BY <1>6 DEF Release, Cache!Drop
  <2> QED
    BY <2>1 DEF Cache!Next
<1>7. CASE FilesChange
  <2>1. Cache!FilesChange
    BY <1>7 DEF FilesChange, Cache!FilesChange
  <2> QED
    BY <2>1 DEF Cache!Next
<1>8. CASE UNCHANGED vars
  BY <1>8 DEF vars, Cache!cacheVars
<1> QED
  BY <1>1, <1>2, <1>3, <1>4, <1>5, <1>6, <1>7, <1>8 DEF Next, Slow

\* Threads that miss a dimension together end up with one reader of it, and a
\* full pool gives up one reader for a new one: the pool with its two locks is
\* the cache of readers that HandlePool is too.
THEOREM PoolImplementsCache == Spec => PoolIsReaderCache
<1>1. Spec => Cache!Spec
  BY PoolInvariant, CacheInit, CacheStep, PTL DEF Spec, Cache!Spec
<1> QED
  BY <1>1 DEF PoolIsReaderCache
=============================================================================
