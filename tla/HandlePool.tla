------------------------------ MODULE HandlePool ------------------------------
(***************************************************************************)
(* The pool of open dimension readers that every query of a store goes     *)
(* through (HandlePool in range-store-core/src/query/handle_pool.rs).      *)
(*                                                                         *)
(* Callers are the threads that run queries.  get_or_open holds the mutex  *)
(* of the pool from its first read to its last write, the opening of the   *)
(* files included, so a call is one step; the reader it returns is an Arc  *)
(* that the caller keeps until its query is answered, whatever the pool    *)
(* does meanwhile.  A reader is named by its dimension and by the time it  *)
(* was opened at, which tells two readers of the same dimension apart.     *)
(***************************************************************************)
EXTENDS Naturals, FiniteSets, SequencesExt

CONSTANTS
  Key,            \* dimensions a request may name
  Known,          \* those the manifest lists
  Caller,         \* threads
  MaxOpenHandles, \* PHS_MAX_OPEN_HANDLES
  MaxUses,        \* bound on the calls that return a reader
  None,           \* no reader
  DimensionNotFound, OpenFailed  \* the errors of get_or_open

ASSUME PoolAssumption ==
  /\ Known \subseteq Key
  /\ IsFiniteSet(Known) /\ IsFiniteSet(Caller)
  /\ MaxOpenHandles \in Nat
  /\ MaxUses \in Nat

VARIABLES
  broken,   \* known dimensions whose files DimensionReader::open rejects now
  handles,  \* PoolState.handles
  lru,      \* PoolState.lru, the next key to evict first
  held,     \* the reader or the error a caller got and has not dropped yet
  clock,    \* number of calls that returned a reader
  lastUse   \* observability: when a dimension was last returned, 0 if never

vars == <<broken, handles, lru, held, clock, lastUse>>

Reader == [key : Known, opened : Nat]
Error == {DimensionNotFound, OpenFailed}

ASSUME NoneAssumption ==
  /\ None \notin Reader \cup Error
  /\ DimensionNotFound \notin Reader /\ OpenFailed \notin Reader

-----------------------------------------------------------------------------
Capacity == IF MaxOpenHandles = 0 THEN 1 ELSE MaxOpenHandles

\* The key leaves its place in the queue, if it has one, and joins the end.
Touch(s, k) == Append(RemoveFirst(s, k), k)

Init ==
  /\ broken \in SUBSET Known
  /\ handles = [k \in Known |-> None]
  /\ lru = <<>>
  /\ held = [c \in Caller |-> None]
  /\ clock = 0
  /\ lastUse = [k \in Known |-> 0]

\* The call of c returns reader r of dimension k.
Return(c, k, r) ==
  /\ held' = [held EXCEPT ![c] = r]
  /\ clock' = clock + 1
  /\ lastUse' = [lastUse EXCEPT ![k] = clock + 1]

\* FAULT: a hit does not move the key in the queue.
HitUntouched(c, k) ==
  /\ held[c] = None /\ clock < MaxUses
  /\ k \in Known /\ handles[k] # None
  /\ Return(c, k, handles[k])
  /\ UNCHANGED <<broken, handles, lru>>

Hit(c, k) ==
  /\ held[c] = None /\ clock < MaxUses
  /\ k \in Known /\ handles[k] # None
  /\ lru' = Touch(lru, k)
  /\ Return(c, k, handles[k])
  /\ UNCHANGED <<broken, handles>>

\* FAULT: the queue is cut down but the evicted readers stay in the map.
OpenAndKeep(c, k) ==
  /\ held[c] = None /\ clock < MaxUses
  /\ k \in Known /\ handles[k] = None /\ k \notin broken
  /\ LET reader == [key |-> k, opened |-> clock + 1]
         queue == Touch(lru, k)
         over == IF Len(queue) > Capacity THEN Len(queue) - Capacity ELSE 0
     IN /\ lru' = SubSeq(queue, over + 1, Len(queue))
        /\ handles' = [handles EXCEPT ![k] = reader]
        /\ Return(c, k, reader)
  /\ UNCHANGED broken

\* FAULT: keys are evicted from the wrong end of the queue.
OpenEvictingLast(c, k) ==
  /\ held[c] = None /\ clock < MaxUses
  /\ k \in Known /\ handles[k] = None /\ k \notin broken
  /\ LET reader == [key |-> k, opened |-> clock + 1]
         queue == Touch(lru, k)
         left == IF Len(queue) > Capacity THEN Capacity ELSE Len(queue)
     IN /\ lru' = SubSeq(queue, 1, left)
        /\ handles' = [j \in Known |-> IF \E i \in (left + 1)..Len(queue) : queue[i] = j THEN None
                                       ELSE IF j = k THEN reader ELSE handles[j]]
        /\ Return(c, k, reader)
  /\ UNCHANGED broken

\* The new reader is inserted first, then the oldest keys are evicted.
Open(c, k) ==
  /\ held[c] = None /\ clock < MaxUses
  /\ k \in Known /\ handles[k] = None /\ k \notin broken
  /\ LET reader == [key |-> k, opened |-> clock + 1]
         queue == Touch(lru, k)
         over == IF Len(queue) > Capacity THEN Len(queue) - Capacity ELSE 0
         evicted == {queue[i] : i \in 1..over}
     IN /\ lru' = SubSeq(queue, over + 1, Len(queue))
        /\ handles' = [j \in Known |-> IF j \in evicted THEN None
                                       ELSE IF j = k THEN reader ELSE handles[j]]
        /\ Return(c, k, reader)
  /\ UNCHANGED broken

\* FAULT: the key joins the queue before it is looked up in the manifest.
FailTouched(c, k) ==
  /\ held[c] = None
  /\ k \notin Known
  /\ lru' = Touch(lru, k)
  /\ held' = [held EXCEPT ![c] = DimensionNotFound]
  /\ UNCHANGED <<broken, handles, clock, lastUse>>

Fail(c, k) ==
  /\ held[c] = None
  /\ \/ /\ k \notin Known
        /\ held' = [held EXCEPT ![c] = DimensionNotFound]
     \/ /\ k \in broken /\ handles[k] = None
        /\ held' = [held EXCEPT ![c] = OpenFailed]
  /\ UNCHANGED <<broken, handles, lru, clock, lastUse>>

\* The query of c is answered and drops what get_or_open returned.
Release(c) ==
  /\ held[c] # None
  /\ held' = [held EXCEPT ![c] = None]
  /\ UNCHANGED <<broken, handles, lru, clock, lastUse>>

\* The files of a dimension become unreadable, or readable again.
FilesChange ==
  /\ \E k \in Known :
       broken' = IF k \in broken THEN broken \ {k} ELSE broken \cup {k}
  /\ UNCHANGED <<handles, lru, held, clock, lastUse>>

GetOrOpen(c, k) == Hit(c, k) \/ Open(c, k) \/ Fail(c, k)

Next ==
  \/ \E c \in Caller, k \in Key : GetOrOpen(c, k)
  \/ \E c \in Caller : Release(c)
  \/ FilesChange

Spec == Init /\ [][Next]_vars

-----------------------------------------------------------------------------
TypeOK ==
  /\ broken \in SUBSET Known
  /\ handles \in [Known -> Reader \cup {None}]
  /\ lru \in Seq(Known)
  /\ held \in [Caller -> Reader \cup Error \cup {None}]
  /\ clock \in Nat
  /\ lastUse \in [Known -> 0..clock]

\* The map and the queue of the pool agree: a dimension has an open reader
\* exactly when it is in the queue, and it is in it once (HandlePool.state:
\* get_or_open updates the two separately).
LruTracksHandles ==
  /\ \A k \in Known :
       /\ (handles[k] # None) <=> (\E i \in DOMAIN lru : lru[i] = k)
       /\ handles[k] # None => handles[k].key = k
  /\ \A i, j \in DOMAIN lru : lru[i] = lru[j] => i = j
  /\ Len(lru) <= Capacity

\* The queue is in the order of last use, and whatever was evicted was used
\* before everything that is in it.
QueueInOrderOfUse ==
  /\ \A i \in DOMAIN lru : lastUse[lru[i]] > 0
  /\ \A i, j \in DOMAIN lru : i < j => lastUse[lru[i]] < lastUse[lru[j]]
  /\ \A k \in Known :
       (handles[k] = None /\ lastUse[k] > 0) =>
         /\ Len(lru) = Capacity
         /\ \A i \in DOMAIN lru : lastUse[k] < lastUse[lru[i]]

\* The inductive invariant behind MostRecentAreOpen (get_or_open, touch).
PoolInv == LruTracksHandles /\ QueueInOrderOfUse

\* The pool is an LRU cache: the dimensions with an open reader are those
\* returned by a call of which fewer than Capacity others were returned since
\* (the order of the queue after any mix of hits, opens, failed opens and
\* evictions).
MostRecentAreOpen ==
  \A k \in Known :
    (handles[k] # None) <=>
      /\ lastUse[k] > 0
      /\ Cardinality({j \in Known : lastUse[j] > lastUse[k]}) < Capacity

\* What a call returns is a reader of the dimension it named, and the next
\* call for that dimension finds it: the eviction that follows the insertion
\* never takes the reader just opened, not even with --max-open-handles 0.
ReturnedIsCached ==
  [][\A c \in Caller, k \in Known :
       (held[c] = None /\ lastUse'[k] # lastUse[k] /\ held'[c] # held[c]) =>
          held'[c] = handles'[k] /\ held'[c].key = k]_vars

\* The readers whose files are mapped: the pool's and those still in use.
Live == {handles[k] : k \in Known} \cup {held[c] : c \in Caller}
Mapped == Live \ ({None} \cup Error)

\* Memory stays bounded: at most Capacity readers in the pool and one more for
\* each thread that still uses an evicted one.
MappedIsBounded == Cardinality(Mapped) <= Capacity + Cardinality(Caller)

\* The pool is a cache of readers: one reader of a dimension at a time, shared
\* by all, kept until a full pool opens another, never more than its capacity,
\* and left alone by calls that fail.
Cache == INSTANCE ReaderCache WITH cached <- handles

PoolIsReaderCache == Cache!Spec
=============================================================================
