------------------------------ MODULE ServicePool ------------------------------
(***************************************************************************)
(* The second pool of dimension readers, that of the HTTP service          *)
(* (HandlePool in service/src/query/dimension_handle_pool.rs).             *)
(*                                                                         *)
(* It has a RwLock: a call looks for its reader under the read lock, which *)
(* many threads hold at a time, and if there is none gives that lock up    *)
(* and waits for the write lock, under which it looks again.  Between the  *)
(* two other threads may open the same dimension, or evict it.  What is    *)
(* done under a lock is one step.  A reader found under the read lock does *)
(* not move in the queue of the pool, so the order of eviction is not that *)
(* of use.                                                                 *)
(***************************************************************************)
EXTENDS Naturals, FiniteSets, SequencesExt

CONSTANTS
  Key,            \* dimensions a request may name
  Known,          \* those the manifest lists
  Caller,         \* blocking threads
  MaxOpenHandles, \* PHS_MAX_OPEN_HANDLES
  MaxUses,        \* bound on the calls that return a reader
  None,
  DimensionNotFound, OpenFailed  \* both are DIMENSION_NOT_FOUND to the client

ASSUME PoolAssumption ==
  /\ Known \subseteq Key
  /\ IsFiniteSet(Known) /\ IsFiniteSet(Caller)
  /\ MaxOpenHandles \in Nat
  /\ MaxUses \in Nat
  /\ None \notin Key

VARIABLES
  broken,   \* known dimensions whose files DimensionReader::open rejects now
  handles,  \* PoolState.handles
  lru,      \* PoolState.lru
  wanted,   \* the dimension a thread missed and waits for the write lock with
  held,     \* the reader or the error a thread got and has not dropped yet
  clock     \* number of calls that returned a reader

vars == <<broken, handles, lru, wanted, held, clock>>

Reader == [key : Known, opened : Nat]
Error == {DimensionNotFound, OpenFailed}

ASSUME NoneAssumption ==
  /\ None \notin Reader \cup Error
  /\ DimensionNotFound \notin Reader /\ OpenFailed \notin Reader

-----------------------------------------------------------------------------
Capacity == IF MaxOpenHandles = 0 THEN 1 ELSE MaxOpenHandles

\* The key leaves its place in the queue, if it has one, and joins the end.
Touch(s, k) == Append(RemoveFirst(s, k), k)

Init ==
  /\ broken \in SUBSET Known
  /\ handles = [k \in Known |-> None]
  /\ lru = <<>>
  /\ wanted = [c \in Caller |-> None]
  /\ held = [c \in Caller |-> None]
  /\ clock = 0

Idle(c) == wanted[c] = None /\ held[c] = None
Cached(k) == k \in Known /\ handles[k] # None

\* The bound is on the calls that begin: a thread that waits goes on.
MayCall == clock + Cardinality({c \in Caller : wanted[c] # None}) < MaxUses

Return(c, r) ==
  /\ held' = [held EXCEPT ![c] = r]
  /\ clock' = clock + 1

\* Under the read lock.
FastHit(c, k) ==
  /\ Idle(c) /\ MayCall /\ Cached(k)
  /\ Return(c, handles[k])
  /\ UNCHANGED <<broken, handles, lru, wanted>>

FastMiss(c, k) ==
  /\ Idle(c) /\ MayCall /\ ~Cached(k)
  /\ wanted' = [wanted EXCEPT ![c] = k]
  /\ UNCHANGED <<broken, handles, lru, held, clock>>

\* Under the write lock another thread's reader is found.
SlowHit(c) ==
  /\ wanted[c] # None /\ Cached(wanted[c])
  /\ lru' = Touch(lru, wanted[c])
  /\ Return(c, handles[wanted[c]])
  /\ wanted' = [wanted EXCEPT ![c] = None]
  /\ UNCHANGED <<broken, handles>>

\* FAULT: the map is not looked at again under the write lock.
OpenUnchecked(c) ==
  /\ wanted[c] \in Known /\ wanted[c] \notin broken
  /\ LET k == wanted[c]
         reader == [key |-> k, opened |-> clock + 1]
         queue == Touch(lru, k)
         over == IF Len(queue) > Capacity THEN Len(queue) - Capacity ELSE 0
         evicted == {queue[i] : i \in 1..over}
     IN /\ lru' = SubSeq(queue, over + 1, Len(queue))
        /\ handles' = [j \in Known |-> IF j \in evicted THEN None
                                       ELSE IF j = k THEN reader ELSE handles[j]]
        /\ Return(c, reader)
  /\ wanted' = [wanted EXCEPT ![c] = None]
  /\ UNCHANGED broken

\* FAULT: the queue is cut down but the evicted readers stay in the map.
OpenAndKeep(c) ==
  /\ wanted[c] \in Known /\ ~Cached(wanted[c]) /\ wanted[c] \notin broken
  /\ LET k == wanted[c]
         reader == [key |-> k, opened |-> clock + 1]
         queue == Touch(lru, k)
         over == IF Len(queue) > Capacity THEN Len(queue) - Capacity ELSE 0
     IN /\ lru' = SubSeq(queue, over + 1, Len(queue))
        /\ handles' = [handles EXCEPT ![k] = reader]
        /\ Return(c, reader)
  /\ wanted' = [wanted EXCEPT ![c] = None]
  /\ UNCHANGED broken

\* The new reader is inserted first, then the oldest keys are evicted.
SlowOpen(c) ==
  /\ wanted[c] \in Known /\ ~Cached(wanted[c]) /\ wanted[c] \notin broken
  /\ LET k == wanted[c]
         reader == [key |-> k, opened |-> clock + 1]
         queue == Touch(lru, k)
         over == IF Len(queue) > Capacity THEN Len(queue) - Capacity ELSE 0
         evicted == {queue[i] : i \in 1..over}
     IN /\ lru' = SubSeq(queue, over + 1, Len(queue))
        /\ handles' = [j \in Known |-> IF j \in evicted THEN None
                                       ELSE IF j = k THEN reader ELSE handles[j]]
        /\ Return(c, reader)
  /\ wanted' = [wanted EXCEPT ![c] = None]
  /\ UNCHANGED broken

\* FAULT: the key joins the queue before it is looked up in the manifest.
FailTouched(c) ==
  /\ wanted[c] # None /\ ~Cached(wanted[c])
  /\ \/ wanted[c] \notin Known /\ held' = [held EXCEPT ![c] = DimensionNotFound]
     \/ wanted[c] \in broken /\ held' = [held EXCEPT ![c] = OpenFailed]
  /\ lru' = Touch(lru, wanted[c])
  /\ wanted' = [wanted EXCEPT ![c] = None]
  /\ UNCHANGED <<broken, handles, clock>>

\* FAULT: a dimension that cannot be opened is tried again without end.
RetryForever(c) ==
  /\ wanted[c] # None /\ ~Cached(wanted[c])
  /\ wanted[c] \notin Known
  /\ held' = [held EXCEPT ![c] = DimensionNotFound]
  /\ wanted' = [wanted EXCEPT ![c] = None]
  /\ UNCHANGED <<broken, handles, lru, clock>>

SlowFail(c) ==
  /\ wanted[c] # None /\ ~Cached(wanted[c])
  /\ \/ wanted[c] \notin Known /\ held' = [held EXCEPT ![c] = DimensionNotFound]
     \/ wanted[c] \in broken /\ held' = [held EXCEPT ![c] = OpenFailed]
  /\ wanted' = [wanted EXCEPT ![c] = None]
  /\ UNCHANGED <<broken, handles, lru, clock>>

\* The request of c is answered and drops what get_or_open returned.
Release(c) ==
  /\ held[c] # None
  /\ held' = [held EXCEPT ![c] = None]
  /\ UNCHANGED <<broken, handles, lru, wanted, clock>>

\* The files of a dimension become unreadable, or readable again.
FilesChange ==
  /\ \E k \in Known :
       broken' = IF k \in broken THEN broken \ {k} ELSE broken \cup {k}
  /\ UNCHANGED <<handles, lru, wanted, held, clock>>

Slow(c) == SlowHit(c) \/ SlowOpen(c) \/ SlowFail(c)

Next ==
  \/ \E c \in Caller, k \in Key : FastHit(c, k) \/ FastMiss(c, k)
  \/ \E c \in Caller : Slow(c) \/ Release(c)
  \/ FilesChange

Spec == Init /\ [][Next]_vars

\* A thread that waits for the write lock gets it in the end: nobody waits for
\* anything while it holds the lock, and the lock of the standard library does
\* not let readers overtake a waiting writer for ever.
FairSpec == Spec /\ \A c \in Caller : WF_vars(Slow(c))

-----------------------------------------------------------------------------
TypeOK ==
  /\ broken \in SUBSET Known
  /\ handles \in [Known -> Reader \cup {None}]
  /\ lru \in Seq(Known)
  /\ wanted \in [Caller -> Key \cup {None}]
  /\ held \in [Caller -> Reader \cup Error \cup {None}]
  /\ clock \in Nat

\* The map and the queue of the pool agree, whichever threads missed the same
\* dimension together: it has an open reader exactly when it is in the queue,
\* and it is in it once.
LruTracksHandles ==
  /\ \A k \in Known :
       /\ (handles[k] # None) <=> (\E i \in DOMAIN lru : lru[i] = k)
       /\ handles[k] # None => handles[k].key = k
  /\ \A i, j \in DOMAIN lru : lru[i] = lru[j] => i = j
  /\ Len(lru) <= Capacity

\* The pool is a cache of readers: threads that miss a dimension at the same
\* time get one reader of it, a full pool gives up one reader for a new one,
\* and calls that fail leave it alone.
Cache == INSTANCE ReaderCache WITH cached <- handles

PoolIsReaderCache == Cache!Spec

\* A thread that waits for a dimension gets its reader or an error, though
\* other threads may open and evict it and its files may break meanwhile.
MissIsAnswered == \A c \in Caller : wanted[c] # None ~> wanted[c] = None
=============================================================================
