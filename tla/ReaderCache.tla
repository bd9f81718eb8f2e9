------------------------------ MODULE ReaderCache ------------------------------
(***************************************************************************)
(* What a pool of open dimension readers promises to its callers, whatever *)
(* it does about locks and about the order of eviction.  Both pools of the *)
(* repository implement it: HandlePool of range-store-core and ServicePool *)
(* of the HTTP service.                                                    *)
(*                                                                         *)
(* A reader is named by its dimension and by the number of the call that   *)
(* opened it.                                                              *)
(***************************************************************************)
EXTENDS Naturals, FiniteSets

CONSTANTS Key, Known, Caller, Capacity, None, DimensionNotFound, OpenFailed

VARIABLES
  broken,  \* known dimensions whose files cannot be opened now
  cached,  \* the reader that the pool keeps of a dimension
  held,    \* what a caller got
  clock    \* number of calls that returned a reader

cacheVars == <<broken, cached, held, clock>>

Init ==
  /\ broken \in SUBSET Known
  /\ cached = [k \in Known |-> None]
  /\ held = [c \in Caller |-> None]
  /\ clock = 0

Answer(c, r) ==
  /\ held[c] = None
  /\ held' = [held EXCEPT ![c] = r]
  /\ UNCHANGED broken

\* A reader that is kept is shared, and no other call loses one.
Share(c, k) ==
  /\ cached[k] # None
  /\ Answer(c, cached[k])
  /\ clock' = clock + 1
  /\ UNCHANGED cached

Kept == {k \in Known : cached[k] # None}

\* A dimension that has no reader gets one, and keeps it; the pool gives up one
\* other reader if it is full, and none if it is not.
OpenNew(c, k) ==
  /\ cached[k] = None /\ k \notin broken
  /\ LET reader == [key |-> k, opened |-> clock + 1]
     IN /\ Answer(c, reader)
        /\ \/ /\ Cardinality(Kept) < Capacity
              /\ cached' = [cached EXCEPT ![k] = reader]
           \/ /\ Cardinality(Kept) = Capacity
              /\ \E j \in Kept : cached' = [cached EXCEPT ![k] = reader, ![j] = None]
  /\ clock' = clock + 1

\* A call that fails leaves the pool as it is.
Refuse(c, k) ==
  /\ \/ k \notin Known /\ Answer(c, DimensionNotFound)
     \/ k \in broken /\ cached[k] = None /\ Answer(c, OpenFailed)
  /\ UNCHANGED <<cached, clock>>

\* Readers stay usable until their caller drops them, evicted or not.
Drop(c) ==
  /\ held[c] # None
  /\ held' = [held EXCEPT ![c] = None]
  /\ UNCHANGED <<broken, cached, clock>>

FilesChange ==
  /\ \E k \in Known :
       broken' = IF k \in broken THEN broken \ {k} ELSE broken \cup {k}
  /\ UNCHANGED <<cached, held, clock>>

Next ==
  \/ \E c \in Caller, k \in Known : Share(c, k) \/ OpenNew(c, k)
  \/ \E c \in Caller, k \in Key : Refuse(c, k)
  \/ \E c \in Caller : Drop(c)
  \/ FilesChange

Spec == Init /\ [][Next]_cacheVars
=============================================================================
