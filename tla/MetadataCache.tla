---------------------------- MODULE MetadataCache ----------------------------
(***************************************************************************)
(* The read-through cache over meta.db that answers the metadata queries   *)
(* of the service and of the SDK (CachedMetadataReader in                  *)
(* range-store-core/src/metadata.rs).                                      *)
(*                                                                         *)
(* A lookup holds the read lock of the cache, a load the mutex of the      *)
(* SQLite connection, a store the write lock; between the three a thread   *)
(* holds nothing, and two threads may miss and load the same key.          *)
(*                                                                         *)
(* meta.db does not change while the reader is open.  A result is the set  *)
(* of its rows: every query is ORDER BY concrete_line_id (abstract_line    *)
(* for drills), and the cache keeps the vector it was given.               *)
(***************************************************************************)
EXTENDS Naturals, FiniteSets

CONSTANTS
  Dim, Strategy,     \* what a request may name
  StrategyOf,        \* the strategy of a dimension
  Known,             \* dimensions of the manifest
  Tables,            \* dimensions whose concrete_lines table is in meta.db
  DrillTables,       \* strategies whose drill_scenario_lines table is in it
  Abs, Conc, Drill,  \* abstract lines, concrete lines, drill keys
  Rows,              \* Rows[d]: the rows of the concrete_lines table of d
  Drills,            \* Drills[s][k]: the abstract lines of a drill
  MaxLineId,         \* bound on concrete_line_id, a u32
  Caller,            \* threads
  NotGiven, Blank,   \* a filter that is None, or empty once trimmed
  None               \* no such key in the cache, no request

Row == [id : 0..MaxLineId, abs : Abs, conc : Conc]

ASSUME MetadataAssumption ==
  /\ MaxLineId \in Nat
  /\ Known \subseteq Dim /\ Tables \subseteq Dim
  /\ StrategyOf \in [Dim -> Strategy]
  /\ DrillTables \subseteq Strategy
  /\ Rows \in [Dim -> SUBSET Row]
  /\ \A d \in Dim : \A q, r \in Rows[d] :
       \* concrete_line_id is the primary key, (abstract, concrete) is UNIQUE
       q.id = r.id \/ (q.abs = r.abs /\ q.conc = r.conc) => q = r
  /\ Drills \in [Strategy -> [Drill -> SUBSET Abs]]
  /\ {NotGiven, Blank} \cap (Abs \cup Conc) = {} /\ NotGiven # Blank

LineQuery == [kind : {"lines"}, dim : Dim,
              abs : Abs \cup {NotGiven, Blank}, conc : Conc \cup {NotGiven, Blank}]
DrillQuery == [kind : {"drill"}, strategy : Strategy, drill : Drill]
Query == LineQuery \cup DrillQuery

VARIABLES
  byConcrete,  \* concrete_by_concrete
  byAbstract,  \* concrete_by_abstract
  drillLines,  \* drill_lines
  pc,          \* "idle", "load" or "store"
  query,       \* the last query of a thread
  found,       \* what it loaded from meta.db
  answer       \* its answer, None until it has one

cache == <<byConcrete, byAbstract, drillLines>>
thread == <<pc, query, found, answer>>
vars == <<cache, thread>>

NotFound == {"abstract", "concrete", "filter", "drill"}
Ok(rows) == [error |-> "none", rows |-> rows]
Error(e) == [error |-> e, rows |-> {}]

Answer == [error : NotFound \cup {"none", "sqlite"}, rows : SUBSET (Abs \cup Row)]

ASSUME NoneAssumption ==
  /\ None \notin Row \cup Query \cup Answer
  /\ \A d \in Dim : \A S \in SUBSET Rows[d] : S # None
  /\ \A S \in SUBSET Abs : S # None

-----------------------------------------------------------------------------
(* What a query asks for                                                   *)

Given(v) == v \notin {NotGiven, Blank}

\* get_concrete_lines dispatches on which filters are Some and not empty.
ByAbstract(q) == q.kind = "lines" /\ Given(q.abs) /\ q.conc = NotGiven
ByConcrete(q) == q.kind = "lines" /\ q.abs = NotGiven /\ Given(q.conc)
ByBoth(q) == q.kind = "lines" /\ Given(q.abs) /\ Given(q.conc)
ByDrill(q) == q.kind = "drill"

NotFoundError(q) ==
  IF ByDrill(q) THEN "drill"
  ELSE IF ByBoth(q) THEN "filter"
  ELSE IF ByConcrete(q) THEN "concrete" ELSE "abstract"

\* Answered without cache or database: no usable filter, or a dimension or
\* strategy that is not in the manifest.
Rejected(q) ==
  IF ByDrill(q) THEN q.strategy \notin {StrategyOf[d] : d \in Known}
  ELSE ~(ByAbstract(q) \/ ByConcrete(q) \/ ByBoth(q)) \/ q.dim \notin Known

Matches(r, q) ==
  /\ Given(q.abs) => r.abs = q.abs
  /\ Given(q.conc) => r.conc = q.conc

\* The WHERE clause of the query.
Selected(q) ==
  IF ByDrill(q) THEN Drills[q.strategy][q.drill]
  ELSE {r \in Rows[q.dim] : Matches(r, q)}

HasTable(q) == IF ByDrill(q) THEN q.strategy \in DrillTables ELSE q.dim \in Tables

-----------------------------------------------------------------------------
Init ==
  /\ byConcrete = [d \in Dim |-> [c \in Conc |-> None]]
  /\ byAbstract = [d \in Dim |-> [a \in Abs |-> None]]
  /\ drillLines = [s \in Strategy |-> [k \in Drill |-> None]]
  /\ pc = [c \in Caller |-> "idle"]
  /\ query = [c \in Caller |-> None]
  /\ found = [c \in Caller |-> {}]
  /\ answer = [c \in Caller |-> None]

Begin(c, q) == pc[c] = "idle" /\ query' = [query EXCEPT ![c] = q]

Reply(c, a) ==
  /\ answer' = [answer EXCEPT ![c] = a]
  /\ pc' = [pc EXCEPT ![c] = "idle"]
  /\ found' = [found EXCEPT ![c] = {}]

Reject(c, q) ==
  /\ Begin(c, q) /\ Rejected(q)
  /\ Reply(c, Error(NotFoundError(q)))
  /\ UNCHANGED cache

\* FAULT: the cached row is returned whatever its abstract line is.
CachedAnyAbstract(q) ==
  IF ByDrill(q) THEN drillLines[q.strategy][q.drill]
  ELSE IF ByAbstract(q) THEN byAbstract[q.dim][q.abs]
  ELSE IF byConcrete[q.dim][q.conc] = None THEN None
  ELSE {byConcrete[q.dim][q.conc]}

\* The cached rows, None on a miss.  A query by both filters looks the
\* concrete line up and compares the abstract line of the cached row.
Cached(q) ==
  IF ByDrill(q) THEN drillLines[q.strategy][q.drill]
  ELSE IF ByAbstract(q) THEN byAbstract[q.dim][q.abs]
  ELSE LET row == byConcrete[q.dim][q.conc]
       IN IF row = None THEN None ELSE {r \in {row} : Matches(r, q)}

Hit(c, q) ==
  /\ Begin(c, q) /\ ~Rejected(q) /\ Cached(q) # None
  /\ Reply(c, IF Cached(q) = {} THEN Error(NotFoundError(q)) ELSE Ok(Cached(q)))
  /\ UNCHANGED cache

Miss(c, q) ==
  /\ Begin(c, q) /\ ~Rejected(q) /\ Cached(q) = None
  /\ pc' = [pc EXCEPT ![c] = "load"]
  /\ answer' = [answer EXCEPT ![c] = None]
  /\ UNCHANGED <<cache, found>>

\* An error, the empty result included, is answered and not cached.
LoadFails(c) ==
  /\ pc[c] = "load"
  /\ \/ ~HasTable(query[c]) /\ Reply(c, Error("sqlite"))
     \/ /\ HasTable(query[c]) /\ Selected(query[c]) = {}
        /\ Reply(c, Error(NotFoundError(query[c])))
  /\ UNCHANGED <<cache, query>>

\* FAULT: an empty result is cached like any other.
LoadAnything(c) ==
  /\ pc[c] = "load" /\ HasTable(query[c])
  /\ found' = [found EXCEPT ![c] = Selected(query[c])]
  /\ pc' = [pc EXCEPT ![c] = "store"]
  /\ UNCHANGED <<cache, query, answer>>

Load(c) ==
  /\ pc[c] = "load"
  /\ HasTable(query[c]) /\ Selected(query[c]) # {}
  /\ found' = [found EXCEPT ![c] = Selected(query[c])]
  /\ pc' = [pc EXCEPT ![c] = "store"]
  /\ UNCHANGED <<cache, query, answer>>

\* cache_concrete_row for each row in order: the last row of a concrete line
\* stays.
CacheRows(d, rows) ==
  byConcrete' = [byConcrete EXCEPT ![d] = [c \in Conc |->
    LET same == {r \in rows : r.conc = c} IN
    IF same = {} THEN @[c]
    ELSE CHOOSE r \in same : \A q \in same : q.id <= r.id]]

\* FAULT: every stored row also becomes the entry of its abstract line.
StoreInBothIndexes(c) ==
  /\ pc[c] = "store"
  /\ LET q == query[c] IN
       IF ByDrill(q)
       THEN /\ drillLines' = [drillLines EXCEPT ![q.strategy][q.drill] = found[c]]
            /\ UNCHANGED <<byConcrete, byAbstract>>
       ELSE /\ CacheRows(q.dim, found[c])
            /\ byAbstract' = [byAbstract EXCEPT ![q.dim] = [a \in Abs |->
                 LET same == {r \in found[c] : r.abs = a}
                 IN IF same = {} THEN @[a] ELSE same]]
            /\ UNCHANGED drillLines
  /\ Reply(c, Ok(found[c]))
  /\ UNCHANGED query

Store(c) ==
  /\ pc[c] = "store"
  /\ LET q == query[c] IN
       IF ByDrill(q)
       THEN /\ drillLines' = [drillLines EXCEPT ![q.strategy][q.drill] = found[c]]
            /\ UNCHANGED <<byConcrete, byAbstract>>
       ELSE /\ CacheRows(q.dim, found[c])
            /\ byAbstract' = IF ByAbstract(q)
                             THEN [byAbstract EXCEPT ![q.dim][q.abs] = found[c]]
                             ELSE byAbstract
            /\ UNCHANGED drillLines
  /\ Reply(c, Ok(found[c]))
  /\ UNCHANGED query

Call(c, q) == Reject(c, q) \/ Hit(c, q) \/ Miss(c, q)
Next == \E c \in Caller :
  \/ \E q \in Query : Call(c, q)
  \/ LoadFails(c) \/ Load(c) \/ Store(c)

Spec == Init /\ [][Next]_vars

-----------------------------------------------------------------------------
TypeOK ==
  /\ byConcrete \in [Dim -> [Conc -> Row \cup {None}]]
  /\ byAbstract \in [Dim -> [Abs -> {None} \cup SUBSET Row]]
  /\ drillLines \in [Strategy -> [Drill -> {None} \cup SUBSET Abs]]
  /\ pc \in [Caller -> {"idle", "load", "store"}]
  /\ query \in [Caller -> Query \cup {None}]
  /\ found \in [Caller -> SUBSET (Abs \cup Row)]
  /\ answer \in [Caller -> Answer \cup {None}]
  /\ \A c \in Caller : found[c] # {} <=> pc[c] = "store"

\* What a reader without a cache answers: the rows of meta.db, an error when
\* there are none.
DbAnswer(q) ==
  IF Rejected(q) THEN Error(NotFoundError(q))
  ELSE IF ~HasTable(q) THEN Error("sqlite")
  ELSE IF Selected(q) = {} THEN Error(NotFoundError(q))
  ELSE Ok(Selected(q))

CachedConcrete == \A d \in Dim, c \in Conc : byConcrete[d][c] # None =>
  /\ d \in Known /\ d \in Tables
  /\ byConcrete[d][c] \in Rows[d] /\ byConcrete[d][c].conc = c

CachedAbstract == \A d \in Dim, a \in Abs : byAbstract[d][a] # None =>
  /\ d \in Known /\ d \in Tables
  /\ byAbstract[d][a] = {r \in Rows[d] : r.abs = a} /\ byAbstract[d][a] # {}

CachedDrill == \A s \in Strategy, k \in Drill : drillLines[s][k] # None =>
  /\ s \in {StrategyOf[d] : d \in Known} /\ s \in DrillTables
  /\ drillLines[s][k] = Drills[s][k] /\ drillLines[s][k] # {}

Asked(c) == pc[c] # "idle" => query[c] # None /\ ~Rejected(query[c])

Loaded(c) ==
  pc[c] = "store" => HasTable(query[c]) /\ found[c] = Selected(query[c])

\* No cache entry differs from what meta.db holds for its key, whichever
\* queries filled it and however their misses overlapped (read_through_cached_
\* concrete, get_drill_scenario_lines); an entry for a concrete line is one of
\* its rows.
CacheInv ==
  /\ CachedConcrete /\ CachedAbstract /\ CachedDrill
  /\ \A c \in Caller : Asked(c) /\ Loaded(c)

\* The cache is transparent: a query is answered as meta.db would answer it,
\* whatever was asked before it and is being asked beside it (the claim that
\* meta.db stays the authority, get_concrete_lines and
\* get_drill_scenario_lines).
AnswersMatchMetaDb ==
  \A c \in Caller : answer[c] # None => answer[c] = DbAnswer(query[c])

\* The concrete line that a query names, if it names one, has one abstract
\* line: the design document says so of every line, the table does not enforce
\* it.
Unambiguous(q) ==
  ~ByDrill(q) =>
    \A r, s \in Rows[q.dim] : r.conc = q.conc /\ s.conc = q.conc => r = s

\* It is for those queries, also when other lines of the table are shared and
\* the partial results of their queries are in the same indexes.
UnambiguousAnswersMatch ==
  \A c \in Caller :
    answer[c] # None /\ Unambiguous(query[c]) => answer[c] = DbAnswer(query[c])

\* What is left of it when a concrete line has several abstract lines: rows
\* returned are rows of meta.db that the filters select, and queries by
\* abstract line and by drill still get all of them, though the queries that
\* share the concrete index fill the cache from partial results.
AnswersAreRows ==
  \A c \in Caller : answer[c] # None =>
    /\ answer[c].error = "none" => answer[c].rows \subseteq Selected(query[c])
    /\ ~ByBoth(query[c]) => answer[c].error = DbAnswer(query[c]).error
    /\ ~ByBoth(query[c]) /\ ~ByConcrete(query[c]) => answer[c] = DbAnswer(query[c])
=============================================================================
