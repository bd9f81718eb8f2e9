------------------------- MODULE MetadataCacheProofs -------------------------
(***************************************************************************)
(* The metadata cache is transparent for every store in which a concrete   *)
(* line has one row, every number of threads and every sequence of queries *)
(* (TLC: MCMetadataCache).                                                 *)
(***************************************************************************)
EXTENDS MetadataCache, WellFoundedInduction, TLAPS

\* The rows of a non-empty result have a last one.
LEMMA LastRow ==
  ASSUME NEW S \in SUBSET Row, S # {}
  PROVE  \E r \in S : \A q \in S : q.id <= r.id
<1> DEFINE T == {MaxLineId - r.id : r \in S}
           less == OpToRel(<, Nat)
<1>1. \A r \in S : r.id \in Nat /\ MaxLineId - r.id \in Nat /\ MaxLineId \in Nat
  BY MetadataAssumption DEF Row
<1>2. T \subseteq Nat /\ T # {}
  BY <1>1
<1>3. IsWellFoundedOn(less, Nat)
  BY NatLessThanWellFounded
<1>4. \A x, y \in Nat : x < y => <<x, y>> \in less
  BY DEF OpToRel
<1> HIDE DEF less, T
<1>5. PICK x \in T : \A y \in T : ~(<<y, x>> \in less)
  BY <1>2, <1>3, WFMin
<1>6. \A y \in T : ~(y < x)
  BY <1>2, <1>4, <1>5
<1>7. PICK r \in S : x = MaxLineId - r.id
  BY DEF T
<1>8. ASSUME NEW q \in S
      PROVE  q.id <= r.id
  <2>1. ~(MaxLineId - q.id < MaxLineId - r.id)
    BY <1>6, <1>7 DEF T
  <2> QED
    BY <1>1, <2>1
<1> QED
  BY <1>8

LEMMA SelectedType ==
  ASSUME NEW q \in Query
  PROVE  Selected(q) \in SUBSET (Abs \cup Row)
<1>1. CASE q \in LineQuery
  <2>1. q.dim \in Dim /\ ~ByDrill(q)
    BY <1>1 DEF LineQuery, ByDrill
  <2> QED
    BY <2>1, MetadataAssumption DEF Selected
<1>2. CASE q \in DrillQuery
  <2>1. q.strategy \in Strategy /\ q.drill \in Drill /\ ByDrill(q)
    BY <1>2 DEF DrillQuery, ByDrill
  <2> QED
    BY <2>1, MetadataAssumption DEF Selected
<1> QED
  BY <1>1, <1>2 DEF Query

LEMMA CacheInit == Init => TypeOK /\ CacheInv /\ AnswersAreRows /\ AnswersMatchMetaDb
BY NoneAssumption DEF Init, TypeOK, CacheInv, CachedConcrete, CachedAbstract,
  CachedDrill, Asked, Loaded, AnswersAreRows, AnswersMatchMetaDb

LEMMA NoneIsNoResult ==
  /\ \A a \in Answer : a # None
  /\ \A q \in Query : q # None
  /\ \A d \in Dim, S \in SUBSET Row : S \subseteq Rows[d] => S # None
  /\ \A S \in SUBSET Abs : S # None
BY NoneAssumption

LEMMA LineQueryParts ==
  ASSUME NEW q \in Query, ~ByDrill(q)
  PROVE  /\ q.dim \in Dim
         /\ Given(q.abs) => q.abs \in Abs
         /\ Given(q.conc) => q.conc \in Conc
BY DEF Query, LineQuery, DrillQuery, ByDrill, Given

LEMMA DrillQueryParts ==
  ASSUME NEW q \in Query, ByDrill(q)
  PROVE  q.strategy \in Strategy /\ q.drill \in Drill
BY DEF Query, LineQuery, DrillQuery, ByDrill

\* A query that is not rejected is one of the four kinds.
LEMMA QueryKinds ==
  ASSUME NEW q \in Query, ~Rejected(q)
  PROVE  \/ ByDrill(q) /\ q.strategy \in {StrategyOf[d] : d \in Known}
         \/ /\ ~ByDrill(q) /\ q.dim \in Known
            /\ \/ ByAbstract(q) /\ ~ByConcrete(q) /\ ~ByBoth(q)
               \/ ByConcrete(q) /\ ~ByAbstract(q) /\ ~ByBoth(q)
               \/ ByBoth(q) /\ ~ByAbstract(q) /\ ~ByConcrete(q)
BY DEF Rejected, ByDrill, ByAbstract, ByConcrete, ByBoth, Given

LEMMA ReplyType ==
  /\ \A e \in NotFound \cup {"sqlite"} : Error(e) \in Answer
  /\ \A rows \in SUBSET (Abs \cup Row) : Ok(rows) \in Answer
  /\ \A q : NotFoundError(q) \in NotFound
BY DEF Error, Ok, Answer, NotFoundError, NotFound

-----------------------------------------------------------------------------
(* What a hit returns                                                      *)

\* A hit returns selected rows; all of them by abstract line or drill, at
\* least one by concrete line, and all of them if concrete lines are unique.
LEMMA HitRows ==
  ASSUME TypeOK, CacheInv, NEW q \in Query, ~Rejected(q), Cached(q) # None
  PROVE  /\ HasTable(q)
         /\ Cached(q) \subseteq Selected(q)
         /\ Selected(q) # {} \/ ByBoth(q)
         /\ ~ByBoth(q) => Cached(q) # {}
         /\ ~ByBoth(q) /\ ~ByConcrete(q) => Cached(q) = Selected(q)
         /\ Unambiguous(q) => Cached(q) = Selected(q)
<1>1. CASE ByDrill(q)
  <2>1. Cached(q) = drillLines[q.strategy][q.drill] /\ Selected(q) = Drills[q.strategy][q.drill]
    BY <1>1 DEF Cached, Selected
  <2>2. q.strategy \in Strategy /\ q.drill \in Drill
    BY <1>1, DrillQueryParts
  <2> QED
    BY <1>1, <2>1, <2>2 DEF CacheInv, CachedDrill, HasTable
<1>2. CASE ~ByDrill(q) /\ ByAbstract(q)
  <2>1. q.dim \in Dim /\ q.abs \in Abs /\ q.conc = NotGiven
    BY <1>2, LineQueryParts DEF ByAbstract
  <2>2. Cached(q) = byAbstract[q.dim][q.abs]
    BY <1>2 DEF Cached
  <2>3. Selected(q) = {r \in Rows[q.dim] : r.abs = q.abs}
    BY <1>2, <2>1 DEF Selected, Matches, Given, ByAbstract
  <2>4. q.dim \in Tables /\ Cached(q) = Selected(q) /\ Cached(q) # {}
    BY <2>1, <2>2, <2>3 DEF CacheInv, CachedAbstract
  <2> QED
    BY <1>2, <2>4 DEF HasTable
<1>3. CASE ~ByDrill(q) /\ ~ByAbstract(q)
  <2> DEFINE row == byConcrete[q.dim][q.conc]
  <2>1. (ByConcrete(q) \/ ByBoth(q)) /\ q.dim \in Dim /\ q.conc \in Conc
    BY <1>3, QueryKinds, LineQueryParts DEF ByConcrete, ByBoth
  <2>2. row # None /\ Cached(q) = {r \in {row} : Matches(r, q)}
    BY <1>3 DEF Cached
  <2>3. /\ row \in Rows[q.dim] /\ row.conc = q.conc /\ q.dim \in Tables
    BY <2>1, <2>2 DEF CacheInv, CachedConcrete
  <2>4. Selected(q) = {r \in Rows[q.dim] : Matches(r, q)}
    BY <1>3 DEF Selected
  <2>5. Cached(q) \subseteq Selected(q)
    BY <2>2, <2>3, <2>4
  <2>6. ByConcrete(q) => row \in Cached(q)
    BY <2>2, <2>3 DEF Matches, ByConcrete, Given
  <2>7. ASSUME Unambiguous(q)
        PROVE  Selected(q) \subseteq Cached(q)
    <3>1. \A r \in Selected(q) : r.conc = q.conc /\ r \in Rows[q.dim] /\ Matches(r, q)
      BY <2>1, <2>4 DEF Matches, ByConcrete, ByBoth
    <3>2. \A r \in Selected(q) : r = row
      BY <1>3, <2>1, <2>3, <2>7, <3>1 DEF Unambiguous
    <3> QED
      BY <2>2, <3>1, <3>2
  <2> QED
    BY <1>3, <2>1, <2>3, <2>5, <2>6, <2>7 DEF HasTable
<1> QED
  BY <1>1, <1>2, <1>3

-----------------------------------------------------------------------------
(* What a store writes                                                     *)

LEMMA CacheRowsKeeps ==
  ASSUME TypeOK, CacheInv, NEW d \in Dim, NEW rows \in SUBSET Rows[d],
         d \in Known, d \in Tables, CacheRows(d, rows)
  PROVE  /\ byConcrete' \in [Dim -> [Conc -> Row \cup {None}]]
         /\ CachedConcrete'
<1> DEFINE same(c) == {r \in rows : r.conc = c}
           last(c) == CHOOSE r \in same(c) : \A q \in same(c) : q.id <= r.id
           new == [c \in Conc |-> IF same(c) = {} THEN byConcrete[d][c] ELSE last(c)]
<1>1. byConcrete' = [byConcrete EXCEPT ![d] = new]
  BY DEF CacheRows
<1>2. ASSUME NEW c \in Conc, same(c) # {}
      PROVE  last(c) \in Rows[d] /\ last(c).conc = c /\ last(c) \in Row
  <2>1. same(c) \in SUBSET Row /\ same(c) \subseteq Rows[d]
    BY MetadataAssumption
  <2>2. \E r \in same(c) : \A q \in same(c) : q.id <= r.id
    BY <1>2, <2>1, LastRow
  <2>3. last(c) \in same(c)
    BY <2>2
  <2> QED
    BY <2>1, <2>3
<1>3. ASSUME NEW c \in Conc
      PROVE  /\ new[c] \in Row \cup {None}
             /\ new[c] # None => new[c] \in Rows[d] /\ new[c].conc = c
  <2>1. CASE same(c) = {}
    <3>1. new[c] = byConcrete[d][c]
      BY <2>1
    <3> QED
      BY <3>1 DEF TypeOK, CacheInv, CachedConcrete
  <2>2. CASE same(c) # {}
    <3>1. new[c] = last(c)
      BY <2>2
    <3> QED
      BY <1>2, <2>2, <3>1
  <2> QED
    BY <2>1, <2>2
<1>4. new \in [Conc -> Row \cup {None}]
  <2>1. \A c \in Conc : new[c] \in Row \cup {None}
    BY <1>3
  <2> QED
    BY <2>1
<1> HIDE DEF new
<1>5. byConcrete' \in [Dim -> [Conc -> Row \cup {None}]]
  BY <1>1, <1>4 DEF TypeOK
<1>6. ASSUME NEW e \in Dim, NEW c \in Conc, byConcrete'[e][c] # None
      PROVE  /\ e \in Known /\ e \in Tables
             /\ byConcrete'[e][c] \in Rows[e] /\ byConcrete'[e][c].conc = c
  <2>1. CASE e = d
    BY <1>1, <1>3, <1>6, <2>1 DEF TypeOK
  <2>2. CASE e # d
    BY <1>1, <1>6, <2>2 DEF TypeOK, CacheInv, CachedConcrete
  <2> QED
    BY <2>1, <2>2
<1> QED
  BY <1>5, <1>6 DEF CachedConcrete

-----------------------------------------------------------------------------
(* The invariant                                                           *)

Inv == TypeOK /\ CacheInv

LEMMA ReplyStep ==
  ASSUME TypeOK, NEW c \in Caller, NEW a \in Answer, Reply(c, a)
  PROVE  /\ answer' \in [Caller -> Answer \cup {None}]
         /\ pc' \in [Caller -> {"idle", "load", "store"}]
         /\ found' \in [Caller -> SUBSET (Abs \cup Row)]
         /\ pc'[c] = "idle" /\ found'[c] = {} /\ answer'[c] = a
         /\ \A d \in Caller \ {c} :
              pc'[d] = pc[d] /\ found'[d] = found[d] /\ answer'[d] = answer[d]
BY DEF TypeOK, Reply

\* The cache as it was, or a cache with the new entries, stays that of meta.db
\* while the threads load and reply.
LEMMA CacheUnchanged ==
  ASSUME CacheInv, UNCHANGED cache
  PROVE  CachedConcrete' /\ CachedAbstract' /\ CachedDrill'
BY DEF CacheInv, cache, CachedConcrete, CachedAbstract, CachedDrill

\* A reply ends the thread's query and leaves those of the others alone.
LEMMA ReplyThreads ==
  ASSUME Inv, NEW c \in Caller, NEW a \in Answer, Reply(c, a),
         \A d \in Caller \ {c} : query'[d] = query[d]
  PROVE  \A d \in Caller : Asked(d)' /\ Loaded(d)'
<1>1. TypeOK
  BY DEF Inv
<1>2. Asked(c)' /\ Loaded(c)'
  <2>1. pc'[c] = "idle"
    BY <1>1, ReplyStep
  <2> QED
    BY <2>1 DEF Asked, Loaded
<1>3. ASSUME NEW d \in Caller \ {c}
      PROVE  Asked(d)' /\ Loaded(d)'
  <2>1. pc'[d] = pc[d] /\ found'[d] = found[d] /\ query'[d] = query[d]
    BY <1>1, ReplyStep
  <2>2. Asked(d) /\ Loaded(d)
    BY DEF Inv, CacheInv
  <2> QED
    BY <2>1, <2>2 DEF Asked, Loaded, Rejected, HasTable, Selected, ByDrill, Matches,
       ByAbstract, ByConcrete, ByBoth
<1> QED
  BY <1>2, <1>3

LEMMA CallStep ==
  ASSUME Inv, NEW c \in Caller, NEW q \in Query, Call(c, q)
  PROVE  Inv'
<1>1. query' = [query EXCEPT ![c] = q] /\ pc[c] = "idle" /\ UNCHANGED cache
  BY DEF Call, Reject, Hit, Miss, Begin
<1>2. query' \in [Caller -> Query \cup {None}]
  BY <1>1 DEF Inv, TypeOK
<1>3. ASSUME NEW a \in Answer, Reply(c, a)
      PROVE  Inv'
  <2>1. TypeOK'
    BY <1>1, <1>2, <1>3, ReplyStep DEF Inv, TypeOK, cache
  <2>2. CacheInv'
    <3>1. CachedConcrete' /\ CachedAbstract' /\ CachedDrill'
      BY <1>1, CacheUnchanged DEF Inv
    <3>2. \A d \in Caller \ {c} : query'[d] = query[d]
      BY <1>1 DEF Inv, TypeOK
    <3> QED
      BY <1>3, <3>1, <3>2, ReplyThreads DEF CacheInv
  <2> QED
    BY <2>1, <2>2 DEF Inv
<1>4. CASE Reject(c, q)
  BY <1>3, <1>4, ReplyType DEF Reject
<1>5. CASE Hit(c, q)
  <2>1. ~Rejected(q) /\ Cached(q) # None
    BY <1>5 DEF Hit
  <2>2. Cached(q) \in SUBSET (Abs \cup Row)
    BY <2>1, HitRows, SelectedType DEF Inv
  <2> QED
    BY <1>3, <1>5, <2>2, ReplyType DEF Hit
<1>6. CASE Miss(c, q)
  <2>1. TypeOK'
    BY <1>1, <1>2, <1>6 DEF Inv, TypeOK, Miss, cache
  <2>2. ~Rejected(q) /\ q # None
    BY <1>6, NoneIsNoResult DEF Miss
  <2>3. CacheInv'
    <3>1. CachedConcrete' /\ CachedAbstract' /\ CachedDrill'
      BY <1>1, CacheUnchanged DEF Inv
    <3>2. \A d \in Caller : Asked(d) /\ Loaded(d)
      BY DEF Inv, CacheInv
    <3>3. /\ pc'[c] = "load" /\ query'[c] = q
          /\ \A d \in Caller \ {c} : pc'[d] = pc[d] /\ query'[d] = query[d]
          /\ \A d \in Caller : found'[d] = found[d]
      BY <1>1, <1>6 DEF Inv, TypeOK, Miss
    <3>4. Asked(c)' /\ Loaded(c)'
      BY <2>2, <3>3 DEF Asked, Loaded
    <3>5. \A d \in Caller \ {c} : Asked(d)' /\ Loaded(d)'
      BY <3>2, <3>3 DEF Asked, Loaded
    <3> QED
      BY <3>1, <3>4, <3>5 DEF CacheInv
  <2> QED
    BY <2>1, <2>3 DEF Inv
<1> QED
  BY <1>4, <1>5, <1>6 DEF Call

LEMMA LoadStep ==
  ASSUME Inv, NEW c \in Caller, Load(c) \/ LoadFails(c)
  PROVE  Inv'
<1>1. query[c] \in Query
  BY DEF Inv, TypeOK, CacheInv, Asked, Load, LoadFails
<1>2. CachedConcrete' /\ CachedAbstract' /\ CachedDrill'
  BY CacheUnchanged DEF Inv, Load, LoadFails
<1>3. CASE Load(c)
  <2>1. Selected(query[c]) \in SUBSET (Abs \cup Row)
    BY <1>1, SelectedType
  <2>2. TypeOK'
    BY <1>3, <2>1 DEF Inv, TypeOK, Load, cache
  <2>3. /\ pc[c] = "load" /\ HasTable(query[c]) /\ query' = query
        /\ found'[c] = Selected(query[c])
        /\ \A d \in Caller \ {c} : pc'[d] = pc[d] /\ found'[d] = found[d]
    BY <1>3 DEF Inv, TypeOK, Load
  <2>4. \A d \in Caller : Asked(d) /\ Loaded(d)
    BY DEF Inv, CacheInv
  <2>5. Asked(c)' /\ Loaded(c)'
    BY <2>3, <2>4 DEF Asked, Loaded
  <2>6. \A d \in Caller \ {c} : Asked(d)' /\ Loaded(d)'
    BY <2>3, <2>4 DEF Asked, Loaded
  <2> QED
    BY <1>2, <2>2, <2>5, <2>6 DEF Inv, CacheInv
<1>4. CASE LoadFails(c)
  <2>1. PICK a \in Answer : Reply(c, a)
    BY <1>4, ReplyType DEF LoadFails
  <2>2. UNCHANGED <<cache, query>>
    BY <1>4 DEF LoadFails
  <2>3. TypeOK'
    BY <2>1, <2>2, ReplyStep DEF Inv, TypeOK, cache
  <2>4. \A d \in Caller : Asked(d)' /\ Loaded(d)'
    BY <2>1, <2>2, ReplyThreads
  <2> QED
    BY <1>2, <2>3, <2>4 DEF Inv, CacheInv
<1> QED
  BY <1>3, <1>4

\* A stored result leaves every index equal to meta.db.
LEMMA StoreIndexes ==
  ASSUME Inv, NEW c \in Caller, Store(c)
  PROVE  /\ byConcrete' \in [Dim -> [Conc -> Row \cup {None}]]
         /\ byAbstract' \in [Dim -> [Abs -> {None} \cup SUBSET Row]]
         /\ drillLines' \in [Strategy -> [Drill -> {None} \cup SUBSET Abs]]
         /\ CachedConcrete' /\ CachedAbstract' /\ CachedDrill'
<1> DEFINE q == query[c]
<1>1. /\ q \in Query /\ ~Rejected(q) /\ HasTable(q) /\ found[c] = Selected(q)
      /\ found[c] # {}
  BY DEF Inv, TypeOK, CacheInv, Asked, Loaded, Store
<1>2. CASE ByDrill(q)
  <2>1. /\ q.strategy \in Strategy /\ q.drill \in Drill
        /\ q.strategy \in {StrategyOf[d] : d \in Known} /\ q.strategy \in DrillTables
        /\ found[c] = Drills[q.strategy][q.drill] /\ found[c] \in SUBSET Abs
    BY <1>1, <1>2, DrillQueryParts, MetadataAssumption DEF Rejected, HasTable, Selected
  <2>2. drillLines' = [drillLines EXCEPT ![q.strategy][q.drill] = found[c]]
    BY <1>2 DEF Store
  <2>3. drillLines' \in [Strategy -> [Drill -> {None} \cup SUBSET Abs]]
    BY <2>1, <2>2 DEF Inv, TypeOK
  <2>4. ASSUME NEW s \in Strategy, NEW k \in Drill, drillLines'[s][k] # None
        PROVE  /\ s \in {StrategyOf[d] : d \in Known} /\ s \in DrillTables
               /\ drillLines'[s][k] = Drills[s][k] /\ drillLines'[s][k] # {}
    <3>1. CASE s = q.strategy /\ k = q.drill
      BY <1>1, <2>1, <2>2, <3>1 DEF Inv, TypeOK
    <3>2. CASE ~(s = q.strategy /\ k = q.drill)
      <4>1. drillLines'[s][k] = drillLines[s][k]
        BY <2>1, <2>2, <3>2 DEF Inv, TypeOK
      <4> QED
        BY <2>4, <4>1 DEF Inv, CacheInv, CachedDrill
    <3> QED
      BY <3>1, <3>2
  <2>5. CachedDrill'
    BY <2>4 DEF CachedDrill
  <2>6. byConcrete' = byConcrete /\ byAbstract' = byAbstract
    BY <1>2 DEF Store
  <2>7. CachedConcrete' /\ CachedAbstract'
    BY <2>6 DEF Inv, CacheInv, CachedConcrete, CachedAbstract
  <2> QED
    BY <2>3, <2>5, <2>6, <2>7 DEF Inv, TypeOK
<1>3. CASE ~ByDrill(q)
  <2>1. /\ q.dim \in Dim /\ q.dim \in Known /\ q.dim \in Tables
        /\ found[c] = {r \in Rows[q.dim] : Matches(r, q)}
        /\ found[c] \in SUBSET Rows[q.dim]
    BY <1>1, <1>3, LineQueryParts DEF Rejected, HasTable, Selected
  <2>2. /\ CacheRows(q.dim, found[c])
        /\ byAbstract' = IF ByAbstract(q)
                         THEN [byAbstract EXCEPT ![q.dim][q.abs] = found[c]]
                         ELSE byAbstract
        /\ drillLines' = drillLines
    BY <1>3 DEF Store
  <2>3. byConcrete' \in [Dim -> [Conc -> Row \cup {None}]] /\ CachedConcrete'
    BY <2>1, <2>2, CacheRowsKeeps DEF Inv
  <2>4. CachedDrill'
    BY <2>2 DEF Inv, CacheInv, CachedDrill
  <2>5. byAbstract' \in [Dim -> [Abs -> {None} \cup SUBSET Row]] /\ CachedAbstract'
    <3>1. CASE ~ByAbstract(q)
      <4>1. byAbstract' = byAbstract
        BY <2>2, <3>1
      <4> QED
        BY <4>1 DEF Inv, TypeOK, CacheInv, CachedAbstract
    <3>2. CASE ByAbstract(q)
      <4>1. q.abs \in Abs /\ Given(q.abs) /\ q.conc = NotGiven /\ ~Given(q.conc)
        BY <1>1, <1>3, <3>2, LineQueryParts DEF ByAbstract, Given
      <4>2. \A r : Matches(r, q) <=> r.abs = q.abs
        BY <4>1 DEF Matches
      <4>3. found[c] = {r \in Rows[q.dim] : r.abs = q.abs} /\ found[c] \in SUBSET Row
        BY <2>1, <4>2, MetadataAssumption
      <4>4. byAbstract' = [byAbstract EXCEPT ![q.dim][q.abs] = found[c]]
        BY <2>2, <3>2
      <4>5. byAbstract' \in [Dim -> [Abs -> {None} \cup SUBSET Row]]
        BY <2>1, <4>1, <4>3, <4>4 DEF Inv, TypeOK
      <4>6. ASSUME NEW d \in Dim, NEW a \in Abs, byAbstract'[d][a] # None
            PROVE  /\ d \in Known /\ d \in Tables
                   /\ byAbstract'[d][a] = {r \in Rows[d] : r.abs = a}
                   /\ byAbstract'[d][a] # {}
        <5>1. CASE d = q.dim /\ a = q.abs
          <6>1. byAbstract'[d][a] = found[c]
            BY <2>1, <4>1, <4>4, <5>1 DEF Inv, TypeOK
          <6> QED
            BY <1>1, <2>1, <4>3, <5>1, <6>1
        <5>2. CASE ~(d = q.dim /\ a = q.abs)
          <6>1. byAbstract'[d][a] = byAbstract[d][a]
            BY <2>1, <4>1, <4>4, <5>2 DEF Inv, TypeOK
          <6> QED
            BY <4>6, <6>1 DEF Inv, CacheInv, CachedAbstract
        <5> QED
          BY <5>1, <5>2
      <4> QED
        BY <4>5, <4>6 DEF CachedAbstract
    <3> QED
      BY <3>1, <3>2
  <2> QED
    BY <2>2, <2>3, <2>4, <2>5 DEF Inv, TypeOK
<1> QED
  BY <1>2, <1>3

LEMMA StoreStep ==
  ASSUME Inv, NEW c \in Caller, Store(c)
  PROVE  Inv'
<1>1. Ok(found[c]) \in Answer
  BY ReplyType DEF Inv, TypeOK
<1>2. Reply(c, Ok(found[c])) /\ query' = query
  BY DEF Store
<1>3. TypeOK'
  BY <1>1, <1>2, StoreIndexes, ReplyStep DEF Inv, TypeOK
<1>4. \A d \in Caller : Asked(d)' /\ Loaded(d)'
  BY <1>1, <1>2, ReplyThreads
<1> QED
  BY <1>3, <1>4, StoreIndexes DEF Inv, CacheInv

LEMMA InvStep == Inv /\ [Next]_vars => Inv'
<1> SUFFICES ASSUME Inv, [Next]_vars
             PROVE  Inv'
  OBVIOUS
<1>1. ASSUME NEW c \in Caller, NEW q \in Query, Call(c, q)
      PROVE  Inv'
  BY <1>1, CallStep
<1>2. ASSUME NEW c \in Caller, LoadFails(c) \/ Load(c)
      PROVE  Inv'
  BY <1>2, LoadStep
<1>3. ASSUME NEW c \in Caller, Store(c)
      PROVE  Inv'
  BY <1>3, StoreStep
<1>4. CASE UNCHANGED vars
  <2>1. TypeOK'
    BY <1>4 DEF Inv, TypeOK, vars, cache, thread
  <2>2. CachedConcrete' /\ CachedAbstract' /\ CachedDrill'
    BY <1>4, CacheUnchanged DEF Inv, vars
  <2>3. \A c \in Caller : Asked(c)' /\ Loaded(c)'
    BY <1>4 DEF Inv, CacheInv, Asked, Loaded, vars, thread
  <2> QED
    BY <2>1, <2>2, <2>3 DEF Inv, CacheInv
<1> QED
  BY <1>1, <1>2, <1>3, <1>4 DEF Next

\* Every entry of the cache is what meta.db holds for its key, whichever
\* threads loaded and stored it (read_through_cached_concrete,
\* get_drill_scenario_lines).
THEOREM CacheIsConsistent == Spec => [](TypeOK /\ CacheInv)
<1>1. Init => Inv
  BY CacheInit DEF Inv
<1> QED
  BY <1>1, InvStep, PTL DEF Spec, Inv

-----------------------------------------------------------------------------
(* The answers                                                             *)

\* The answer of a cache hit.
HitAnswer(q) ==
  IF Cached(q) = {} THEN Error(NotFoundError(q)) ELSE Ok(Cached(q))

\* A thread's answer is unchanged, taken from meta.db, or from the cache.
Answered(c) ==
  \/ answer'[c] = None
  \/ answer'[c] = answer[c] /\ query'[c] = query[c]
  \/ answer'[c] = DbAnswer(query'[c])
  \/ /\ query'[c] \in Query /\ ~Rejected(query'[c]) /\ Cached(query'[c]) # None
     /\ answer'[c] = HitAnswer(query'[c])

LEMMA CallAnswers ==
  ASSUME Inv, NEW c \in Caller, NEW q \in Query, Call(c, q), NEW d \in Caller
  PROVE  Answered(d)
<1>1. query' = [query EXCEPT ![c] = q] /\ query \in [Caller -> Query \cup {None}]
      /\ answer \in [Caller -> Answer \cup {None}]
  BY DEF Call, Reject, Hit, Miss, Begin, Inv, TypeOK
<1>2. CASE d # c
  BY <1>1, <1>2 DEF Call, Reject, Hit, Miss, Reply, Answered
<1>3. CASE d = c
  <2>1. query'[d] = q
    BY <1>1, <1>3
  <2>2. CASE Reject(c, q)
    <3>1. answer'[d] = Error(NotFoundError(q)) /\ Rejected(q)
      BY <1>1, <1>3, <2>2 DEF Reject, Reply
    <3>2. answer'[d] = DbAnswer(q)
      BY <3>1 DEF DbAnswer
    <3> QED
      BY <2>1, <3>2 DEF Answered
  <2>3. CASE Hit(c, q)
    <3>1. answer'[d] = HitAnswer(q) /\ ~Rejected(q) /\ Cached(q) # None
      BY <1>1, <1>3, <2>3 DEF Hit, Reply, HitAnswer
    <3> QED
      BY <2>1, <3>1 DEF Answered
  <2>4. CASE Miss(c, q)
    BY <1>1, <1>3, <2>4 DEF Miss, Answered
  <2> QED
    BY <2>2, <2>3, <2>4 DEF Call
<1> QED
  BY <1>2, <1>3

LEMMA LoadAnswers ==
  ASSUME Inv, NEW c \in Caller, LoadFails(c) \/ Load(c) \/ Store(c), NEW d \in Caller
  PROVE  Answered(d)
<1>1. query' = query /\ answer \in [Caller -> Answer \cup {None}]
  BY DEF LoadFails, Load, Store, Inv, TypeOK
<1>2. CASE d # c
  BY <1>1, <1>2 DEF LoadFails, Load, Store, Reply, Answered
<1>3. CASE d = c
  <2>1. ~Rejected(query[c])
    BY DEF LoadFails, Load, Store, Inv, CacheInv, Asked
  <2>2. CASE LoadFails(c)
    <3>1. \/ ~HasTable(query[c]) /\ answer'[c] = Error("sqlite")
          \/ /\ HasTable(query[c]) /\ Selected(query[c]) = {}
             /\ answer'[c] = Error(NotFoundError(query[c]))
      BY <1>1, <2>2 DEF LoadFails, Reply
    <3>2. answer'[c] = DbAnswer(query[c])
      BY <2>1, <3>1 DEF DbAnswer
    <3> QED
      BY <1>1, <1>3, <3>2 DEF Answered
  <2>3. CASE Load(c)
    BY <1>1, <2>3 DEF Load, Answered
  <2>4. CASE Store(c)
    <3>1. HasTable(query[c]) /\ found[c] = Selected(query[c]) /\ found[c] # {}
      BY <2>4 DEF Store, Inv, TypeOK, CacheInv, Loaded
    <3>2. answer'[c] = Ok(found[c])
      BY <1>1, <2>4 DEF Store, Reply
    <3>3. answer'[c] = DbAnswer(query[c])
      BY <2>1, <3>1, <3>2 DEF DbAnswer
    <3> QED
      BY <1>1, <1>3, <3>3 DEF Answered
  <2> QED
    BY <2>2, <2>3, <2>4
<1> QED
  BY <1>2, <1>3

LEMMA StepAnswers ==
  ASSUME Inv, [Next]_vars, NEW d \in Caller
  PROVE  Answered(d)
<1>1. CASE UNCHANGED vars
  BY <1>1 DEF vars, thread, Answered
<1> QED
  BY <1>1, CallAnswers, LoadAnswers DEF Next

\* What AnswersAreRows says of one answer.
Truthful(q, a) ==
  /\ a.error = "none" => a.rows \subseteq Selected(q)
  /\ ~ByBoth(q) => a.error = DbAnswer(q).error
  /\ ~ByBoth(q) /\ ~ByConcrete(q) => a = DbAnswer(q)

LEMMA DbAnswerTruthful == \A q : Truthful(q, DbAnswer(q))
<1> TAKE q
<1>1. NotFoundError(q) # "none"
  BY DEF NotFoundError
<1> QED
  BY <1>1 DEF Truthful, DbAnswer, Error, Ok

LEMMA HitAnswerTruthful ==
  ASSUME Inv, NEW q \in Query, ~Rejected(q), Cached(q) # None
  PROVE  Truthful(q, HitAnswer(q)) /\ (Unambiguous(q) => HitAnswer(q) = DbAnswer(q))
<1>1. TypeOK /\ CacheInv
  BY DEF Inv
<1>2. /\ HasTable(q) /\ Cached(q) \subseteq Selected(q)
      /\ Selected(q) # {} \/ ByBoth(q)
      /\ ~ByBoth(q) => Cached(q) # {}
      /\ ~ByBoth(q) /\ ~ByConcrete(q) => Cached(q) = Selected(q)
      /\ Unambiguous(q) => Cached(q) = Selected(q)
  BY <1>1, HitRows
<1>3. NotFoundError(q) # "none"
  BY DEF NotFoundError
<1> QED
  BY <1>2, <1>3 DEF Truthful, HitAnswer, DbAnswer, Error, Ok

\* With several rows for a concrete line, answers are still rows that the
\* filters select, and those of the other queries are complete.
THEOREM AnswersComeFromMetaDb == Spec => []AnswersAreRows
<1>1. Inv /\ AnswersAreRows /\ [Next]_vars => AnswersAreRows'
  <2> SUFFICES ASSUME Inv, AnswersAreRows, [Next]_vars
               PROVE  AnswersAreRows'
    OBVIOUS
  <2>1. \A c \in Caller : answer[c] # None => Truthful(query[c], answer[c])
    BY DEF AnswersAreRows, Truthful
  <2>2. ASSUME NEW c \in Caller, answer'[c] # None
        PROVE  Truthful(query'[c], answer'[c])
    <3>1. Answered(c)
      BY StepAnswers
    <3> QED
      BY <2>1, <2>2, <3>1, DbAnswerTruthful, HitAnswerTruthful DEF Answered
  <2> QED
    BY <2>2 DEF AnswersAreRows, Truthful, DbAnswer, Selected, ByDrill, ByBoth,
       ByConcrete, Rejected, HasTable, NotFoundError, ByAbstract, Matches
<1>2. Init => AnswersAreRows
  BY CacheInit
<1> QED
  BY <1>1, <1>2, CacheIsConsistent, PTL DEF Spec, Inv

\* A query whose concrete line has one abstract line is answered as meta.db
\* would answer it, whatever is cached and whoever else is asking
\* (CachedMetadataReader).
THEOREM CacheIsTransparent == Spec => []UnambiguousAnswersMatch
<1>1. Inv /\ UnambiguousAnswersMatch /\ [Next]_vars => UnambiguousAnswersMatch'
  <2> SUFFICES ASSUME Inv, UnambiguousAnswersMatch, [Next]_vars
               PROVE  UnambiguousAnswersMatch'
    OBVIOUS
  <2>1. ASSUME NEW c \in Caller, answer'[c] # None, Unambiguous(query'[c])
        PROVE  answer'[c] = DbAnswer(query'[c])
    <3>1. Answered(c)
      BY StepAnswers
    <3> QED
      BY <2>1, <3>1, HitAnswerTruthful DEF Answered, UnambiguousAnswersMatch
  <2> QED
    BY <2>1 DEF UnambiguousAnswersMatch, Unambiguous, DbAnswer, Selected, ByDrill, ByBoth,
       ByConcrete, Rejected, HasTable, NotFoundError, ByAbstract, Matches
<1>2. Init => UnambiguousAnswersMatch
  BY CacheInit DEF AnswersMatchMetaDb, UnambiguousAnswersMatch
<1> QED
  BY <1>1, <1>2, CacheIsConsistent, PTL DEF Spec, Inv

\* Every variable of the cache has its type, whatever the tables hold.
THEOREM CacheTypes == Spec => []TypeOK
  BY CacheIsConsistent, PTL
==============================================================================
