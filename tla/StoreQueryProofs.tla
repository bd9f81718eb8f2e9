---------------------------- MODULE StoreQueryProofs ----------------------------
(***************************************************************************)
(* Queries answer from the packs and from meta.db, for every store, every  *)
(* request and every number of threads that fill the cache of schemas.     *)
(* TLC checks the same properties on two dimensions (MCStoreQuery).        *)
(***************************************************************************)
EXTENDS StoreQuery, NaturalsInduction, SequenceTheorems, WellFoundedInduction, TLAPS

-----------------------------------------------------------------------------
(* The inductive invariant                                                 *)

\* A query that has read a pack and waits for its schema.
Busy(c) == pc[c] \in {"schema", "load", "insert"}

\* The items of a batch whose groups are not begun, whose group is being
\* answered, and the rest: those that failed already or have their results.
Pending(c) == {i \in Parsed(request[c]) : Group(request[c], i) \cap todo[c] # {}}
InHand(c) == IF Busy(c) THEN Group(request[c], current[c]) ELSE {}
Done(c) == DOMAIN request[c].items \ (Pending(c) \cup InHand(c))

Failing(c) == {i \in DOMAIN request[c].items : ItemError(c, i) # "none"}

\* The errors that a batch may report of an item.
Codes(c) == [i \in DOMAIN request[c].items |->
  {ItemError(c, i)} \cup
    (IF ItemError(c, i) = "HAND_STRATEGY_NOT_FOUND" /\ SchemaError(c, i) # "none"
     THEN {SchemaError(c, i)} ELSE {})]

\* f is the failure of the first item of B, with one of its codes.
FirstOf(f, B, codes) ==
  IF B = {} THEN f = None
  ELSE /\ f \in [index : Nat \ {0}, error : Failures]
       /\ f.index \in B /\ \A i \in B : f.index <= i
       /\ f.error \in codes[f.index]

\* What holds of every request in progress.
RequestInv(c) ==
  /\ request[c] \in Requests[c] /\ request[c].items # <<>>
  /\ answer[c] = None
  /\ Busy(c) => /\ current[c] \in DOMAIN request[c].items
                /\ ReadError(request[c], current[c]) = "none"
                /\ opened[c] = "ok"
  /\ pc[c] = "insert" => Schema[SchemaOf(c)] # Absent

\* Of a single query or a query of hands.
OneInv(c) ==
  /\ request[c].kind = "single" => 1 \in Parsed(request[c])
  /\ broken[c] = {}
  /\ pc[c] \in {"open", "next"} => todo[c] = {1}
  /\ pc[c] # "open" => opened[c] = "ok"
  /\ Busy(c) => current[c] = 1
                /\ (request[c].kind = "single" => Mask(request[c], 1) # {})

\* Of a batch: the items that are done have their results, or the first of
\* those that fail is noted.
BatchInv(c) ==
  /\ todo[c] \subseteq GroupFirsts(request[c])
  /\ pc[c] = "open" => todo[c] = GroupFirsts(request[c])
  /\ Busy(c) => current[c] \in GroupFirsts(request[c]) \ todo[c]
  /\ pc[c] # "open" /\ opened[c] # "ok" => todo[c] = {}
  /\ broken[c] \subseteq Done(c) \cap Parsed(request[c])
  /\ results[c] = [i \in DOMAIN request[c].items |-> results[c][i]]
  /\ \A i \in Done(c) \ Failing(c) : results[c][i] = ItemActions(c, i)
  /\ FirstOf(failure[c], Done(c) \cap Failing(c), Codes(c))

\* What the answers promise, for one thread.
SingleRight(c) ==
  Answered(c, "single") =>
    /\ answer[c].error = ItemError(c, 1)
    /\ answer[c].error = "none" => answer[c].items = <<ItemActions(c, 1)>>

BatchRight(c) ==
  Answered(c, "batch") =>
    LET items == DOMAIN request[c].items
        failing == {i \in items : ItemError(c, i) # "none"}
        a == answer[c]
    IN IF failing = {}
       THEN a.error = "none" /\ a.items = [i \in items |-> ItemActions(c, i)]
       ELSE /\ a.index \in failing /\ \A i \in failing : a.index <= i
            /\ \/ a.error = ItemError(c, a.index)
               \/ /\ ItemError(c, a.index) = "HAND_STRATEGY_NOT_FOUND"
                  /\ a.error = SchemaError(c, a.index) /\ a.error # "none"

HandsRight(c) ==
  Answered(c, "hands") =>
    LET q == request[c]
        pack == PackOf(q, 1)
        schema == Schema[pack.schema]
        Shows(h) == \E a \in pack.strong[h] :
                      q.filtered => Actions(pack.mask[h], schema)[a] \in q.wanted
    IN /\ (answer[c].hands = {}) <=> (answer[c].error # "none")
       /\ answer[c].error \in {"none", "HANDS_NOT_FOUND"} =>
            \A h \in Hand : InSchema(pack.mask[h], schema) =>
              (h \in answer[c].hands <=> Shows(h))

Local(c) ==
  /\ pc[c] # "idle" => /\ RequestInv(c)
                       /\ request[c].kind # "batch" => OneInv(c)
                       /\ request[c].kind = "batch" => BatchInv(c)
  /\ SingleRight(c) /\ BatchRight(c) /\ HandsRight(c)

SchemasLoaded ==
  \A id \in SchemaId : schemas[id] = None \/ (schemas[id] = Schema[id] /\ Schema[id] # Absent)

Domains ==
  /\ DOMAIN schemas = SchemaId
  /\ \A f \in {pc, request, opened, broken, todo, current, failure, results, answer} :
       DOMAIN f = Caller
  /\ pc = [c \in Caller |-> pc[c]]

QueryInv == Domains /\ SchemasLoaded /\ \A c \in Caller : Local(c)

-----------------------------------------------------------------------------
(* The first failure                                                       *)

LEMMA MinIsLeast ==
  ASSUME NEW S \in SUBSET Nat, S # {}
  PROVE  Min(S) \in S /\ \A x \in S : Min(S) <= x
<1> DEFINE less == OpToRel(<, Nat)
<1>1. IsWellFoundedOn(less, Nat)
  BY NatLessThanWellFounded
<1>2. \A x, y \in Nat : x < y => <<x, y>> \in less
  BY DEF OpToRel
<1> HIDE DEF less
<1>3. PICK x \in S : \A y \in S : ~(<<y, x>> \in less)
  BY <1>1, WFMin
<1>4. ASSUME NEW y \in S
      PROVE  x <= y
  <2>1. ~(y < x)
    BY <1>2, <1>3
  <2> QED
    BY <2>1
<1> QED
  BY <1>3, <1>4 DEF Min

LEMMA FailureIsSomething ==
  ASSUME NEW f \in [index : Nat \ {0}, error : Failures]
  PROVE  f # None
<1>1. f \in [index : Nat, error : Failures]
  OBVIOUS
<1> QED
  BY <1>1, StoreAssumption

\* Noting the first of some more items that fail.
LEMMA NoteFirst ==
  ASSUME NEW B \in SUBSET Nat, NEW S \in SUBSET (Nat \ {0}), NEW codes, NEW f,
         FirstOf(f, B, codes), NEW code \in Failures,
         NEW i \in S, \A j \in S : i <= j, code \in codes[i]
  PROVE  FirstOf(MinFailure(f, i, code), B \cup S, codes)
<1> DEFINE g == [index |-> i, error |-> code]
<1>1. g \in [index : Nat \ {0}, error : Failures] /\ g.index = i /\ g.error = code
  OBVIOUS
<1>2. CASE B = {}
  <2>1. f = None
    BY <1>2 DEF FirstOf
  <2>2. MinFailure(f, i, code) = g
    BY <2>1 DEF MinFailure
  <2> HIDE DEF g
  <2> QED
    BY <1>1, <1>2, <2>2 DEF FirstOf
<1>3. CASE B # {}
  <2>1. /\ f \in [index : Nat \ {0}, error : Failures]
        /\ f.index \in B /\ \A j \in B : f.index <= j
        /\ f.error \in codes[f.index]
    BY <1>3 DEF FirstOf
  <2>2. f # None /\ f.index \in Nat
    BY <2>1, FailureIsSomething
  <2>3. CASE i >= f.index
    <3>1. MinFailure(f, i, code) = f
      BY <2>2, <2>3 DEF MinFailure
    <3>2. \A j \in B \cup S : f.index <= j
      BY <2>1, <2>2, <2>3
    <3> QED
      BY <2>1, <3>1, <3>2 DEF FirstOf
  <2>4. CASE ~(i >= f.index)
    <3>1. MinFailure(f, i, code) = g
      BY <2>2, <2>4 DEF MinFailure
    <3>2. \A j \in B \cup S : i <= j
      BY <2>1, <2>2, <2>4
    <3> HIDE DEF g
    <3> QED
      BY <1>1, <3>1, <3>2 DEF FirstOf
  <2> QED
    BY <2>3, <2>4
<1> QED
  BY <1>2, <1>3

LEMMA NoteAll ==
  ASSUME NEW B \in SUBSET Nat, NEW S \in SUBSET (Nat \ {0}), NEW codes, NEW f,
         FirstOf(f, B, codes), NEW code \in Failures,
         \A i \in S : code \in codes[i]
  PROVE  FirstOf(MinFailures(f, S, code), B \cup S, codes)
<1>1. CASE S = {}
  <2>1. B \cup S = B /\ MinFailures(f, S, code) = f
    BY <1>1 DEF MinFailures
  <2> QED
    BY <2>1
<1>2. CASE S # {}
  <2> DEFINE i == Min(S)
  <2>1. i \in S /\ \A j \in S : i <= j
    BY <1>2, MinIsLeast
  <2>2. MinFailures(f, S, code) = MinFailure(f, i, code)
    BY <1>2 DEF MinFailures
  <2> HIDE DEF i
  <2> QED
    BY <2>1, <2>2, NoteFirst
<1> QED
  BY <1>1, <1>2

LEMMA SameFirst ==
  ASSUME NEW B, NEW f, NEW codes, NEW newCodes, FirstOf(f, B, codes),
         \A i \in B : newCodes[i] = codes[i]
  PROVE  FirstOf(f, B, newCodes)
BY DEF FirstOf

-----------------------------------------------------------------------------
(* Requests and groups                                                     *)

LEMMA RequestType ==
  ASSUME NEW c \in Caller, NEW q \in Requests[c]
  PROVE  /\ q.kind \in {"single", "batch", "hands"} /\ q.dim \in Dim
         /\ Len(q.items) \in Nat /\ DOMAIN q.items = 1..Len(q.items)
         /\ \A i \in DOMAIN q.items : q.items[i].line \in Line
         /\ q.kind # "batch" => DOMAIN q.items = {1}
         /\ Parsed(q) \subseteq DOMAIN q.items
         /\ DOMAIN q.items \subseteq Nat \ {0}
<1>1. /\ q.kind \in {"single", "batch", "hands"} /\ q.dim \in Dim
      /\ q.items \in Seq([line : Line, hand : Hand \cup {BadHand}])
      /\ q.kind # "batch" => Len(q.items) = 1
  BY RequestAssumption
<1>2. Len(q.items) \in Nat /\ DOMAIN q.items = 1..Len(q.items)
  BY <1>1
<1>3. ASSUME NEW i \in DOMAIN q.items
      PROVE  q.items[i].line \in Line
  <2>1. q.items[i] \in [line : Line, hand : Hand \cup {BadHand}]
    BY <1>1, <1>2, ElementOfSeq
  <2> QED
    BY <2>1
<1>4. 1..1 = {1}
  OBVIOUS
<1>5. Parsed(q) \subseteq DOMAIN q.items
  BY DEF Parsed
<1>6. DOMAIN q.items \subseteq Nat \ {0}
  <2> DEFINE n == Len(q.items)
  <2>1. n \in Nat /\ DOMAIN q.items = 1..n
    BY <1>2
  <2> HIDE DEF n
  <2> QED
    BY <2>1
<1>7. q.kind # "batch" => DOMAIN q.items = {1}
  BY <1>1, <1>2, <1>4
<1> QED
  BY <1>1, <1>2, <1>3, <1>5, <1>6, <1>7

\* A pack that is read has a schema.
LEMMA PackType ==
  ASSUME NEW c \in Caller, NEW q \in Requests[c], NEW i \in DOMAIN q.items,
         ReadError(q, i) = "none"
  PROVE  PackOf(q, i).schema \in SchemaId
<1>1. q.dim \in Dim /\ q.items[i].line \in Line
  BY RequestType
<1>2. PackOf(q, i) \notin {Absent, Corrupt}
  BY DEF ReadError
<1> QED
  BY <1>1, <1>2, StoreAssumption DEF PackOf

LEMMA GroupFacts ==
  ASSUME NEW c \in Caller, NEW q \in Requests[c], NEW i \in Parsed(q)
  PROVE  /\ i \in Group(q, i) /\ Group(q, i) \subseteq Parsed(q)
         /\ \A j \in Group(q, i) : Group(q, j) = Group(q, i)
         /\ \A j \in Group(q, i) : /\ PackOf(q, j) = PackOf(q, i)
                                   /\ ReadError(q, j) = ReadError(q, i)
         /\ \A j \in Parsed(q) : j \in Group(q, i) <=> i \in Group(q, j)
         /\ \E j \in Group(q, i) : j \in GroupFirsts(q)
         /\ \A j, k \in Group(q, i) \cap GroupFirsts(q) : j = k
<1>1. i \in Group(q, i) /\ Group(q, i) \subseteq Parsed(q)
  BY DEF Group
<1>2. \A j \in Group(q, i) : Group(q, j) = Group(q, i)
  BY DEF Group
<1>3. \A j \in Group(q, i) : /\ PackOf(q, j) = PackOf(q, i)
                            /\ ReadError(q, j) = ReadError(q, i)
  BY DEF Group, PackOf, ReadError
<1>4. \A j \in Parsed(q) : j \in Group(q, i) <=> i \in Group(q, j)
  BY DEF Group
<1>5. Group(q, i) \subseteq Nat
  BY <1>1, RequestType
<1>6. \E j \in Group(q, i) : j \in GroupFirsts(q)
  <2> DEFINE j == Min(Group(q, i))
  <2>1. j \in Group(q, i) /\ \A k \in Group(q, i) : j <= k
    BY <1>1, <1>5, MinIsLeast
  <2> HIDE DEF j
  <2>2. Group(q, j) = Group(q, i) /\ j \in Parsed(q)
    BY <1>1, <1>2, <2>1
  <2> QED
    BY <2>1, <2>2 DEF GroupFirsts
<1>7. ASSUME NEW j \in Group(q, i) \cap GroupFirsts(q), NEW k \in Group(q, i) \cap GroupFirsts(q)
      PROVE  j = k
  <2>1. Group(q, j) = Group(q, i) /\ Group(q, k) = Group(q, i)
    BY <1>2
  <2>2. j <= k /\ k <= j
    BY <2>1 DEF GroupFirsts
  <2> QED
    BY <1>5, <2>2
<1> QED
  BY <1>1, <1>2, <1>3, <1>4, <1>6, <1>7

-----------------------------------------------------------------------------
(* A step of one thread leaves the others alone                            *)

LEMMA SameItems ==
  ASSUME NEW d \in Caller,
         request'[d] = request[d], opened'[d] = opened[d], broken'[d] = broken[d]
  PROVE  /\ \A i : ItemError(d, i)' = ItemError(d, i)
         /\ \A i : SchemaError(d, i)' = SchemaError(d, i)
         /\ \A i : ItemActions(d, i)' = ItemActions(d, i)
         /\ Failing(d)' = Failing(d)
         /\ Codes(d)' = Codes(d)
<1>1. \A i : SchemaError(d, i)' = SchemaError(d, i)
  BY DEF SchemaError
<1>2. \A i : ItemError(d, i)' = ItemError(d, i)
  BY <1>1 DEF ItemError
<1>3. \A i : ItemActions(d, i)' = ItemActions(d, i)
  BY DEF ItemActions
<1>4. Failing(d)' = Failing(d)
  BY <1>2 DEF Failing
<1>5. Codes(d)' = Codes(d)
  BY <1>1, <1>2 DEF Codes
<1> QED
  BY <1>1, <1>2, <1>3, <1>4, <1>5

\* The properties of answers, in terms of what is the same after a step.
LEMMA SameAnswers ==
  ASSUME NEW d \in Caller,
         request'[d] = request[d], opened'[d] = opened[d], broken'[d] = broken[d],
         answer'[d] = answer[d], SingleRight(d), BatchRight(d), HandsRight(d)
  PROVE  SingleRight(d)' /\ BatchRight(d)' /\ HandsRight(d)'
<1>1. SingleRight(d)'
  BY SameItems DEF SingleRight, Answered
<1>2. HandsRight(d)'
  BY DEF HandsRight, Answered
<1>3. BatchRight(d)'
  <2>1. DOMAIN request'[d].items = DOMAIN request[d].items
        /\ Answered(d, "batch")' = Answered(d, "batch")
    BY DEF Answered
  <2>2. {i \in DOMAIN request'[d].items : ItemError(d, i)' # "none"}
          = {i \in DOMAIN request[d].items : ItemError(d, i) # "none"}
    BY <2>1, SameItems
  <2>3. [i \in DOMAIN request'[d].items |-> ItemActions(d, i)']
          = [i \in DOMAIN request[d].items |-> ItemActions(d, i)]
    BY <2>1, SameItems
  <2> QED
    BY <2>1, <2>2, <2>3, SameItems DEF BatchRight
<1> QED
  BY <1>1, <1>2, <1>3

Untouched(d) ==
  /\ pc'[d] = pc[d] /\ request'[d] = request[d] /\ opened'[d] = opened[d]
  /\ broken'[d] = broken[d] /\ todo'[d] = todo[d] /\ current'[d] = current[d]
  /\ failure'[d] = failure[d] /\ results'[d] = results[d] /\ answer'[d] = answer[d]

LEMMA Frame ==
  ASSUME NEW d \in Caller, Local(d), Untouched(d)
  PROVE  Local(d)'
<1>1. Busy(d)' = Busy(d)
  BY DEF Untouched, Busy
<1>2. Pending(d)' = Pending(d) /\ InHand(d)' = InHand(d)
  BY <1>1 DEF Untouched, Pending, InHand
<1>3. Done(d)' = Done(d)
  BY <1>2 DEF Untouched, Done
<1>4. /\ \A i : ItemError(d, i)' = ItemError(d, i)
      /\ \A i : ItemActions(d, i)' = ItemActions(d, i)
      /\ Failing(d)' = Failing(d)
      /\ Codes(d)' = Codes(d)
  BY SameItems DEF Untouched
<1>5. RequestInv(d)' = RequestInv(d)
  BY <1>1 DEF Untouched, RequestInv, SchemaOf
<1>6. OneInv(d)' = OneInv(d)
  BY <1>1 DEF Untouched, OneInv
<1>7. BatchInv(d) => BatchInv(d)'
  BY <1>1, <1>3, <1>4 DEF Untouched, BatchInv
<1>8. SingleRight(d)' /\ BatchRight(d)' /\ HandsRight(d)'
  BY SameAnswers DEF Local, Untouched
<1> QED
  BY <1>5, <1>6, <1>7, <1>8 DEF Local, Untouched

Turn(c) ==
  \/ \E q \in Requests[c] : Begin(c, q)
  \/ OpenReader(c) \/ OpenFails(c) \/ ReadPack(c)
  \/ UseCached(c) \/ MissSchema(c) \/ LoadSchema(c) \/ LoadFails(c) \/ InsertSchema(c)
  \/ FinishBatch(c)

LEMMA TurnsOfOthers ==
  ASSUME Domains, NEW c \in Caller, Turn(c)
  PROVE  Domains' /\ \A d \in Caller \ {c} : Untouched(d)
<1> DEFINE Kept == Domains' /\ \A d \in Caller \ {c} : Untouched(d)
<1> USE DEF Domains, Untouched, Goto, Reply, local
<1>1. ASSUME NEW q \in Requests[c], Begin(c, q)
      PROVE  Kept
  BY <1>1 DEF Begin
<1>2. CASE OpenReader(c)
  BY <1>2 DEF OpenReader
<1>3. CASE OpenFails(c)
  BY <1>3 DEF OpenFails, Fail
<1>4. CASE ReadPack(c)
  BY <1>4 DEF ReadPack, Fail
<1>5. ASSUME NEW schema, Deliver(c, schema), UNCHANGED <<request, opened, broken, todo, current>>,
             DOMAIN schemas' = SchemaId
      PROVE  Kept
  <2>1. CASE DeliverSingle(c, schema)
    BY <1>5, <2>1 DEF DeliverSingle
  <2>2. CASE DeliverHands(c, schema)
    BY <1>5, <2>2 DEF DeliverHands
  <2>3. CASE DeliverGroup(c, schema)
    BY <1>5, <2>3 DEF DeliverGroup
  <2> QED
    BY <1>5, <2>1, <2>2, <2>3 DEF Deliver
<1>6. CASE UseCached(c)
  BY <1>5, <1>6 DEF UseCached
<1>7. CASE MissSchema(c)
  BY <1>7 DEF MissSchema
<1>8. CASE LoadSchema(c)
  BY <1>8 DEF LoadSchema, Fail
<1>9. CASE LoadFails(c)
  BY <1>9 DEF LoadFails, Fail
<1>10. CASE InsertSchema(c)
  BY <1>5, <1>10 DEF InsertSchema
<1>11. CASE FinishBatch(c)
  BY <1>11 DEF FinishBatch
<1> QED
  BY <1>1, <1>2, <1>3, <1>4, <1>6, <1>7, <1>8, <1>9, <1>10, <1>11 DEF Turn

-----------------------------------------------------------------------------
(* Single queries and queries of hands                                     *)

LEMMA GoesOn ==
  ASSUME NEW c \in Caller, RequestInv(c)',
         request'[c].kind # "batch" => OneInv(c)',
         request'[c].kind = "batch" => BatchInv(c)'
  PROVE  Local(c)'
BY DEF Local, RequestInv, SingleRight, BatchRight, HandsRight, Answered

LEMMA SingleEnds ==
  ASSUME NEW c \in Caller, pc'[c] = "idle", request'[c].kind = "single", SingleRight(c)'
  PROVE  Local(c)'
BY DEF Local, BatchRight, HandsRight, Answered

LEMMA HandsEnd ==
  ASSUME NEW c \in Caller, pc'[c] = "idle", request'[c].kind = "hands", HandsRight(c)'
  PROVE  Local(c)'
BY DEF Local, SingleRight, BatchRight, Answered

LEMMA BatchEnds ==
  ASSUME NEW c \in Caller, pc'[c] = "idle", request'[c].kind = "batch", BatchRight(c)'
  PROVE  Local(c)'
BY DEF Local, SingleRight, HandsRight, Answered

\* An error that ends a query is the one of its item.
LEMMA OneFails ==
  ASSUME NEW c \in Caller, NEW code, request'[c].kind \in {"single", "hands"},
         pc'[c] = "idle", answer'[c] = Error(code, 0),
         code \notin {"none", "HANDS_NOT_FOUND"},
         request'[c].kind = "single" => ItemError(c, 1)' = code
  PROVE  Local(c)'
<1>1. answer'[c].error = code /\ answer'[c].hands = {}
  BY DEF Error
<1>2. CASE request'[c].kind = "single"
  <2>1. SingleRight(c)'
    BY <1>1, <1>2 DEF SingleRight
  <2> QED
    BY <1>2, <2>1, SingleEnds
<1>3. CASE request'[c].kind = "hands"
  <2>1. HandsRight(c)'
    BY <1>1 DEF HandsRight
  <2> QED
    BY <1>3, <2>1, HandsEnd
<1> QED
  BY <1>2, <1>3

LEMMA BeginOne ==
  ASSUME Domains, NEW c \in Caller, NEW q \in Requests[c], Begin(c, q), q.kind # "batch"
  PROVE  Local(c)'
<1>1. /\ q.kind \in {"single", "hands"} /\ q.items # <<>>
      /\ Parsed(q) \subseteq {1} /\ DOMAIN q.items = {1}
  BY RequestType
<1>2. request'[c] = q /\ opened'[c] = None /\ broken'[c] = {} /\ todo'[c] = {1}
  BY DEF Begin, Domains
<1>3. CASE q.kind = "single" /\ Parsed(q) = {}
  <2>1. pc'[c] = "idle" /\ answer'[c] = Error("INVALID_ARGUMENT", 0)
    BY <1>1, <1>3 DEF Begin, Domains, Reply
  <2>2. ItemError(c, 1)' = "INVALID_ARGUMENT"
    BY <1>2, <1>3 DEF ItemError
  <2> QED
    BY <1>1, <1>2, <2>1, <2>2, OneFails
<1>4. CASE q.kind = "single" => Parsed(q) # {}
  <2>1. pc'[c] = "open" /\ answer'[c] = None
    BY <1>1, <1>4 DEF Begin, Domains, Reply
  <2>2. ~Busy(c)'
    BY <2>1 DEF Busy
  <2>3. RequestInv(c)'
    BY <1>1, <1>2, <2>1, <2>2 DEF RequestInv
  <2>4. OneInv(c)'
    BY <1>1, <1>2, <1>4, <2>1, <2>2 DEF OneInv
  <2> QED
    BY <1>1, <1>2, <2>3, <2>4, GoesOn
<1> QED
  BY <1>3, <1>4

LEMMA OpenOne ==
  ASSUME Domains, NEW c \in Caller, Local(c), request[c].kind # "batch",
         OpenReader(c) \/ OpenFails(c)
  PROVE  Local(c)'
<1>1. /\ RequestInv(c) /\ OneInv(c) /\ pc[c] = "open"
      /\ request[c] \in Requests[c]
  BY DEF Local, OpenReader, OpenFails, RequestInv
<1>2. request[c].kind \in {"single", "hands"}
  BY <1>1, RequestType
<1>3. request' = request /\ broken' = broken
  BY DEF OpenReader, OpenFails
<1>4. CASE OpenReader(c)
  <2>1. pc'[c] = "next" /\ opened'[c] = "ok" /\ answer' = answer /\ todo' = todo
    BY <1>4 DEF OpenReader, Domains, Goto
  <2>2. ~Busy(c)'
    BY <2>1 DEF Busy
  <2>3. RequestInv(c)'
    BY <1>1, <1>3, <2>1, <2>2 DEF RequestInv
  <2>4. OneInv(c)'
    BY <1>1, <1>3, <2>1, <2>2 DEF OneInv
  <2> QED
    BY <1>2, <1>3, <2>3, <2>4, GoesOn
<1>5. CASE OpenFails(c)
  <2>1. PICK code \in {"DIMENSION_NOT_FOUND", "DATA_FILE_NOT_FOUND"} :
          opened' = [opened EXCEPT ![c] = code] /\ Fail(c, 1, code)
    BY <1>5 DEF OpenFails
  <2>2. opened'[c] = code /\ pc'[c] = "idle" /\ answer'[c] = Error(code, 0)
    BY <2>1 DEF Domains, Fail, Reply
  <2>3. ASSUME request'[c].kind = "single"
        PROVE  ItemError(c, 1)' = code
    <3>1. 1 \in Parsed(request'[c])
      BY <1>1, <1>3, <2>3 DEF OneInv
    <3> QED
      BY <2>2, <3>1 DEF ItemError
  <2> QED
    BY <1>2, <1>3, <2>2, <2>3, OneFails
<1> QED
  BY <1>4, <1>5

LEMMA ReadOne ==
  ASSUME Domains, NEW c \in Caller, Local(c), request[c].kind # "batch", ReadPack(c)
  PROVE  Local(c)'
<1> DEFINE q == request[c]
<1>1. /\ RequestInv(c) /\ OneInv(c) /\ q \in Requests[c]
      /\ pc[c] = "next" /\ todo[c] = {1} /\ opened[c] = "ok"
      /\ q.kind = "single" => 1 \in Parsed(q)
  BY DEF Local, ReadPack, RequestInv, OneInv
<1>2. q.kind \in {"single", "hands"} /\ DOMAIN q.items = {1}
  BY <1>1, RequestType
<1>3. Min(todo[c]) = 1
  BY <1>1, MinIsLeast
<1>4. /\ UNCHANGED <<request, opened, broken>> /\ current'[c] = 1
      /\ IF ReadError(q, 1) # "none" THEN Fail(c, 1, ReadError(q, 1))
         ELSE IF q.kind = "single" /\ Mask(q, 1) = {} THEN Fail(c, 1, "HAND_STRATEGY_NOT_FOUND")
         ELSE Goto(c, "schema") /\ UNCHANGED failure
  BY <1>3 DEF ReadPack, Domains
<1>5. ASSUME NEW code, Fail(c, 1, code),
             code \notin {"none", "HANDS_NOT_FOUND"},
             q.kind = "single" => ItemError(c, 1)' = code
      PROVE  Local(c)'
  <2>1. pc'[c] = "idle" /\ answer'[c] = Error(code, 0)
    BY <1>5 DEF Fail, Reply, Domains
  <2> QED
    BY <1>2, <1>4, <1>5, <2>1, OneFails
<1>6. CASE ReadError(q, 1) # "none"
  <2>1. ReadError(q, 1) \notin {"none", "HANDS_NOT_FOUND"}
    BY <1>6 DEF ReadError
  <2>2. q.kind = "single" => ItemError(c, 1)' = ReadError(q, 1)
    BY <1>1, <1>4, <1>6 DEF ItemError
  <2> QED
    BY <1>4, <1>5, <1>6, <2>1, <2>2
<1>7. CASE ReadError(q, 1) = "none" /\ q.kind = "single" /\ Mask(q, 1) = {}
  <2>1. ItemError(c, 1)' = "HAND_STRATEGY_NOT_FOUND"
    BY <1>1, <1>4, <1>7 DEF ItemError
  <2> QED
    BY <1>4, <1>5, <1>7, <2>1
<1>8. CASE ReadError(q, 1) = "none" /\ (q.kind = "single" => Mask(q, 1) # {})
  <2>1. pc'[c] = "schema" /\ answer' = answer
    BY <1>4, <1>8 DEF Goto, Domains
  <2>2. RequestInv(c)'
    BY <1>1, <1>2, <1>4, <1>8, <2>1 DEF RequestInv
  <2>3. OneInv(c)'
    BY <1>1, <1>4, <1>8, <2>1 DEF OneInv
  <2> QED
    BY <1>2, <1>4, <2>2, <2>3, GoesOn
<1> QED
  BY <1>6, <1>7, <1>8

LEMMA DeliverOne ==
  ASSUME Domains, NEW c \in Caller, Local(c), request[c].kind # "batch", Busy(c),
         NEW schema, schema = Schema[SchemaOf(c)], schema # Absent, Deliver(c, schema),
         UNCHANGED <<request, opened, broken, todo, current>>
  PROVE  Local(c)'
<1> DEFINE q == request[c]
           mask == Mask(q, 1)
           hands == MatchedHands(q, schema)
<1>1. /\ RequestInv(c) /\ OneInv(c) /\ q \in Requests[c] /\ current[c] = 1
      /\ ReadError(q, 1) = "none" /\ opened[c] = "ok" /\ broken[c] = {}
      /\ q.kind = "single" => 1 \in Parsed(q) /\ mask # {}
  BY DEF Local, Busy, RequestInv, OneInv
<1>2. q.kind \in {"single", "hands"} /\ DOMAIN q.items = {1}
  BY <1>1, RequestType
<1>3. schema = Schema[PackOf(q, 1).schema]
  BY <1>1 DEF SchemaOf
<1>4. CASE q.kind = "single"
  <2>1. /\ pc'[c] = "idle"
        /\ answer'[c] = IF InSchema(mask, schema) THEN Ok(<<Actions(mask, schema)>>, {})
                        ELSE Error("INTERNAL", 0)
    BY <1>4 DEF Deliver, DeliverSingle, DeliverHands, DeliverGroup, Reply, Domains
  <2>2. SchemaError(c, 1)' = "none"
    BY <1>1, <1>3 DEF SchemaError
  <2>3. ItemError(c, 1)' = IF InSchema(mask, schema) THEN "none" ELSE "INTERNAL"
    BY <1>1, <1>3, <1>4, <2>2 DEF ItemError
  <2>4. ItemActions(c, 1)' = Actions(mask, schema)
    BY <1>3 DEF ItemActions
  <2>5. SingleRight(c)'
    BY <2>1, <2>3, <2>4 DEF SingleRight, Ok, Error
  <2> QED
    BY <1>4, <2>1, <2>5, SingleEnds
<1>5. CASE q.kind = "hands"
  <2>1. /\ pc'[c] = "idle"
        /\ answer'[c] = IF hands = {} THEN Error("HANDS_NOT_FOUND", 0) ELSE Ok(<<>>, hands)
    BY <1>5 DEF Deliver, DeliverSingle, DeliverHands, DeliverGroup, Reply, Domains
  <2>2. /\ answer'[c].hands = hands
        /\ answer'[c].error = IF hands = {} THEN "HANDS_NOT_FOUND" ELSE "none"
    <3> HIDE DEF hands
    <3>1. CASE hands = {}
      BY <2>1, <3>1 DEF Error
    <3>2. CASE hands # {}
      BY <2>1, <3>2 DEF Ok
    <3> QED
      BY <3>1, <3>2
  <2> DEFINE pack == PackOf(q, 1)
             Shows(h) == \E a \in pack.strong[h] :
                           q.filtered => Actions(pack.mask[h], schema)[a] \in q.wanted
  <2>3. ASSUME NEW h \in Hand, InSchema(pack.mask[h], schema)
        PROVE  h \in hands <=> Shows(h)
    <3>1. q.dim \in Dim /\ q.items[1].line \in Line /\ pack \notin {Absent, Corrupt}
      BY <1>1, <1>2, RequestType DEF ReadError
    <3>2. pack.mask[h] \subseteq Action /\ pack.strong[h] \subseteq pack.mask[h]
      BY <3>1, StoreAssumption DEF PackOf
    <3> HIDE DEF pack
    <3>3. ASSUME NEW a \in pack.strong[h]
          PROVE  a \in Wanted(q, schema)
                   <=> (q.filtered => Actions(pack.mask[h], schema)[a] \in q.wanted)
      <4>1. a \in Action /\ a < Len(schema) /\ Actions(pack.mask[h], schema)[a] = schema[a + 1]
        BY <2>3, <3>2 DEF InSchema, Actions
      <4> QED
        BY <4>1 DEF Wanted
    <3>4. h \in hands <=> pack.strong[h] \cap Wanted(q, schema) # {}
      BY DEF MatchedHands, pack
    <3> QED
      BY <3>3, <3>4
  <2>4. /\ PackOf(request[c], 1)' = pack
        /\ Schema[pack.schema] = schema
        /\ request'[c] = q
    BY <1>3 DEF PackOf
  <2> HIDE DEF hands, pack
  <2>5. HandsRight(c)'
    BY <2>2, <2>3, <2>4 DEF HandsRight, PackOf, pack
  <2> QED
    BY <1>5, <2>1, <2>5, HandsEnd
<1> QED
  BY <1>2, <1>4, <1>5

LEMMA SchemaOne ==
  ASSUME Domains, SchemasLoaded, NEW c \in Caller, Local(c), request[c].kind # "batch",
         UseCached(c) \/ MissSchema(c) \/ LoadSchema(c) \/ LoadFails(c) \/ InsertSchema(c)
  PROVE  Local(c)'
<1> DEFINE q == request[c]
<1>1. /\ RequestInv(c) /\ OneInv(c) /\ q \in Requests[c] /\ current[c] = 1 /\ Busy(c)
      /\ ReadError(q, 1) = "none" /\ opened[c] = "ok" /\ broken[c] = {}
      /\ q.kind = "single" => 1 \in Parsed(q) /\ Mask(q, 1) # {}
      /\ UNCHANGED <<request, opened, current, todo>>
  BY DEF Local, Busy, RequestInv, OneInv, UseCached, MissSchema, LoadSchema, LoadFails,
         InsertSchema, local
<1>2. q.kind \in {"single", "hands"} /\ DOMAIN q.items = {1}
  BY <1>1, RequestType
<1>3. SchemaOf(c) \in SchemaId /\ SchemaOf(c) = PackOf(q, 1).schema
  BY <1>1, <1>2, PackType DEF SchemaOf
<1>4. ASSUME NEW code, Fail(c, current[c], code),
             code \notin {"none", "HANDS_NOT_FOUND"},
             q.kind = "single" => ItemError(c, 1)' = code
      PROVE  Local(c)'
  <2>1. pc'[c] = "idle" /\ answer'[c] = Error(code, 0)
    BY <1>4 DEF Fail, Reply, Domains
  <2> QED
    BY <1>1, <1>2, <1>4, <2>1, OneFails
<1>5. ASSUME NEW step \in {"load", "insert"}, Goto(c, step), UNCHANGED broken,
             step = "insert" => Schema[SchemaOf(c)] # Absent
      PROVE  Local(c)'
  <2>1. pc'[c] = step /\ answer' = answer /\ Busy(c)'
    BY <1>5 DEF Goto, Domains, Busy
  <2>2. RequestInv(c)'
    BY <1>1, <1>5, <2>1 DEF RequestInv, SchemaOf, Busy
  <2>3. OneInv(c)'
    BY <1>1, <1>5, <2>1 DEF OneInv, Busy
  <2> QED
    BY <1>1, <1>2, <2>2, <2>3, GoesOn
<1>6. CASE UseCached(c)
  <2>1. schemas[SchemaOf(c)] = Schema[SchemaOf(c)] /\ Schema[SchemaOf(c)] # Absent
    BY <1>3, <1>6 DEF UseCached, SchemasLoaded
  <2>2. Deliver(c, schemas[SchemaOf(c)]) /\ UNCHANGED <<request, opened, broken, todo, current>>
    BY <1>6 DEF UseCached
  <2> QED
    BY <1>1, <2>1, <2>2, DeliverOne
<1>7. CASE MissSchema(c)
  BY <1>5, <1>7 DEF MissSchema, local
<1>8. CASE LoadSchema(c)
  <2>1. broken' = broken
    BY <1>8 DEF LoadSchema
  <2>2. CASE Schema[SchemaOf(c)] = Absent
    <3>1. Fail(c, current[c], "ACTION_SCHEMA_NOT_FOUND")
      BY <1>8, <2>2 DEF LoadSchema
    <3>2. SchemaError(c, 1)' = "ACTION_SCHEMA_NOT_FOUND"
      BY <1>1, <1>3, <2>1, <2>2 DEF SchemaError
    <3>3. q.kind = "single" => ItemError(c, 1)' = "ACTION_SCHEMA_NOT_FOUND"
      BY <1>1, <3>2 DEF ItemError
    <3> QED
      BY <1>4, <3>1, <3>3
  <2>3. CASE Schema[SchemaOf(c)] # Absent
    BY <1>5, <1>8, <2>1, <2>3 DEF LoadSchema
  <2> QED
    BY <2>2, <2>3
<1>9. CASE LoadFails(c)
  <2>1. Fail(c, current[c], "INVALID_FORMAT") /\ broken'[c] = {1}
    BY <1>1, <1>9 DEF LoadFails, Domains
  <2>2. ASSUME q.kind = "single"
        PROVE  ItemError(c, 1)' = "INVALID_FORMAT"
    <3>1. 1 \in Group(q, 1)
      BY <1>1, <2>2, GroupFacts
    <3>2. SchemaError(c, 1)' = "INVALID_FORMAT"
      BY <1>1, <2>1, <3>1 DEF SchemaError
    <3> QED
      BY <1>1, <2>2, <3>2 DEF ItemError
  <2> QED
    BY <1>4, <2>1, <2>2
<1>10. CASE InsertSchema(c)
  <2> DEFINE id == SchemaOf(c)
             schema == IF schemas[id] = None THEN Schema[id] ELSE schemas[id]
  <2>1. schema = Schema[id] /\ schema # Absent
    BY <1>1, <1>3, <1>10 DEF SchemasLoaded, InsertSchema, RequestInv
  <2>2. Deliver(c, schema) /\ UNCHANGED <<request, opened, broken, todo, current>>
    BY <1>10 DEF InsertSchema
  <2> HIDE DEF schema
  <2> QED
    BY <1>1, <2>1, <2>2, DeliverOne
<1> QED
  BY <1>6, <1>7, <1>8, <1>9, <1>10

-----------------------------------------------------------------------------
(* Batches                                                                 *)

\* What does not depend on the schema: an item that fails before it is read.
LEMMA UnparsedFails ==
  ASSUME NEW c \in Caller, NEW i \in DOMAIN request[c].items, i \notin Parsed(request[c])
  PROVE  /\ ItemError(c, i) = "INVALID_ARGUMENT" /\ i \in Failing(c)
         /\ Codes(c)[i] = {"INVALID_ARGUMENT"}
<1>1. ItemError(c, i) = "INVALID_ARGUMENT"
  BY DEF ItemError
<1> QED
  BY <1>1 DEF Failing, Codes

LEMMA BeginBatch ==
  ASSUME Domains, NEW c \in Caller, NEW q \in Requests[c], Begin(c, q), q.kind = "batch"
  PROVE  Local(c)'
<1> DEFINE U == DOMAIN q.items \ Parsed(q)
           f == MinFailures(None, U, "INVALID_ARGUMENT")
<1>1. /\ request'[c] = q /\ opened'[c] = None /\ broken'[c] = {}
      /\ todo'[c] = GroupFirsts(q) /\ failure'[c] = f
      /\ results'[c] = [i \in DOMAIN q.items |-> None]
  BY DEF Begin, Domains
<1>2. DOMAIN q.items \subseteq Nat \ {0} /\ Parsed(q) \subseteq DOMAIN q.items
  BY RequestType
<1>3. CASE q.items = <<>>
  <2>1. pc'[c] = "idle" /\ answer'[c] = Ok(<<>>, {})
    BY <1>3 DEF Begin, Domains, Reply
  <2>2. DOMAIN q.items = {}
    BY <1>3
  <2>3. BatchRight(c)'
    BY <1>1, <2>1, <2>2 DEF BatchRight, Ok
  <2> QED
    BY <1>1, <2>1, <2>3, BatchEnds
<1>4. CASE q.items # <<>>
  <2>1. pc'[c] = "open" /\ answer'[c] = None
    BY <1>4 DEF Begin, Domains, Reply
  <2>2. ~Busy(c)' /\ InHand(c)' = {}
    BY <2>1 DEF Busy, InHand
  <2>3. Pending(c)' = Parsed(q)
    <3>1. \A i \in Parsed(q) : Group(q, i) \cap GroupFirsts(q) # {}
      BY GroupFacts
    <3> QED
      BY <1>1, <3>1 DEF Pending
  <2>4. Done(c)' = U
    BY <1>1, <2>2, <2>3 DEF Done
  <2>5. \A i \in U : i \in Failing(c)' /\ Codes(c)'[i] = {"INVALID_ARGUMENT"}
    <3>1. ASSUME NEW i \in U
          PROVE  ItemError(c, i)' = "INVALID_ARGUMENT"
      BY <1>1 DEF ItemError
    <3> QED
      BY <1>1, <3>1 DEF Failing, Codes
  <2>6. FirstOf(f, U, Codes(c)')
    <3> DEFINE codes == Codes(c)'
    <3>1. FirstOf(None, {}, codes)
      BY DEF FirstOf
    <3>2. "INVALID_ARGUMENT" \in Failures /\ U \in SUBSET (Nat \ {0})
      BY <1>2 DEF Failures
    <3>3. \A i \in U : "INVALID_ARGUMENT" \in codes[i]
      BY <2>5
    <3> HIDE DEF codes, U
    <3>4. FirstOf(MinFailures(None, U, "INVALID_ARGUMENT"), {} \cup U, codes)
      BY <3>1, <3>2, <3>3, NoteAll
    <3>5. {} \cup U = U
      OBVIOUS
    <3> QED
      BY <3>4, <3>5 DEF codes
  <2>7. Done(c)' \cap Failing(c)' = U /\ Done(c)' \ Failing(c)' = {}
    BY <2>4, <2>5
  <2> HIDE DEF f, U
  <2>8. RequestInv(c)'
    BY <1>1, <1>4, <2>1, <2>2 DEF RequestInv
  <2>9. BatchInv(c)'
    BY <1>1, <2>1, <2>2, <2>6, <2>7 DEF BatchInv
  <2> QED
    BY <1>1, <2>8, <2>9, GoesOn
<1> QED
  BY <1>3, <1>4

LEMMA OpenBatch ==
  ASSUME Domains, NEW c \in Caller, Local(c), request[c].kind = "batch",
         OpenReader(c) \/ OpenFails(c)
  PROVE  Local(c)'
<1> DEFINE q == request[c]
           U == DOMAIN q.items \ Parsed(q)
<1>1. /\ RequestInv(c) /\ BatchInv(c) /\ pc[c] = "open" /\ q \in Requests[c]
      /\ todo[c] = GroupFirsts(q) /\ q.items # <<>>
  BY DEF Local, OpenReader, OpenFails, RequestInv, BatchInv
<1>2. /\ DOMAIN q.items \subseteq Nat \ {0} /\ Parsed(q) \subseteq DOMAIN q.items
      /\ DOMAIN q.items = 1..Len(q.items) /\ Len(q.items) \in Nat
  BY <1>1, RequestType
<1>3. request' = request /\ broken' = broken /\ current' = current /\ results' = results
  BY DEF OpenReader, OpenFails
<1>4. Done(c) = U
  <2>1. \A i \in Parsed(q) : Group(q, i) \cap GroupFirsts(q) # {}
    BY <1>1, GroupFacts
  <2>2. Pending(c) = Parsed(q) /\ InHand(c) = {}
    BY <1>1, <2>1 DEF Pending, InHand, Busy
  <2> QED
    BY <2>2 DEF Done
<1>5. \A i \in U : /\ i \in Failing(c) /\ Codes(c)[i] = {"INVALID_ARGUMENT"}
                   /\ i \in Failing(c)' /\ Codes(c)'[i] = {"INVALID_ARGUMENT"}
  <2>1. ASSUME NEW i \in U
        PROVE  ItemError(c, i)' = "INVALID_ARGUMENT"
    BY <1>3 DEF ItemError
  <2>2. \A i \in U : i \in Failing(c)' /\ Codes(c)'[i] = {"INVALID_ARGUMENT"}
    BY <1>3, <2>1 DEF Failing, Codes
  <2> QED
    BY <2>2, UnparsedFails
<1>6. FirstOf(failure[c], U, Codes(c)')
  <2>1. FirstOf(failure[c], U, Codes(c))
    <3>1. Done(c) \cap Failing(c) = U
      BY <1>4, <1>5
    <3> QED
      BY <1>1, <3>1 DEF BatchInv
  <2> DEFINE old == Codes(c)
             new == Codes(c)'
  <2>2. \A i \in U : new[i] = old[i]
    BY <1>5
  <2> HIDE DEF old, new, U
  <2>3. FirstOf(failure[c], U, old)
    BY <2>1 DEF old
  <2>4. FirstOf(failure[c], U, new)
    BY <2>2, <2>3, SameFirst
  <2> QED
    BY <2>4 DEF new
<1>7. broken[c] = {}
  BY <1>1, <1>4 DEF BatchInv
<1>8. CASE OpenReader(c)
  <2>1. /\ pc'[c] = "next" /\ opened'[c] = "ok" /\ answer' = answer
        /\ todo' = todo /\ failure' = failure
    BY <1>8 DEF OpenReader, Domains, Goto
  <2>2. ~Busy(c)'
    BY <2>1 DEF Busy
  <2>3. Done(c)' = U
    <3>1. \A i \in Parsed(q) : Group(q, i) \cap GroupFirsts(q) # {}
      BY <1>1, GroupFacts
    <3>2. Pending(c)' = Parsed(q) /\ InHand(c)' = {}
      BY <1>1, <1>3, <2>1, <2>2, <3>1 DEF Pending, InHand
    <3> QED
      BY <1>3, <3>2 DEF Done
  <2>4. Done(c)' \cap Failing(c)' = U /\ Done(c)' \ Failing(c)' = {}
    BY <1>5, <2>3
  <2> HIDE DEF U
  <2>5. RequestInv(c)'
    BY <1>1, <1>3, <2>1, <2>2 DEF RequestInv
  <2>6. BatchInv(c)'
    BY <1>1, <1>3, <1>6, <1>7, <2>1, <2>2, <2>4 DEF BatchInv
  <2> QED
    BY <1>3, <2>5, <2>6, GoesOn
<1>9. CASE OpenFails(c)
  <2>1. PICK code \in {"DIMENSION_NOT_FOUND", "DATA_FILE_NOT_FOUND"} :
          opened' = [opened EXCEPT ![c] = code] /\ Fail(c, 1, code)
    BY <1>9 DEF OpenFails
  <2>2. /\ pc'[c] = "next" /\ opened'[c] = code /\ answer' = answer /\ todo'[c] = {}
        /\ failure'[c] = MinFailure(failure[c], 1, code)
    BY <1>9, <2>1 DEF OpenFails, Domains, Fail, Goto
  <2>3. ~Busy(c)'
    BY <2>2 DEF Busy
  <2>4. Done(c)' = DOMAIN q.items
    <3>1. Pending(c)' = {} /\ InHand(c)' = {}
      BY <2>2, <2>3 DEF Pending, InHand
    <3> QED
      BY <1>3, <3>1 DEF Done
  <2>5. \A i \in Parsed(q) : i \in Failing(c)' /\ code \in Codes(c)'[i]
    <3>1. ASSUME NEW i \in Parsed(q)
          PROVE  ItemError(c, i)' = code
      BY <1>3, <2>2 DEF ItemError
    <3> QED
      BY <1>2, <1>3, <2>1, <3>1 DEF Failing, Codes
  <2>6. Done(c)' \cap Failing(c)' = DOMAIN q.items /\ Done(c)' \ Failing(c)' = {}
    BY <1>5, <2>4, <2>5
  <2>7. FirstOf(failure'[c], DOMAIN q.items, Codes(c)')
    <3> DEFINE codes == Codes(c)'
               P == Parsed(q)
    <3>1. 1 \in DOMAIN q.items /\ \A i \in DOMAIN q.items : 1 <= i
      <4>1. Len(q.items) # 0
        BY <1>1, RequestAssumption, EmptySeq
      <4> QED
        BY <1>2, <4>1
    <3>2. FirstOf(failure[c], U, codes)
      BY <1>6
    <3>3. code \in Failures
      BY DEF Failures
    <3>4. U \in SUBSET Nat /\ P \in SUBSET (Nat \ {0}) /\ U \cup P = DOMAIN q.items
      BY <1>2
    <3>5. \A i \in P : code \in codes[i] /\ 1 <= i
      BY <1>2, <2>5, <3>1
    <3>6. CASE 1 \in P
      <4> HIDE DEF codes, P, U, q
      <4>1. FirstOf(MinFailure(failure[c], 1, code), U \cup P, codes)
        BY <3>2, <3>3, <3>4, <3>5, <3>6, NoteFirst
      <4> QED
        BY <2>2, <3>4, <4>1 DEF codes
    <3>7. CASE 1 \notin P
      <4>1. 1 \in U
        BY <3>1, <3>7
      <4> HIDE DEF codes, P, U, q
      <4>2. /\ failure[c] \in [index : Nat \ {0}, error : Failures]
            /\ failure[c].index \in U /\ failure[c].index <= 1
            /\ failure[c].error \in codes[failure[c].index]
        BY <3>2, <4>1 DEF FirstOf
      <4>3. failure[c].index = 1 /\ failure[c] # None
        BY <4>2, FailureIsSomething
      <4>4. MinFailure(failure[c], 1, code) = failure[c]
        BY <4>3 DEF MinFailure
      <4>5. FirstOf(failure[c], DOMAIN q.items, codes)
        BY <3>1, <4>2, <4>3 DEF FirstOf
      <4> QED
        BY <2>2, <4>4, <4>5 DEF codes
    <3> QED
      BY <3>6, <3>7
  <2> HIDE DEF U
  <2>8. RequestInv(c)'
    BY <1>1, <1>3, <2>2, <2>3 DEF RequestInv
  <2>9. BatchInv(c)'
    BY <1>1, <1>3, <1>7, <2>2, <2>3, <2>6, <2>7 DEF BatchInv
  <2> QED
    BY <1>3, <2>8, <2>9, GoesOn
<1> QED
  BY <1>8, <1>9

\* The items in hand are pending no more and not done yet.
LEMMA GroupInHand ==
  ASSUME NEW c \in Caller, request[c] \in Requests[c], BatchInv(c), Busy(c)
  PROVE  /\ InHand(c) = Group(request[c], current[c]) /\ current[c] \in Parsed(request[c])
         /\ InHand(c) \cap Pending(c) = {}
         /\ Done(c) = DOMAIN request[c].items \ (Pending(c) \cup InHand(c))
<1> DEFINE q == request[c]
<1>1. /\ todo[c] \subseteq GroupFirsts(q)
      /\ current[c] \in GroupFirsts(q) \ todo[c]
      /\ current[c] \in Parsed(q)
  BY DEF BatchInv, GroupFirsts
<1>2. InHand(c) = Group(q, current[c])
  BY DEF InHand
<1>3. ASSUME NEW j \in InHand(c), j \in Pending(c)
      PROVE  FALSE
  <2>1. Group(q, j) = Group(q, current[c])
    BY <1>1, <1>2, <1>3, GroupFacts
  <2>2. PICK k \in Group(q, j) : k \in todo[c]
    BY <1>3 DEF Pending
  <2>3. k \in Group(q, current[c]) \cap GroupFirsts(q)
    BY <1>1, <2>1, <2>2
  <2>4. current[c] \in Group(q, current[c]) \cap GroupFirsts(q)
    BY <1>1, GroupFacts
  <2>5. k = current[c]
    BY <1>1, <2>3, <2>4, GroupFacts
  <2> QED
    BY <1>1, <2>2, <2>5
<1> QED
  BY <1>1, <1>2, <1>3 DEF Done

\* When a group is answered, its items are done.
LEMMA GroupIsDone ==
  ASSUME NEW c \in Caller, request[c] \in Requests[c], BatchInv(c), Busy(c),
         ~Busy(c)', request'[c] = request[c], todo'[c] = todo[c]
  PROVE  Done(c)' = Done(c) \cup InHand(c)
<1> DEFINE q == request[c]
<1>1. Pending(c)' = Pending(c) /\ InHand(c)' = {}
  BY DEF Pending, InHand
<1>2. InHand(c) \subseteq DOMAIN q.items /\ InHand(c) \cap Pending(c) = {}
  BY GroupInHand, GroupFacts, RequestType
<1>3. Done(c)' = DOMAIN q.items \ Pending(c)
  BY <1>1 DEF Done
<1> QED
  BY <1>2, <1>3, GroupInHand

LEMMA ReadBatch ==
  ASSUME Domains, NEW c \in Caller, Local(c), request[c].kind = "batch", ReadPack(c)
  PROVE  Local(c)'
<1> DEFINE q == request[c]
           i == Min(todo[c])
           G == Group(q, i)
<1>1. /\ RequestInv(c) /\ BatchInv(c) /\ q \in Requests[c]
      /\ pc[c] = "next" /\ todo[c] # {} /\ todo[c] \subseteq GroupFirsts(q)
      /\ opened[c] = "ok"
  BY DEF Local, ReadPack, RequestInv, BatchInv
<1>2. /\ DOMAIN q.items \subseteq Nat \ {0} /\ Parsed(q) \subseteq DOMAIN q.items
      /\ GroupFirsts(q) \subseteq Parsed(q)
  BY <1>1, RequestType DEF GroupFirsts
<1>3. i \in todo[c]
  BY <1>1, <1>2, MinIsLeast
<1>4. /\ UNCHANGED <<request, opened, broken, results>> /\ current'[c] = i
      /\ todo'[c] = todo[c] \ {i}
      /\ IF ReadError(q, i) # "none" THEN Fail(c, i, ReadError(q, i))
         ELSE Goto(c, "schema") /\ UNCHANGED failure
  BY DEF ReadPack, Domains
<1> HIDE DEF i
<1>5. i \in Parsed(q) /\ i \in GroupFirsts(q) /\ i \in G /\ G \subseteq Parsed(q)
  BY <1>1, <1>2, <1>3, GroupFacts
<1>6. InHand(c) = {} /\ G \subseteq Pending(c)
  <2>1. ASSUME NEW j \in G
        PROVE  j \in Pending(c)
    <3>1. Group(q, j) = G
      BY <1>1, <1>5, GroupFacts
    <3> QED
      BY <1>3, <1>5, <2>1, <3>1 DEF Pending
  <2> QED
    BY <1>1, <2>1 DEF InHand, Busy
<1>7. Pending(c)' = Pending(c) \ G
  <2>1. Pending(c)' = {j \in Parsed(q) : Group(q, j) \cap (todo[c] \ {i}) # {}}
    BY <1>4 DEF Pending
  <2>2. ASSUME NEW j \in Parsed(q), Group(q, j) \cap (todo[c] \ {i}) # {}
        PROVE  j \in Pending(c) \ G
    <3>1. j \in Pending(c)
      BY <2>2 DEF Pending
    <3>2. ASSUME j \in G
          PROVE  FALSE
      <4>1. Group(q, j) = G
        BY <1>1, <1>5, <3>2, GroupFacts
      <4>2. PICK k \in G : k \in todo[c] /\ k # i
        BY <2>2, <4>1
      <4>3. k \in G \cap GroupFirsts(q) /\ i \in G \cap GroupFirsts(q)
        BY <1>1, <1>5, <4>2
      <4>4. k = i
        BY <1>1, <1>5, <4>3, GroupFacts
      <4> QED
        BY <4>2, <4>4
    <3> QED
      BY <3>1, <3>2
  <2>3. ASSUME NEW j \in Pending(c) \ G
        PROVE  j \in Parsed(q) /\ Group(q, j) \cap (todo[c] \ {i}) # {}
    <3>1. j \in Parsed(q) /\ Group(q, j) \cap todo[c] # {}
      BY DEF Pending
    <3>2. i \notin Group(q, j)
      BY <1>1, <1>5, <2>3, <3>1, GroupFacts
    <3> QED
      BY <3>1, <3>2
  <2> QED
    BY <2>1, <2>2, <2>3
<1>8. /\ Failing(c)' = Failing(c) /\ Codes(c)' = Codes(c)
      /\ \A j : ItemActions(c, j)' = ItemActions(c, j)
      /\ \A j : ItemError(c, j)' = ItemError(c, j)
  BY <1>4, SameItems
<1>9. Done(c) = DOMAIN q.items \ Pending(c)
  BY <1>6 DEF Done
<1> DEFINE B == Done(c) \cap Failing(c)
<1>10. CASE ReadError(q, i) # "none"
  <2> DEFINE code == ReadError(q, i)
  <2>1. /\ pc'[c] = "next" /\ answer' = answer
        /\ failure'[c] = MinFailure(failure[c], i, code)
    BY <1>4, <1>10 DEF Fail, Goto, Domains
  <2>2. ~Busy(c)'
    BY <2>1 DEF Busy
  <2>3. Done(c)' = Done(c) \cup G
    <3>1. InHand(c)' = {}
      BY <2>2 DEF InHand
    <3>2. Done(c)' = DOMAIN q.items \ (Pending(c) \ G)
      BY <1>4, <1>7, <3>1 DEF Done
    <3> HIDE DEF G
    <3> QED
      BY <1>2, <1>5, <1>6, <1>9, <3>2
  <2>4. ASSUME NEW j \in G
        PROVE  ItemError(c, j) = code
    <3>1. ReadError(q, j) = code /\ j \in Parsed(q)
      BY <1>1, <1>5, GroupFacts
    <3> QED
      BY <1>1, <1>10, <3>1 DEF ItemError
  <2>5. code \in Failures /\ code # "none"
    BY <1>10 DEF ReadError, Failures
  <2>6. \A j \in G : j \in Failing(c)
    BY <1>2, <1>5, <2>4, <2>5 DEF Failing
  <2>7. i \in G /\ (\A j \in G : i <= j) /\ code \in Codes(c)[i]
    BY <1>2, <1>5, <2>4 DEF GroupFirsts, Codes
  <2>8. FirstOf(failure'[c], Done(c)' \cap Failing(c)', Codes(c)')
    <3>1. FirstOf(failure[c], B, Codes(c))
      BY <1>1 DEF BatchInv
    <3>2. B \in SUBSET Nat /\ G \in SUBSET (Nat \ {0})
      BY <1>2, <1>5, <1>9
    <3>3. Done(c)' \cap Failing(c)' = B \cup G
      BY <1>8, <2>3, <2>6
    <3> DEFINE codes == Codes(c)
    <3>4. FirstOf(failure[c], B, codes) /\ code \in codes[i]
      BY <2>7, <3>1
    <3> HIDE DEF B, G, code, codes
    <3>5. FirstOf(MinFailure(failure[c], i, code), B \cup G, codes)
      BY <2>5, <2>7, <3>2, <3>4, NoteFirst
    <3> QED
      BY <1>8, <2>1, <3>3, <3>5 DEF codes
  <2>9. Done(c)' \ Failing(c)' = Done(c) \ Failing(c)
    BY <1>8, <2>3, <2>6
  <2> HIDE DEF B, G, code
  <2>10. broken[c] \subseteq Done(c)' \cap Parsed(q)
    BY <1>1, <2>3 DEF BatchInv
  <2>11. \A j \in Done(c)' \ Failing(c)' : results[c][j] = ItemActions(c, j)
    BY <1>1, <2>9 DEF BatchInv
  <2>12. RequestInv(c)'
    BY <1>1, <1>4, <2>1, <2>2 DEF RequestInv
  <2>13. BatchInv(c)'
    BY <1>1, <1>4, <1>8, <2>1, <2>2, <2>8, <2>10, <2>11 DEF BatchInv
  <2> QED
    BY <1>4, <2>12, <2>13, GoesOn
<1>11. CASE ReadError(q, i) = "none"
  <2>1. pc'[c] = "schema" /\ answer' = answer /\ failure' = failure
    BY <1>4, <1>11 DEF Goto, Domains
  <2>2. Busy(c)' /\ InHand(c)' = G
    BY <1>4, <2>1 DEF Busy, InHand
  <2>3. Done(c)' = Done(c)
    <3>1. Done(c)' = DOMAIN q.items \ ((Pending(c) \ G) \cup G)
      BY <1>4, <1>7, <2>2 DEF Done
    <3> HIDE DEF G
    <3> QED
      BY <1>6, <1>9, <3>1
  <2>4. RequestInv(c)'
    BY <1>1, <1>2, <1>4, <1>5, <1>11, <2>1, <2>2 DEF RequestInv
  <2>5. BatchInv(c)'
    BY <1>1, <1>4, <1>5, <1>8, <2>1, <2>2, <2>3 DEF BatchInv
  <2> QED
    BY <1>4, <2>4, <2>5, GoesOn
<1> QED
  BY <1>10, <1>11

LEMMA FinishOne ==
  ASSUME Domains, NEW c \in Caller, Local(c), FinishBatch(c)
  PROVE  Local(c)'
<1> DEFINE q == request[c]
<1>1. /\ RequestInv(c) /\ pc[c] = "next" /\ todo[c] = {} /\ q \in Requests[c]
      /\ q.kind = "batch" /\ BatchInv(c)
  <2>1. RequestInv(c) /\ pc[c] = "next" /\ todo[c] = {}
    BY DEF Local, FinishBatch
  <2>2. q.kind = "batch"
    BY <2>1 DEF Local, OneInv
  <2> QED
    BY <2>1, <2>2 DEF Local, RequestInv
<1>2. /\ UNCHANGED <<request, opened, broken>> /\ pc'[c] = "idle"
      /\ answer'[c] = IF failure[c] # None THEN Error(failure[c].error, failure[c].index)
                      ELSE Ok(results[c], {})
  BY DEF FinishBatch, local, Reply, Domains
<1>3. Done(c) = DOMAIN q.items
  BY <1>1 DEF Done, Pending, InHand, Busy
<1>4. Done(c) \cap Failing(c) = Failing(c)
  BY <1>3 DEF Failing
<1>5. FirstOf(failure[c], Failing(c), Codes(c))
  BY <1>1, <1>4 DEF BatchInv
<1>7. CASE Failing(c) = {}
  <2>1. answer'[c].error = "none" /\ answer'[c].items = results[c]
    BY <1>2, <1>5, <1>7 DEF FirstOf, Ok
  <2>2. \A i \in DOMAIN q.items : results[c][i] = ItemActions(c, i)
    BY <1>1, <1>3, <1>7 DEF BatchInv
  <2>3. results[c] = [i \in DOMAIN q.items |-> ItemActions(c, i)]
    BY <1>1, <2>2 DEF BatchInv
  <2>4. /\ \A i : ItemError(c, i)' = ItemError(c, i)
        /\ \A i : ItemActions(c, i)' = ItemActions(c, i)
    BY <1>2, SameItems
  <2>5. {i \in DOMAIN request'[c].items : ItemError(c, i)' # "none"} = {}
    BY <1>2, <1>7, <2>4 DEF Failing
  <2>6. [i \in DOMAIN request'[c].items |-> ItemActions(c, i)'] = results[c]
    BY <1>2, <2>3, <2>4
  <2>7. BatchRight(c)'
    BY <2>1, <2>5, <2>6 DEF BatchRight
  <2> QED
    BY <1>1, <1>2, <2>7, BatchEnds
<1>8. CASE Failing(c) # {}
  <2>1. /\ failure[c] \in [index : Nat \ {0}, error : Failures]
        /\ failure[c].index \in Failing(c) /\ \A i \in Failing(c) : failure[c].index <= i
        /\ failure[c].error \in Codes(c)[failure[c].index]
    BY <1>5, <1>8 DEF FirstOf
  <2> DEFINE i == failure[c].index
             e == failure[c].error
  <2>2. answer'[c].error = e /\ answer'[c].index = i
    BY <1>2, <2>1, FailureIsSomething DEF Error
  <2>3. \/ e = ItemError(c, i)
        \/ /\ ItemError(c, i) = "HAND_STRATEGY_NOT_FOUND"
           /\ e = SchemaError(c, i) /\ e # "none"
    BY <2>1 DEF Codes, Failing
  <2>4. /\ \A j : ItemError(c, j)' = ItemError(c, j)
        /\ \A j : SchemaError(c, j)' = SchemaError(c, j)
    BY <1>2, SameItems
  <2>5. {j \in DOMAIN request'[c].items : ItemError(c, j)' # "none"} = Failing(c)
    BY <1>2, <2>4 DEF Failing
  <2> HIDE DEF i, e
  <2>6. i \in Failing(c) /\ \A j \in Failing(c) : i <= j
    BY <2>1 DEF i
  <2>7. BatchRight(c)'
    BY <1>8, <2>2, <2>3, <2>4, <2>5, <2>6 DEF BatchRight
  <2> QED
    BY <1>1, <1>2, <2>7, BatchEnds
<1> QED
  BY <1>7, <1>8

\* A step that notes the failure of a whole group.
LEMMA GroupFails ==
  ASSUME Domains, NEW c \in Caller, Local(c), request[c].kind = "batch", Busy(c),
         NEW code \in Failures,
         Fail(c, current[c], code), UNCHANGED <<request, opened, todo, current, results>>,
         broken'[c] \subseteq broken[c] \cup {current[c]},
         \A j \in InHand(c) : j \in Failing(c)' /\ code \in Codes(c)'[j],
         \A j \in Done(c) : /\ ItemError(c, j)' = ItemError(c, j)
                           /\ Codes(c)'[j] = Codes(c)[j]
  PROVE  Local(c)'
<1> DEFINE q == request[c]
           i == current[c]
           B == Done(c) \cap Failing(c)
           G == InHand(c)
<1>1. /\ RequestInv(c) /\ BatchInv(c) /\ q \in Requests[c] /\ opened[c] = "ok"
  BY DEF Local, RequestInv, Busy
<1>2. /\ DOMAIN q.items \subseteq Nat \ {0} /\ Parsed(q) \subseteq DOMAIN q.items
  BY <1>1, RequestType
<1>3. i \in G /\ G = Group(q, i) /\ i \in Parsed(q) /\ G \subseteq Parsed(q)
  BY <1>1, GroupInHand, GroupFacts
<1>4. \A j \in G : i <= j
  BY <1>1, <1>3 DEF BatchInv, GroupFirsts
<1>5. pc'[c] = "next" /\ answer' = answer /\ failure'[c] = MinFailure(failure[c], i, code)
  BY DEF Fail, Goto, Domains
<1>6. ~Busy(c)'
  BY <1>5 DEF Busy
<1>7. Done(c)' = Done(c) \cup G
  BY <1>1, <1>6, GroupIsDone
<1>8. Done(c) \subseteq DOMAIN q.items /\ Failing(c) \subseteq DOMAIN q.items
  BY DEF Done, Failing
<1>9. \A j \in Done(c) : j \in Failing(c)' <=> j \in Failing(c)
  BY <1>8 DEF Failing
<1>10. Done(c)' \cap Failing(c)' = B \cup G
  BY <1>7, <1>9
<1>11. Done(c)' \ Failing(c)' = Done(c) \ Failing(c)
  BY <1>7, <1>9
<1> DEFINE old == Codes(c)
           new == Codes(c)'
<1>12. FirstOf(failure'[c], B \cup G, new)
  <2>1. FirstOf(failure[c], B, old)
    BY <1>1 DEF BatchInv
  <2>2. \A j \in B : new[j] = old[j]
    OBVIOUS
  <2>3. B \in SUBSET Nat /\ G \in SUBSET (Nat \ {0}) /\ code \in new[i]
    BY <1>2, <1>3, <1>8
  <2> HIDE DEF B, G, old, new
  <2>4. FirstOf(failure[c], B, new)
    BY <2>1, <2>2, SameFirst
  <2>5. FirstOf(MinFailure(failure[c], i, code), B \cup G, new)
    BY <1>3, <1>4, <2>3, <2>4, NoteFirst
  <2> QED
    BY <1>5, <2>5
<1> HIDE DEF B, G
<1>13. broken'[c] \subseteq Done(c)' \cap Parsed(q)
  BY <1>1, <1>3, <1>7 DEF BatchInv
<1>14. \A j \in Done(c)' \ Failing(c)' : results[c][j] = ItemActions(c, j)'
  BY <1>1, <1>11 DEF BatchInv, ItemActions
<1>15. RequestInv(c)'
  BY <1>1, <1>5, <1>6 DEF RequestInv
<1>16. BatchInv(c)'
  BY <1>1, <1>5, <1>6, <1>10, <1>12, <1>13, <1>14 DEF BatchInv
<1> QED
  BY <1>15, <1>16, GoesOn

\* What the items of a group in hand have in common.
LEMMA ItemsInHand ==
  ASSUME NEW c \in Caller, request[c] \in Requests[c], BatchInv(c), Busy(c), RequestInv(c),
         NEW j \in InHand(c)
  PROVE  /\ j \in Parsed(request[c]) /\ j \in DOMAIN request[c].items
         /\ opened[c] = "ok" /\ ReadError(request[c], j) = "none"
         /\ PackOf(request[c], j) = PackOf(request[c], current[c])
         /\ PackOf(request[c], j).schema = SchemaOf(c)
         /\ Group(request[c], j) = InHand(c)
         /\ InHand(c) \cap broken[c] = {}
<1> DEFINE q == request[c]
<1>1. /\ InHand(c) = Group(q, current[c]) /\ current[c] \in Parsed(q)
      /\ Done(c) \cap InHand(c) = {}
  BY GroupInHand
<1>2. /\ j \in Parsed(q) /\ PackOf(q, j) = PackOf(q, current[c])
      /\ ReadError(q, j) = ReadError(q, current[c])
      /\ Group(q, j) = Group(q, current[c])
  BY <1>1, GroupFacts
<1>3. InHand(c) \cap broken[c] = {}
  BY <1>1 DEF BatchInv
<1> QED
  BY <1>1, <1>2, <1>3, RequestType DEF RequestInv, SchemaOf

LEMMA LoadBatch ==
  ASSUME Domains, NEW c \in Caller, Local(c), request[c].kind = "batch",
         LoadSchema(c), Schema[SchemaOf(c)] = Absent
  PROVE  Local(c)'
<1> DEFINE code == "ACTION_SCHEMA_NOT_FOUND"
<1>1. /\ Busy(c) /\ RequestInv(c) /\ BatchInv(c) /\ request[c] \in Requests[c]
      /\ Fail(c, current[c], code)
      /\ UNCHANGED <<request, opened, broken, todo, current, results>>
  BY DEF Local, LoadSchema, Busy, RequestInv
<1>2. /\ Failing(c)' = Failing(c) /\ Codes(c)' = Codes(c)
      /\ \A j : ItemError(c, j)' = ItemError(c, j)
  BY <1>1, SameItems
<1>3. ASSUME NEW j \in InHand(c)
      PROVE  j \in Failing(c) /\ code \in Codes(c)[j]
  <2>1. SchemaError(c, j) = code
    BY <1>1, ItemsInHand DEF SchemaError
  <2>2. ItemError(c, j) \in {"HAND_STRATEGY_NOT_FOUND", code}
    BY <1>1, <2>1, ItemsInHand DEF ItemError
  <2> QED
    BY <1>1, <2>1, <2>2, ItemsInHand DEF Failing, Codes
<1>4. code \in Failures
  BY DEF Failures
<1> QED
  BY <1>1, <1>2, <1>3, <1>4, GroupFails

LEMMA LoadFailsBatch ==
  ASSUME Domains, NEW c \in Caller, Local(c), request[c].kind = "batch", LoadFails(c)
  PROVE  Local(c)'
<1> DEFINE q == request[c]
           code == "INVALID_FORMAT"
<1>1. /\ Busy(c) /\ RequestInv(c) /\ BatchInv(c) /\ q \in Requests[c]
      /\ Fail(c, current[c], code)
      /\ UNCHANGED <<request, opened, todo, current, results>>
      /\ broken'[c] = broken[c] \cup {current[c]}
  BY DEF Local, LoadFails, Busy, RequestInv, Domains
<1>2. /\ current[c] \in InHand(c) /\ current[c] \in Parsed(q)
      /\ InHand(c) = Group(q, current[c]) /\ Done(c) \cap InHand(c) = {}
  BY <1>1, GroupInHand, GroupFacts
<1>3. ASSUME NEW j \in InHand(c)
      PROVE  j \in Failing(c)' /\ code \in Codes(c)'[j]
  <2>1. Group(q, j) \cap broken'[c] # {}
    BY <1>1, <1>2, ItemsInHand
  <2>2. SchemaError(c, j)' = code
    BY <1>1, <2>1 DEF SchemaError
  <2>3. ItemError(c, j)' \in {"HAND_STRATEGY_NOT_FOUND", code}
    BY <1>1, <2>2, ItemsInHand DEF ItemError
  <2> QED
    BY <1>1, <2>2, <2>3, ItemsInHand DEF Failing, Codes
<1>4. ASSUME NEW j \in Done(c)
      PROVE  ItemError(c, j)' = ItemError(c, j) /\ Codes(c)'[j] = Codes(c)[j]
  <2>1. CASE j \in Parsed(q)
    <3>1. current[c] \notin Group(q, j)
      BY <1>1, <1>2, <2>1, GroupFacts
    <3>2. Group(q, j) \cap broken'[c] = Group(q, j) \cap broken[c]
      BY <1>1, <3>1
    <3>3. SchemaError(c, j)' = SchemaError(c, j)
      BY <1>1, <3>2 DEF SchemaError
    <3>4. ItemError(c, j)' = ItemError(c, j)
      BY <1>1, <3>3 DEF ItemError
    <3> QED
      BY <1>1, <3>3, <3>4 DEF Codes, Done
  <2>2. CASE j \notin Parsed(q)
    <3>1. j \in DOMAIN q.items
      BY DEF Done
    <3>2. ItemError(c, j)' = "INVALID_ARGUMENT"
      BY <1>1, <2>2 DEF ItemError
    <3>3. Codes(c)'[j] = {"INVALID_ARGUMENT"}
      BY <1>1, <3>1, <3>2 DEF Codes
    <3> QED
      BY <2>2, <3>1, <3>2, <3>3, UnparsedFails
  <2> QED
    BY <2>1, <2>2
<1>5. code \in Failures
  BY DEF Failures
<1>6. broken'[c] \subseteq broken[c] \cup {current[c]}
  BY <1>1
<1> QED
  BY <1>1, <1>3, <1>4, <1>5, <1>6, GroupFails

LEMMA DeliverBatch ==
  ASSUME Domains, NEW c \in Caller, Local(c), request[c].kind = "batch", Busy(c),
         NEW schema, schema = Schema[SchemaOf(c)], schema # Absent, Deliver(c, schema),
         UNCHANGED <<request, opened, broken, todo, current>>
  PROVE  Local(c)'
<1> DEFINE q == request[c]
           G == InHand(c)
           missing == {i \in G : Mask(q, i) = {}}
           outside == {i \in G : ~ InSchema(Mask(q, i), schema)}
           B == Done(c) \cap Failing(c)
           codes == Codes(c)
<1>1. /\ RequestInv(c) /\ BatchInv(c) /\ q \in Requests[c] /\ opened[c] = "ok"
  BY DEF Local, RequestInv, Busy
<1>2. /\ DOMAIN q.items \subseteq Nat \ {0} /\ Parsed(q) \subseteq DOMAIN q.items
      /\ G = Group(q, current[c]) /\ G \subseteq Parsed(q)
  BY <1>1, RequestType, GroupInHand, GroupFacts
<1>3. /\ pc'[c] = "next" /\ answer' = answer
      /\ failure'[c] = MinFailures(MinFailures(failure[c], missing, "HAND_STRATEGY_NOT_FOUND"),
                                   outside, "INTERNAL")
      /\ results'[c] = [i \in DOMAIN results[c] |->
           IF i \in G \ (missing \cup outside) THEN Actions(Mask(q, i), schema) ELSE results[c][i]]
  <2>1. DeliverGroup(c, schema)
    BY DEF Deliver, DeliverSingle, DeliverHands
  <2>2. c \in DOMAIN pc /\ c \in DOMAIN failure /\ c \in DOMAIN results
    BY DEF Domains
  <2> QED
    BY <1>2, <2>1, <2>2 DEF DeliverGroup, Goto
<1>4. ~Busy(c)'
  BY <1>3 DEF Busy
<1>5. Done(c)' = Done(c) \cup G
  BY <1>1, <1>4, GroupIsDone
<1>6. /\ Failing(c)' = Failing(c) /\ Codes(c)' = Codes(c)
      /\ \A j : ItemActions(c, j)' = ItemActions(c, j)
  BY SameItems
<1>7. ASSUME NEW j \in G
      PROVE  /\ ItemError(c, j) = IF Mask(q, j) = {} THEN "HAND_STRATEGY_NOT_FOUND"
                                  ELSE IF ~ InSchema(Mask(q, j), schema) THEN "INTERNAL"
                                  ELSE "none"
             /\ ItemActions(c, j) = Actions(Mask(q, j), schema)
             /\ j \in DOMAIN q.items
  <2>1. /\ j \in Parsed(q) /\ ReadError(q, j) = "none" /\ j \in DOMAIN q.items
        /\ PackOf(q, j).schema = SchemaOf(c)
        /\ Group(q, j) \cap broken[c] = {}
    BY <1>1, ItemsInHand
  <2>2. SchemaError(c, j) = "none"
    BY <2>1 DEF SchemaError
  <2>3. ItemError(c, j) = IF Mask(q, j) = {} THEN "HAND_STRATEGY_NOT_FOUND"
                          ELSE IF ~ InSchema(Mask(q, j), schema) THEN "INTERNAL"
                          ELSE "none"
    BY <1>1, <2>1, <2>2 DEF ItemError
  <2> QED
    BY <2>1, <2>3 DEF ItemActions
<1>8. \A j \in outside : Mask(q, j) # {}
  BY DEF InSchema
<1>9. \A j \in G : j \in Failing(c) <=> j \in missing \cup outside
  BY <1>7 DEF Failing
<1>10. /\ \A j \in missing : "HAND_STRATEGY_NOT_FOUND" \in codes[j]
       /\ \A j \in outside : "INTERNAL" \in codes[j]
  BY <1>7, <1>8 DEF Codes
<1>11. Done(c)' \cap Failing(c)' = (B \cup missing) \cup outside
  BY <1>5, <1>6, <1>9
<1>12. FirstOf(failure'[c], (B \cup missing) \cup outside, codes)
  <2>1. FirstOf(failure[c], B, codes)
    BY <1>1 DEF BatchInv
  <2>2. "HAND_STRATEGY_NOT_FOUND" \in Failures /\ "INTERNAL" \in Failures
    BY DEF Failures
  <2>3. /\ B \in SUBSET Nat /\ missing \in SUBSET (Nat \ {0}) /\ outside \in SUBSET (Nat \ {0})
        /\ B \cup missing \in SUBSET Nat
    BY <1>2 DEF Done
  <2> DEFINE f == MinFailures(failure[c], missing, "HAND_STRATEGY_NOT_FOUND")
  <2> HIDE DEF B, missing, outside, codes
  <2>4. FirstOf(f, B \cup missing, codes)
    BY <1>10, <2>1, <2>2, <2>3, NoteAll
  <2> HIDE DEF f
  <2>5. FirstOf(MinFailures(f, outside, "INTERNAL"), (B \cup missing) \cup outside, codes)
    BY <1>10, <2>2, <2>3, <2>4, NoteAll
  <2> QED
    BY <1>3, <2>5 DEF f
<1>13. DOMAIN results[c] = DOMAIN q.items
  BY <1>1 DEF BatchInv
<1>14. ASSUME NEW j \in Done(c)' \ Failing(c)'
       PROVE  results'[c][j] = ItemActions(c, j)
  <2>1. j \in DOMAIN q.items
    BY <1>2, <1>5 DEF Done
  <2>2. CASE j \in G
    <3>1. j \in G \ (missing \cup outside)
      BY <1>6, <1>9, <1>14, <2>2
    <3> HIDE DEF G, missing, outside
    <3> QED
      BY <1>3, <1>7, <1>13, <2>1, <2>2, <3>1
  <2>3. CASE j \notin G
    <3>1. j \in Done(c) \ Failing(c)
      BY <1>5, <1>6, <1>14, <2>3
    <3>2. results[c][j] = ItemActions(c, j)
      BY <1>1, <3>1 DEF BatchInv
    <3> HIDE DEF G, missing, outside
    <3> QED
      BY <1>3, <1>13, <2>1, <2>3, <3>2
  <2> QED
    BY <2>2, <2>3
<1>15. results'[c] = [i \in DOMAIN q.items |-> results'[c][i]]
  BY <1>3, <1>13
<1>16. broken'[c] \subseteq Done(c)' \cap Parsed(q)
  BY <1>1, <1>5 DEF BatchInv
<1> HIDE DEF G, missing, outside, B
<1>17. RequestInv(c)'
  BY <1>1, <1>3, <1>4 DEF RequestInv
<1>18. BatchInv(c)'
  BY <1>1, <1>3, <1>4, <1>6, <1>11, <1>12, <1>14, <1>15, <1>16 DEF BatchInv
<1> QED
  BY <1>17, <1>18, GoesOn

LEMMA SchemaBatch ==
  ASSUME Domains, SchemasLoaded, NEW c \in Caller, Local(c), request[c].kind = "batch",
         UseCached(c) \/ MissSchema(c) \/ LoadSchema(c) \/ LoadFails(c) \/ InsertSchema(c)
  PROVE  Local(c)'
<1> DEFINE q == request[c]
<1>1. /\ RequestInv(c) /\ BatchInv(c) /\ q \in Requests[c] /\ Busy(c)
      /\ current[c] \in DOMAIN q.items /\ ReadError(q, current[c]) = "none"
  BY DEF Local, Busy, RequestInv, UseCached, MissSchema, LoadSchema, LoadFails, InsertSchema
<1>2. SchemaOf(c) \in SchemaId
  BY <1>1, PackType DEF SchemaOf
<1>3. ASSUME NEW step \in {"load", "insert"}, Goto(c, step),
             UNCHANGED <<request, opened, broken, todo, current, failure, results>>,
             step = "insert" => Schema[SchemaOf(c)] # Absent
      PROVE  Local(c)'
  <2>1. pc'[c] = step /\ answer' = answer /\ Busy(c)'
    BY <1>3 DEF Goto, Domains, Busy
  <2>2. RequestInv(c)'
    BY <1>1, <1>3, <2>1 DEF RequestInv, SchemaOf, Busy
  <2>3. Done(c)' = Done(c)
    BY <1>1, <1>3, <2>1 DEF Done, Pending, InHand
  <2>4. /\ Failing(c)' = Failing(c) /\ Codes(c)' = Codes(c)
        /\ \A i : ItemActions(c, i)' = ItemActions(c, i)
    BY <1>3, SameItems
  <2>5. pc[c] # "open" /\ pc'[c] # "open"
    BY <1>1, <2>1 DEF Busy
  <2>6. BatchInv(c)'
    BY <1>1, <1>3, <2>1, <2>3, <2>4, <2>5 DEF BatchInv
  <2> QED
    BY <1>3, <2>2, <2>6, GoesOn
<1>4. CASE UseCached(c)
  <2>1. schemas[SchemaOf(c)] = Schema[SchemaOf(c)] /\ Schema[SchemaOf(c)] # Absent
    BY <1>2, <1>4 DEF UseCached, SchemasLoaded
  <2>2. Deliver(c, schemas[SchemaOf(c)]) /\ UNCHANGED <<request, opened, broken, todo, current>>
    BY <1>4 DEF UseCached
  <2> QED
    BY <1>1, <2>1, <2>2, DeliverBatch
<1>5. CASE MissSchema(c)
  BY <1>3, <1>5 DEF MissSchema, local
<1>6. CASE LoadSchema(c)
  <2>1. CASE Schema[SchemaOf(c)] = Absent
    BY <1>6, <2>1, LoadBatch
  <2>2. CASE Schema[SchemaOf(c)] # Absent
    BY <1>3, <1>6, <2>2 DEF LoadSchema
  <2> QED
    BY <2>1, <2>2
<1>7. CASE LoadFails(c)
  BY <1>7, LoadFailsBatch
<1>8. CASE InsertSchema(c)
  <2>1. pc[c] = "insert" /\ Schema[SchemaOf(c)] # Absent
    BY <1>1, <1>8 DEF InsertSchema, RequestInv
  <2>2. (IF schemas[SchemaOf(c)] = None THEN Schema[SchemaOf(c)] ELSE schemas[SchemaOf(c)])
          = Schema[SchemaOf(c)]
    BY <1>2 DEF SchemasLoaded
  <2>3. Deliver(c, Schema[SchemaOf(c)]) /\ UNCHANGED <<request, opened, broken, todo, current>>
    BY <1>8, <2>2 DEF InsertSchema
  <2> QED
    BY <1>1, <2>1, <2>3, DeliverBatch
<1> QED
  BY <1>4, <1>5, <1>6, <1>7, <1>8

-----------------------------------------------------------------------------
(* The invariant                                                           *)

\* Only an insert changes the cache of schemas, and it has loaded what it inserts.
LEMMA SchemasStep ==
  ASSUME Domains, SchemasLoaded, NEW c \in Caller, Local(c), Turn(c)
  PROVE  SchemasLoaded'
<1>1. CASE UNCHANGED schemas
  BY <1>1 DEF SchemasLoaded
<1>2. CASE InsertSchema(c)
  <2> DEFINE id == SchemaOf(c)
  <2>1. RequestInv(c) /\ pc[c] = "insert" /\ Busy(c) /\ request[c] \in Requests[c]
    BY <1>2 DEF InsertSchema, Local, Busy, RequestInv
  <2>2. Schema[id] # Absent /\ id \in SchemaId
    BY <2>1, PackType DEF RequestInv, SchemaOf
  <2>3. schemas' = [schemas EXCEPT ![id] = Schema[id]]
    BY <1>2, <2>2 DEF InsertSchema, SchemasLoaded
  <2> HIDE DEF id
  <2> QED
    BY <2>2, <2>3 DEF SchemasLoaded, Domains
<1> QED
  BY <1>1, <1>2 DEF Turn, Begin, OpenReader, OpenFails, ReadPack, UseCached, MissSchema,
                    LoadSchema, LoadFails, FinishBatch

LEMMA TurnKeeps ==
  ASSUME Domains, SchemasLoaded, NEW c \in Caller, Local(c), Turn(c)
  PROVE  Local(c)'
<1>1. ASSUME NEW q \in Requests[c], Begin(c, q)
      PROVE  Local(c)'
  BY <1>1, BeginOne, BeginBatch
<1>2. CASE OpenReader(c) \/ OpenFails(c)
  BY <1>2, OpenOne, OpenBatch
<1>3. CASE ReadPack(c)
  BY <1>3, ReadOne, ReadBatch
<1>4. CASE UseCached(c) \/ MissSchema(c) \/ LoadSchema(c) \/ LoadFails(c) \/ InsertSchema(c)
  BY <1>4, SchemaOne, SchemaBatch
<1>5. CASE FinishBatch(c)
  BY <1>5, FinishOne
<1> QED
  BY <1>1, <1>2, <1>3, <1>4, <1>5 DEF Turn

LEMMA QueryInit ==
  ASSUME Init
  PROVE  QueryInv
<1>1. Domains
  BY DEF Init, Domains
<1>2. SchemasLoaded
  BY DEF Init, SchemasLoaded
<1>3. ASSUME NEW c \in Caller
      PROVE  Local(c)
  <2>1. pc[c] = "idle" /\ answer[c] = None
    BY DEF Init
  <2> QED
    BY <2>1 DEF Local, SingleRight, BatchRight, HandsRight, Answered
<1> QED
  BY <1>1, <1>2, <1>3 DEF QueryInv

LEMMA QueryStep ==
  ASSUME QueryInv, [Next]_vars
  PROVE  QueryInv'
<1>1. Domains /\ SchemasLoaded /\ \A c \in Caller : Local(c)
  BY DEF QueryInv
<1>2. CASE Next
  <2>1. PICK c \in Caller : Turn(c)
    BY <1>2 DEF Next, Turn
  <2>2. Domains' /\ \A d \in Caller \ {c} : Untouched(d)
    BY <1>1, <2>1, TurnsOfOthers
  <2>3. SchemasLoaded'
    BY <1>1, <2>1, SchemasStep
  <2>4. Local(c)'
    BY <1>1, <2>1, TurnKeeps
  <2>5. \A d \in Caller \ {c} : Local(d)'
    BY <1>1, <2>2, Frame
  <2> QED
    BY <2>2, <2>3, <2>4, <2>5 DEF QueryInv
<1>3. CASE UNCHANGED vars
  <2>1. \A d \in Caller : Untouched(d)
    BY <1>3 DEF vars, local, Untouched
  <2>2. \A d \in Caller : Local(d)'
    BY <1>1, <2>1, Frame
  <2>3. Domains' /\ SchemasLoaded'
    BY <1>1, <1>3 DEF vars, local, Domains, SchemasLoaded
  <2> QED
    BY <2>2, <2>3 DEF QueryInv
<1> QED
  BY <1>2, <1>3

\* Every query in progress has done with its items what it should, and every
\* answer is the one its request asks for (StoreQueryService, ActionSchemaCache).
THEOREM QueriesAreConsistent == Spec => []QueryInv
<1>1. Init => QueryInv
  BY QueryInit
<1>2. QueryInv /\ [Next]_vars => QueryInv'
  BY QueryStep
<1> QED
  BY <1>1, <1>2, PTL DEF Spec

\* A single query is answered from the pack and the schema of meta.db, however
\* many threads fill the cache of schemas beside it (StoreQueryService::query).
THEOREM SinglesAnswerFromStore == Spec => []SinglesMatchStore
<1>1. QueryInv => SinglesMatchStore
  BY DEF QueryInv, Local, SingleRight, SinglesMatchStore
<1> QED
  BY <1>1, QueriesAreConsistent, PTL

\* A batch of any items in any order answers what the single queries of its
\* items would, or the first of the items that fail (StoreQueryService::query_batch).
THEOREM BatchesAnswerAsSingles == Spec => []BatchMatchesSingles
<1>1. QueryInv => BatchMatchesSingles
  BY DEF QueryInv, Local, BatchRight, BatchMatchesSingles
<1> QED
  BY <1>1, QueriesAreConsistent, PTL

\* The hands listed for some actions are those whose single query shows one of
\* them above the threshold (query_hands_by_actions, RangeStoreFacade::hands_by_actions).
THEOREM HandsAnswerAsSingles == Spec => []HandsMatchSingles
<1>1. QueryInv => HandsMatchSingles
  BY DEF QueryInv, Local, HandsRight, HandsMatchSingles
<1> QED
  BY <1>1, QueriesAreConsistent, PTL

-----------------------------------------------------------------------------
(* Types                                                                   *)

Steps == {"idle", "open", "next", "schema", "load", "insert"}

Failed(f) == f = None \/ (f.index \in Nat \ {0} /\ f.error \in Failures)

\* The types of what one thread keeps.
LocalTypes(c) ==
  /\ pc[c] \in Steps
  /\ request[c] = None \/ request[c] \in Requests[c]
  /\ opened[c] \in {None, "ok", "DIMENSION_NOT_FOUND", "DATA_FILE_NOT_FOUND"}
  /\ broken[c] \subseteq Nat /\ todo[c] \subseteq Nat /\ current[c] \in Nat
  /\ Failed(failure[c])
  /\ answer[c] = None \/ answer[c].error \in Failures \cup {"none"}

LEMMA NotedIsFailed ==
  ASSUME NEW f, Failed(f), NEW S \in SUBSET (Nat \ {0}), NEW code \in Failures
  PROVE  Failed(MinFailures(f, S, code))
<1>1. CASE S = {}
  BY <1>1 DEF MinFailures
<1>2. CASE S # {}
  <2> DEFINE i == Min(S)
  <2>1. i \in Nat \ {0}
    BY <1>2, MinIsLeast
  <2>2. MinFailures(f, S, code) = MinFailure(f, i, code)
    BY <1>2 DEF MinFailures
  <2> HIDE DEF i
  <2> QED
    BY <2>1, <2>2 DEF MinFailure, Failed
<1> QED
  BY <1>1, <1>2

\* A query that fails ends with the error, or notes it.
LEMMA FailTypes ==
  ASSUME Domains, NEW c \in Caller, Failed(failure[c]), NEW i \in Nat \ {0},
         NEW code \in Failures, Fail(c, i, code)
  PROVE  /\ pc'[c] \in Steps /\ Failed(failure'[c])
         /\ answer'[c] = answer[c] \/ answer'[c].error \in Failures \cup {"none"}
<1>1. CASE request[c].kind = "batch"
  <2>1. /\ pc'[c] = "next" /\ answer' = answer
        /\ failure'[c] = MinFailure(failure[c], i, code)
    BY <1>1 DEF Fail, Goto, Domains
  <2> QED
    BY <2>1 DEF MinFailure, Failed, Steps
<1>2. CASE request[c].kind # "batch"
  <2>1. /\ pc'[c] = "idle" /\ answer'[c] = Error(code, 0) /\ failure' = failure
    BY <1>2 DEF Fail, Reply, Domains
  <2>2. answer'[c].error = code
    BY <2>1 DEF Error
  <2> QED
    BY <2>1, <2>2 DEF Steps
<1> QED
  BY <1>1, <1>2

LEMMA DeliverTypes ==
  ASSUME Domains, NEW c \in Caller, request[c] \in Requests[c], Failed(failure[c]),
         NEW schema, Deliver(c, schema)
  PROVE  /\ pc'[c] \in Steps /\ Failed(failure'[c])
         /\ answer'[c] = answer[c] \/ answer'[c].error \in Failures \cup {"none"}
<1>1. CASE DeliverSingle(c, schema)
  <2>1. /\ pc'[c] = "idle" /\ failure' = failure
        /\ answer'[c].error \in {"none", "INTERNAL"}
    BY <1>1 DEF DeliverSingle, Reply, Domains, Ok, Error
  <2> QED
    BY <2>1 DEF Steps, Failures
<1>2. CASE DeliverHands(c, schema)
  <2>1. /\ pc'[c] = "idle" /\ failure' = failure
        /\ answer'[c].error \in {"none", "HANDS_NOT_FOUND"}
    BY <1>2 DEF DeliverHands, Reply, Domains, Ok, Error
  <2> QED
    BY <2>1 DEF Steps, Failures
<1>3. CASE DeliverGroup(c, schema)
  <2> DEFINE q == request[c]
             items == Group(q, current[c])
             missing == {i \in items : Mask(q, i) = {}}
             outside == {i \in items : ~ InSchema(Mask(q, i), schema)}
             f == MinFailures(failure[c], missing, "HAND_STRATEGY_NOT_FOUND")
  <2>1. /\ pc'[c] = "next" /\ answer' = answer
        /\ failure'[c] = MinFailures(f, outside, "INTERNAL")
    BY <1>3 DEF DeliverGroup, Goto, Domains
  <2>2. items \subseteq Nat \ {0}
    BY RequestType DEF Group
  <2>3. missing \in SUBSET (Nat \ {0}) /\ outside \in SUBSET (Nat \ {0})
    BY <2>2
  <2>4. "HAND_STRATEGY_NOT_FOUND" \in Failures /\ "INTERNAL" \in Failures
    BY DEF Failures
  <2> HIDE DEF missing, outside
  <2>5. Failed(f)
    BY <2>3, <2>4, NotedIsFailed
  <2> HIDE DEF f
  <2>6. Failed(MinFailures(f, outside, "INTERNAL"))
    BY <2>3, <2>4, <2>5, NotedIsFailed
  <2> QED
    BY <2>1, <2>6 DEF Steps
<1> QED
  BY <1>1, <1>2, <1>3 DEF Deliver

LEMMA TypesStep ==
  ASSUME Domains, NEW c \in Caller, Local(c), LocalTypes(c), Turn(c)
  PROVE  LocalTypes(c)'
<1> DEFINE q == request[c]
<1>1. ASSUME NEW p \in Requests[c], Begin(c, p)
      PROVE  LocalTypes(c)'
  <2> DEFINE U == DOMAIN p.items \ Parsed(p)
  <2>1. /\ request'[c] = p /\ opened'[c] = None /\ broken'[c] = {} /\ current'[c] = 0
        /\ todo'[c] = IF p.kind = "batch" THEN GroupFirsts(p) ELSE {1}
        /\ failure'[c] = MinFailures(None, U, "INVALID_ARGUMENT")
    BY <1>1 DEF Begin, Domains
  <2>2. /\ pc'[c] \in {"idle", "open"}
        /\ answer'[c] \in {Error("INVALID_ARGUMENT", 0), Ok(<<>>, {}), None}
    BY <1>1 DEF Begin, Domains, Reply
  <2>3. answer'[c] = None \/ answer'[c].error \in Failures \cup {"none"}
    BY <2>2 DEF Error, Ok, Failures
  <2>4. GroupFirsts(p) \subseteq Nat /\ U \in SUBSET (Nat \ {0})
    BY RequestType DEF GroupFirsts
  <2>5. Failed(None) /\ "INVALID_ARGUMENT" \in Failures
    BY DEF Failed, Failures
  <2> HIDE DEF U
  <2>6. Failed(failure'[c])
    BY <2>1, <2>4, <2>5, NotedIsFailed
  <2> QED
    BY <2>1, <2>2, <2>3, <2>4, <2>6 DEF LocalTypes, Steps
<1>2. CASE OpenReader(c)
  <2>1. /\ pc'[c] = "next" /\ opened'[c] = "ok"
        /\ UNCHANGED <<request, broken, todo, current, failure, answer>>
    BY <1>2 DEF OpenReader, Goto, Domains
  <2> QED
    BY <2>1 DEF LocalTypes, Steps
<1>3. CASE OpenFails(c)
  <2>1. PICK code \in {"DIMENSION_NOT_FOUND", "DATA_FILE_NOT_FOUND"} :
          opened' = [opened EXCEPT ![c] = code] /\ Fail(c, 1, code)
    BY <1>3 DEF OpenFails
  <2>2. opened'[c] = code /\ todo'[c] = {} /\ UNCHANGED <<request, broken, current>>
    BY <1>3, <2>1 DEF OpenFails, Domains
  <2>3. code \in Failures /\ Failed(failure[c])
    BY DEF Failures, LocalTypes
  <2>4. /\ pc'[c] \in Steps /\ Failed(failure'[c])
        /\ answer'[c] = answer[c] \/ answer'[c].error \in Failures \cup {"none"}
    BY <2>1, <2>3, FailTypes
  <2> QED
    BY <2>2, <2>4 DEF LocalTypes
<1>4. CASE ReadPack(c)
  <2> DEFINE i == Min(todo[c])
  <2>1. todo[c] # {} /\ RequestInv(c) /\ pc[c] = "next" /\ q \in Requests[c]
    BY <1>4 DEF ReadPack, Local, RequestInv
  <2>2. todo[c] \subseteq Nat \ {0}
    <3>1. CASE q.kind = "batch"
      BY <2>1, <3>1, RequestType DEF Local, BatchInv, GroupFirsts
    <3>2. CASE q.kind # "batch"
      BY <2>1, <3>2 DEF Local, OneInv
    <3> QED
      BY <3>1, <3>2
  <2>3. i \in Nat \ {0}
    BY <2>1, <2>2, MinIsLeast
  <2>4. /\ current'[c] = i /\ todo'[c] = todo[c] \ {i} /\ UNCHANGED <<request, opened, broken>>
        /\ \/ \E code \in {"CONCRETE_LINE_NOT_FOUND", "INVALID_FORMAT", "HAND_STRATEGY_NOT_FOUND"} :
                Fail(c, i, code)
           \/ Goto(c, "schema") /\ UNCHANGED failure
    BY <1>4 DEF ReadPack, ReadError, Domains
  <2> HIDE DEF i
  <2>5. Failed(failure[c])
    BY DEF LocalTypes
  <2>6. /\ pc'[c] \in Steps /\ Failed(failure'[c])
        /\ answer'[c] = answer[c] \/ answer'[c].error \in Failures \cup {"none"}
    <3>1. CASE Goto(c, "schema") /\ UNCHANGED failure
      BY <2>5, <3>1 DEF Goto, Domains, Steps
    <3>2. ASSUME NEW code \in {"CONCRETE_LINE_NOT_FOUND", "INVALID_FORMAT",
                               "HAND_STRATEGY_NOT_FOUND"}, Fail(c, i, code)
          PROVE  /\ pc'[c] \in Steps /\ Failed(failure'[c])
                 /\ answer'[c] = answer[c] \/ answer'[c].error \in Failures \cup {"none"}
      <4>1. code \in Failures
        BY DEF Failures
      <4> QED
        BY <2>3, <2>5, <3>2, <4>1, FailTypes
    <3> QED
      BY <2>4, <3>1, <3>2
  <2> QED
    BY <2>3, <2>4, <2>6 DEF LocalTypes
<1>5. ASSUME Busy(c),
             \/ \E code \in {"ACTION_SCHEMA_NOT_FOUND", "INVALID_FORMAT"} : Fail(c, current[c], code)
             \/ \E schema : Deliver(c, schema)
             \/ \E step \in {"load", "insert"} : Goto(c, step) /\ UNCHANGED failure,
             UNCHANGED <<request, opened, todo, current>>,
             broken'[c] \subseteq broken[c] \cup {current[c]}
      PROVE  LocalTypes(c)'
  <2>1. RequestInv(c) /\ q \in Requests[c] /\ current[c] \in Nat \ {0}
    BY <1>5, RequestType DEF Local, RequestInv, Busy
  <2>2. Failed(failure[c])
    BY DEF LocalTypes
  <2>3. /\ pc'[c] \in Steps /\ Failed(failure'[c])
        /\ answer'[c] = answer[c] \/ answer'[c].error \in Failures \cup {"none"}
    <3>1. ASSUME NEW code \in {"ACTION_SCHEMA_NOT_FOUND", "INVALID_FORMAT"},
                 Fail(c, current[c], code)
          PROVE  /\ pc'[c] \in Steps /\ Failed(failure'[c])
                 /\ answer'[c] = answer[c] \/ answer'[c].error \in Failures \cup {"none"}
      <4>1. code \in Failures
        BY DEF Failures
      <4> QED
        BY <2>1, <2>2, <3>1, <4>1, FailTypes
    <3>2. ASSUME NEW schema, Deliver(c, schema)
          PROVE  /\ pc'[c] \in Steps /\ Failed(failure'[c])
                 /\ answer'[c] = answer[c] \/ answer'[c].error \in Failures \cup {"none"}
      BY <2>1, <2>2, <3>2, DeliverTypes
    <3>3. ASSUME NEW step \in {"load", "insert"}, Goto(c, step), UNCHANGED failure
          PROVE  pc'[c] \in Steps /\ Failed(failure'[c]) /\ answer'[c] = answer[c]
      BY <2>2, <3>3 DEF Goto, Domains, Steps
    <3> QED
      BY <1>5, <3>1, <3>2, <3>3
  <2> QED
    BY <1>5, <2>1, <2>3 DEF LocalTypes
<1>6. CASE UseCached(c)
  BY <1>5, <1>6 DEF UseCached, Busy
<1>7. CASE MissSchema(c)
  BY <1>5, <1>7 DEF MissSchema, local, Busy
<1>8. CASE LoadSchema(c)
  BY <1>5, <1>8 DEF LoadSchema, Busy
<1>9. CASE LoadFails(c)
  BY <1>5, <1>9 DEF LoadFails, Busy, Domains
<1>10. CASE InsertSchema(c)
  BY <1>5, <1>10 DEF InsertSchema, Busy
<1>11. CASE FinishBatch(c)
  <2>1. /\ pc'[c] = "idle" /\ UNCHANGED <<request, opened, broken, todo, current, failure>>
        /\ answer'[c] = IF failure[c] # None THEN Error(failure[c].error, failure[c].index)
                        ELSE Ok(results[c], {})
    BY <1>11 DEF FinishBatch, local, Reply, Domains
  <2>2. answer'[c].error \in Failures \cup {"none"}
    BY <2>1 DEF Error, Ok, LocalTypes, Failed
  <2> QED
    BY <2>1, <2>2 DEF LocalTypes, Steps
<1> QED
  BY <1>1, <1>2, <1>3, <1>4, <1>6, <1>7, <1>8, <1>9, <1>10, <1>11 DEF Turn

\* What a thread keeps has its type, and a schema is cached as meta.db has it.
THEOREM QueryTypes == Spec => []TypeOK
<1> DEFINE Types == QueryInv /\ \A c \in Caller : LocalTypes(c)
<1>1. Init => Types
  <2> SUFFICES ASSUME Init
               PROVE  QueryInv /\ \A c \in Caller : LocalTypes(c)
    OBVIOUS
  <2>1. QueryInv
    BY QueryInit
  <2> QED
    BY <2>1 DEF Init, LocalTypes, Steps, Failed
<1>2. Types /\ [Next]_vars => Types'
  <2> SUFFICES ASSUME QueryInv, \A c \in Caller : LocalTypes(c), [Next]_vars
               PROVE  QueryInv' /\ \A c \in Caller : LocalTypes(c)'
    OBVIOUS
  <2>1. QueryInv'
    BY QueryStep
  <2>2. CASE Next
    <3>1. PICK c \in Caller : Turn(c)
      BY <2>2 DEF Next, Turn
    <3>2. LocalTypes(c)'
      BY <3>1, TypesStep DEF QueryInv
    <3>3. \A d \in Caller \ {c} : Untouched(d)
      BY <3>1, TurnsOfOthers DEF QueryInv
    <3>4. \A d \in Caller \ {c} : LocalTypes(d)'
      BY <3>3 DEF Untouched, LocalTypes
    <3> QED
      BY <2>1, <3>2, <3>4
  <2>3. CASE UNCHANGED vars
    BY <2>1, <2>3 DEF vars, local, LocalTypes
  <2> QED
    BY <2>2, <2>3
<1>3. Types => TypeOK
  <2> SUFFICES ASSUME QueryInv, \A c \in Caller : LocalTypes(c)
               PROVE  TypeOK
    OBVIOUS
  <2>1. SchemasLoaded /\ Domains
    BY DEF QueryInv
  <2>2. pc = [c \in Caller |-> pc[c]]
    BY <2>1 DEF Domains
  <2>3. pc \in [Caller -> Steps]
    BY <2>2 DEF LocalTypes
  <2> QED
    BY <2>1, <2>3 DEF TypeOK, SchemasLoaded, LocalTypes, Failed, Steps
<1> QED
  BY <1>1, <1>2, <1>3, PTL DEF Spec
=============================================================================
