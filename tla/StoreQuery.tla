------------------------------ MODULE StoreQuery ------------------------------
(***************************************************************************)
(* The queries of strategies: one hand, a batch of hands, the hands that   *)
(* take some actions (StoreQueryService in range-store-core/src/query/     *)
(* store_query_service.rs), with the cache of action schemas that they     *)
(* share and fill from meta.db.                                            *)
(*                                                                         *)
(* A step of a thread ends where it releases or asks for a lock: the pool  *)
(* of readers, the schema map, the SQLite connection.  Reading a pack from *)
(* a mapped file and decoding it happen within a step.                     *)
(*                                                                         *)
(* A pack is what its decoding gives: for each hand the actions that exist *)
(* (mask) and those of them whose frequency exceeds the threshold of the   *)
(* requests (strong).  Errors carry the code the facade gives them, and    *)
(* items are numbered from 1, where the code counts from 0.                *)
(***************************************************************************)
EXTENDS Naturals, Sequences, FiniteSetsExt

CONSTANTS
  Dim, Known,   \* dimensions a request may name, those of the manifest
  Line, Hand,   \* concrete line ids, hand ids
  BadHand,      \* hole cards that do not parse
  Name,         \* actions of schemas: name and amount
  Pack,         \* Pack[d][l]: Absent, Corrupt or a pack
  SchemaId,
  Schema,       \* Schema[id]: Absent, or the sequence of its actions
  Requests,     \* for every caller, the requests it may make
  Caller,       \* threads
  Absent, Corrupt,
  None          \* nothing yet

Action == 0..31

\* The codes of the facade for the errors of a query.
Failures == {"INVALID_ARGUMENT", "DIMENSION_NOT_FOUND", "DATA_FILE_NOT_FOUND",
             "INVALID_FORMAT", "CONCRETE_LINE_NOT_FOUND", "HAND_STRATEGY_NOT_FOUND",
             "ACTION_SCHEMA_NOT_FOUND", "INTERNAL", "HANDS_NOT_FOUND"}

ASSUME StoreAssumption ==
  /\ Known \subseteq Dim
  /\ BadHand \notin Hand
  /\ \A d \in Dim, l \in Line : Pack[d][l] \notin {Absent, Corrupt} =>
       /\ Pack[d][l].schema \in SchemaId
       /\ \A h \in Hand : /\ Pack[d][l].mask[h] \subseteq Action
                          /\ Pack[d][l].strong[h] \subseteq Pack[d][l].mask[h]
  /\ \A id \in SchemaId : Schema[id] # None /\ (Schema[id] # Absent => Schema[id] \in Seq(Name))
  /\ None \notin [index : Nat, error : Failures]

ASSUME RequestAssumption ==
  \A c \in Caller : \A q \in Requests[c] :
    /\ q.kind \in {"single", "batch", "hands"} /\ q.dim \in Dim
    /\ q.items \in Seq([line : Line, hand : Hand \cup {BadHand}])
    /\ q.kind # "batch" => Len(q.items) = 1
    /\ q.filtered \in BOOLEAN     \* "hands": whether there are action filters
    /\ q.wanted \subseteq Name    \* and what passes one of them

VARIABLES
  schemas,  \* ActionSchemaCacheState.schemas: a schema, or None
  pc,       \* "idle", "open", "next", "schema", "load" or "insert"
  request,  \* the request of a thread
  opened,   \* what get_or_open returned to it: "ok" or an error, or None
  broken,   \* the items whose group met an error of SQLite or a bad blob
  todo,     \* batch: the first items of the groups not begun
  current,  \* the item, or the first item of the group, in progress
  failure,  \* batch: first_failure
  results,  \* batch: results_vec
  answer    \* its answer, None until it has one

local == <<request, opened, broken, todo, current, failure, results>>
vars == <<schemas, pc, local, answer>>

Ok(items, hands) == [error |-> "none", index |-> 0, items |-> items, hands |-> hands]
Error(code, i) == [error |-> code, index |-> i, items |-> <<>>, hands |-> {}]

-----------------------------------------------------------------------------
(* What the readers and the decoding give                                  *)

PackOf(q, i) == Pack[q.dim][q.items[i].line]
Mask(q, i) == PackOf(q, i).mask[q.items[i].hand]

\* The errors of DimensionReader: no such line, or a pack that is not valid.
ReadError(q, i) ==
  IF PackOf(q, i) = Absent THEN "CONCRETE_LINE_NOT_FOUND"
  ELSE IF PackOf(q, i) = Corrupt THEN "INVALID_FORMAT" ELSE "none"

\* cells_to_actions fails when a cell has an action outside the schema.
InSchema(mask, schema) == \A a \in mask : a < Len(schema)
Actions(mask, schema) == [a \in mask |-> schema[a + 1]]

\* FAULT: a filter that resolves to no action is taken for no filter.
WantedUnlessNone(q, schema) ==
  LET W == {a \in Action : a < Len(schema) /\ schema[a + 1] \in q.wanted}
  IN IF W = {} THEN Action ELSE W

\* resolve_action_filter_mask, all actions where there is no filter.
Wanted(q, schema) ==
  IF q.filtered THEN {a \in Action : a < Len(schema) /\ schema[a + 1] \in q.wanted}
  ELSE Action

MatchedHands(q, schema) ==
  {h \in Hand : PackOf(q, 1).strong[h] \cap Wanted(q, schema) # {}}

Parsed(q) == {i \in DOMAIN q.items : q.items[i].hand # BadHand}

\* The parsed items with the line of item i, and the first item of each group.
Group(q, i) == {j \in Parsed(q) : q.items[j].line = q.items[i].line}
GroupFirsts(q) == {i \in Parsed(q) : \A j \in Group(q, i) : i <= j}

\* FAULT: a later failure replaces an earlier one.
LastFailure(f, i, code) == [index |-> i, error |-> code]

\* FAULT: a failure is kept with the number of the item before it.
FailureBefore(f, i, code) ==
  IF f # None /\ i >= f.index THEN f ELSE [index |-> i - 1, error |-> code]

MinFailure(f, i, code) ==
  IF f # None /\ i >= f.index THEN f ELSE [index |-> i, error |-> code]

\* min_failure for items that fail one after the other with one code.
MinFailures(f, S, code) == IF S = {} THEN f ELSE MinFailure(f, Min(S), code)

-----------------------------------------------------------------------------
Init ==
  /\ schemas = [id \in SchemaId |-> None]
  /\ pc = [c \in Caller |-> "idle"]
  /\ request = [c \in Caller |-> None]
  /\ opened = [c \in Caller |-> None]
  /\ broken = [c \in Caller |-> {}]
  /\ todo = [c \in Caller |-> {}]
  /\ current = [c \in Caller |-> 0]
  /\ failure = [c \in Caller |-> None]
  /\ results = [c \in Caller |-> <<>>]
  /\ answer = [c \in Caller |-> None]

Goto(c, step) == pc' = [pc EXCEPT ![c] = step] /\ UNCHANGED answer
Reply(c, a) == pc' = [pc EXCEPT ![c] = "idle"] /\ answer' = [answer EXCEPT ![c] = a]

\* A single query ends with its error, a batch notes it and goes on.
Fail(c, i, code) ==
  IF request[c].kind = "batch"
  THEN Goto(c, "next") /\ failure' = [failure EXCEPT ![c] = MinFailure(@, i, code)]
  ELSE Reply(c, Error(code, 0)) /\ UNCHANGED failure

-----------------------------------------------------------------------------
(* The entry of a query and get_or_open                                    *)

\* The call itself.  Hole cards are parsed first: a batch notes those that do
\* not parse; an empty batch is answered without opening the dimension.
Begin(c, q) ==
  /\ pc[c] = "idle"
  /\ request' = [request EXCEPT ![c] = q]
  /\ opened' = [opened EXCEPT ![c] = None]
  /\ broken' = [broken EXCEPT ![c] = {}]
  /\ current' = [current EXCEPT ![c] = 0]
  /\ todo' = [todo EXCEPT ![c] = IF q.kind = "batch" THEN GroupFirsts(q) ELSE {1}]
  /\ failure' = [failure EXCEPT ![c] =
       MinFailures(None, DOMAIN q.items \ Parsed(q), "INVALID_ARGUMENT")]
  /\ results' = [results EXCEPT ![c] = [i \in DOMAIN q.items |-> None]]
  /\ \/ /\ q.kind = "single" /\ Parsed(q) = {}
        /\ Reply(c, Error("INVALID_ARGUMENT", 0))
     \/ q.items = <<>> /\ Reply(c, Ok(<<>>, {}))
     \/ /\ q.kind = "single" => Parsed(q) # {}
        /\ q.items # <<>>
        /\ pc' = [pc EXCEPT ![c] = "open"]
        /\ answer' = [answer EXCEPT ![c] = None]
  /\ UNCHANGED schemas

OpenReader(c) ==
  /\ pc[c] = "open" /\ request[c].dim \in Known
  /\ opened' = [opened EXCEPT ![c] = "ok"]
  /\ Goto(c, "next")
  /\ UNCHANGED <<schemas, request, broken, todo, current, failure, results>>

\* The dimension is unknown, or its files do not open; a batch blames its first item.
OpenFails(c) ==
  /\ pc[c] = "open"
  /\ \E code \in {"DIMENSION_NOT_FOUND", "DATA_FILE_NOT_FOUND"} :
       /\ (code = "DIMENSION_NOT_FOUND") <=> (request[c].dim \notin Known)
       /\ opened' = [opened EXCEPT ![c] = code]
       /\ Fail(c, 1, code)
  /\ todo' = [todo EXCEPT ![c] = {}]
  /\ UNCHANGED <<schemas, request, broken, current, results>>

-----------------------------------------------------------------------------
(* A single query, or a group of a batch                                   *)

\* Read the pack of the next group; a single query ends when its hand is not there.
ReadPack(c) ==
  /\ pc[c] = "next" /\ todo[c] # {}
  /\ LET q == request[c]
         i == Min(todo[c])
     IN /\ current' = [current EXCEPT ![c] = i]
        /\ todo' = [todo EXCEPT ![c] = @ \ {i}]
        /\ IF ReadError(q, i) # "none" THEN Fail(c, i, ReadError(q, i))
           ELSE IF q.kind = "single" /\ Mask(q, i) = {} THEN Fail(c, i, "HAND_STRATEGY_NOT_FOUND")
           ELSE Goto(c, "schema") /\ UNCHANGED failure
  /\ UNCHANGED <<schemas, request, opened, broken, results>>

SchemaOf(c) == PackOf(request[c], current[c]).schema

\* The rest of a query with the schema: the actions of the hand, the hands
\* that match (the facade turns none into an error), the items of the group.
DeliverSingle(c, schema) ==
  LET mask == Mask(request[c], 1)
  IN /\ request[c].kind = "single"
     /\ Reply(c, IF InSchema(mask, schema) THEN Ok(<<Actions(mask, schema)>>, {})
                 ELSE Error("INTERNAL", 0))
     /\ UNCHANGED <<failure, results>>

DeliverHands(c, schema) ==
  LET hands == MatchedHands(request[c], schema)
  IN /\ request[c].kind = "hands"
     /\ Reply(c, IF hands = {} THEN Error("HANDS_NOT_FOUND", 0) ELSE Ok(<<>>, hands))
     /\ UNCHANGED <<failure, results>>

DeliverGroup(c, schema) ==
  LET q == request[c]
      items == Group(q, current[c])
      missing == {i \in items : Mask(q, i) = {}}
      outside == {i \in items : ~ InSchema(Mask(q, i), schema)}
  IN /\ q.kind = "batch"
     /\ failure' = [failure EXCEPT ![c] =
          MinFailures(MinFailures(@, missing, "HAND_STRATEGY_NOT_FOUND"), outside, "INTERNAL")]
     /\ results' = [results EXCEPT ![c] = [i \in DOMAIN @ |->
          IF i \in items \ (missing \cup outside) THEN Actions(Mask(q, i), schema) ELSE @[i]]]
     /\ Goto(c, "next")

Deliver(c, schema) ==
  DeliverSingle(c, schema) \/ DeliverHands(c, schema) \/ DeliverGroup(c, schema)

\* FAULT: what is cached for one schema is used for another.
UseAnyCached(c) ==
  /\ pc[c] = "schema"
  /\ \E id \in SchemaId : schemas[id] # None /\ Deliver(c, schemas[id])
  /\ UNCHANGED <<schemas, request, opened, broken, todo, current>>

\* ActionSchemaCache.get: a hit under the read lock.
UseCached(c) ==
  /\ pc[c] = "schema" /\ schemas[SchemaOf(c)] # None
  /\ Deliver(c, schemas[SchemaOf(c)])
  /\ UNCHANGED <<schemas, request, opened, broken, todo, current>>

\* A miss: the read lock is released before the connection is taken.
MissSchema(c) ==
  /\ pc[c] = "schema" /\ schemas[SchemaOf(c)] = None
  /\ Goto(c, "load")
  /\ UNCHANGED <<schemas, local>>

LoadSchema(c) ==
  /\ pc[c] = "load"
  /\ IF Schema[SchemaOf(c)] = Absent THEN Fail(c, current[c], "ACTION_SCHEMA_NOT_FOUND")
     ELSE Goto(c, "insert") /\ UNCHANGED failure
  /\ UNCHANGED <<schemas, request, opened, broken, todo, current, results>>

\* SQLite fails, or the blob does not decode.
LoadFails(c) ==
  /\ pc[c] = "load"
  /\ broken' = [broken EXCEPT ![c] = @ \cup {current[c]}]
  /\ Fail(c, current[c], "INVALID_FORMAT")
  /\ UNCHANGED <<schemas, request, opened, todo, current, results>>

\* Insert under the write lock; a schema inserted meanwhile is kept and used.
InsertSchema(c) ==
  LET id == SchemaOf(c)
      schema == IF schemas[id] = None THEN Schema[id] ELSE schemas[id]
  IN /\ pc[c] = "insert"
     /\ schemas' = [schemas EXCEPT ![id] = schema]
     /\ Deliver(c, schema)
     /\ UNCHANGED <<request, opened, broken, todo, current>>

\* All or nothing: the failure, or else the results in the order of the items.
FinishBatch(c) ==
  /\ pc[c] = "next" /\ todo[c] = {}
  /\ Reply(c, IF failure[c] # None THEN Error(failure[c].error, failure[c].index)
              ELSE Ok(results[c], {}))
  /\ UNCHANGED <<schemas, local>>

Next == \E c \in Caller :
  \/ \E q \in Requests[c] : Begin(c, q)
  \/ OpenReader(c) \/ OpenFails(c) \/ ReadPack(c)
  \/ UseCached(c) \/ MissSchema(c) \/ LoadSchema(c) \/ LoadFails(c) \/ InsertSchema(c)
  \/ FinishBatch(c)

Spec == Init /\ [][Next]_vars

-----------------------------------------------------------------------------
(* Properties                                                              *)

\* The variables keep their types; a schema is cached only if meta.db has it.
TypeOK ==
  /\ \A id \in SchemaId : schemas[id] = None \/ (schemas[id] = Schema[id] /\ Schema[id] # Absent)
  /\ pc \in [Caller -> {"idle", "open", "next", "schema", "load", "insert"}]
  /\ \A c \in Caller :
       /\ request[c] = None \/ request[c] \in Requests[c]
       /\ opened[c] \in {None, "ok", "DIMENSION_NOT_FOUND", "DATA_FILE_NOT_FOUND"}
       /\ broken[c] \subseteq Nat /\ todo[c] \subseteq Nat /\ current[c] \in Nat
       /\ failure[c] = None \/ (failure[c].index \in Nat \ {0} /\ failure[c].error \in Failures)
       /\ answer[c] = None \/ answer[c].error \in Failures \cup {"none"}

\* What item i of the request of c is answered if it is asked alone: the
\* first of the errors of query that it meets, given what opening the
\* dimension and the loads of its schema came to.
SchemaError(c, i) ==
  LET q == request[c]
      id == PackOf(q, i).schema
  IN IF Group(q, i) \cap broken[c] # {} THEN "INVALID_FORMAT"
     ELSE IF Schema[id] = Absent THEN "ACTION_SCHEMA_NOT_FOUND" ELSE "none"

ItemError(c, i) ==
  LET q == request[c]
  IN IF i \notin Parsed(q) THEN "INVALID_ARGUMENT"
     ELSE IF opened[c] # "ok" THEN opened[c]
     ELSE IF ReadError(q, i) # "none" THEN ReadError(q, i)
     ELSE IF Mask(q, i) = {} THEN "HAND_STRATEGY_NOT_FOUND"
     ELSE IF SchemaError(c, i) # "none" THEN SchemaError(c, i)
     ELSE IF ~ InSchema(Mask(q, i), Schema[PackOf(q, i).schema]) THEN "INTERNAL"
     ELSE "none"

ItemActions(c, i) ==
  Actions(Mask(request[c], i), Schema[PackOf(request[c], i).schema])

Answered(c, kind) == answer[c] # None /\ request[c].kind = kind

\* A single query answers from the pack and the schema in meta.db, whatever is
\* cached and whoever fills the cache beside it (StoreQueryService::query,
\* ActionSchemaCache::get).
SinglesMatchStore ==
  \A c \in Caller : Answered(c, "single") =>
    /\ answer[c].error = ItemError(c, 1)
    /\ answer[c].error = "none" => answer[c].items = <<ItemActions(c, 1)>>

\* A batch succeeds exactly when each of its items would alone, with the same
\* actions in the order of the items.  Otherwise it reports the least item
\* that would fail alone and its error, but for a hand that is not in a pack
\* whose schema cannot be had: the first of its group is reported with the
\* error of the schema (StoreQueryService::query_batch).
BatchMatchesSingles ==
  \A c \in Caller : Answered(c, "batch") =>
    LET items == DOMAIN request[c].items
        failing == {i \in items : ItemError(c, i) # "none"}
        a == answer[c]
    IN IF failing = {}
       THEN a.error = "none" /\ a.items = [i \in items |-> ItemActions(c, i)]
       ELSE /\ a.index \in failing /\ \A i \in failing : a.index <= i
            /\ \/ a.error = ItemError(c, a.index)
               \/ /\ ItemError(c, a.index) = "HAND_STRATEGY_NOT_FOUND"
                  /\ a.error = SchemaError(c, a.index) /\ a.error # "none"

\* The hands that take some actions are those whose single query shows such an
\* action above the threshold, whenever that query has an answer; there is an
\* error exactly when the list would be empty (query_hands_by_actions,
\* match_hands_by_actions, RangeStoreFacade::hands_by_actions).
HandsMatchSingles ==
  \A c \in Caller : Answered(c, "hands") =>
    LET q == request[c]
        pack == PackOf(q, 1)
        schema == Schema[pack.schema]
        Shows(h) == \E a \in pack.strong[h] :
                      q.filtered => Actions(pack.mask[h], schema)[a] \in q.wanted
    IN /\ (answer[c].hands = {}) <=> (answer[c].error # "none")
       /\ answer[c].error \in {"none", "HANDS_NOT_FOUND"} =>
            \A h \in Hand : InSchema(pack.mask[h], schema) =>
              (h \in answer[c].hands <=> Shows(h))

\* docs/release-qna-v1.1.0.md says that an item that fails does not disturb
\* the other items of its batch: an error of the batch would then be an error
\* of every item.
BatchItemsAreIndependent ==
  \A c \in Caller : Answered(c, "batch") /\ answer[c].error # "none" =>
    \A i \in DOMAIN request[c].items : ItemError(c, i) # "none"
===============================================================================
