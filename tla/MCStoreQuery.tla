---------------------------- MODULE MCStoreQuery ----------------------------
(* Two known dimensions and one the manifest does not list; lines of two      *)
(* packs that share a schema, of a pack with an action outside its schema, of *)
(* a pack whose schema meta.db lacks, of a corrupt pack and of none.          *)
EXTENDS StoreQuery, TLC

CONSTANTS d1, d2, d3, k1, k2, k3, k4, k5, k6, h1, h2, h3, fold, call, raise, s1, s2, s3, t1, t2

MCSchema == (s1 :> <<fold, call>>) @@ (s2 :> Absent) @@ (s3 :> <<call, raise>>)

PackWith(schema, m1, m2) ==
  [schema |-> schema,
   mask |-> (h1 :> m1) @@ (h2 :> m2) @@ (h3 :> {}),
   strong |-> (h1 :> m1 \ {0}) @@ (h2 :> m2) @@ (h3 :> {})]

MCPack ==
  LET P == (k1 :> PackWith(s1, {0, 1}, {0})) @@ (k2 :> PackWith(s1, {1}, {0, 1}))
           @@ (k3 :> PackWith(s3, {0, 2}, {1})) @@ (k4 :> PackWith(s2, {0}, {1}))
           @@ (k5 :> Corrupt) @@ (k6 :> Absent)
  IN (d1 :> P) @@ (d2 :> [P EXCEPT ![k1] = PackWith(s3, {0}, {0, 1})]) @@ (d3 :> P)

Query(kind, d, items) ==
  [kind |-> kind, dim |-> d, items |-> items, filtered |-> FALSE, wanted |-> {}]
At(l, h) == [line |-> l, hand |-> h]

\* Every batch of at most two of these items, each way an item can end and
\* items of one pack, and batches of three of which two fail.
BatchItems == {At(k1, h1), At(k1, h2), At(k1, h3), At(k3, h1), At(k3, h2),
               At(k4, h3), At(k5, h1), At(k1, BadHand)}

Batches ==
  {Query("batch", d1, s) : s \in UNION {[1..n -> BatchItems] : n \in 0..2}}
  \cup {Query("batch", d1, <<i, At(k1, h1), j>>) :
          i \in {At(k1, h3), At(k3, h1)}, j \in {At(k5, h1), At(k1, BadHand), At(k3, h2)}}
  \cup {Query("batch", d3, <<At(k1, i)>> \o s) :
          i \in {h1, BadHand}, s \in {<<>>, <<At(k1, BadHand)>>, <<At(k2, h1)>>}}

\* Single queries, filters of which some name no action of the schema, batches
\* that need two schemas.
Mixed ==
  {Query("single", d, <<i>>) : d \in Dim, i \in {At(k1, h1), At(k1, BadHand)}}
  \cup {Query("single", d1, <<i>>) : i \in BatchItems \cup {At(k4, h1), At(k6, h1)}}
  \cup {[Query("hands", d1, <<At(l, h1)>>) EXCEPT !.filtered = f, !.wanted = w] :
          l \in {k1, k3, k4, k6}, f \in BOOLEAN, w \in {{fold}, {call}, {raise}}}
  \cup {Query("batch", d, <<At(k1, h1), At(k3, h2), At(k1, h2)>>) : d \in {d1, d2}}
  \cup {Query("batch", d1, <<At(k1, h3), At(k2, h1), At(k1, h1)>>)}
  \cup {Query("batch", d1, <<At(k4, h3), At(k2, BadHand), At(k1, h2)>>)}

\* What the other thread asks for meanwhile: queries that fill the cache with
\* each of the schemas, and with two at a time.
Beside ==
  {Query("single", d, <<At(k, h1)>>) : d \in {d1, d2}, k \in {k1, k3, k4}}
  \cup {Query("batch", d1, <<At(k1, h1), At(k3, h2)>>),
        [Query("hands", d1, <<At(k3, h1)>>) EXCEPT !.filtered = TRUE, !.wanted = {raise}]}

\* The dictionary that turns hole cards into the hands of Hand and back.
Cards == INSTANCE HoleCards

ASSUME Dictionary ==
  Cards!IdsNameCodes /\ Cards!CardsNameHands /\ Cards!InputsNameHands

MCRequests == (t1 :> Batches \cup Mixed) @@ (t2 :> Beside)
MCBatches == (t1 :> Batches)
=============================================================================
