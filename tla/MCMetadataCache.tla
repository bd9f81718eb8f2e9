--------------------------- MODULE MCMetadataCache ---------------------------
(* Two known dimensions, of which d2 lacks its table, and one the manifest  *)
(* does not list; two abstract and two concrete lines, one drill.           *)
EXTENDS MetadataCache, TLC

CONSTANTS d1, d2, d3, s1, s2, a1, a2, c1, c2, k1

MCStrategyOf == (d1 :> s1) @@ (d2 :> s1) @@ (d3 :> s2)
MCDrills == (s1 :> (k1 :> {a1, a2})) @@ (s2 :> (k1 :> {a1}))

\* The concrete line c1 belongs to both abstract lines, c2 to one.
SharedRows == (d1 :> {[id |-> 1, abs |-> a1, conc |-> c1],
                      [id |-> 2, abs |-> a1, conc |-> c2],
                      [id |-> 3, abs |-> a2, conc |-> c1]})
              @@ (d2 :> {}) @@ (d3 :> {})

Symmetry == Permutations(Caller)
==============================================================================
