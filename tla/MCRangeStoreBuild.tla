-------------------------- MODULE MCRangeStoreBuild --------------------------
(* Small instances of RangeStoreBuild for TLC. *)
EXTENDS RangeStoreBuildProps, TLC

CONSTANTS s1, s2, a, b, c

MCDim == {1, 2}

\* The dimensions of s1 share the schema b; the second dimension of s2 cannot
\* be encoded beyond its first line, so s2 is built only with the limit 1.
TwoSources == s1 :> <<<<a, b>>, <<b, c>>>> @@ s2 :> <<<<c>>, <<a, Malformed>>>>
OneSource == s1 :> <<<<a, b>>, <<b, c>>>>

\* The first dimension cannot be encoded, the second one can.
BadSource == s1 :> <<<<a, Malformed>>, <<b, c, b>>>>

BothDims == {{1, 2}}
AllSelections == {{1}, {1, 2}}
=============================================================================
