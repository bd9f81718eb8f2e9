SPECIFICATION Spec
CONSTANTS
  d1 = d1
  d2 = d2
  d3 = d3
  k1 = k1
  k2 = k2
  k3 = k3
  k4 = k4
  k5 = k5
  k6 = k6
  h1 = h1
  h2 = h2
  h3 = h3
  fold = fold
  call = call
  raise = raise
  s1 = s1
  s2 = s2
  s3 = s3
  t1 = t1
  t2 = t2
  Dim = {d1, d2, d3}
  Known = {d1, d2}
  Line = {k1, k2, k3, k4, k5, k6}
  Hand = {h1, h2, h3}
  BadHand = BadHand
  Name = {fold, call, raise}
  Pack <- MCPack
  SchemaId = {s1, s2, s3}
  Schema <- MCSchema
  Requests <- MCBatches
  Caller = {t1}
  Absent = Absent
  Corrupt = Corrupt
  None = None
INVARIANT BatchItemsAreIndependent
