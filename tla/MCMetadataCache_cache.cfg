SPECIFICATION Spec
SYMMETRY Symmetry
CONSTANTS
  d1 = d1
  d2 = d2
  d3 = d3
  s1 = s1
  s2 = s2
  a1 = a1
  a2 = a2
  c1 = c1
  c2 = c2
  k1 = k1
  Dim = {d1, d2, d3}
  Strategy = {s1, s2}
  StrategyOf <- MCStrategyOf
  Known = {d1, d2}
  Tables = {d1}
  DrillTables = {s1}
  Abs = {a1, a2}
  Conc = {c1, c2}
  Drill = {k1}
  Rows <- SharedRows
  Drills <- MCDrills
  MaxLineId = 3
  Caller = {t1, t2}
  NotGiven = NotGiven
  Blank = Blank
  None = None
INVARIANTS TypeOK CacheInv AnswersAreRows UnambiguousAnswersMatch
