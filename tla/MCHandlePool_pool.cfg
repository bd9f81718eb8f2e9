SPECIFICATION Spec
SYMMETRY Symmetry
CONSTANTS
  Key = {d1, d2, d3, d4, d5, unknown}
  Known = {d1, d2, d3, d4, d5}
  Caller = {t1, t2}
  MaxOpenHandles = 2
  MaxUses = 6
  None = None
  DimensionNotFound = DimensionNotFound
  OpenFailed = OpenFailed
INVARIANTS TypeOK PoolInv MostRecentAreOpen MappedIsBounded
PROPERTIES PoolIsReaderCache
