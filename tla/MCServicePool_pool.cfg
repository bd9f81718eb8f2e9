SPECIFICATION FairSpec
CONSTANTS
  Key = {d1, d2, d3, unknown}
  Known = {d1, d2, d3}
  Caller = {t1, t2, t3}
  MaxOpenHandles = 2
  MaxUses = 4
  None = None
  DimensionNotFound = DimensionNotFound
  OpenFailed = OpenFailed
INVARIANTS TypeOK LruTracksHandles
PROPERTIES PoolIsReaderCache MissIsAnswered
