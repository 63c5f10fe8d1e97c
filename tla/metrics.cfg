\* One container that comes and goes and works; a host that is sampled with it
\* and does no work; LXD that answers in full, in part or not; polls whose calls
\* take no time or one unit.
SPECIFICATION Spec
CONSTANTS
  Containers = {ca}
  Host = host
  None = none
  MaxLate = 1
  MaxWork = 2
  MaxHostWork = 0
INVARIANTS TypeOK NeverInflated
PROPERTY RowsSettle
