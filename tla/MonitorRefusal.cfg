SPECIFICATION MonitorSpec
CONSTANTS
  Nobody = Nobody
  Profiles = {1}
  Shards = {1}
  LastRetry = 1
  Parents = {p1, p2}
  Monitors = {m1}
CHECK_DEADLOCK FALSE
INVARIANTS
  RefusalNamesAParent
