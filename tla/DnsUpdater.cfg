SPECIFICATION DnsSpec
CONSTANTS
  Hosts = {h1, h2}
  Domain = {h1, h2}
  Frontends = {internal, facing}
  Unserved = {}
  Static = TRUE
  TTLs = {60, 300}
  BatchSize = 1
  MaxEdits = 1
  MaxZoneFailures = 1
  MaxRestarts = 1
INVARIANT SettledAgrees
PROPERTIES OthersUntouched HostsKeepRecords EventuallyAgrees
