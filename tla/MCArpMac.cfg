SPECIFICATION ArpSpec
CONSTANTS
  Hosts = {"h1", "h2"}
  Macs <- MCMacs
  CacheSize = 2
  MaxUnasked = 0
CHECK_DEADLOCK FALSE
INVARIANT ResolvesToAnnounced
