SPECIFICATION ArpLiveSpec
CONSTANTS
  Hosts = {"h1", "h2"}
  Macs <- MCMacs
  CacheSize = 2
  MaxUnasked = 2
\* a handler that resolves an unknown host hangs the machine
CHECK_DEADLOCK FALSE
PROPERTIES
  FirstResponseStays
  ResolveReturns
