\* Two servers, two calls, clients that disconnect once, an unusable MCP_SERVERS.
SPECIFICATION RegistryFairSpec
CONSTANTS
  s1 = s1
  s2 = s2
  ip1 = ip1
  dev1 = dev1
  Null = Null
  ServerIds = {s1, s2}
  Env = Unusable
  File <- BothServers
  DefaultServers <- BundledServer
  Unusable = Unusable
  Ips = {ip1}
  Devices = {dev1}
  Calls = {c1, c2}
  Requests <- MCRequests
  MaxClients = 3
  MaxDisconnects = 1
INVARIANTS
  RunsAtMostOnce
  MemoryIsTheRecord
  NotConnectedIsExplained
  OrphansAreExplained
PROPERTY
  EveryBootListens
CHECK_DEADLOCK FALSE
