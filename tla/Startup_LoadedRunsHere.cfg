CONSTANTS
  Threads = {t1}
  Classes = {Materialisers}
  Accesses = 1
  ClassRefs = 1
  MemberRefs = 1
  Platforms <- MCPlatforms
  Requests <- MCRequests
  CPUs <- MCCPUs
SPECIFICATION Spec
INVARIANT LoadedRunsHere
CHECK_DEADLOCK FALSE
