CONSTANTS
  Threads = {t1, t2}
  Classes = {Materialisers, DOGMA}
  Accesses = 2
  ClassRefs = 2
  MemberRefs = 1
  Platforms <- MCPlatforms
  Requests <- MCRequests
  CPUs <- PlainCPU
SPECIFICATION Spec
INVARIANTS
  StartupInv
  ReadyIsLinked
  OneSetLoaded
PROPERTIES
  InitialisedOnce
  TouchesEnd
CHECK_DEADLOCK FALSE
