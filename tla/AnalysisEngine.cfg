CONSTANTS
  h1 = h1
  h2 = h2
  d1 = d1
  d2 = d2
  Hosts <- MCThreads
  Devices <- MCDevices
  MpiStream = h1
  TimeSpan = 65536
  Delay = 2
  Uninitialised = {1}
  Programs <- MCPrograms
SPECIFICATION Spec
INVARIANT NoFault
INVARIANT KernelsKnowTheirLaunch
INVARIANT WaitIsBlamedOnce
INVARIANT BlockedHasCause
INVARIANT IdleIsIdle
INVARIANT PathAvoidsWaits
INVARIANT BarrierBlameIsWaiting
INVARIANT OpariWaitingIsLinked
 
INVARIANT DeviceBlamedInRegion
INVARIANT TeamIsJoined
