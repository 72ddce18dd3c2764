CONSTANTS
  h1 = h1
  h2 = h2
  d1 = d1
  d2 = d2
  Hosts <- MCThreads
  Devices <- MCDevices
  MpiStream = h1
  TimeSpan = 65536
  Delay = 2
  Uninitialised = {}
  Programs <- MCDeviceRegion
SPECIFICATION Spec
INVARIANT TasksKnowTheirRegion
