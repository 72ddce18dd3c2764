CONSTANTS
  Hosts <- MCHosts
  Devices <- MCDevices
  MpiStream = "main"
  Programs <- MCPrograms
  Times <- MCTimes
  Filtered = {"skipped"}
  MaxBlamed = 1
SPECIFICATION Spec
INVARIANT ProfileAddsUp
INVARIANT WriterMeetsNodes
INVARIANT IdleTimeIsIdle
