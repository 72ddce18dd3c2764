CONSTANTS
  Hosts <- MCHosts
  Devices <- MCDevices
  MpiStream = "main"
  Programs <- MCFilteredPrograms
  Times <- MCTimes
  Filtered = {"skipped"}
  MaxBlamed = 1
SPECIFICATION Spec
INVARIANT FilteredMeetsNodes
