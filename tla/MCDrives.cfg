SPECIFICATION Spec
CONSTANTS
  Machines <- MCMachines
  Spots <- MCSpots
  Contents <- MCContents
  MaxChanges = 2
INVARIANTS
  SystemNeverOffered
  AdoptsNamedDrive
  AdoptedIsReady
