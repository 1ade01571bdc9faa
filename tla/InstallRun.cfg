SPECIFICATION Spec
CONSTANTS
  Installers = {i1, i2}
  Earlier = Earlier
  Nobody = Nobody
  MaxFaults = 3
SYMMETRY InstallerSymmetry
INVARIANTS
  ExitCodeIsTrue
  OpenOnlyCommitted
PROPERTIES
  OnlyOwnTouched
CHECK_DEADLOCK FALSE
