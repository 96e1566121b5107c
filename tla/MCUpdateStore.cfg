CONSTANTS
  Packages = {p1, p2, p3}
  Versions = {"", "v1"}
  Faults = {"crash", "reinstall", "remove", "write", "exec"}
  NoPackage = NoPackage
  NoPointer = NoPointer
SPECIFICATION Spec
INVARIANTS
  InstalledIsKnown
PROPERTY
  NeededIsRetained
SYMMETRY PackageSymmetry
