SPECIFICATION Spec
CONSTANT TotalVFs = 3
INVARIANTS
  TypeOK
  DoneMeansConfigured
  NeverRefused
PROPERTIES
  VFsGoneFirst
  ConfiguredUndisturbed
