SPECIFICATION FairSpec
INVARIANTS
  TypeOK
  SupplyAgrees
  DriverOnAsAsked
PROPERTIES
  SupplyHasCause
  HaltCutsSupply
