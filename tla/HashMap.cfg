SPECIFICATION FairSpec
CONSTANTS
  k1 = k1
  k2 = k2
  k3 = k3
  k4 = k4
  Keys = {k1, k2, k3, k4}
  Vals = {u, v}
  Null = Null
  Hash <- Colliding
  MinBuckets = 2
  LoadFactors = {95}
  GrowPowers = {1}
INVARIANTS TypeOK RobinHood CountIsItems FreeBucket WithinMemory
PROPERTIES ImplementsMap CallsReturn
