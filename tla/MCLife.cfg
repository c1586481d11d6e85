SPECIFICATION MCSpec
CONSTANTS Boards = {"service", "helper", "chord", "cleanup"}
          Services = {"s1", "s2"}  Docs = {"d1"}  Threads = {"t1"}  MayMiss = {"edit"}  MaxRefs = 1
          Apps = {"a1", "a2"}  Count = 3  PerPage = 2  MaxDeaths = 2  MaxKeys = 3  MaxFaults = 1
INVARIANTS NoCallbackIntoTheVoid ScreenIsAskedFor KeysAreCounted DoneMeansGone
PROPERTIES OnlyOursGoes PartsEnd
\* A behaviour of a part may end: the bounds are used up.
CHECK_DEADLOCK FALSE
