CONSTANTS
    k1 = k1
    k2 = k2
    ResolverSize = 2
    GCSize = 2
    Closers <- MCClosers
SPECIFICATION Spec
INVARIANT DBOutlivesWorkers
PROPERTY CloseDrains
