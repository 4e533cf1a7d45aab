\* Two keys, values of sizes 1 and 2, a value log of 4 entries and three
\* nested stages: enough for an in-place overwrite inside an inner stage,
\* a released inner stage and a Cleanup of an outer one.
CONSTANTS
    Keys = {1, 2}
    Values = {"a", "b", "cc"}
    Size <- ValueSize
    MaxLog = 4
    MaxStages = 3
SPECIFICATION Spec
INVARIANT TypeOK
INVARIANT SnapshotReadsOutermostStage
INVARIANT SnapIterMatchesGet
PROPERTY ImplementsStagedKV
