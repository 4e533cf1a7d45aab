------------------------------ MODULE MC_MemDB ------------------------------
(***************************************************************************)
(* The in-memory buffer with staging, and snapshot readers of it, driven   *)
(* by every interleaving of Set, Staging, Release, Cleanup and             *)
(* SnapshotGetter up to the bounds of MC_MemDB.cfg.                        *)
(***************************************************************************)
EXTENDS MemDB, TLC

\* Values of two sizes, so that some overwrites can reuse their slot.
ValueSize(v) == IF v = "cc" THEN 2 ELSE 1

\* Iterator bounds: 0 is nil.
Bounds == {0} \cup Keys

Init == MemInit
Next == MemNext
Spec == Init /\ [][Next]_memVars

TypeOK ==
    /\ vlog \in Seq([key : Keys, val : Values, old : 0..MaxLog])
    /\ Len(vlog) <= MaxLog
    /\ vptr \in [Keys -> 0..Len(vlog)]
    /\ stages \in Seq(0..Len(vlog)) /\ Len(stages) <= MaxStages
    /\ Len(saved) = Len(stages)

\* The map each open stage would give back on Cleanup, read from the value
\* log as the snapshot getter reads it: the newest entry of each key at or
\* below the stage's checkpoint.
StageViews ==
    [i \in 1..Len(stages) |-> [k \in Keys |-> SnapGet(stages[i], k)]]

Staged == INSTANCE StagedKV WITH kv <- Logical, stack <- StageViews

\* Staging law (spec 3 and 8.4) as a refinement: every step of the value
\* log buffer (Set in place or appended, Staging, Release, Cleanup's
\* revert and truncation, SnapshotGetter) is a step of the abstract staged
\* map, or leaves it unchanged.  In particular Cleanup(h) restores exactly
\* what the buffer held when Staging returned h, and no in-place overwrite
\* ever changes what an open stage would restore.
ImplementsStagedKV == Staged!AbsSpec

\* A snapshot getter taken inside a stage (getSnapshot pins the outermost
\* stage's checkpoint) keeps returning what the buffer held when that
\* stage was opened, through later Sets, inner stages and their Cleanup,
\* for as long as the outermost stage is open.
SnapshotReadsOutermostStage ==
    snap.open => \A k \in Keys : SnapGet(snap.cp, k) = snap.view[k]

\* memdbSnapIter (init, Next, setValue) yields, from start to end, exactly
\* the keys for which memdbSnapGetter.Get finds a value under the same
\* checkpoint, in key order and with the same values.
SnapIterMatchesGet ==
    \A s, e \in Bounds :
        LET ks == SetToSortSeq({k \in Keys : SnapGet(snap.cp, k) # None
                                   /\ k >= s /\ (e = 0 \/ k < e)}, <)
        IN  SnapIter(snap.cp, s, e) =
                [i \in DOMAIN ks |-> [key |-> ks[i], val |-> SnapGet(snap.cp, ks[i])]]
=============================================================================
