------------------------------- MODULE MemDB -------------------------------
(***************************************************************************)
(* The transaction's in-memory buffer with nested staging (spec 3 and      *)
(* 4.2) and the snapshot getter and iterator of                            *)
(* storage/memdb_snapshot.go that read it.                                 *)
(*                                                                         *)
(* The buffer itself (memdb.go, its arena and value log) is not in the     *)
(* sources; it is modelled from the spec: values live in an append-only    *)
(* value log whose entries record the key and the key's previous entry, a  *)
(* node per key points at its newest entry (0 is the null address),        *)
(* Staging pushes the log length as a checkpoint, Release pops it, and     *)
(* Cleanup reverts every entry above it and truncates the log.  A value    *)
(* of equal size is overwritten in place only when its entry belongs to    *)
(* the current staging generation.  Keys are ordered numbers; 0 stands for *)
(* the nil start or end of an iterator.  Flags and memory accounting are   *)
(* left out.                                                               *)
(***************************************************************************)
EXTENDS Naturals, Sequences, SequencesExt

CONSTANTS
    Keys,       \* user keys, a set of positive numbers ordered by <
    Values,     \* values
    Size(_),    \* the length of a value
    MaxLog,     \* bound on the value log length
    MaxStages   \* bound on the staging depth

VARIABLES
    vlog,       \* the value log: << [key, val, old] >>
    vptr,       \* the node of each key: its newest entry, 0 if none
    stages,     \* the checkpoints of the open stages, outermost first
    saved,      \* ghost: the logical contents when each stage was opened
    snap        \* ghost: the last snapshot taken, see SnapshotGetter

memVars == << vlog, vptr, stages, saved, snap >>

None == "none"
NoSnap == [cp |-> 0, view |-> [k \in Keys |-> None], open |-> FALSE]

\* The value the buffer holds for each key.
Logical == [k \in Keys |-> IF vptr[k] = 0 THEN None ELSE vlog[vptr[k]].val]

\* vlog.canModify(cp, addr): the entry was appended after the checkpoint.
CanModify(cp, addr) == addr > cp

\* The checkpoint of the innermost stage; with no stage every entry is
\* modifiable.
ActiveCp == IF stages = << >> THEN 0 ELSE Last(stages)

\* vlog.getSnapshotValue(addr, cp): follow the key's history back to the
\* newest entry the checkpoint covers.
RECURSIVE GetSnapshotValue(_, _)
GetSnapshotValue(addr, cp) ==
    IF addr = 0 THEN [ok |-> FALSE]
    ELSE IF ~CanModify(cp, addr) THEN [ok |-> TRUE, val |-> vlog[addr].val]
    ELSE GetSnapshotValue(vlog[addr].old, cp)

\* Mutant: getSnapshot that ignores the stages.
GetSnapshotCurrent == Len(vlog)

\* getSnapshot: the checkpoint of the outermost stage, or the log's end.
GetSnapshot == IF stages # << >> THEN stages[1] ELSE Len(vlog)

\* memdbSnapGetter.Get: no node, or a node without a value (a flag-only
\* key), or no value under the checkpoint is ErrNotExist.
SnapGet(cp, k) ==
    IF vptr[k] = 0 THEN None
    ELSE LET r == GetSnapshotValue(vptr[k], cp)
         IN  IF r.ok THEN r.val ELSE None

\* The keys MemDBIter visits from start to end (0 is nil), in order.
IterKeys(start, end) ==
    SetToSortSeq({k \in Keys : vptr[k] # 0 /\ k >= start /\ (end = 0 \/ k < end)}, <)

\* memdbSnapIter.setValue at position i of the keys ks.
SetValue(cp, ks, i) ==
    IF i > Len(ks) THEN [ok |-> FALSE]
    ELSE GetSnapshotValue(vptr[ks[i]], cp)

\* memdbSnapIter.Next from position i: move on until setValue succeeds or
\* the iterator is no longer valid.
RECURSIVE SnapNext(_, _, _)
SnapNext(cp, ks, i) ==
    IF i + 1 > Len(ks) THEN << >>
    ELSE IF SetValue(cp, ks, i + 1).ok
         THEN << [key |-> ks[i + 1], val |-> SetValue(cp, ks, i + 1).val] >>
              \o SnapNext(cp, ks, i + 1)
    ELSE SnapNext(cp, ks, i + 1)

\* Mutant: init that does not move past a first key without a value.
SnapIterNoSkip(cp, start, end) ==
    LET ks == IterKeys(start, end)
    IN  IF ks = << >> THEN << >>
        ELSE << [key |-> ks[1], val |-> IF SetValue(cp, ks, 1).ok
                                       THEN SetValue(cp, ks, 1).val ELSE None] >>
             \o SnapNext(cp, ks, 1)

\* SnapshotIter(start, end) followed by Next until invalid: the entries
\* it yields.  init seeks to start and calls Next unless setValue holds.
SnapIter(cp, start, end) ==
    LET ks == IterKeys(start, end)
    IN  IF ks = << >> THEN << >>
        ELSE IF SetValue(cp, ks, 1).ok
             THEN << [key |-> ks[1], val |-> SetValue(cp, ks, 1).val] >>
                  \o SnapNext(cp, ks, 1)
        ELSE SnapNext(cp, ks, 1)

-----------------------------------------------------------------------------

MemInit ==
    /\ vlog = << >>
    /\ vptr = [k \in Keys |-> 0]
    /\ stages = << >>
    /\ saved = << >>
    /\ snap = NoSnap

\* Mutant: Set that overwrites a value of equal size in place whatever its
\* generation.
SetInPlaceAny(k, v) ==
    vptr[k] # 0 /\ Size(vlog[vptr[k]].val) = Size(v)

\* Set overwrites in place when the entry is of the current generation and
\* the sizes agree; otherwise it appends an entry linked to the old one.
SetInPlace(k, v) ==
    /\ vptr[k] # 0
    /\ CanModify(ActiveCp, vptr[k])
    /\ Size(vlog[vptr[k]].val) = Size(v)

Set(k, v) ==
    /\ \/ /\ SetInPlace(k, v)
          /\ vlog' = [vlog EXCEPT ![vptr[k]].val = v]
          /\ UNCHANGED vptr
       \/ /\ ~SetInPlace(k, v)
          /\ Len(vlog) < MaxLog
          /\ vlog' = Append(vlog, [key |-> k, val |-> v, old |-> vptr[k]])
          /\ vptr' = [vptr EXCEPT ![k] = Len(vlog) + 1]
    /\ UNCHANGED << stages, saved, snap >>

\* Staging: a new handle, the new depth.
Staging ==
    /\ Len(stages) < MaxStages
    /\ stages' = Append(stages, Len(vlog))
    /\ saved' = Append(saved, Logical)
    /\ UNCHANGED << vlog, vptr, snap >>

\* A snapshot reads the outermost stage only while that stage is open.
CloseSnapshotIfOuter(h) ==
    snap' = IF h = 1 THEN [snap EXCEPT !.open = FALSE] ELSE snap

\* Release(h) of the innermost stage: its writes stay.
Release(h) ==
    /\ h = Len(stages) /\ h > 0
    /\ stages' = Front(stages)
    /\ saved' = Front(saved)
    /\ CloseSnapshotIfOuter(h)
    /\ UNCHANGED << vlog, vptr >>

\* Mutant: a revert that leaves the nodes pointing at truncated entries.
RevertNothing(ptr, log, cp) == ptr

\* Revert the entries above cp, newest first: each node goes back to the
\* entry its key held before.
RECURSIVE Revert(_, _, _)
Revert(ptr, log, cp) ==
    IF Len(log) <= cp THEN ptr
    ELSE Revert([ptr EXCEPT ![Last(log).key] = Last(log).old], Front(log), cp)

\* Cleanup(h) of the innermost stage: discard what it wrote.
Cleanup(h) ==
    /\ h = Len(stages) /\ h > 0
    /\ vptr' = Revert(vptr, vlog, stages[h])
    /\ vlog' = SubSeq(vlog, 1, stages[h])
    /\ stages' = Front(stages)
    /\ saved' = Front(saved)
    /\ CloseSnapshotIfOuter(h)

\* SnapshotGetter: pin getSnapshot.  The ghost records what the buffer
\* held when the outermost stage was opened, or now if none is open; only
\* a snapshot taken inside a stage is followed (see CloseSnapshotIfOuter).
SnapshotGetter ==
    /\ snap' = [cp |-> GetSnapshot,
                view |-> IF stages # << >> THEN saved[1] ELSE Logical,
                open |-> stages # << >>]
    /\ UNCHANGED << vlog, vptr, stages, saved >>

MemNext ==
    \/ \E k \in Keys, v \in Values : Set(k, v)
    \/ Staging
    \/ \E h \in 1..MaxStages : Release(h) \/ Cleanup(h)
    \/ SnapshotGetter

=============================================================================
