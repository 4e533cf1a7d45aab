------------------------------ MODULE MvccRead ------------------------------
(***************************************************************************)
(* Reading MVCC records through a pebble iterator: the decoders of         *)
(* storage/mvcc/decoders.go, the commit-record lookup of the resolver      *)
(* (getTxnCommitInfo and the lock probe of Resolve, resolver/resolve.go),  *)
(* and the snapshot point read of spec 4.3, whose code is not in the       *)
(* sources.                                                                *)
(*                                                                         *)
(* A store is a set of entries [key |-> encoded key, rec |-> record]: a     *)
(* lock record at LockKey(k), a value record at Encode(k, commitVer).  An   *)
(* iterator is the sequence of entries at or above its LowerBound in byte   *)
(* order, and a position in it.  Record payloads are abstracted to the      *)
(* fields the readers compare, so UnmarshalBinary cannot fail here, and     *)
(* the iterator reports no I/O error (the Resolver module models that).    *)
(***************************************************************************)
EXTENDS MvccCodec

\* ValueType and the record shapes.
ValueTypes == {"Put", "Delete", "Lock", "Rollback"}
LockRec(startVer) == [startVer |-> startVer]
ValueRec(type, startVer, commitVer) ==
    [type |-> type, startVer |-> startVer, commitVer |-> commitVer]

\* db.NewIter(&IterOptions{LowerBound: lower}) followed by iter.First().
NewIter(store, lower) ==
    SetToSortSeq({e \in store : ~BytesLess(e.key, lower)},
                 LAMBDA a, b : BytesLess(a.key, b.key))

\* The outcome of a decoder: ok, err, the record read and the position after.
Miss(p) == [ok |-> FALSE, err |-> FALSE, p |-> p]
Broken(p) == [ok |-> FALSE, err |-> TRUE, p |-> p]
Hit(rec, p) == [ok |-> TRUE, err |-> FALSE, rec |-> rec, p |-> p + 1]

\* Mutant: LockDecoder.Decode without the version check.
LockDecodeAnyVer(it, p, expect) ==
    IF p > Len(it) THEN Miss(p)
    ELSE LET d == Decode(it[p].key)
         IN  IF d.err THEN Broken(p)
             ELSE IF d.key # expect THEN Miss(p)
             ELSE Hit(it[p].rec, p)

\* LockDecoder.Decode: the entry under the iterator is expect's lock; on
\* success the iterator moves past it.
LockDecode(it, p, expect) ==
    IF p > Len(it) THEN Miss(p)
    ELSE LET d == Decode(it[p].key)
         IN  IF d.err THEN Broken(p)
             ELSE IF d.key # expect \/ d.ver # LockVer THEN Miss(p)
             ELSE Hit(it[p].rec, p)

\* Mutant: ValueDecoder.Decode without the user-key comparison.
ValueDecodeAnyKey(it, p, expect) ==
    IF p > Len(it) THEN Miss(p)
    ELSE LET d == Decode(it[p].key)
         IN  IF d.err THEN Broken(p)
             ELSE IF d.ver = LockVer THEN Miss(p)
             ELSE Hit(it[p].rec, p)

\* ValueDecoder.Decode: the entry under the iterator is a value record of
\* expect.
ValueDecode(it, p, expect) ==
    IF p > Len(it) THEN Miss(p)
    ELSE LET d == Decode(it[p].key)
         IN  IF d.err THEN Broken(p)
             ELSE IF d.key # expect \/ d.ver = LockVer THEN Miss(p)
             ELSE Hit(it[p].rec, p)

\* Mutant: SkipDecoder.Decode that steps over one entry and stops.
SkipDecodeOneStep(it, p, currKey) ==
    IF p > Len(it) THEN [ok |-> FALSE, err |-> FALSE, p |-> p, currKey |-> currKey]
    ELSE LET d == Decode(it[p].key)
         IN  IF d.err THEN [ok |-> FALSE, err |-> TRUE, p |-> p, currKey |-> currKey]
             ELSE IF d.key # currKey
                  THEN [ok |-> TRUE, err |-> FALSE, p |-> p, currKey |-> d.key]
                  ELSE [ok |-> p + 1 <= Len(it), err |-> FALSE, p |-> p + 1,
                        currKey |-> IF p + 1 <= Len(it) THEN Decode(it[p + 1].key).key ELSE currKey]

\* SkipDecoder.Decode: advance while the user key is currKey; on another
\* key, that key becomes currKey.
RECURSIVE SkipDecode(_, _, _)
SkipDecode(it, p, currKey) ==
    IF p > Len(it) THEN [ok |-> FALSE, err |-> FALSE, p |-> p, currKey |-> currKey]
    ELSE LET d == Decode(it[p].key)
         IN  IF d.err THEN [ok |-> FALSE, err |-> TRUE, p |-> p, currKey |-> currKey]
             ELSE IF d.key # currKey
                  THEN [ok |-> TRUE, err |-> FALSE, p |-> p, currKey |-> d.key]
                  ELSE SkipDecode(it, p + 1, currKey)

\* getTxnCommitInfo(iter, expectKey, startVer): the first value record of
\* expectKey from the iterator on whose StartVer is startVer.
RECURSIVE GetTxnCommitInfo(_, _, _, _)
GetTxnCommitInfo(it, p, key, startVer) ==
    IF p > Len(it) THEN [ok |-> FALSE, err |-> FALSE]
    ELSE LET v == ValueDecode(it, p, key)
         IN  IF v.err \/ ~v.ok THEN [ok |-> v.ok, err |-> v.err]
             ELSE IF v.rec.startVer = startVer
                  THEN [ok |-> TRUE, err |-> FALSE, rec |-> v.rec]
                  ELSE GetTxnCommitInfo(it, v.p, key, startVer)

\* What Resolve and Rollback read before they write: the iterator from
\* LockKey(key), the LockDecoder probe, and, unless the lock of startVer is
\* there, getTxnCommitInfo from where the probe left the iterator.
ResolveLookup(store, key, startVer) ==
    LET it == NewIter(store, LockKey(key))
        l == LockDecode(it, 1, key)
    IN  IF l.err THEN [kind |-> "error"]
        ELSE IF l.ok /\ l.rec.startVer = startVer THEN [kind |-> "locked"]
        ELSE LET c == GetTxnCommitInfo(it, l.p, key, startVer)
             IN  IF c.err THEN [kind |-> "error"]
                 ELSE IF c.ok THEN [kind |-> "record", rec |-> c.rec]
                 ELSE [kind |-> "none"]

\* Snapshot.Get(key) at version ver (spec 4.3): a lock with StartVer <= ver
\* is reported; otherwise the newest Put or Delete with CommitVer <= ver
\* decides, Lock and Rollback records are skipped.
RECURSIVE SnapshotValue(_, _, _, _)
SnapshotValue(it, p, key, ver) ==
    LET v == ValueDecode(it, p, key)
    IN  IF v.err THEN [kind |-> "error"]
        ELSE IF ~v.ok THEN [kind |-> "notExist"]
        ELSE IF v.rec.commitVer > ver \/ v.rec.type \in {"Lock", "Rollback"}
             THEN SnapshotValue(it, v.p, key, ver)
        ELSE IF v.rec.type = "Put" THEN [kind |-> "value", rec |-> v.rec]
        ELSE [kind |-> "notExist"]

SnapshotGet(store, key, ver) ==
    LET it == NewIter(store, LockKey(key))
        l == LockDecode(it, 1, key)
    IN  IF l.err THEN [kind |-> "error"]
        ELSE IF l.ok /\ l.rec.startVer <= ver THEN [kind |-> "locked", lock |-> l.rec]
        ELSE SnapshotValue(it, l.p, key, ver)

=============================================================================
