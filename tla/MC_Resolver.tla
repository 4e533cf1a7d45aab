---------------------------- MODULE MC_Resolver ----------------------------
(***************************************************************************)
(* Model of the resolver for TLC.  t1 locked k1 (its primary) and k2 and   *)
(* its owner commits it at version 3; its TTL lets a reader find it        *)
(* expired.  t2 starts at 4 and prewrites k2 late; its owner rolls it back *)
(* (or, in MC_Resolver.cfg, commits it at 5).  r1 read k2 under t1's lock, *)
(* r2 read k2 under t2's.  The keys hash to different resolvers, so one    *)
(* bundle spans both goroutines.                                           *)
(***************************************************************************)
EXTENDS Resolver, TLC

CONSTANTS k1, k2, t1, t2, o1, o2, r1, r2

MCKeys == {k1, k2}
MCWorkers == {0, 1}
MCHash == k1 :> 0 @@ k2 :> 1
MCTxns == {t1, t2}
MCStartVer == t1 :> 1 @@ t2 :> 4
MCDecision == t1 :> 3 @@ t2 :> 0
MCTxnKeys == t1 :> << k1, k2 >> @@ t2 :> << k2 >>
MCTxnOp == t1 :> "Put" @@ t2 :> "Del"
MCTTL == t1 :> 1 @@ t2 :> 0
MCInitLocked == t1 :> {k1, k2} @@ t2 :> {}
MCLatePrewrite == t1 :> {} @@ t2 :> {k2}
MCOwners == {o1, o2}
MCOwnerTxn == o1 :> t1 @@ o2 :> t2
MCReaders == {r1, r2}
MCReaderTarget == r1 :> << t1, k2 >> @@ r2 :> << t2, k2 >>

\* The passing configuration: t2 commits at 5 instead, and only r1 reads,
\* so no rollback of t2 races its own late prewrite.
MCDecisionCommit == t1 :> 3 @@ t2 :> 5
MCReadersCommit == {r1}

=============================================================================
