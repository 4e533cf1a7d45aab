------------------------------ MODULE MC_Latch ------------------------------
(* Instantiates the latch scheduler for TLC: three callers with write sets *)
(* that overlap pairwise, keys spread over two slots so that a request     *)
(* waits on one slot while holding a key of the other, and an unlock       *)
(* channel of capacity one so that UnLock senders block.                   *)
EXTENDS Latch, TLC

CONSTANTS c1, c2, c3

MCCallers == {c1, c2, c3}
MCSlotOf == 1 :> 0 @@ 2 :> 1 @@ 3 :> 0
MCTxnKeys == c1 :> {1, 2} @@ c2 :> {2, 3} @@ c3 :> {1, 3}

=============================================================================
