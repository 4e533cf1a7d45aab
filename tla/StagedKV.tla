------------------------------ MODULE StagedKV ------------------------------
(***************************************************************************)
(* What the transactional buffer promises (spec 3, "Transactional buffer", *)
(* 4.2 and property 8.4), with no value log, slots or checkpoints: a map    *)
(* from keys to values and a stack holding, for each open handle, the map  *)
(* as it was when Staging returned that handle.  Release pops the handle   *)
(* and keeps the writes; Cleanup pops it and puts the map back.  Handles   *)
(* are released or cleaned in LIFO order.                                  *)
(***************************************************************************)
EXTENDS Naturals, Sequences

CONSTANTS Keys, Values, None, MaxStages

VARIABLES
    kv,     \* the value of each key, None if it has none
    stack   \* the map at each open handle's Staging, outermost first

absVars == << kv, stack >>

AbsInit == kv = [k \in Keys |-> None] /\ stack = << >>

AbsSet(k, v) ==
    /\ kv' = [kv EXCEPT ![k] = v]
    /\ UNCHANGED stack

AbsStaging ==
    /\ Len(stack) < MaxStages
    /\ stack' = Append(stack, kv)
    /\ UNCHANGED kv

AbsRelease ==
    /\ stack # << >>
    /\ stack' = SubSeq(stack, 1, Len(stack) - 1)
    /\ UNCHANGED kv

AbsCleanup ==
    /\ stack # << >>
    /\ kv' = stack[Len(stack)]
    /\ stack' = SubSeq(stack, 1, Len(stack) - 1)

AbsNext ==
    \/ \E k \in Keys, v \in Values : AbsSet(k, v)
    \/ AbsStaging \/ AbsRelease \/ AbsCleanup

AbsSpec == AbsInit /\ [][AbsNext]_absVars

=============================================================================
