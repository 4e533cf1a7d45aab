------------------------------ MODULE StmtCtx ------------------------------
(***************************************************************************)
(* The statement context of a session (stmtctx/context.go, warnings.go,    *)
(* id_range.go).                                                           *)
(*                                                                         *)
(* The warning list, its error count, the current graph name and the plan  *)
(* ID counters of one Context: every method takes sc.mu or is an atomic    *)
(* add, so each is one step.  The warning list holds levels only, the      *)
(* errors themselves are left out.                                         *)
(*                                                                         *)
(* AllocID of the contexts of several sessions: graph.MDLock, then a       *)
(* kv.Txn whose body calls meta.AdvanceID, then MDUnlock; and Next on the  *)
(* IDRange it returns.  meta is not in the sources: AdvanceID is modelled  *)
(* from its use and from the test of AdvanceGlobalID (it returns the       *)
(* stored value and stores that plus n).  The transaction reads the stored *)
(* value in one step and commits in another, as kv.Txn does (begin, fn,    *)
(* commit).  A commit after the stored value moved conflicts; TxnContext   *)
(* then runs the body again on the transaction that Commit finished, which *)
(* fails with ErrInvalidTxn, so AllocID returns an error.  A commit may    *)
(* also fail with any other error.                                         *)
(***************************************************************************)
EXTENDS Integers, Sequences, FiniteSets, Functions

CONSTANTS
    MaxWarn,        \* math.MaxUint16, the cap on the warning list
    MaxBatch,       \* the longest batch AppendWarnings is given
    MaxPlanID,      \* bound on AllocPlanID and AllocPlanColumnID calls
    GraphNames,     \* the names SetCurrentGraphName is given
    Lower(_),       \* strings.ToLower on those names
    Procs,          \* the sessions allocating IDs
    Graphs,         \* the catalog graphs
    MaxN,           \* the largest n AllocID is called with
    MaxAllocs,      \* bound on AllocID calls
    ExtraNext,      \* bound on Next calls after a range is exhausted
    None

Levels == {"Error", "Warning", "Note"}

-----------------------------------------------------------------------------
(* One Context: warnings, graph name and plan IDs.                         *)

VARIABLES warnings, errorCount, currentGraph, planID, planColumnID

scVars == << warnings, errorCount, currentGraph, planID, planColumnID >>

\* New: the zero Context.
ScInit ==
    /\ warnings = << >> /\ errorCount = 0 /\ currentGraph = ""
    /\ planID = 0 /\ planColumnID = 0

\* Reset: the row counters (not modelled) and the warnings are cleared.
Reset ==
    /\ warnings' = << >> /\ errorCount' = 0
    /\ UNCHANGED << currentGraph, planID, planColumnID >>

\* AppendError: below the cap, an Error-level warning, counted; at the cap
\* nothing.
AppendError ==
    /\ warnings' = IF Len(warnings) < MaxWarn THEN Append(warnings, "Error") ELSE warnings
    /\ errorCount' = IF Len(warnings) < MaxWarn THEN errorCount + 1 ELSE errorCount
    /\ UNCHANGED << currentGraph, planID, planColumnID >>

\* AppendWarning and AppendNote: below the cap, a warning of that level;
\* at the cap nothing.
AppendLevel(level) ==
    /\ warnings' = IF Len(warnings) < MaxWarn THEN Append(warnings, level) ELSE warnings
    /\ UNCHANGED << errorCount, currentGraph, planID, planColumnID >>

AppendWarning == AppendLevel("Warning")
AppendNote == AppendLevel("Note")

\* AppendWarnings: below the cap the whole batch, whatever its levels, and
\* errorCount is left alone.
AppendWarnings(batch) ==
    /\ warnings' = IF Len(warnings) < MaxWarn THEN warnings \o batch ELSE warnings
    /\ UNCHANGED << errorCount, currentGraph, planID, planColumnID >>

SetCurrentGraphName(name) ==
    /\ currentGraph' = Lower(name)
    /\ UNCHANGED << warnings, errorCount, planID, planColumnID >>

AllocPlanID ==
    /\ planID < MaxPlanID /\ planID' = planID + 1
    /\ UNCHANGED << warnings, errorCount, currentGraph, planColumnID >>

AllocPlanColumnID ==
    /\ planColumnID < MaxPlanID /\ planColumnID' = planColumnID + 1
    /\ UNCHANGED << warnings, errorCount, currentGraph, planID >>

ScNext ==
    \/ Reset
    \/ AppendError
    \/ AppendWarning
    \/ AppendNote
    \/ \E batch \in UNION {[1..n -> Levels] : n \in 1..MaxBatch} : AppendWarnings(batch)
    \/ \E name \in GraphNames : SetCurrentGraphName(name)
    \/ AllocPlanID
    \/ AllocPlanColumnID

-----------------------------------------------------------------------------
(* AllocID and IDRange.Next across sessions.                               *)

VARIABLES
    metaID,     \* meta's ID counter of each graph, as committed
    graphLock,  \* the holder of each graph's MDLock, or None
    allocStep,  \* where each session is in AllocID: idle, locked, read
    alloc,      \* the graph, n and the value its transaction read
    idr,        \* each session's IDRange: [g, base, max], or NoRange
    allocs,     \* AllocID calls so far
    issued      \* the IDs Next has returned, in order: << graph, id >>

idVars == << metaID, graphLock, allocStep, alloc, idr, allocs, issued >>

NoRange == [g |-> None, base |-> 0, max |-> -1]

IdInit ==
    /\ metaID = [g \in Graphs |-> 0] /\ graphLock = [g \in Graphs |-> None]
    /\ allocStep = [p \in Procs |-> "idle"]
    /\ alloc = [p \in Procs |-> [g |-> None, n |-> 0, base |-> 0]]
    /\ idr = [p \in Procs |-> NoRange] /\ allocs = 0 /\ issued = << >>

\* AllocID(graph, n): graph.MDLock().
MDLock(p, g, n) ==
    /\ allocStep[p] = "idle" /\ allocs < MaxAllocs /\ graphLock[g] = None
    /\ graphLock' = [graphLock EXCEPT ![g] = p]
    /\ allocStep' = [allocStep EXCEPT ![p] = "locked"]
    /\ alloc' = [alloc EXCEPT ![p] = [g |-> g, n |-> n, base |-> 0]]
    /\ allocs' = allocs + 1
    /\ UNCHANGED << metaID, idr, issued >>

\* The transaction begins and its body reads AdvanceID's stored value.
AdvanceID(p) ==
    /\ allocStep[p] = "locked"
    /\ allocStep' = [allocStep EXCEPT ![p] = "read"]
    /\ alloc' = [alloc EXCEPT ![p].base = metaID[alloc[p].g]]
    /\ UNCHANGED << metaID, graphLock, idr, allocs, issued >>

\* Mutant: a range one ID longer than AdvanceID reserved.
NewIDRangeWide(g, base, n) == [g |-> g, base |-> base, max |-> base + n + 1]

\* NewIDRange(base, base + n), of the graph it was allocated in.
NewIDRange(g, base, n) == [g |-> g, base |-> base, max |-> base + n]

\* The commit, then MDUnlock.  Committed (the stored value has not moved
\* since the read): the range, and the stored value advanced by n.
\* Failed (a conflict, or any other error): AllocID returns the error with
\* the range built in the body, and the caller, seeing the error, keeps no
\* range.
Commit(p) ==
    LET a == alloc[p]
    IN  /\ allocStep[p] = "read"
        /\ \/ /\ metaID[a.g] = a.base
              /\ metaID' = [metaID EXCEPT ![a.g] = a.base + a.n]
              /\ idr' = [idr EXCEPT ![p] = NewIDRange(a.g, a.base, a.n)]
           \/ /\ UNCHANGED metaID
              /\ idr' = [idr EXCEPT ![p] = NoRange]
        /\ graphLock' = [graphLock EXCEPT ![a.g] = None]
        /\ allocStep' = [allocStep EXCEPT ![p] = "idle"]
        /\ UNCHANGED << alloc, allocs, issued >>

\* IDRange.Next: base.Add(1); beyond max ErrIDExhaust, which leaves base
\* advanced.
RangeNext(p) ==
    LET next == idr[p].base + 1
    IN  /\ idr[p] # NoRange /\ next <= idr[p].max + ExtraNext
        /\ idr' = [idr EXCEPT ![p].base = next]
        /\ issued' = IF next > idr[p].max THEN issued
                     ELSE Append(issued, << idr[p].g, next >>)
        /\ UNCHANGED << metaID, graphLock, allocStep, alloc, allocs >>

IdNext ==
    \E p \in Procs :
        \/ \E g \in Graphs, n \in 1..MaxN : MDLock(p, g, n)
        \/ AdvanceID(p)
        \/ Commit(p)
        \/ RangeNext(p)

=============================================================================
