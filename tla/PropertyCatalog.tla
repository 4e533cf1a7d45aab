--------------------------- MODULE PropertyCatalog ---------------------------
(***************************************************************************)
(* Lazy property creation (compiler/property_preparation.go) and the       *)
(* catalog patch that publishes it (catalog/patch.go, PatchTypeCreate-     *)
(* Properties), for compilers of several sessions running at once on one   *)
(* graph.                                                                  *)
(*                                                                         *)
(* Each compiler walks its statement: every PropertyAccess looks the name  *)
(* up in the catalog graph, outside any lock, and a name not found is      *)
(* appended to missing.  CreateMissing then takes the catalog's MDLock,    *)
(* allocates IDs from the catalog graph's NextPropID in one kv.Txn that    *)
(* stores a PropertyInfo per missing name and the graph's new NextPropID,  *)
(* applies the patch to the catalog and unlocks.                           *)
(*                                                                         *)
(* The catalog graph (catalog/graph.go) and meta are not in the sources:   *)
(* the graph is a name index and an ID index of its properties and its     *)
(* GraphInfo, meta is the set of stored PropertyInfo records and the       *)
(* stored NextPropID.  The kv.Txn is one step: every writer of these keys  *)
(* holds MDLock, so its commit does not conflict.  One graph is modelled;  *)
(* the InsertStmt switch to another graph is left out.                     *)
(***************************************************************************)
EXTENDS Naturals, Sequences

CONSTANTS
    Sess,       \* compiling sessions
    Names,      \* property names (lower case)
    Queries,    \* the PropertyAccess names of a statement, in walk order
    Existing,   \* the properties the graph may hold at the start
    None

\* PropertyInfo.ID and GraphInfo.NextPropID are uint16.
IDMod == 2 ^ 16

VARIABLES
    byName,     \* catalog graph: the ID Property(name) finds, 0 if none
    catProps,   \* catalog graph: its properties, [id, name]
    catNext,    \* catalog graph: Meta().NextPropID
    stored,     \* meta: the stored PropertyInfo records
    storedNext, \* meta: the stored GraphInfo's NextPropID
    mdlock,     \* the holder of the catalog's MDLock, or None
    pc,         \* per session: where its compiler is
    query,      \* per session: the statement's PropertyAccess names
    pos,        \* per session: the next PropertyAccess to visit
    missing,    \* per session: PropertyPreparation.missing
    patch       \* per session: the PatchProperties its Txn built

catVars == << byName, catProps, catNext, stored, storedNext, mdlock, pc,
              query, pos, missing, patch >>

NoPatch == [max |-> 0, props |-> << >>]

\* The graph as loaded from meta: both indexes and NextPropID agree with
\* what is stored.
LoadGraph(props) ==
    /\ stored = props /\ catProps = props
    /\ byName = [n \in Names |->
                    IF \E p \in props : p.name = n
                    THEN (CHOOSE p \in props : p.name = n).id ELSE 0]
    /\ storedNext = IF props = {} THEN 0
                    ELSE (CHOOSE p \in props : \A q \in props : q.id <= p.id).id
    /\ catNext = storedNext

\* NewPropertyPreparation for each session's statement.
CatInit ==
    /\ \E props \in Existing : LoadGraph(props)
    /\ mdlock = None
    /\ pc = [s \in Sess |-> "walk"]
    /\ query \in [Sess -> Queries]
    /\ pos = [s \in Sess |-> 1]
    /\ missing = [s \in Sess |-> << >>]
    /\ patch = [s \in Sess |-> NoPatch]

-----------------------------------------------------------------------------

\* Enter on a PropertyAccess: checkExistence looks the name up in the
\* catalog graph and remembers it when the graph has none.
CheckExistence(s) ==
    /\ pc[s] = "walk" /\ pos[s] <= Len(query[s])
    /\ LET n == query[s][pos[s]]
       IN  missing' = [missing EXCEPT ![s] = IF byName[n] = 0 THEN Append(@, n) ELSE @]
    /\ pos' = [pos EXCEPT ![s] = @ + 1]
    /\ UNCHANGED << byName, catProps, catNext, stored, storedNext, mdlock, pc,
                    query, patch >>

\* CreateMissing: nothing missing returns at once; otherwise MDLock().
CreateMissing(s) ==
    /\ pc[s] = "walk" /\ pos[s] > Len(query[s])
    /\ pc' = [pc EXCEPT ![s] = IF missing[s] = << >> THEN "done" ELSE "lock"]
    /\ UNCHANGED << byName, catProps, catNext, stored, storedNext, mdlock,
                    query, pos, missing, patch >>

\* Mutant: a lock that does not exclude.
MDLockShared(s) ==
    /\ pc[s] = "lock"
    /\ mdlock' = s

MDLock(s) ==
    /\ pc[s] = "lock" /\ mdlock = None
    /\ mdlock' = s

Lock(s) ==
    /\ MDLock(s)
    /\ pc' = [pc EXCEPT ![s] = "txn"]
    /\ UNCHANGED << byName, catProps, catNext, stored, storedNext, query, pos,
                    missing, patch >>

\* The kv.Txn callback: nextPropID from the catalog graph's GraphInfo, one
\* PropertyInfo per missing name with nextPropID incremented first, then
\* UpdateGraph with the last ID; the commit makes it all durable.
NewProps(s) ==
    [i \in 1..Len(missing[s]) |-> [id |-> (catNext + i) % IDMod, name |-> missing[s][i]]]

Txn(s) ==
    /\ pc[s] = "txn"
    /\ stored' = stored \cup {NewProps(s)[i] : i \in DOMAIN NewProps(s)}
    /\ storedNext' = (catNext + Len(missing[s])) % IDMod
    /\ patch' = [patch EXCEPT ![s] = [max |-> storedNext', props |-> NewProps(s)]]
    /\ pc' = [pc EXCEPT ![s] = "apply"]
    /\ UNCHANGED << byName, catProps, catNext, mdlock, query, pos, missing >>

\* graph.CreateProperty for each property of the patch, in order: a later
\* property of the same name takes the name.
RECURSIVE IndexNames(_, _)
IndexNames(idx, ps) ==
    IF ps = << >> THEN idx
    ELSE IndexNames([idx EXCEPT ![Head(ps).name] = Head(ps).id], Tail(ps))

\* Mutant: Apply that leaves the graph's NextPropID alone.
ApplyKeepNext(s) ==
    /\ catNext' = catNext
    /\ catProps' = catProps \cup {patch[s].props[i] : i \in DOMAIN patch[s].props}
    /\ byName' = IndexNames(byName, patch[s].props)

\* Catalog.Apply(PatchTypeCreateProperties): SetNextPropID(MaxPropID), then
\* CreateProperty for each property.
Apply(s) ==
    /\ catNext' = patch[s].max
    /\ catProps' = catProps \cup {patch[s].props[i] : i \in DOMAIN patch[s].props}
    /\ byName' = IndexNames(byName, patch[s].props)

\* Apply, then the deferred MDUnlock; CreateMissing returns nil.
Publish(s) ==
    /\ pc[s] = "apply"
    /\ Apply(s)
    /\ mdlock' = None
    /\ pc' = [pc EXCEPT ![s] = "done"]
    /\ UNCHANGED << stored, storedNext, query, pos, missing, patch >>

CatNext ==
    \E s \in Sess :
        \/ CheckExistence(s)
        \/ CreateMissing(s)
        \/ Lock(s)
        \/ Txn(s)
        \/ Publish(s)

=============================================================================
