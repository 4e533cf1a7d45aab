------------------------------- MODULE MC_Pure -------------------------------
(***************************************************************************)
(* The side-effect-free parts of the system, checked against reference     *)
(* definitions over bounded inputs: the MVCC key codec (MvccCodec), the    *)
(* MVCC record readers (MvccRead) and the graph property and key codec     *)
(* (GraphCodec), the lexer (Lexer), the catalog's lazy property creation   *)
(* (PropertyCatalog), the query pipeline (QueryExec), the statement        *)
(* context (StmtCtx) and kv.TxnContext (TxnContext).  The initial state    *)
(* picks the inputs of one of them and holds the others at a default;      *)
(* afterwards only the lexer (one Lex call per step), the compilers        *)
(* creating properties, the statement context's callers and the callers of *)
(* TxnContext move, so each property is a statement about every input of   *)
(* its bounded domain.                                                     *)
(***************************************************************************)
EXTENDS MvccRead, Lexer, TLC

CONSTANTS
    Radix, TInt, TFloat, TString, TDate, TBool,
    RowValues       \* the datums a row is built from

GC == INSTANCE GraphCodec

VARIABLES
    input,                  \* which function's inputs were chosen
    k1, v1,                 \* MVCC codec inputs
    hist,                   \* MVCC store contents
    gids, gvals,            \* a row: property IDs and their values
    gkey,                   \* graph, source and destination IDs
    qin                     \* a query expression or plan and its input

VARIABLES
    byName, catProps, catNext, stored, storedNext, mdlock,  \* the catalog graph
    pc, query, pos, missing, patch                          \* and its compilers

VARIABLES
    warnings, errorCount, currentGraph, planID, planColumnID,   \* a statement context
    metaID, graphLock, allocStep, alloc, idr, allocs, issued    \* and ID allocation

VARIABLES   \* callers of kv.TxnContext and their storage
    txPc, txI, txStartVer, txStale, txValid, txCommitted, txRet, txClock, txLastCommit

catVars == << byName, catProps, catNext, stored, storedNext, mdlock, pc,
              query, pos, missing, patch >>
scVars == << warnings, errorCount, currentGraph, planID, planColumnID >>
idVars == << metaID, graphLock, allocStep, alloc, idr, allocs, issued >>
txVars == << txPc, txI, txStartVer, txStale, txValid, txCommitted, txRet, txClock,
            txLastCommit >>
ctxVars == << scVars, idVars >>
vars == <<input, k1, v1, hist, gids, gvals, gkey, qin, sql, lx, toks, catVars,
          ctxVars, txVars>>
otherVars == <<input, k1, v1, hist, gids, gvals, gkey, qin, ctxVars, txVars>>

-----------------------------------------------------------------------------
(* MVCC stores.                                                            *)
(*                                                                         *)
(* Two stored user keys, one a prefix of the other; commit versions 2 and  *)
(* 4, lock start versions 1 and 3.  At a commit version there is nothing,  *)
(* a Put, Delete or Lock record of a transaction that started before, or   *)
(* the rollback tombstone of the transaction that started there.  A lock   *)
(* is only there if no commit is newer than its start (prewrite refuses    *)
(* otherwise), and a transaction leaves one lock or one record per key.   *)

StoredKeys == {<< 0 >>, << 0, 0 >>}
QueryKeys == StoredKeys \cup {<< >>}
CommitVers == {2, 4}
ReadVers == 1..4
NoLock == 0
NoRec == ValueRec("None", 0, 0)

Records(v) ==
    {ValueRec(t, s, v) : t \in {"Put", "Delete", "Lock"}, s \in {1, v - 1}}
        \cup {ValueRec("Rollback", v, v)}

KeyHistories ==
    {h \in [lock : {NoLock, 1, 3},
            vals : [CommitVers -> {NoRec} \cup UNION {Records(v) : v \in CommitVers}]] :
        /\ \A v \in CommitVers : h.vals[v] \in {NoRec} \cup Records(v)
        /\ h.lock # NoLock => \A v \in CommitVers : h.vals[v] # NoRec => v < h.lock
        /\ \A v, w \in CommitVers :
              v # w /\ h.vals[v] # NoRec /\ h.vals[w] # NoRec
                  => h.vals[v].startVer # h.vals[w].startVer}

EmptyHistory == [k \in StoredKeys |-> [lock |-> NoLock, vals |-> [v \in CommitVers |-> NoRec]]]

\* The pebble entries of a history.
Store(h) ==
    {[key |-> LockKey(k), rec |-> LockRec(h[k].lock)] : k \in {k \in StoredKeys : h[k].lock # NoLock}}
        \cup {[key |-> Encode(r[1], r[2]), rec |-> h[r[1]].vals[r[2]]] :
                 r \in {r \in StoredKeys \X CommitVers : h[r[1]].vals[r[2]] # NoRec}}

\* The value records of k.
RecordsOf(h, k) == {h[k].vals[v] : v \in {v \in CommitVers : h[k].vals[v] # NoRec}}

\* What the resolver must find for the transaction that started at s: its
\* lock, else its record, else nothing.
RefLookup(h, k, s) ==
    IF k \in StoredKeys /\ h[k].lock = s THEN [kind |-> "locked"]
    ELSE IF k \in StoredKeys /\ \E r \in RecordsOf(h, k) : r.startVer = s
    THEN [kind |-> "record", rec |-> CHOOSE r \in RecordsOf(h, k) : r.startVer = s]
    ELSE [kind |-> "none"]

\* A read at ver: a lock that started at or before ver, else the newest
\* Put or Delete committed at or before ver.
RefSnapshot(h, k, ver) ==
    LET visible == IF k \in StoredKeys
                   THEN {r \in RecordsOf(h, k) : r.commitVer <= ver /\ r.type \in {"Put", "Delete"}}
                   ELSE {}
        newest == CHOOSE r \in visible : \A o \in visible : o.commitVer <= r.commitVer
    IN  IF k \in StoredKeys /\ h[k].lock # NoLock /\ h[k].lock <= ver
        THEN [kind |-> "locked", lock |-> LockRec(h[k].lock)]
        ELSE IF visible # {} /\ newest.type = "Put" THEN [kind |-> "value", rec |-> newest]
        ELSE [kind |-> "notExist"]

-----------------------------------------------------------------------------
(* Graph codec inputs.                                                     *)

\* Datums of every encoded type and the unsupported Bool: ints on both
\* sides of the int8 range, so both the 1- and 2-byte widths occur.  With
\* Radix 8 no row of three of them reaches the uint16 offset range (64).
SmallValues ==
    {[type |-> TInt, v |-> -1], [type |-> TInt, v |-> GC!Hi(1) + 2],
     [type |-> TFloat, v |-> 9], [type |-> TString, s |-> << 1 >>],
     [type |-> TDate, v |-> GC!Lo(1) - 1], [type |-> TBool, v |-> 0]}

\* A string whose encoding fills the uint16 offset range.
LongString == [type |-> TString, s |-> [i \in 1..Radix ^ 2 - 1 |-> 0]]
WideValues == SmallValues \cup {LongString}

PropertyIDs == {1, 2, 3}
MaxRowLen == 3

\* Distinct property IDs in any order.
RowIDs == {s \in SeqOf(PropertyIDs, MaxRowLen) : IsInjective(s)}

KeyIDs == {GC!Lo(8), -1, 0, 1, GC!Hi(8)}

-----------------------------------------------------------------------------
(* Lexer inputs: texts of up to MaxFragments pieces, chosen so that every  *)
(* path of scan occurs: comments and /*! blocks, closed and unclosed;      *)
(* strings with doubled quotes and escapes; quoted identifiers; @ and @@;  *)
(* octal, hex, decimal and float literals and their identifier forms; the  *)
(* graph arrows /- and /->; # comments; bytes the rule table lacks.       *)

LexFragments ==
    {<< "/", "*" >>, << "*", "/" >>, << "/", "*", "!" >>, << "SQ" >>, << "SQ", "BS" >>,
     << "BS" >>, << "0" >>, << "1" >>, << "." >>, << "e" >>, << "x" >>, << "NL" >>,
     << "SP" >>, << "@" >>, << "BQ" >>, << "-" >>, << ">" >>, << "%" >>, << "#" >>}
MaxFragments == 3

LexInputs == {FoldLeft(LAMBDA acc, f : acc \o f, << >>, fs) : fs \in SeqOf(LexFragments, MaxFragments)}

-----------------------------------------------------------------------------
(* Catalog inputs: two sessions, two names; statements that access one or  *)
(* two properties, the same one twice included; a graph with no property  *)
(* or with one.                                                            *)

CatSess == {1, 2}
CatNames == {"a", "b"}

PC == INSTANCE PropertyCatalog
        WITH Sess <- CatSess, Names <- CatNames,
             Queries <- {q \in SeqOf(CatNames, 2) : q # << >>},
             Existing <- {{}, {[id |-> 1, name |-> "a"]}},
             None <- 0

-----------------------------------------------------------------------------
(* Query inputs.  Expressions: a constant, a resolved and an unresolved    *)
(* variable, a property access, under minus, the unsupported not or a      *)
(* binary operator, to two levels; the plan's columns with the variable    *)
(* first or second.  Plans: a selection or a projection of one or two      *)
(* expressions over MATCH, and each stacked on the other or on itself;     *)
(* MATCH yields up to two one-column rows.  Ints are 3 bits wide, so -4 is *)
(* MinInt.                                                                 *)

QE == INSTANCE QueryExec WITH IntBits <- 3, NoErr <- "none"

\* A statement context: a cap of two warnings, batches of up to two, two
\* plan IDs, and a graph name given in two cases.  ID allocation: two
\* sessions, one graph, ranges of one or two IDs, three AllocID calls and
\* one Next past the end of each range.
CtxLower(name) == IF name = "G" THEN "g" ELSE name

SC == INSTANCE StmtCtx WITH MaxWarn <- 2, MaxBatch <- 2, MaxPlanID <- 2,
          GraphNames <- {"G", "g"}, Lower <- CtxLower, Procs <- {"s1", "s2"},
          Graphs <- {"g"}, MaxN <- 2, MaxAllocs <- 3, ExtraNext <- 1, None <- "none"

\* Two callers of TxnContext with the code's retry = 5, whose callbacks
\* write the shared key and return nil or an error that is not a conflict
\* (no callback in the sources returns ErrTxnConflicts).
TC == INSTANCE TxnContext WITH pc <- txPc, i <- txI, startVer <- txStartVer,
          stale <- txStale, valid <- txValid, committed <- txCommitted, ret <- txRet,
          clock <- txClock, lastCommit <- txLastCommit, Callers <- {"t1", "t2"},
          Retry <- 5, Nil <- "nil", ErrTxnConflicts <- "conflict", ErrOther <- "other",
          ErrInvalidTxn <- "invalidTxn", FnResults <- {"nil", "other"}

QLeaves == {[k |-> "value", d |-> QE!IntDatum(1)], [k |-> "var", name |-> "n"],
            [k |-> "var", name |-> "z"], [k |-> "prop", name |-> "n", prop |-> "x"]}
QUnary(S) == {[k |-> "unary", op |-> o, e |-> e] : o \in {"minus", "not"}, e \in S}
QBinary(L, R) == {[k |-> "binary", op |-> "plus", l |-> l, r |-> r] : l \in L, r \in R}
QTrees == QLeaves \cup QUnary(QLeaves) \cup QBinary(QLeaves, QLeaves)
            \cup QUnary(QBinary(QLeaves, QLeaves)) \cup QBinary(QUnary(QLeaves), QLeaves)
QColumns == {<< "n" >>, << "m", "n" >>}

QDatums == {QE!IntDatum(-4), QE!IntDatum(1), QE!Null, [t |-> "string"],
            [t |-> "bool", b |-> TRUE], [t |-> "vertex", props |-> [p \in {"x"} |-> QE!IntDatum(1)]]}
QCol0 == [k |-> "col", idx |-> 0]
QExprs == {QCol0, [k |-> "col", idx |-> 1], [k |-> "prop", e |-> QCol0, prop |-> "x"],
           [k |-> "unary", op |-> "minus", e |-> QCol0],
           [k |-> "unary", op |-> "minus", e |-> [k |-> "prop", e |-> QCol0, prop |-> "x"]]}
QMatch == [k |-> "match"]
QSel(c, child) == [k |-> "selection", cond |-> c, child |-> child]
QProj(es, child) == [k |-> "projection", exprs |-> es, child |-> child]
QPlans ==
    LET Ones == {QSel(c, QMatch) : c \in QExprs} \cup {QProj(<< e >>, QMatch) : e \in QExprs}
    IN  Ones \cup {QProj(<< e, f >>, QMatch) : e, f \in QExprs}
             \cup {QSel(c, p) : c \in QExprs, p \in Ones}
             \cup {QProj(<< e >>, p) : e \in QExprs, p \in Ones}
QRows == SeqOf({<< d >> : d \in QDatums}, 2)

-----------------------------------------------------------------------------
(* Initial states.                                                         *)

CodecDefaults == k1 = << >> /\ v1 = 0
GraphDefaults == gids = << >> /\ gvals = << >> /\ gkey = << 0, 0, 0 >>
LexDefaults == sql = << >> /\ lx = LexerInit(<< >>) /\ toks = << >>
QueryDefaults == qin = [kind |-> "none"]
CtxDefaults == SC!ScInit /\ SC!IdInit /\ TC!Init

CatDefaults ==
    /\ PC!LoadGraph({}) /\ mdlock = 0
    /\ pc = [s \in CatSess |-> "done"] /\ query = [s \in CatSess |-> << >>]
    /\ pos = [s \in CatSess |-> 1] /\ missing = [s \in CatSess |-> << >>]
    /\ patch = [s \in CatSess |-> PC!NoPatch]

\* One key with every version, for the round trip and the lock key.
InitSingle ==
    /\ input = "single"
    /\ k1 \in UserKeys /\ v1 \in Versions
    /\ hist = EmptyHistory /\ GraphDefaults
    /\ LexDefaults
    /\ CatDefaults /\ QueryDefaults /\ CtxDefaults

\* Versions at the edges of a byte and of the range: 0, 1, the last and
\* first versions on either side of the low byte's carry, LockVer - 1 and
\* LockVer.
PairVersions == {0, 1, Byte - 1, Byte, MaxUint - 1, MaxUint}

\* A key, for its order against every other key.
InitPairs ==
    /\ input = "pairs"
    /\ k1 \in UserKeys /\ v1 \in PairVersions
    /\ hist = EmptyHistory /\ GraphDefaults
    /\ LexDefaults
    /\ CatDefaults /\ QueryDefaults /\ CtxDefaults

InitRaw ==
    /\ input = "raw"
    /\ k1 = << >> /\ v1 = 0
    /\ hist = EmptyHistory /\ GraphDefaults
    /\ LexDefaults
    /\ CatDefaults /\ QueryDefaults /\ CtxDefaults

InitHist ==
    /\ input = "hist" /\ CodecDefaults /\ hist \in [StoredKeys -> KeyHistories]
    /\ GraphDefaults /\ LexDefaults
    /\ CatDefaults /\ QueryDefaults /\ CtxDefaults

InitRow ==
    /\ input = "row"
    /\ CodecDefaults /\ hist = EmptyHistory /\ gkey = << 0, 0, 0 >>
    /\ gids \in RowIDs /\ gvals \in [1..Len(gids) -> RowValues]
    /\ LexDefaults
    /\ CatDefaults /\ QueryDefaults /\ CtxDefaults

InitKeys ==
    /\ input = "keys"
    /\ CodecDefaults /\ hist = EmptyHistory
    /\ gids = << >> /\ gvals = << >> /\ gkey \in KeyIDs \X KeyIDs \X KeyIDs
    /\ LexDefaults
    /\ CatDefaults /\ QueryDefaults /\ CtxDefaults

\* A text, lexed by a new lexer or by the lexer of a pooled parser whose
\* last text ended with an identifier and a dot.
InitLex ==
    /\ input = "lex" /\ CodecDefaults /\ hist = EmptyHistory /\ GraphDefaults
    /\ sql \in LexInputs /\ toks = << >>
    /\ lx \in {LexerInit(sql), LexerReset([LexerInit(sql) EXCEPT !.identifierDot = TRUE])}
    /\ CatDefaults /\ QueryDefaults /\ CtxDefaults

InitDDL ==
    /\ input = "ddl" /\ CodecDefaults /\ hist = EmptyHistory /\ GraphDefaults
    /\ LexDefaults
    /\ PC!CatInit /\ QueryDefaults /\ CtxDefaults

\* An expression to rewrite against columns, or a plan to run on rows.
InitQuery ==
    /\ input = "query" /\ CodecDefaults /\ hist = EmptyHistory /\ GraphDefaults
    /\ LexDefaults /\ CatDefaults /\ CtxDefaults
    /\ \/ qin \in [kind : {"rewrite"}, tree : QTrees, cols : QColumns]
       \/ qin \in [kind : {"run"}, plan : QPlans, rows : QRows]

\* A new statement context, sessions that have allocated no IDs, or callers
\* about to call TxnContext.
InitCtx ==
    /\ input \in {"sc", "ids", "txn"} /\ CodecDefaults /\ hist = EmptyHistory /\ GraphDefaults
    /\ LexDefaults /\ CatDefaults /\ QueryDefaults /\ CtxDefaults

Init == InitLex \/ InitHist \/ InitRow \/ InitKeys \/ InitRaw \/ InitSingle \/ InitPairs
            \/ InitDDL \/ InitQuery \/ InitCtx

\* The parser calls Lex on the lexer's input, the compilers create the
\* properties their statements miss; the other functions are pure and
\* nothing else changes after the inputs are chosen.
Next ==
    \/ input = "lex" /\ Lex /\ UNCHANGED << otherVars, catVars >>
    \/ input = "ddl" /\ PC!CatNext /\ UNCHANGED << otherVars, sql, lx, toks >>
    \/ input = "sc" /\ SC!ScNext /\ UNCHANGED << idVars, input, k1, v1, hist,
                                      gids, gvals, gkey, qin, sql, lx, toks, catVars, txVars >>
    \/ input = "ids" /\ SC!IdNext /\ UNCHANGED << scVars, input, k1, v1, hist,
                                      gids, gvals, gkey, qin, sql, lx, toks, catVars, txVars >>
    \/ input = "txn" /\ TC!Next /\ UNCHANGED << ctxVars, input, k1, v1, hist,
                                      gids, gvals, gkey, qin, sql, lx, toks, catVars >>
    \/ UNCHANGED vars

Spec == Init /\ [][Next]_vars

-----------------------------------------------------------------------------
(* Properties of the statement context and of TxnContext.                 *)

\* AllocID under graph.MDLock and IDRange.Next: every ID Next hands out is
\* reserved in meta (at most the graph's committed counter), and no ID of a
\* graph is handed out twice, over sessions allocating one after another
\* and using their ranges in any order.
IDsReserved ==
    /\ \A i \in DOMAIN issued : issued[i][2] <= metaID[issued[i][1]]
    /\ IsInjective(issued)

\* TxnContext's doc comment: "The transaction will be committed
\* automatically".  Whatever the other caller commits in between, a call
\* that returns nil has committed its transaction: a Commit that conflicts
\* goes round the retry loop with the same transaction, which that Commit
\* finished, so the retry fails with ErrInvalidTxn instead of falling out
\* of the loop to return nil.
NilMeansCommitted == TC!NilMeansCommitted

-----------------------------------------------------------------------------
(* Properties of the MVCC key codec.                                       *)

\* Round trip (spec 8.1): Decode(Encode(k, v)) = (k, v, nil), and a meta key
\* made by NewKey decodes to its user key with version 0 and Raw gives it
\* back.
RoundTrip ==
    input = "single" =>
        /\ Decode(Encode(k1, v1)) = [err |-> FALSE, key |-> k1, ver |-> v1]
        /\ k1 # << >> =>
             /\ Decode(NewKey(k1)) = [err |-> FALSE, key |-> k1, ver |-> 0]
             /\ Raw(NewKey(k1)) = [err |-> FALSE, key |-> k1]

\* The order of encoded keys is the order the MVCC readers rely on (spec
\* 4.1, 8.2, 8.3): user keys in byte order, and for one user key versions
\* from newest to oldest, so LockKey(k) comes first and no version of a
\* longer key that k prefixes falls between k's lock and k's versions.
EncodedOrder ==
    input = "pairs" =>
        \A k2 \in UserKeys, v2 \in PairVersions :
            BytesLess(Encode(k1, v1), Encode(k2, v2))
                <=> \/ BytesLess(k1, k2)
                    \/ k1 = k2 /\ v1 > v2

\* Decoding is strict (spec 3): whatever Decode accepts is the canonical
\* encoding of what it returns, either Encode(key, ver) or a meta key.
DecodeCanonical ==
    input = "raw" =>
        \A raw \in SeqOf(Bytes, MaxRawLen) :
            LET d == Decode(raw)
            IN  ~d.err => \/ Encode(d.key, d.ver) = raw
                          \/ d.ver = 0 /\ EncodeBytes(<< >>, d.key) = raw

-----------------------------------------------------------------------------
(* Properties of the MVCC readers.                                         *)

\* What Resolve and Rollback read from the store (the LockDecoder probe at
\* LockKey(key), then getTxnCommitInfo from where the probe left the
\* iterator) is the transaction's lock, else its own commit or rollback
\* record, else nothing, for every key, including one that prefixes a
\* stored key and one that no entry has.
LookupMatchesAbstract ==
    input = "hist" =>
        \A k \in QueryKeys, s \in ReadVers :
            ResolveLookup(Store(hist), k, s) = RefLookup(hist, k, s)

\* A snapshot read through the LockDecoder and ValueDecoder sees a lock
\* that started at or before its version, else the newest Put or Delete
\* committed at or before it, and never a record of another user key.
SnapshotGetMatchesAbstract ==
    input = "hist" =>
        \A k \in QueryKeys, ver \in ReadVers :
            SnapshotGet(Store(hist), k, ver) = RefSnapshot(hist, k, ver)

\* SkipDecoder.Decode started on any entry leaves the iterator on the first
\* entry of another user key, and no entry of the skipped key follows it:
\* all entries of a user key are adjacent in the encoded order.
SkipLeavesKey ==
    input = "hist" =>
        LET it == NewIter(Store(hist), << >>)
            UserKey(p) == Decode(it[p].key).key
        IN  \A p \in 1..Len(it) :
                LET r == SkipDecode(it, p, UserKey(p))
                IN  /\ \A q \in r.p..Len(it) : UserKey(q) # UserKey(p)
                    /\ r.ok => r.p <= Len(it) /\ r.currKey = UserKey(r.p)
                    /\ ~r.ok => r.p = Len(it) + 1

-----------------------------------------------------------------------------
(* Properties of the graph codec.                                          *)

\* The row the PropertyEncoder writes reads back through PropertyDecoder as
\* the values paired with their own property IDs, whatever order the IDs
\* were given in; a row with an unsupported type is refused.
RowRoundTrip ==
    input = "row" =>
        LET row == GC!Encode(gids, gvals)
            expect == [j \in {gids[i] : i \in DOMAIN gids} |->
                          gvals[CHOOSE i \in DOMAIN gids : gids[i] = j]]
        IN  IF \E i \in DOMAIN gvals : gvals[i].type \notin {TInt, TFloat, TString, TDate}
            THEN row.err
            ELSE /\ ~row.err
                 /\ GC!DecodeRow(row, SetToSortSeq(PropertyIDs, LAMBDA a, b : a < b))
                        = [err |-> FALSE, row |-> expect]

\* Vertex and edge keys parse back to the IDs they were built from, and the
\* edge parsers, which do not look at the separator byte, read a key of the
\* other direction as the reversed edge.
KeysRoundTrip ==
    input = "keys" =>
        LET g == gkey[1]  s == gkey[2]  d == gkey[3]
        IN  /\ GC!ParseVertexKey(GC!VertexKey(g, s)) = [err |-> FALSE, ids |-> << g, s >>]
            /\ GC!ParseIncomingEdgeKey(GC!IncomingEdgeKey(g, s, d)) = [err |-> FALSE, ids |-> << g, s, d >>]
            /\ GC!ParseOutgoingEdgeKey(GC!OutgoingEdgeKey(g, s, d)) = [err |-> FALSE, ids |-> << g, s, d >>]
            /\ GC!ParseOutgoingEdgeKey(GC!IncomingEdgeKey(g, s, d)) = [err |-> FALSE, ids |-> << g, d, s >>]

-----------------------------------------------------------------------------
(* Properties of the lexer.                                                *)

\* The escapes of a string literal as the comment of handleEscape states
\* them: \" \' \\ \n \0 \b \Z \r \t stand for one byte, \% and \_ keep the
\* backslash, any other escaped byte stands for itself; a doubled quote is
\* one quote.
EscapeTable ==
    [c \in {"DQ", "SQ", "BS", "n", "0", "b", "Z", "r", "t"} |->
        CASE c = "n" -> "NL" [] c = "0" -> "NUL" [] c = "b" -> "BSP" [] c = "Z" -> "SUB"
          [] c = "r" -> "CR" [] c = "t" -> "TAB" [] OTHER -> c]

RECURSIVE Unescaped(_, _)
Unescaped(t, q) ==
    IF t = << >> THEN << >>
    ELSE IF Head(t) = q THEN << q >> \o Unescaped(Tail(Tail(t)), q)
    ELSE IF Head(t) = "BS"
         THEN (IF t[2] \in DOMAIN EscapeTable THEN << EscapeTable[t[2]] >>
               ELSE IF t[2] \in {"%", "_"} THEN << "BS", t[2] >>
               ELSE << t[2] >>) \o Unescaped(Tail(Tail(t)), q)
    ELSE << Head(t) >> \o Unescaped(Tail(t), q)

\* Every string literal Lex returns ends at its closing quote, and its
\* value is the text between the quotes with the escapes and doubled
\* quotes of scanString and handleEscape resolved.
StringLitUnescapes ==
    \A i \in DOMAIN toks :
        toks[i].tok = "stringLit" =>
            LET q == sql[toks[i].off + 1]
            IN  /\ sql[toks[i].end] = q
                /\ toks[i].lit = Unescaped(SubSeq(sql, toks[i].off + 2, toks[i].end - 1), q)

\* A Lex call that returns neither the end token nor invalid has consumed
\* text, so the parser, which stops only at those two, reaches the end of
\* any input: no scan path (a comment, a /*! block, a star, @, a number
\* turned identifier) returns a token and leaves the reader where it was.
LexAdvances ==
    [][input = "lex" /\ Lex =>
          Last(toks').tok \in {"EOF", "invalid"} \/ lx'.r.off > lx.r.off]_vars


-----------------------------------------------------------------------------
(* Properties of lazy property creation.                                   *)

\* Property IDs are never handed out twice: however the compilers of two
\* sessions interleave their lookups, MDLock sections, transactions and
\* patches, no ID names two stored properties.  CreateMissing reads
\* nextPropID from the catalog graph, not from the store, so this rests on
\* MDLock and on Apply's SetNextPropID reaching the catalog before the
\* lock is released.
PropertyIDsUnique ==
    input = "ddl" =>
        \A p, q \in stored : p.id = q.id => p = q

\* Outside MDLock the catalog is what catalog.Load would build from the
\* store: the same properties, the same NextPropID, and every name the
\* catalog resolves names a stored property of that name (patch.go's
\* "we need to ensure the DDL changes have applied to persistent storage
\* first").
CatalogMatchesStore ==
    input = "ddl" /\ mdlock = 0 =>
        /\ catProps = stored
        /\ catNext = storedNext
        /\ \A n \in CatNames : byName[n] # 0 => [id |-> byName[n], name |-> n] \in stored

-----------------------------------------------------------------------------
(* Properties of the query pipeline.                                       *)

\* What rewriting an expression means, by recursion on the tree: the
\* expression with each variable replaced by its column, or the error of
\* the first subexpression, in evaluation order, that has one.
RECURSIVE Translate(_, _)
Translate(t, cols) ==
    CASE t.k = "value" -> QE!Ok([k |-> "const", d |-> t.d])
      [] t.k \in {"var", "prop"} /\ QE!FindColumnIndex(cols, t.name) = -1 ->
            QE!Err("unresolved")
      [] t.k = "var" -> QE!Ok(QE!Column(cols, t.name))
      [] t.k = "prop" ->
            QE!Ok([k |-> "prop", e |-> QE!Column(cols, t.name), prop |-> t.prop])
      [] t.k = "unary" ->
            LET c == Translate(t.e, cols)
            IN  IF ~c.ok THEN c
                ELSE IF t.op \notin QE!SupportedUnary THEN QE!Err("unsupported")
                ELSE QE!Ok([k |-> "unary", op |-> t.op, e |-> c.d])
      [] t.k = "binary" ->
            LET l == Translate(t.l, cols)
                r == Translate(t.r, cols)
            IN  IF ~l.ok THEN l ELSE IF ~r.ok THEN r
                ELSE QE!Ok([k |-> "binary", op |-> t.op, l |-> l.d, r |-> r.d])

\* exprRewriter: the stack machine Leave runs over the AST walk (one shared
\* ctxStack, operands popped right then left, the first error kept and
\* every later node skipped) computes exactly Translate, for every
\* expression of two levels and both column layouts.
RewriteMatchesTranslate ==
    qin.kind = "rewrite" => QE!RewriteExpr(qin.tree, qin.cols) = Translate(qin.tree, qin.cols)

\* What a query means, on the whole list of rows MATCH yields: a projection
\* maps its expressions over the child's rows and a selection keeps the
\* rows whose condition is true; the first row whose evaluation fails ends
\* the result with that error, after the rows before it.
RefProject(exprs, c) ==
    LET ev == [i \in DOMAIN c.rows |-> QE!EvalRow(exprs, c.rows[i])]
        bad == {i \in DOMAIN ev : ~ev[i].ok}
        n == IF bad = {} THEN Len(c.rows) ELSE Min(bad) - 1
    IN  [rows |-> [i \in 1..n |-> ev[i].d],
         err |-> IF bad = {} THEN c.err ELSE ev[Min(bad)].err]

RefSelect(cond, c) ==
    LET ev == [i \in DOMAIN c.rows |-> QE!EvalExpr(cond, c.rows[i])]
        bad == {i \in DOMAIN ev : ~ev[i].ok}
        n == IF bad = {} THEN Len(c.rows) ELSE Min(bad) - 1
    IN  [rows |-> SelectSeq(SubSeq(c.rows, 1, n), LAMBDA r : QE!AsBool(QE!EvalExpr(cond, r).d)),
         err |-> IF bad = {} THEN c.err ELSE ev[Min(bad)].err]

RECURSIVE RefRun(_, _)
RefRun(plan, rows) ==
    CASE plan.k = "match" -> [rows |-> rows, err |-> "none"]
      [] plan.k = "projection" -> RefProject(plan.exprs, RefRun(plan.child, rows))
      [] plan.k = "selection" -> RefSelect(plan.cond, RefRun(plan.child, rows))

\* Optimize, Build and the executors' Next: pulling rows one at a time
\* through the selection's loop and the projection, until a nil row or an
\* error, yields exactly RefRun, the rows and then the error if any.
QueryMatchesReference ==
    qin.kind = "run" => QE!RunQuery(qin.plan, qin.rows) = RefRun(qin.plan, qin.rows)

=============================================================================
