------------------------------ MODULE Resolver ------------------------------
(***************************************************************************)
(* The lock resolver of storage/resolver: Resolve, Rollback,               *)
(* getTxnCommitInfo and CheckTxnStatus over the durable MVCC store, the    *)
(* per-shard resolver goroutines that batch queued tasks into one pebble   *)
(* batch, Scheduler.Resolve/Close and the MultiKeysNotifier that callers   *)
(* wait on.                                                                *)
(*                                                                         *)
(* The durable store is abstracted to what the resolver reads: the lock    *)
(* record at LockKey(k) (locks[k]) and the value records at Encode(k, v)   *)
(* (vals[k][v]).  A pebble iterator positioned at LockKey(k) visits the    *)
(* lock and then k's versions newest first, so "the first matching record  *)
(* of the scan" is the record at the largest version.  Payload bytes are   *)
(* left out: nothing the resolver decides depends on them.                 *)
(*                                                                         *)
(* The callers are the environment: transaction owners that submit the     *)
(* outcome they decided for their keys, and readers that hit a lock, ask   *)
(* CheckTxnStatus about its primary and submit what the status says.  The  *)
(* Txn/KVSnapshot code that plays these roles is not part of the sources,  *)
(* so their policy is taken from the specification (section 4.3, 4.5).    *)
(***************************************************************************)
EXTENDS Naturals, Sequences, FiniteSets, FiniteSetsExt

CONSTANTS
    Keys,          \* user keys
    Workers,       \* resolver shards, 0..size-1 of NewScheduler(size)
    Hash,          \* murmur3.Sum32(key) % size, a function Keys -> Workers
    Txns,          \* prewritten transactions
    StartVer,      \* Txns -> start version
    Decision,      \* Txns -> commit version chosen by the owner, 0 = roll back
    TxnKeys,       \* Txns -> sequence of keys, the primary first
    TxnOp,         \* Txns -> Op of the txn's locks
    TTL,           \* Txns -> lock TTL, in version units
    InitLocked,    \* Txns -> keys whose lock is durable initially
    LatePrewrite,  \* Txns -> keys whose prewrite may still arrive later
    Owners,        \* callers submitting their own txn's outcome
    OwnerTxn,      \* Owners -> Txns
    Readers,       \* callers that hit a lock while reading
    ReaderTarget,  \* Readers -> <<txn, key read>>
    ChanCap,       \* capacity of resolver.ch (512 in newResolver)
    MaxVer,        \* largest version used
    MaxNow,        \* bound of the version provider's clock
    ReadFaults,    \* whether the iterator may report an I/O error
    CloseEnabled   \* whether Scheduler.Close may be called

Callers == Owners \cup Readers
Vers == 1..MaxVer
Ops == {"Put", "Del", "Lock", "Rollback", "Insert", "CheckNotExists"}
ValueTypes == {"Put", "Delete", "Lock", "Rollback"}
Errs == {"nil", "Retryable", "AlreadyCommitted", "IOError"}
NoLock == [none |-> "lock"]
NoVal == [none |-> "value"]
NoReq == [none |-> "request"]

ASSUME
    /\ Hash \in [Keys -> Workers]
    /\ Owners \cap Readers = {}
    /\ \A t \in Txns : StartVer[t] \in Vers /\ Decision[t] \in {0} \cup Vers
    /\ \A t \in Txns : Decision[t] # 0 => Decision[t] > StartVer[t]
    /\ \A t, u \in Txns : t # u => InitLocked[t] \cap InitLocked[u] = {}
    /\ ChanCap \in Nat \ {0}

LockRec == [startVer : Vers, primary : Keys, op : Ops, ttl : Nat]
ValRec == [type : ValueTypes, startVer : Vers, commitVer : Vers]
Task == [key : Keys, startVer : Vers, commitVer : {0} \cup Vers, caller : Callers]
BatchOp == [kind : {"set"}, key : Keys, ver : Vers, rec : ValRec]
           \cup [kind : {"del"}, key : Keys]
Request == [keys : Seq(Keys), startVer : Vers, commitVer : {0} \cup Vers]

VARIABLES
    locks,      \* locks[k]: the Lock record at LockKey(k), or NoLock
    vals,       \* vals[k][v]: the Value record at Encode(k, v), or NoVal
    now,        \* the VersionProvider's current version
    ch,         \* ch[w]: the buffered task channel of resolver w
    chClosed,   \* resolver.close() has closed every channel
    cancelled,  \* the scheduler's context has been cancelled
    wpc,        \* wpc[w]: where resolver goroutine w is
    wtasks,     \* wtasks[w]: the tasks of the batch being resolved
    wi,         \* wi[w]: index of the task being resolved
    wbatch,     \* wbatch[w]: the pebble batch being built (a sequence of ops)
    wacc,       \* wacc[w]: the errs length read by Notify before its append
    cpc,        \* cpc[c]: where caller c is
    creq,       \* creq[c]: the keys and versions c submits
    cnext,      \* cnext[c]: index of the next key Scheduler.Resolve pushes
    nwg,        \* nwg[c]: the WaitGroup counter of c's MultiKeysNotifier
    nerrs,      \* nerrs[c]: len(errs) of c's MultiKeysNotifier
    cseen,      \* cseen[c]: the number of errors Wait returned to c
    results     \* history: every task resolved, with the error it produced

store == <<locks, vals>>
wvars == <<wpc, wtasks, wi, wbatch, wacc>>
cvars == <<cpc, creq, cnext, nwg, nerrs, cseen>>
vars == <<store, now, ch, chClosed, cancelled, wvars, cvars, results>>

-----------------------------------------------------------------------------
(* Reads of the durable store.                                             *)

\* LockDecoder{ExpectKey: k}.Decode at LockKey(k) found the lock of startVer s.
LockMatches(k, s) == locks[k] # NoLock /\ locks[k].startVer = s

\* Mutant: getTxnCommitInfo without the StartVer comparison.
CommitInfoAnyTxn(k, s) ==
    LET V == {v \in Vers : vals[k][v] # NoVal}
    IN  IF V = {} THEN NoVal ELSE vals[k][Max(V)]

\* getTxnCommitInfo: the first (newest) value record of k written by startVer s.
CommitInfo(k, s) ==
    LET V == {v \in Vers : vals[k][v] # NoVal /\ vals[k][v].startVer = s}
    IN  IF V = {} THEN NoVal ELSE vals[k][Max(V)]

\* The value type Resolve derives from the lock's Op.
ValueTypeOf(op) ==
    CASE op = "Put"  -> "Put"
      [] op = "Lock" -> "Lock"
      [] OTHER       -> "Delete"

SetOp(k, v, rec) == [kind |-> "set", key |-> k, ver |-> v, rec |-> rec]
DelLockOp(k) == [kind |-> "del", key |-> k]

\* writeRollback: the tombstone written at Encode(key, startVer).
WriteRollback(k, s) ==
    SetOp(k, s, [type |-> "Rollback", startVer |-> s, commitVer |-> s])

\* Mutant: Resolve that writes the value but leaves the lock in place.
ResolveKeepLock(k, s, c, fault) ==
    IF LockMatches(k, s)
    THEN [err |-> "nil",
          ops |-> << SetOp(k, c, [type |-> ValueTypeOf(locks[k].op),
                                  startVer |-> s, commitVer |-> c]) >>]
    ELSE IF CommitInfo(k, s) # NoVal /\ CommitInfo(k, s).type # "Rollback"
    THEN [err |-> "nil", ops |-> << >>]
    ELSE [err |-> "Retryable", ops |-> << >>]

\* Resolve(db, batch, key, startVer, commitVer): the error it returns and the
\* ops it adds to the batch.  fault: the commit-info scan hit an iterator error.
Resolve(k, s, c, fault) ==
    IF LockMatches(k, s)
    THEN [err |-> "nil",
          ops |-> << SetOp(k, c, [type |-> ValueTypeOf(locks[k].op),
                                  startVer |-> s, commitVer |-> c]),
                     DelLockOp(k) >>]
    ELSE IF fault
    THEN [err |-> "nil", ops |-> << >>]  \* if err1 != nil { return err }
    ELSE IF CommitInfo(k, s) # NoVal /\ CommitInfo(k, s).type # "Rollback"
    THEN [err |-> "nil", ops |-> << >>]
    ELSE [err |-> "Retryable", ops |-> << >>]

\* Rollback(db, batch, key, startVer).
Rollback(k, s, fault) ==
    IF LockMatches(k, s)
    THEN [err |-> "nil", ops |-> << WriteRollback(k, s), DelLockOp(k) >>]
    ELSE IF fault
    THEN [err |-> "IOError", ops |-> << >>]
    ELSE IF CommitInfo(k, s) # NoVal
    THEN IF CommitInfo(k, s).type # "Rollback"
         THEN [err |-> "AlreadyCommitted", ops |-> << >>]
         ELSE [err |-> "nil", ops |-> << >>]
    ELSE [err |-> "nil", ops |-> << WriteRollback(k, s) >>]

\* CheckTxnStatus(db, vp, primaryKey, startVer) at the current version.
CheckTxnStatus(pk, s) ==
    IF LockMatches(pk, s)
    THEN IF s + locks[pk].ttl < now
         THEN [action |-> "TTLExpireRollback", commitVer |-> 0]
         ELSE [action |-> "None", commitVer |-> 0]
    ELSE IF CommitInfo(pk, s) = NoVal
    THEN [action |-> "Error", commitVer |-> 0]
    ELSE IF CommitInfo(pk, s).type = "Rollback"
    THEN [action |-> "LockNotExistRollback", commitVer |-> 0]
    ELSE [action |-> "LockNotExistDoNothing",
          commitVer |-> CommitInfo(pk, s).commitVer]

\* batch.Commit: the batch's ops applied atomically, a later Set of the same
\* encoded key overriding an earlier one.
ApplyBatch(b) ==
    /\ locks' = [k \in Keys |->
                    IF \E i \in DOMAIN b : b[i].kind = "del" /\ b[i].key = k
                    THEN NoLock ELSE locks[k]]
    /\ vals' = [k \in Keys |-> [v \in Vers |->
                    LET I == {i \in DOMAIN b : b[i].kind = "set"
                                               /\ b[i].key = k /\ b[i].ver = v}
                    IN  IF I = {} THEN vals[k][v] ELSE b[Max(I)].rec]]

-----------------------------------------------------------------------------
(* Initial state: storage.Open has started the resolvers; the locks of the *)
(* prewritten transactions are durable; owners are about to submit their   *)
(* outcome, readers are about to check the status of the lock they hit.    *)

OwnerRequest(t) ==
    [keys |-> TxnKeys[t], startVer |-> StartVer[t], commitVer |-> Decision[t]]

LockOfTxn(t) ==
    [startVer |-> StartVer[t], primary |-> TxnKeys[t][1], op |-> TxnOp[t],
     ttl |-> TTL[t]]

Init ==
    /\ locks = [k \in Keys |->
                   IF \E t \in Txns : k \in InitLocked[t]
                   THEN LockOfTxn(CHOOSE t \in Txns : k \in InitLocked[t])
                   ELSE NoLock]
    /\ vals = [k \in Keys |-> [v \in Vers |-> NoVal]]
    /\ now = Max({StartVer[t] : t \in Txns})
    /\ ch = [w \in Workers |-> << >>]
    /\ chClosed = FALSE
    /\ cancelled = FALSE
    /\ wpc = [w \in Workers |-> "idle"]
    /\ wtasks = [w \in Workers |-> << >>]
    /\ wi = [w \in Workers |-> 0]
    /\ wbatch = [w \in Workers |-> << >>]
    /\ wacc = [w \in Workers |-> 0]
    /\ cpc = [c \in Callers |-> IF c \in Owners THEN "push" ELSE "check"]
    /\ creq = [c \in Callers |->
                 IF c \in Owners THEN OwnerRequest(OwnerTxn[c]) ELSE NoReq]
    /\ cnext = [c \in Callers |-> 1]
    /\ nwg = [c \in Callers |->
                IF c \in Owners THEN Len(TxnKeys[OwnerTxn[c]]) ELSE 0]
    /\ nerrs = [c \in Callers |-> 0]
    /\ cseen = [c \in Callers |-> 0]
    /\ results = {}

-----------------------------------------------------------------------------
(* Callers.                                                                *)

\* A reader that hit the lock of txn t at key k asks CheckTxnStatus about
\* t's primary and, with NewMultiKeysNotifier(1), submits what it says: roll
\* back an expired or rolled-back txn, resolve a committed one, back off
\* otherwise.
ReaderCheck(c) ==
    LET t == ReaderTarget[c][1]
        k == ReaderTarget[c][2]
        st == CheckTxnStatus(TxnKeys[t][1], StartVer[t])
    IN  /\ cpc[c] = "check"
        /\ IF st.action \in {"TTLExpireRollback", "LockNotExistRollback",
                             "LockNotExistDoNothing"}
           THEN /\ creq' = [creq EXCEPT ![c] = [keys |-> << k >>,
                                   startVer |-> StartVer[t],
                                   commitVer |-> st.commitVer]]
                /\ nwg' = [nwg EXCEPT ![c] = 1]
                /\ cpc' = [cpc EXCEPT ![c] = "push"]
           ELSE /\ cpc' = [cpc EXCEPT ![c] = "done"]
                /\ UNCHANGED <<creq, nwg>>
        /\ UNCHANGED <<store, now, ch, chClosed, cancelled, wvars,
                       cnext, nerrs, cseen, results>>

\* Mutant: a send that does not respect the channel's capacity.
PushOverCap(c) ==
    LET k == creq[c].keys[cnext[c]]
        w == Hash[k]
        task == [key |-> k, startVer |-> creq[c].startVer,
                 commitVer |-> creq[c].commitVer, caller |-> c]
    IN  /\ cpc[c] = "push"
        /\ ~chClosed
        /\ Len(ch[w]) <= ChanCap
        /\ ch' = [ch EXCEPT ![w] = Append(@, task)]
        /\ cnext' = [cnext EXCEPT ![c] = @ + 1]
        /\ cpc' = [cpc EXCEPT ![c] =
                     IF cnext[c] = Len(creq[c].keys) THEN "wait" ELSE "push"]
        /\ UNCHANGED <<store, now, chClosed, cancelled, wvars,
                       creq, nwg, nerrs, cseen, results>>

\* One iteration of Scheduler.Resolve's loop: push the task of the next key
\* to the resolver its hash selects.  The send blocks while the channel is
\* full and panics once Close has closed it.
Push(c) ==
    LET k == creq[c].keys[cnext[c]]
        w == Hash[k]
        task == [key |-> k, startVer |-> creq[c].startVer,
                 commitVer |-> creq[c].commitVer, caller |-> c]
    IN  /\ cpc[c] = "push"
        /\ \/ /\ chClosed
              /\ cpc' = [cpc EXCEPT ![c] = "panicked"]
              /\ UNCHANGED <<ch, cnext>>
           \/ /\ ~chClosed
              /\ Len(ch[w]) < ChanCap
              /\ ch' = [ch EXCEPT ![w] = Append(@, task)]
              /\ cnext' = [cnext EXCEPT ![c] = @ + 1]
              /\ cpc' = [cpc EXCEPT ![c] =
                           IF cnext[c] = Len(creq[c].keys) THEN "wait"
                                                           ELSE "push"]
        /\ UNCHANGED <<store, now, chClosed, cancelled, wvars,
                       creq, nwg, nerrs, cseen, results>>

\* MultiKeysNotifier.Wait: returns errs once the WaitGroup reaches zero.
Wait(c) ==
    /\ cpc[c] = "wait"
    /\ nwg[c] = 0
    /\ cpc' = [cpc EXCEPT ![c] = "done"]
    /\ cseen' = [cseen EXCEPT ![c] = nerrs[c]]
    /\ UNCHANGED <<store, now, ch, chClosed, cancelled, wvars,
                   creq, cnext, nwg, nerrs, results>>

-----------------------------------------------------------------------------
(* The resolver goroutines (resolver.run and resolver.resolve).            *)

\* After a task has been resolved and notified: the next task of the batch,
\* or the batch commit.
NextTask(w) ==
    IF wi[w] < Len(wtasks[w])
    THEN /\ wi' = [wi EXCEPT ![w] = @ + 1]
         /\ wpc' = [wpc EXCEPT ![w] = "resolve"]
    ELSE /\ wpc' = [wpc EXCEPT ![w] = "commit"]
         /\ UNCHANGED wi

\* select: a task is received from r.ch.
Receive(w) ==
    /\ wpc[w] = "idle"
    /\ ch[w] # << >>
    /\ wtasks' = [wtasks EXCEPT ![w] = << Head(ch[w]) >>]
    /\ ch' = [ch EXCEPT ![w] = Tail(@)]
    /\ wpc' = [wpc EXCEPT ![w] = "drain"]
    /\ UNCHANGED <<store, now, chClosed, cancelled, wi, wbatch, wacc,
                   cvars, results>>

\* select: ctx.Done() is ready, the goroutine returns.  Go picks among ready
\* cases at random, so this may happen while tasks are still queued.
Exit(w) ==
    /\ wpc[w] = "idle"
    /\ cancelled
    /\ wpc' = [wpc EXCEPT ![w] = "exited"]
    /\ UNCHANGED <<store, now, ch, chClosed, cancelled, wtasks, wi, wbatch,
                   wacc, cvars, results>>

\* Mutant: the drain loop receives one task fewer than it removes.
DrainOffByOne(w) ==
    /\ wpc[w] = "drain"
    /\ wtasks' = [wtasks EXCEPT ![w] = @ \o SubSeq(ch[w], 1, Len(ch[w]) - 1)]
    /\ ch' = [ch EXCEPT ![w] = << >>]
    /\ wi' = [wi EXCEPT ![w] = 1]
    /\ wbatch' = [wbatch EXCEPT ![w] = << >>]
    /\ wpc' = [wpc EXCEPT ![w] = "resolve"]
    /\ UNCHANGED <<store, now, chClosed, cancelled, wacc, cvars, results>>

\* c := len(r.ch) and the c receives that follow; a new batch is started.
Drain(w) ==
    /\ wpc[w] = "drain"
    /\ wtasks' = [wtasks EXCEPT ![w] = @ \o ch[w]]
    /\ ch' = [ch EXCEPT ![w] = << >>]
    /\ wi' = [wi EXCEPT ![w] = 1]
    /\ wbatch' = [wbatch EXCEPT ![w] = << >>]
    /\ wpc' = [wpc EXCEPT ![w] = "resolve"]
    /\ UNCHANGED <<store, now, chClosed, cancelled, wacc, cvars, results>>

FaultChoices == IF ReadFaults THEN BOOLEAN ELSE {FALSE}

\* One iteration of resolver.resolve's loop: Resolve or Rollback against the
\* store (not the batch), then task.Notifier.Notify(err), whose wg.Done()
\* comes first; a failed task goes on to append err to errs.
ResolveTask(w) ==
    LET t == wtasks[w][wi[w]]
    IN  /\ wpc[w] = "resolve"
        /\ \E fault \in FaultChoices :
             LET out == IF t.commitVer > 0
                        THEN Resolve(t.key, t.startVer, t.commitVer, fault)
                        ELSE Rollback(t.key, t.startVer, fault)
             IN  /\ wbatch' = [wbatch EXCEPT ![w] = @ \o out.ops]
                 /\ results' = results \cup {[task |-> t, err |-> out.err]}
                 /\ nwg' = [nwg EXCEPT ![t.caller] = @ - 1]
                 /\ IF out.err = "nil"
                    THEN /\ NextTask(w)
                         /\ UNCHANGED wacc
                    ELSE /\ wacc' = [wacc EXCEPT ![w] = nerrs[t.caller]]
                         /\ wpc' = [wpc EXCEPT ![w] = "append"]
                         /\ UNCHANGED wi
        /\ UNCHANGED <<store, now, ch, chClosed, cancelled, wtasks,
                       cpc, creq, cnext, nerrs, cseen>>

\* s.errs = append(s.errs, err), unsynchronised: it writes back the length
\* read before, so a concurrent append of another resolver can be lost.
AppendErr(w) ==
    LET c == wtasks[w][wi[w]].caller
    IN  /\ wpc[w] = "append"
        /\ nerrs' = [nerrs EXCEPT ![c] = wacc[w] + 1]
        /\ NextTask(w)
        /\ UNCHANGED <<store, now, ch, chClosed, cancelled, wtasks, wbatch,
                       wacc, cpc, creq, cnext, nwg, cseen, results>>

\* Mutant: a batch whose commit is lost.
CommitBatchLost(w) ==
    /\ wpc[w] = "commit"
    /\ wpc' = [wpc EXCEPT ![w] = "idle"]
    /\ wtasks' = [wtasks EXCEPT ![w] = << >>]
    /\ wbatch' = [wbatch EXCEPT ![w] = << >>]
    /\ wi' = [wi EXCEPT ![w] = 0]
    /\ UNCHANGED <<store, now, ch, chClosed, cancelled, wacc, cvars, results>>

\* batch.Commit(nil): the batch becomes durable; the goroutine selects again.
CommitBatch(w) ==
    /\ wpc[w] = "commit"
    /\ ApplyBatch(wbatch[w])
    /\ wpc' = [wpc EXCEPT ![w] = "idle"]
    /\ wtasks' = [wtasks EXCEPT ![w] = << >>]
    /\ wbatch' = [wbatch EXCEPT ![w] = << >>]
    /\ wi' = [wi EXCEPT ![w] = 0]
    /\ UNCHANGED <<now, ch, chClosed, cancelled, wacc, cvars, results>>

-----------------------------------------------------------------------------
(* Scheduler.Close, the clock and late prewrites.                          *)

\* Scheduler.Close: s.cancelFn().
CloseCancel ==
    /\ CloseEnabled
    /\ ~cancelled
    /\ cancelled' = TRUE
    /\ UNCHANGED <<store, now, ch, chClosed, wvars, cvars, results>>

\* Scheduler.Close: once s.wg.Wait() has seen every goroutine return, close
\* every resolver's channel.
CloseChannels ==
    /\ cancelled
    /\ ~chClosed
    /\ \A w \in Workers : wpc[w] = "exited"
    /\ chClosed' = TRUE
    /\ UNCHANGED <<store, now, ch, cancelled, wvars, cvars, results>>

\* mvccStorage.CurrentVersion advances.
Tick ==
    /\ now < MaxNow
    /\ now' = now + 1
    /\ UNCHANGED <<store, ch, chClosed, cancelled, wvars, cvars, results>>

\* The prewrite of txn t's lock on k arrives late.  It is refused while k is
\* locked, when t already has a record on k (e.g. a rollback tombstone) or
\* when a transaction committed on k after t started.
Prewrite(t, k) ==
    /\ k \in LatePrewrite[t]
    /\ locks[k] = NoLock
    /\ \A v \in Vers :
          vals[k][v] # NoVal =>
             /\ vals[k][v].startVer # StartVer[t]
             /\ vals[k][v].type # "Rollback" => vals[k][v].commitVer < StartVer[t]
    /\ locks' = [locks EXCEPT ![k] = LockOfTxn(t)]
    /\ UNCHANGED <<vals, now, ch, chClosed, cancelled, wvars, cvars, results>>

-----------------------------------------------------------------------------

\* Every caller has returned and every goroutine waits in select on an empty
\* channel: the resolver has nothing left to do.
Finished ==
    /\ \A c \in Callers : cpc[c] = "done"
    /\ \A w \in Workers : wpc[w] = "idle" /\ ch[w] = << >>

Next ==
    \/ \E c \in Readers : ReaderCheck(c)
    \/ \E c \in Callers : Push(c) \/ Wait(c)
    \/ \E w \in Workers :
          Receive(w) \/ Exit(w) \/ Drain(w) \/ ResolveTask(w) \/ AppendErr(w)
          \/ CommitBatch(w)
    \/ CloseCancel \/ CloseChannels \/ Tick
    \/ \E t \in Txns, k \in Keys : Prewrite(t, k)
    \/ Finished /\ UNCHANGED vars

\* Every goroutine keeps running; a sender blocked on a full channel is
\* served once room appears again (Go wakes blocked senders in order).
Fairness ==
    /\ \A c \in Callers : WF_vars(ReaderCheck(c)) /\ WF_vars(Wait(c))
                          /\ SF_vars(Push(c))
    /\ \A w \in Workers : WF_vars(Receive(w)) /\ WF_vars(Drain(w))
                          /\ WF_vars(ResolveTask(w)) /\ WF_vars(AppendErr(w))
                          /\ WF_vars(CommitBatch(w))

Spec == Init /\ [][Next]_vars
FairSpec == Spec /\ Fairness

-----------------------------------------------------------------------------
(* Properties.                                                             *)

TypeOK ==
    /\ locks \in [Keys -> LockRec \cup {NoLock}]
    /\ vals \in [Keys -> [Vers -> ValRec \cup {NoVal}]]
    /\ now \in 1..MaxNow
    /\ ch \in [Workers -> Seq(Task)]
    /\ \A w \in Workers : Len(ch[w]) <= ChanCap
    /\ chClosed \in BOOLEAN /\ cancelled \in BOOLEAN
    /\ wpc \in [Workers -> {"idle", "drain", "resolve", "append", "commit",
                            "exited"}]
    /\ wtasks \in [Workers -> Seq(Task)]
    /\ wi \in [Workers -> Nat]
    /\ wbatch \in [Workers -> Seq(BatchOp)]
    /\ wacc \in [Workers -> Nat]
    /\ cpc \in [Callers -> {"check", "push", "wait", "done", "panicked"}]
    /\ creq \in [Callers -> Request \cup {NoReq}]
    /\ cnext \in [Callers -> Nat]
    /\ nwg \in [Callers -> Nat]
    /\ nerrs \in [Callers -> Nat] /\ cseen \in [Callers -> Nat]
    /\ results \subseteq [task : Task, err : Errs]

\* The outcome records of startVer s on k: durable, or in a resolver's batch.
Durable(k, s, P(_)) ==
    \E v \in Vers : vals[k][v] # NoVal /\ vals[k][v].startVer = s /\ P(vals[k][v])
Pending(k, s, P(_)) ==
    \E w \in Workers : \E i \in DOMAIN wbatch[w] :
        /\ wbatch[w][i].kind = "set" /\ wbatch[w][i].key = k
        /\ wbatch[w][i].rec.startVer = s /\ P(wbatch[w][i].rec)
IsCommit(r) == r.type # "Rollback"
IsRollback(r) == r.type = "Rollback"

\* A lock of startVer s never coexists with a commit or rollback record of
\* s on the same key: Resolve and Rollback delete the lock in the same batch
\* that writes the record.
LockOutcomeExclusive ==
    \A k \in Keys :
        locks[k] # NoLock =>
            ~Durable(k, locks[k].startVer, LAMBDA r : TRUE)

\* The error a resolve task reports is true of the store it leaves behind:
\* nil from Resolve means a commit record, nil from Rollback a rollback
\* record, AlreadyCommitted a commit record of that startVer.
SuccessIsTruthful ==
    \A r \in results :
        LET k == r.task.key
            s == r.task.startVer
            Has(P(_)) == Durable(k, s, P) \/ Pending(k, s, P)
        IN  /\ r.err = "nil" /\ r.task.commitVer > 0 => Has(IsCommit)
            /\ r.err = "nil" /\ r.task.commitVer = 0 => Has(IsRollback)
            /\ r.err = "AlreadyCommitted" => Has(IsCommit)

\* A transaction never both commits and rolls back on one key.
OutcomeExclusive ==
    \A k \in Keys, t \in Txns :
        ~(Durable(k, StartVer[t], IsCommit) /\ Durable(k, StartVer[t], IsRollback))

\* Outcome(c): c's request is durable on every key it named.
Outcome(c) ==
    creq[c] # NoReq /\
    \A i \in DOMAIN creq[c].keys :
        IF creq[c].commitVer > 0
        THEN Durable(creq[c].keys[i], creq[c].startVer, IsCommit)
        ELSE Durable(creq[c].keys[i], creq[c].startVer, IsRollback)

AllNil(c) == \A r \in results : r.task.caller = c => r.err = "nil"

\* When Wait returns no errors, every key of the bundle is resolved in the
\* store (what scheduler_test.go checks right after Wait).
WaitImpliesDurable ==
    \A c \in Callers :
        cpc[c] = "done" /\ creq[c] # NoReq /\ cseen[c] = 0 => Outcome(c)

\* Every caller's Scheduler.Resolve and Wait return, unless Scheduler.Close
\* has cancelled the workers: Close drops the queued tasks (their Wait never
\* returns) and a later push panics.
AllCallersFinish ==
    \A c \in Callers : <>(cpc[c] = "done" \/ cancelled)

\* A bundle whose tasks all succeeded eventually is durable.
ResolvedDurable ==
    \A c \in Callers :
        (cpc[c] = "done" /\ creq[c] # NoReq /\ AllNil(c)) ~> Outcome(c)

=============================================================================
