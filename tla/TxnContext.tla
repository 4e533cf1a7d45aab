----------------------------- MODULE TxnContext -----------------------------
(***************************************************************************)
(* kv.TxnContext (storage/kv/kv.go): begin one transaction, then up to     *)
(* `retry` times run the callback and commit, going round again on a        *)
(* retryable error (IsRetryable: the cause is ErrTxnConflicts).             *)
(*                                                                         *)
(* Several goroutines call TxnContext on one storage, and every callback   *)
(* writes one shared key.  The storage is modelled from the specification  *)
(* (4.7, 7): Begin pins startVer to the version clock; Commit fails with    *)
(* ErrTxnConflicts when another transaction committed the key after        *)
(* startVer, and otherwise commits at a new version.  Begin and Commit may *)
(* also fail with another error, and the callback may return nil, a         *)
(* conflict or another error.  Once Commit has run, committed or not, the   *)
(* transaction is finished: every later operation of it fails with          *)
(* ErrInvalidTxn, so the callback, whose writes go through it, returns      *)
(* that error, and so does a second Commit.                                *)
(***************************************************************************)
EXTENDS Naturals

CONSTANTS
    Callers,    \* goroutines calling TxnContext
    Retry,      \* the constant retry (5)
    Nil, ErrTxnConflicts, ErrOther, ErrInvalidTxn,
    FnResults   \* what the callback may return

Results == {Nil, ErrTxnConflicts, ErrOther, ErrInvalidTxn}

ASSUME Nil \in FnResults /\ FnResults \subseteq Results

VARIABLES
    pc,         \* per caller: begin, loop, fn, commit, done
    i,          \* per caller: the loop counter
    startVer,   \* per caller: the start version of its transaction
    stale,      \* per caller: its transaction met a conflict
    valid,      \* per caller: Txn.valid, its transaction is not finished
    committed,  \* per caller: a Commit call succeeded
    ret,        \* per caller: the result TxnContext returned
    clock,      \* the version clock
    lastCommit  \* commit version of the latest write of the shared key

vars == <<pc, i, startVer, stale, valid, committed, ret, clock, lastCommit>>

\* IsRetryable(err): the cause of err is ErrTxnConflicts.
IsRetryable(err) == err = ErrTxnConflicts

\* The loop's post statement i++.
NextAttempt(n) == n + 1

\* The storage's verdict on a commit of c's transaction.
CommitConflicts(c) == lastCommit > startVer[c]

Init ==
    /\ pc = [c \in Callers |-> "begin"]
    /\ i = [c \in Callers |-> 0]
    /\ startVer = [c \in Callers |-> 0]
    /\ stale = [c \in Callers |-> FALSE]
    /\ valid = [c \in Callers |-> FALSE]
    /\ committed = [c \in Callers |-> FALSE]
    /\ ret = [c \in Callers |-> Nil]
    /\ clock = 0
    /\ lastCommit = 0

\* txn, err := store.Begin(); if err != nil return err.
Begin(c) ==
    /\ pc[c] = "begin"
    /\ \/ /\ pc' = [pc EXCEPT ![c] = "loop"]
          /\ clock' = clock + 1
          /\ startVer' = [startVer EXCEPT ![c] = clock + 1]
          /\ valid' = [valid EXCEPT ![c] = TRUE]
          /\ UNCHANGED ret
       \/ /\ pc' = [pc EXCEPT ![c] = "done"]
          /\ ret' = [ret EXCEPT ![c] = ErrOther]
          /\ UNCHANGED <<clock, startVer, valid>>
    /\ UNCHANGED <<i, stale, committed, lastCommit>>

\* for i := 0; i < retry; i++ -- the loop condition, and the return nil
\* after the loop.
LoopHead(c) ==
    /\ pc[c] = "loop"
    /\ IF i[c] < Retry
       THEN pc' = [pc EXCEPT ![c] = "fn"] /\ UNCHANGED ret
       ELSE /\ pc' = [pc EXCEPT ![c] = "done"]
            /\ ret' = [ret EXCEPT ![c] = Nil]
    /\ UNCHANGED <<i, startVer, stale, valid, committed, clock, lastCommit>>

\* Going round the loop after a retryable error.
Continue(c) ==
    /\ pc' = [pc EXCEPT ![c] = "loop"]
    /\ i' = [i EXCEPT ![c] = NextAttempt(i[c])]
    /\ stale' = [stale EXCEPT ![c] = TRUE]

\* Returning err from inside the loop.
Return(c, err) ==
    /\ pc' = [pc EXCEPT ![c] = "done"]
    /\ ret' = [ret EXCEPT ![c] = err]

\* err := fn(ctx, txn): continue on a retryable error, return any other.
\* On a finished transaction the callback's first operation fails with
\* ErrInvalidTxn and it returns that.
CallFn(c) ==
    /\ pc[c] = "fn"
    /\ \E err \in IF valid[c] THEN FnResults ELSE {ErrInvalidTxn} :
         \/ err = Nil /\ pc' = [pc EXCEPT ![c] = "commit"]
            /\ UNCHANGED <<i, stale, ret>>
         \/ IsRetryable(err) /\ Continue(c) /\ UNCHANGED ret
         \/ err # Nil /\ ~IsRetryable(err) /\ Return(c, err)
            /\ UNCHANGED <<i, stale>>
    /\ UNCHANGED <<startVer, valid, committed, clock, lastCommit>>

\* Mutant: a Commit that fails leaves the transaction usable.
FinishTxnOnSuccess(c, err) ==
    valid' = [valid EXCEPT ![c] = err # Nil /\ valid[c]]

\* Txn.Commit finishes the transaction whatever its outcome.
FinishTxn(c, err) == valid' = [valid EXCEPT ![c] = FALSE]

\* The storage's verdict on a Commit: ErrInvalidTxn on a finished
\* transaction, ErrTxnConflicts on a conflict, otherwise nil or another
\* error.
CommitResults(c) ==
    IF ~valid[c] THEN {ErrInvalidTxn}
    ELSE IF CommitConflicts(c) THEN {ErrTxnConflicts}
    ELSE {Nil, ErrOther}

\* err = txn.Commit(ctx): return nil on success, go round on a retryable
\* error, return any other.
Commit(c) ==
    /\ pc[c] = "commit"
    /\ \E err \in CommitResults(c) :
         /\ FinishTxn(c, err)
         /\ \/ err = Nil /\ Return(c, Nil)
               /\ committed' = [committed EXCEPT ![c] = TRUE]
               /\ clock' = clock + 1 /\ lastCommit' = clock + 1
               /\ UNCHANGED <<i, stale>>
            \/ IsRetryable(err) /\ Continue(c)
               /\ UNCHANGED <<ret, committed, clock, lastCommit>>
            \/ err # Nil /\ ~IsRetryable(err) /\ Return(c, err)
               /\ UNCHANGED <<i, stale, committed, clock, lastCommit>>
    /\ UNCHANGED startVer

\* Every call has returned.
Finished == \A c \in Callers : pc[c] = "done"

Next ==
    \/ \E c \in Callers :
         Begin(c) \/ LoopHead(c) \/ CallFn(c) \/ Commit(c)
    \/ Finished /\ UNCHANGED vars

\* Each loop runs on its caller's goroutine: every step it can take, it
\* takes.
Spec ==
    Init /\ [][Next]_vars
         /\ \A c \in Callers :
              WF_vars(Begin(c) \/ LoopHead(c) \/ CallFn(c) \/ Commit(c))

-----------------------------------------------------------------------------
(* Properties.                                                             *)

\* The doc comment of TxnContext: "The transaction will be committed
\* automatically" -- a nil result means the transaction committed.
NilMeansCommitted ==
    \A c \in Callers : pc[c] = "done" /\ ret[c] = Nil => committed[c]

=============================================================================
