------------------------------ MODULE Sessions ------------------------------
(***************************************************************************)
(* The database handle and its sessions (db.go, session/session.go).       *)
(*                                                                         *)
(* Goroutines, per session s: a user goroutine calling s.Execute (Rounds   *)
(* times) and a user goroutine calling s.Close (at most once); and one     *)
(* goroutine calling db.Close.  NewSession registers a session in          *)
(* db.mu.sessions under db.mu.                                             *)
(*                                                                         *)
(* Every Go statement that touches shared state without a common lock is   *)
(* its own step: the write of cancelFn and wg.Add in Execute, the read of  *)
(* cancelFn, wg.Wait and the read of closeCallback in Close, and the write *)
(* of closeCallback that OnClosed makes after it has unlocked s.mu.  A     *)
(* racy read of a func value sees the old or the new value, whichever      *)
(* write came first.  The statement itself (parse, compile, exec.Open) is  *)
(* one step.                                                               *)
(***************************************************************************)
EXTENDS Naturals

CONSTANTS
    Sess,       \* sessions NewSession can create
    Rounds,     \* Execute calls per session
    None

ASSUME None \notin Sess

\* The values of closeCallback: nil, db.onSessionClosed, db.onSessionClosedLocked.
Callbacks == {"nil", "onSessionClosed", "onSessionClosedLocked"}

VARIABLES
    created,    \* NewSession has returned s
    sessions,   \* db.mu.sessions
    dbmu,       \* holder of db.mu, None or "db" (onSessionClosed holds it
                \* for one step only)
    smu,        \* per session: holder of s.mu, None or "exec" (OnClosed
                \* holds it for no longer than a step)
    closed,     \* per session: s.closed
    cancelFn,   \* per session: round of the context cancelFn cancels, or 0
    cancelled,  \* set of <<s, round>>: contexts cancelled
    wg,         \* per session: s.wg's counter
    cb,         \* per session: s.closeCallback
    epc,        \* per session: Execute goroutine
    round,      \* per session: Execute calls started
    cpc,        \* per session: Close goroutine
    dpc,        \* db.Close goroutine
    dcur,       \* db.Close: the session of the current loop iteration
    todo,       \* db.Close: sessions the range loop has still to visit
    waited,     \* per session: a Close of s has returned from wg.Wait
    ranClosed,  \* per session: a statement ran after a Close of s had waited
    unguarded   \* db.mu.sessions was written without holding db.mu

vars == <<created, sessions, dbmu, smu, closed, cancelFn, cancelled, wg, cb,
          epc, round, cpc, dpc, dcur, todo, waited, ranClosed, unguarded>>

Init ==
    /\ created = {} /\ sessions = {} /\ dbmu = None
    /\ smu = [s \in Sess |-> None]
    /\ closed = [s \in Sess |-> FALSE]
    /\ cancelFn = [s \in Sess |-> 0]
    /\ cancelled = {}
    /\ wg = [s \in Sess |-> 0]
    /\ cb = [s \in Sess |-> "nil"]
    /\ epc = [s \in Sess |-> "idle"]
    /\ round = [s \in Sess |-> 0]
    /\ cpc = [s \in Sess |-> "idle"]
    /\ dpc = "idle" /\ dcur = None /\ todo = {}
    /\ waited = [s \in Sess |-> FALSE]
    /\ ranClosed = [s \in Sess |-> FALSE]
    /\ unguarded = FALSE

-----------------------------------------------------------------------------
(* db.go                                                                   *)

\* NewSession: under db.mu, session.New, s.OnClosed(db.onSessionClosed)
\* (s.mu is free: nobody else has s yet) and registration.
NewSession(s) ==
    /\ s \notin created /\ dbmu = None
    /\ created' = created \cup {s}
    /\ sessions' = sessions \cup {s}
    /\ cb' = [cb EXCEPT ![s] = "onSessionClosed"]
    /\ UNCHANGED <<dbmu, smu, closed, cancelFn, cancelled, wg, epc, round,
                   cpc, dpc, dcur, todo, waited, ranClosed, unguarded>>

\* Mutant: the delete left out.
DeregisterNothing(s, g) ==
    /\ sessions' = sessions
    /\ unguarded' = unguarded

\* onSessionClosedLocked(s): delete(db.mu.sessions, s.ID()), by goroutine g.
Deregister(s, g) ==
    /\ sessions' = sessions \ {s}
    /\ unguarded' = (unguarded \/ dbmu # g)

\* db.Close: db.mu.Lock(), then range over db.mu.sessions.
DBLock ==
    /\ dpc = "idle" /\ dbmu = None
    /\ dbmu' = "db" /\ dpc' = "loop" /\ todo' = sessions
    /\ UNCHANGED <<created, sessions, smu, closed, cancelFn, cancelled, wg,
                   cb, epc, round, cpc, dcur, waited, ranClosed, unguarded>>

\* The next iteration of the range loop: an entry deleted before it is
\* reached is not produced.  At the end, the deferred db.mu.Unlock().
DBNext ==
    /\ dpc = "loop"
    /\ IF todo \cap sessions = {}
       THEN /\ dpc' = "done" /\ dbmu' = None /\ todo' = {}
            /\ UNCHANGED dcur
       ELSE \E s \in todo \cap sessions :
              /\ dpc' = "onclosed" /\ dcur' = s /\ todo' = todo \ {s}
              /\ UNCHANGED dbmu
    /\ UNCHANGED <<created, sessions, smu, closed, cancelFn, cancelled, wg,
                   cb, epc, round, cpc, waited, ranClosed, unguarded>>

\* s.OnClosed(db.onSessionClosedLocked): s.mu.Lock(); s.mu.Unlock().
DBOnClosedLock ==
    /\ dpc = "onclosed" /\ smu[dcur] = None
    /\ dpc' = "setcb"
    /\ UNCHANGED <<created, sessions, dbmu, smu, closed, cancelFn, cancelled,
                   wg, cb, epc, round, cpc, dcur, todo, waited, ranClosed,
                   unguarded>>

\* Mutant: db.Close installs db.onSessionClosed.
SetCallbackUnlocked(s) == "onSessionClosed"

\* The callback db.Close installs.
SetCallbackLocked(s) == "onSessionClosedLocked"

\* ... s.closeCallback = cb, after the unlock.
DBSetCallback ==
    /\ dpc = "setcb"
    /\ cb' = [cb EXCEPT ![dcur] = SetCallbackLocked(dcur)]
    /\ dpc' = "swap"
    /\ UNCHANGED <<created, sessions, dbmu, smu, closed, cancelFn, cancelled,
                   wg, epc, round, cpc, dcur, todo, waited, ranClosed,
                   unguarded>>

-----------------------------------------------------------------------------
(* session.go: Close, by the user's goroutine or db.Close's.              *)

\* if s.cancelFn != nil { s.cancelFn() }
CloseCancel(s) ==
    cancelled' = IF cancelFn[s] = 0 THEN cancelled
                 ELSE cancelled \cup {<<s, cancelFn[s]>>}

\* s.wg.Wait()
CloseWaitDone(s) ==
    /\ wg[s] = 0
    /\ waited' = [waited EXCEPT ![s] = TRUE]

\* The user's s.Close(): if s.closed.Swap(true) { return }.
UserClose(s) ==
    /\ s \in created /\ cpc[s] = "idle"
    /\ closed' = [closed EXCEPT ![s] = TRUE]
    /\ cpc' = [cpc EXCEPT ![s] = IF closed[s] THEN "done" ELSE "cancel"]
    /\ UNCHANGED <<created, sessions, dbmu, smu, cancelFn, cancelled, wg, cb,
                   epc, round, dpc, dcur, todo, waited, ranClosed, unguarded>>

UserCancel(s) ==
    /\ cpc[s] = "cancel"
    /\ CloseCancel(s)
    /\ cpc' = [cpc EXCEPT ![s] = "wait"]
    /\ UNCHANGED <<created, sessions, dbmu, smu, closed, cancelFn, wg, cb,
                   epc, round, dpc, dcur, todo, waited, ranClosed, unguarded>>

UserWait(s) ==
    /\ cpc[s] = "wait"
    /\ CloseWaitDone(s)
    /\ cpc' = [cpc EXCEPT ![s] = "callback"]
    /\ UNCHANGED <<created, sessions, dbmu, smu, closed, cancelFn, cancelled,
                   wg, cb, epc, round, dpc, dcur, todo, ranClosed, unguarded>>

\* if s.closeCallback != nil { s.closeCallback(s) }: onSessionClosed takes
\* db.mu first; onSessionClosedLocked deletes at once.
UserCallback(s) ==
    /\ cpc[s] = "callback"
    /\ \/ cb[s] = "nil" /\ cpc' = [cpc EXCEPT ![s] = "done"]
          /\ UNCHANGED <<sessions, unguarded>>
       \/ cb[s] = "onSessionClosed" /\ cpc' = [cpc EXCEPT ![s] = "cblock"]
          /\ UNCHANGED <<sessions, unguarded>>
       \/ cb[s] = "onSessionClosedLocked" /\ cpc' = [cpc EXCEPT ![s] = "done"]
          /\ Deregister(s, s)
    /\ UNCHANGED <<created, dbmu, smu, closed, cancelFn, cancelled, wg, cb,
                   epc, round, dpc, dcur, todo, waited, ranClosed>>

\* onSessionClosed: db.mu.Lock(); onSessionClosedLocked(s); db.mu.Unlock()
\* -- one step, db.mu is held for the delete only.
UserCallbackLocked(s) ==
    /\ cpc[s] = "cblock" /\ dbmu = None
    /\ cpc' = [cpc EXCEPT ![s] = "done"]
    /\ Deregister(s, None)
    /\ UNCHANGED <<created, dbmu, smu, closed, cancelFn, cancelled, wg, cb,
                   epc, round, dpc, dcur, todo, waited, ranClosed>>

\* db.Close's s.Close(), on its own goroutine holding db.mu: the swap.
DBSwap ==
    /\ dpc = "swap"
    /\ closed' = [closed EXCEPT ![dcur] = TRUE]
    /\ dpc' = IF closed[dcur] THEN "loop" ELSE "cancel"
    /\ UNCHANGED <<created, sessions, dbmu, smu, cancelFn, cancelled, wg, cb,
                   epc, round, cpc, dcur, todo, waited, ranClosed, unguarded>>

DBCancel ==
    /\ dpc = "cancel"
    /\ CloseCancel(dcur)
    /\ dpc' = "wait"
    /\ UNCHANGED <<created, sessions, dbmu, smu, closed, cancelFn, wg, cb,
                   epc, round, cpc, dcur, todo, waited, ranClosed, unguarded>>

DBWait ==
    /\ dpc = "wait"
    /\ CloseWaitDone(dcur)
    /\ dpc' = "callback"
    /\ UNCHANGED <<created, sessions, dbmu, smu, closed, cancelFn, cancelled,
                   wg, cb, epc, round, cpc, dcur, todo, ranClosed, unguarded>>

\* The callback db.Close reads: onSessionClosed would block on the db.mu
\* this goroutine holds.
DBCallback ==
    /\ dpc = "callback"
    /\ \/ cb[dcur] = "nil" /\ dpc' = "loop"
          /\ UNCHANGED <<sessions, unguarded>>
       \/ cb[dcur] = "onSessionClosed" /\ dbmu = None /\ dpc' = "loop"
          /\ Deregister(dcur, None)
       \/ cb[dcur] = "onSessionClosedLocked" /\ dpc' = "loop"
          /\ Deregister(dcur, "db")
    /\ UNCHANGED <<created, dbmu, smu, closed, cancelFn, cancelled, wg, cb,
                   epc, round, cpc, dcur, todo, waited, ranClosed>>

-----------------------------------------------------------------------------
(* session.go: Execute.                                                    *)

\* s.mu.Lock()
ExecLock(s) ==
    /\ s \in created /\ epc[s] = "idle" /\ round[s] < Rounds
    /\ smu[s] = None
    /\ smu' = [smu EXCEPT ![s] = "exec"]
    /\ round' = [round EXCEPT ![s] = @ + 1]
    /\ epc' = [epc EXCEPT ![s] = "cancelfn"]
    /\ UNCHANGED <<created, sessions, dbmu, closed, cancelFn, cancelled, wg,
                   cb, cpc, dpc, dcur, todo, waited, ranClosed, unguarded>>

\* ctx, cancelFn := context.WithCancel(ctx); s.cancelFn = cancelFn
ExecSetCancel(s) ==
    /\ epc[s] = "cancelfn"
    /\ cancelFn' = [cancelFn EXCEPT ![s] = round[s]]
    /\ epc' = [epc EXCEPT ![s] = "add"]
    /\ UNCHANGED <<created, sessions, dbmu, smu, closed, cancelled, wg, cb,
                   round, cpc, dpc, dcur, todo, waited, ranClosed, unguarded>>

\* s.wg.Add(1)
ExecAdd(s) ==
    /\ epc[s] = "add"
    /\ wg' = [wg EXCEPT ![s] = @ + 1]
    /\ epc' = [epc EXCEPT ![s] = "run"]
    /\ UNCHANGED <<created, sessions, dbmu, smu, closed, cancelFn, cancelled,
                   cb, round, cpc, dpc, dcur, todo, waited, ranClosed,
                   unguarded>>

\* Parse and executeStmt: the statement runs whether or not the session is
\* closed; a cancelled context only makes it fail.
ExecRun(s) ==
    /\ epc[s] = "run"
    /\ ranClosed' = [ranClosed EXCEPT ![s] = @ \/ waited[s]]
    /\ epc' = [epc EXCEPT ![s] = "done"]
    /\ UNCHANGED <<created, sessions, dbmu, smu, closed, cancelFn, cancelled,
                   wg, cb, round, cpc, dpc, dcur, todo, waited, unguarded>>

\* The deferred calls, last first: s.wg.Done(), then s.mu.Unlock().
ExecWgDone(s) ==
    /\ epc[s] = "done"
    /\ wg' = [wg EXCEPT ![s] = @ - 1]
    /\ epc' = [epc EXCEPT ![s] = "unlock"]
    /\ UNCHANGED <<created, sessions, dbmu, smu, closed, cancelFn, cancelled,
                   cb, round, cpc, dpc, dcur, todo, waited, ranClosed,
                   unguarded>>

ExecUnlock(s) ==
    /\ epc[s] = "unlock"
    /\ smu' = [smu EXCEPT ![s] = None]
    /\ epc' = [epc EXCEPT ![s] = "idle"]
    /\ UNCHANGED <<created, sessions, dbmu, closed, cancelFn, cancelled, wg,
                   cb, round, cpc, dpc, dcur, todo, waited, ranClosed,
                   unguarded>>

-----------------------------------------------------------------------------

\* Every session was created, has run its statements and has been closed,
\* and db.Close has returned.
Finished ==
    /\ created = Sess /\ dpc = "done"
    /\ \A s \in Sess : epc[s] = "idle" /\ round[s] = Rounds /\ cpc[s] = "done"

UserStep(s) ==
    UserCancel(s) \/ UserWait(s) \/ UserCallback(s) \/ UserCallbackLocked(s)

ExecStep(s) ==
    ExecSetCancel(s) \/ ExecAdd(s) \/ ExecRun(s) \/ ExecWgDone(s)
    \/ ExecUnlock(s)

DBStep ==
    DBNext \/ DBOnClosedLock \/ DBSetCallback \/ DBSwap \/ DBCancel
    \/ DBWait \/ DBCallback

Next ==
    \/ \E s \in Sess :
         \/ NewSession(s) \/ UserClose(s) \/ ExecLock(s)
         \/ UserStep(s) \/ ExecStep(s)
    \/ DBLock \/ DBStep
    \/ Finished /\ UNCHANGED vars

\* Calls the user makes (NewSession, Execute, Close, db.Close) need not
\* happen.  Once a call has started, its goroutine keeps running; a goroutine
\* blocked on a sync.Mutex gets it when it is free often enough (Go's mutex
\* hands over to a waiter that has waited 1ms).
Spec ==
    Init /\ [][Next]_vars
         /\ \A s \in Sess : SF_vars(UserStep(s)) /\ WF_vars(ExecStep(s))
         /\ SF_vars(DBStep)

-----------------------------------------------------------------------------
(* Properties.                                                             *)

\* Every call of s.Close returns, and so does db.Close once it has taken
\* db.mu: the close callbacks and db.Close's own s.Close() never wait on a
\* lock the caller holds.
ClosesReturn ==
    /\ \A s \in Sess : cpc[s] \notin {"idle", "done"} ~> cpc[s] = "done"
    /\ dpc \notin {"idle", "done"} ~> dpc = "done"

\* A closed session leaves db.mu.sessions: whichever Close ran its callback,
\* the session is eventually deregistered.
ClosedDeregistered == \A s \in Sess : closed[s] ~> s \notin sessions

\* Session.Close: "Wait the current execution finished" -- no statement of
\* a session runs after a Close of that session has returned from
\* wg.Wait.
NoRunAfterClose == \A s \in Sess : ~ranClosed[s]

\* db.mu protects db.mu.sessions: the map is never written by a goroutine
\* that does not hold db.mu (db.Close ranges over it under db.mu).
SessionsGuarded == ~unguarded

=============================================================================
