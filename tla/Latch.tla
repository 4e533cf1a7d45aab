-------------------------------- MODULE Latch --------------------------------
(***************************************************************************)
(* The latch scheduler of storage/latch: LatchesScheduler.Lock, UnLock,    *)
(* Close and the schedule goroutine that releases unlocked latches, wakes  *)
(* the waiters and triggers recycling, over the sharded latch table.       *)
(*                                                                         *)
(* The latch table itself (Latches: genLock, acquire, release, recycle) is *)
(* not part of the sources; it is modelled from the specification (3 and   *)
(* 4.4): keys hash to slots, a request takes its keys in slot order, waits *)
(* in its slot's FIFO queue behind a held key, is handed the key by the    *)
(* release that frees it, and is stale when a conflicting transaction     *)
(* committed after it started (each key remembers its largest commit       *)
(* version).  Recycling forgets that memory for idle keys whose last       *)
(* commit is older than the expiry window.                                 *)
(*                                                                         *)
(* Callers follow TestWithConcurrency: Lock(getTso(), keys); if the grant  *)
(* is not stale, SetCommitVer(getTso()); then UnLock.  Versions come from  *)
(* one monotonic clock.                                                    *)
(***************************************************************************)
EXTENDS Naturals, Sequences, FiniteSets, SequencesExt

CONSTANTS
    Keys,          \* user keys, numbers so that they can be sorted
    Slots,         \* latch slots
    SlotOf,        \* Keys -> Slots, the key's hash modulo the slot count
    Callers,       \* goroutines running transactions
    TxnKeys,       \* Callers -> non-empty set of keys the caller writes
    Rounds,        \* transactions each caller runs one after the other
    LockChanSize,  \* capacity of unlockCh (lockChanSize = 100)
    CheckInterval, \* checkInterval, in version units
    Expire,        \* expireDuration, in version units
    CloseEnabled,  \* whether Close may be called
    None           \* no request (a nil Latch.value)

ASSUME
    /\ Keys \subseteq Nat /\ None \notin Callers \X Nat
    /\ SlotOf \in [Keys -> Slots]
    /\ TxnKeys \in [Callers -> (SUBSET Keys) \ {{}}]
    /\ Rounds \in Nat \ {0} /\ LockChanSize \in Nat \ {0}

\* A Lock request: the caller and which of its transactions it serves.
Reqs == Callers \X (1..Rounds)

\* genLock: each caller's keys in the order they are acquired, by slot.
KeyOrder ==
    [c \in Callers |->
        SetToSortSeq(TxnKeys[c], LAMBDA a, b : \/ SlotOf[a] < SlotOf[b]
                                               \/ SlotOf[a] = SlotOf[b] /\ a < b)]

LockKeys(q) == KeyOrder[q[1]]

VARIABLES
    holder,     \* holder[k]: the request holding k's latch, or None
    waiting,    \* waiting[s]: requests queued on slot s, in arrival order
    maxCommit,  \* maxCommit[k]: largest commit version released on k (0 = none)
    lstart,     \* lstart[q]: startVer of request q
    lcommit,    \* lcommit[q]: commitVer of request q (0 = unset)
    lacq,       \* lacq[q]: how many of LockKeys(q) q has acquired
    lstale,     \* lstale[q]: request q is stale
    clock,      \* the version provider (getTso)
    cpc,        \* cpc[c]: where caller c is
    round,      \* round[c]: transactions c has started
    unlockCh,   \* the unlock channel, a sequence of requests
    closed,     \* scheduler.closed (and unlockCh closed)
    spc,        \* where the schedule goroutine is
    cur,        \* the request the schedule goroutine is releasing
    wakeupList, \* the requests it still has to wake up
    lastRecycle,\* scheduler.lastRecycleTime
    recycles,   \* versions of recycle goroutines started and not yet run
    history     \* committed writes <<key, commitVer>> of non-stale grants

latches == <<holder, waiting, maxCommit>>
reqs == <<lstart, lcommit, lacq, lstale>>
sched == <<unlockCh, closed, spc, cur, wakeupList, lastRecycle, recycles>>
vars == <<latches, reqs, clock, cpc, round, sched, history>>

\* The request of caller c's current transaction.
Req(c) == <<c, round[c]>>

-----------------------------------------------------------------------------
(* The latch table.                                                        *)

\* acquire(lock): take q's remaining keys in order.  A free key whose last
\* commit is newer than q's start makes q stale; a held key queues q on its
\* slot.  Returns the new table and request state and the acquire result.
RECURSIVE AcquireFrom(_, _, _)
AcquireFrom(q, start, st) ==
    IF st.stale THEN [st EXCEPT !.res = "stale"]
    ELSE IF st.acq = Len(LockKeys(q)) THEN [st EXCEPT !.res = "success"]
    ELSE LET k == LockKeys(q)[st.acq + 1]
         IN  IF st.holder[k] # None
             THEN [st EXCEPT !.waiting[SlotOf[k]] = Append(@, q),
                             !.res = "locked"]
             ELSE IF maxCommit[k] > start
             THEN [st EXCEPT !.stale = TRUE, !.res = "stale"]
             ELSE AcquireFrom(q, start, [st EXCEPT !.holder[k] = q,
                                                   !.acq = @ + 1])

\* acquire for request q with startVer start, acquired count acq, stale bit.
Acquire(q, start, acq, stale) ==
    AcquireFrom(q, start, [holder |-> holder, waiting |-> waiting,
                           acq |-> acq, stale |-> stale, res |-> "none"])

\* The waiter first in k's slot queue whose next key is k, if any.
NextWaiter(st, k) ==
    LET q == st.waiting[SlotOf[k]]
        I == {i \in DOMAIN q : LockKeys(q[i])[st.lacq[q[i]] + 1] = k}
    IN  IF I = {} THEN 0 ELSE CHOOSE i \in I : \A j \in I : i <= j

\* release(lock, wakeupList): free the keys q holds, last acquired first,
\* recording q's commit version; hand each key to its first waiter, which
\* is stale when that commit is newer than its start, and list the waiter
\* for wakeup.
RECURSIVE ReleaseFrom(_, _, _)
ReleaseFrom(q, n, st) ==
    IF n = 0 THEN st
    ELSE LET k == LockKeys(q)[n]
             mc == IF lcommit[q] > st.maxCommit[k] THEN lcommit[q]
                   ELSE st.maxCommit[k]
             st1 == [st EXCEPT !.maxCommit[k] = mc, !.holder[k] = None]
             i == NextWaiter(st1, k)
             w == st1.waiting[SlotOf[k]][i]
         IN  ReleaseFrom(q, n - 1,
               IF i = 0 THEN st1
               ELSE [st1 EXCEPT !.holder[k] = w,
                                !.waiting[SlotOf[k]] = RemoveAt(@, i),
                                !.lacq[w] = @ + 1,
                                !.lstale[w] = @ \/ mc > lstart[w],
                                !.wake = Append(@, w)])

\* Mutant: release frees the keys without recording the commit version.
ReleaseKeepMax(q) ==
    LET r == ReleaseFrom(q, lacq[q],
                [holder |-> holder, waiting |-> waiting, maxCommit |-> maxCommit,
                 lacq |-> lacq, lstale |-> lstale, wake |-> << >>])
    IN  [r EXCEPT !.maxCommit = maxCommit]

Release(q) ==
    ReleaseFrom(q, lacq[q],
                [holder |-> holder, waiting |-> waiting, maxCommit |-> maxCommit,
                 lacq |-> lacq, lstale |-> lstale, wake |-> << >>])

-----------------------------------------------------------------------------
(* Callers (TestWithConcurrency's workers).                                *)

Init ==
    /\ holder = [k \in Keys |-> None]
    /\ waiting = [s \in Slots |-> << >>]
    /\ maxCommit = [k \in Keys |-> 0]
    /\ lstart = [q \in Reqs |-> 0]
    /\ lcommit = [q \in Reqs |-> 0]
    /\ lacq = [q \in Reqs |-> 0]
    /\ lstale = [q \in Reqs |-> FALSE]
    /\ clock = 0
    /\ cpc = [c \in Callers |-> "idle"]
    /\ round = [c \in Callers |-> 0]
    /\ unlockCh = << >>
    /\ closed = FALSE
    /\ spc = "recv"
    /\ cur = None
    /\ wakeupList = << >>
    /\ lastRecycle = 0
    /\ recycles = {}
    /\ history = {}

\* scheduler.Lock(getTso(), keys): genLock, wg.Add(1) and acquire; the
\* caller blocks in wg.Wait() when acquire returns acquireLocked.
Lock(c) ==
    LET start == clock + 1
        q == <<c, round[c] + 1>>
        a == Acquire(q, start, 0, FALSE)
    IN  /\ cpc[c] = "idle"
        /\ round[c] < Rounds
        /\ clock' = start
        /\ round' = [round EXCEPT ![c] = @ + 1]
        /\ holder' = a.holder
        /\ waiting' = a.waiting
        /\ lstart' = [lstart EXCEPT ![q] = start]
        /\ lacq' = [lacq EXCEPT ![q] = a.acq]
        /\ lstale' = [lstale EXCEPT ![q] = a.stale]
        /\ cpc' = [cpc EXCEPT ![c] = IF a.res = "locked" THEN "waiting"
                                                        ELSE "locked"]
        /\ UNCHANGED <<maxCommit, lcommit, sched, history>>

\* After Lock returns: a stale grant gives up; otherwise the transaction
\* takes lock.SetCommitVer(getTso()) and commits its writes.
Commit(c) ==
    /\ cpc[c] = "locked"
    /\ IF lstale[Req(c)]
       THEN UNCHANGED <<clock, lcommit, history>>
       ELSE /\ clock' = clock + 1
            /\ lcommit' = [lcommit EXCEPT ![Req(c)] = clock + 1]
            /\ history' = history \cup {<<k, clock + 1>> : k \in TxnKeys[c]}
    /\ cpc' = [cpc EXCEPT ![c] = "unlock"]
    /\ UNCHANGED <<latches, lstart, lacq, lstale, round, sched>>

\* Mutant: the send does not wait for room in the channel.
UnLockNoBlock(c) ==
    /\ cpc[c] = "unlock"
    /\ \/ /\ closed
          /\ UNCHANGED unlockCh
       \/ /\ ~closed
          /\ unlockCh' = Append(unlockCh, Req(c))
    /\ cpc' = [cpc EXCEPT ![c] = "idle"]
    /\ UNCHANGED <<latches, reqs, clock, round, closed, spc, cur, wakeupList,
                   lastRecycle, recycles, history>>

\* scheduler.UnLock(lock): under the read lock, send the request to
\* unlockCh unless the scheduler is closed, in which case it is dropped.
\* The send blocks while the channel is full.
UnLock(c) ==
    /\ cpc[c] = "unlock"
    /\ \/ /\ closed
          /\ UNCHANGED unlockCh
       \/ /\ ~closed
          /\ Len(unlockCh) < LockChanSize
          /\ unlockCh' = Append(unlockCh, Req(c))
    /\ cpc' = [cpc EXCEPT ![c] = "idle"]
    /\ UNCHANGED <<latches, reqs, clock, round, closed, spc, cur, wakeupList,
                   lastRecycle, recycles, history>>

\* scheduler.Close: under the write lock, which waits for every UnLock
\* holding the read lock, close unlockCh once.
Close ==
    /\ CloseEnabled
    /\ ~closed
    /\ \A c \in Callers : cpc[c] = "unlock" => Len(unlockCh) < LockChanSize
    /\ closed' = TRUE
    /\ UNCHANGED <<latches, reqs, clock, cpc, round, unlockCh, spc, cur,
                   wakeupList, lastRecycle, recycles, history>>

-----------------------------------------------------------------------------
(* The schedule goroutine and the recycle goroutines.                      *)

\* for lock := range unlockCh { wakeupList = latches.release(lock, wakeupList) }
Recv ==
    LET q == Head(unlockCh)
        r == Release(q)
    IN  /\ spc = "recv"
        /\ unlockCh # << >>
        /\ unlockCh' = Tail(unlockCh)
        /\ holder' = r.holder
        /\ waiting' = r.waiting
        /\ maxCommit' = r.maxCommit
        /\ lacq' = [r.lacq EXCEPT ![q] = 0]
        /\ lstale' = r.lstale
        /\ cur' = q
        /\ wakeupList' = r.wake
        /\ spc' = "wakeup"
        /\ UNCHANGED <<lstart, lcommit, clock, cpc, round, closed, lastRecycle,
                       recycles, history>>

\* Mutant: lock.wg.Done() whatever acquire returns.
WakeupAlwaysDone ==
    LET w == Head(wakeupList)
        a == Acquire(w, lstart[w], lacq[w], lstale[w])
    IN  /\ spc = "wakeup"
        /\ wakeupList # << >>
        /\ wakeupList' = Tail(wakeupList)
        /\ holder' = a.holder
        /\ waiting' = a.waiting
        /\ lacq' = [lacq EXCEPT ![w] = a.acq]
        /\ lstale' = [lstale EXCEPT ![w] = a.stale]
        /\ cpc' = [cpc EXCEPT ![w[1]] = "locked"]
        /\ UNCHANGED <<maxCommit, lstart, lcommit, clock, round, unlockCh,
                       closed, spc, cur, lastRecycle, recycles, history>>

\* Mutant: lock.wg.Done() only when acquire returns acquireSuccess.
WakeupSuccessOnly ==
    LET w == Head(wakeupList)
        a == Acquire(w, lstart[w], lacq[w], lstale[w])
    IN  /\ spc = "wakeup"
        /\ wakeupList # << >>
        /\ wakeupList' = Tail(wakeupList)
        /\ holder' = a.holder
        /\ waiting' = a.waiting
        /\ lacq' = [lacq EXCEPT ![w] = a.acq]
        /\ lstale' = [lstale EXCEPT ![w] = a.stale]
        /\ cpc' = IF a.res = "success" THEN [cpc EXCEPT ![w[1]] = "locked"] ELSE cpc
        /\ UNCHANGED <<maxCommit, lstart, lcommit, clock, round, unlockCh,
                       closed, spc, cur, lastRecycle, recycles, history>>

\* wakeup: acquire for the next listed request; lock.wg.Done() unless the
\* result is acquireLocked.
Wakeup ==
    LET w == Head(wakeupList)
        a == Acquire(w, lstart[w], lacq[w], lstale[w])
    IN  /\ spc = "wakeup"
        /\ wakeupList # << >>
        /\ wakeupList' = Tail(wakeupList)
        /\ holder' = a.holder
        /\ waiting' = a.waiting
        /\ lacq' = [lacq EXCEPT ![w] = a.acq]
        /\ lstale' = [lstale EXCEPT ![w] = a.stale]
        /\ cpc' = IF a.res # "locked" THEN [cpc EXCEPT ![w[1]] = "locked"] ELSE cpc
        /\ UNCHANGED <<maxCommit, lstart, lcommit, clock, round, unlockCh,
                       closed, spc, cur, lastRecycle, recycles, history>>

\* After the wakeups: when the released request committed and more than
\* checkInterval passed since the last recycle, start go recycle(commitVer).
\* The other trigger, counter > checkCounter (50000 unlocks since the last
\* recycle), cannot fire within the bounds: a run unlocks at most
\* |Callers| * Rounds times.
RecycleTrigger ==
    LET cv == lcommit[cur]
        fire == cv > lstart[cur] /\ cv - lastRecycle > CheckInterval
    IN  /\ spc = "wakeup"
        /\ wakeupList = << >>
        /\ recycles' = IF fire THEN recycles \cup {cv} ELSE recycles
        /\ lastRecycle' = IF fire THEN cv ELSE lastRecycle
        /\ spc' = "recv"
        /\ cur' = None
        /\ UNCHANGED <<latches, reqs, clock, cpc, round, unlockCh, closed,
                       wakeupList, history>>

\* The range loop ends once unlockCh is closed and drained.
SchedExit ==
    /\ spc = "recv"
    /\ closed
    /\ unlockCh = << >>
    /\ spc' = "done"
    /\ UNCHANGED <<latches, reqs, clock, cpc, round, unlockCh, closed, cur,
                   wakeupList, lastRecycle, recycles, history>>

\* recycle(currentTS): drop every free latch whose last commit is at least
\* expireDuration older than currentTS; its commit memory is lost.
Recycle(v) ==
    /\ v \in recycles
    /\ recycles' = recycles \ {v}
    /\ maxCommit' = [k \in Keys |->
                       IF holder[k] = None /\ v - maxCommit[k] >= Expire
                       THEN 0 ELSE maxCommit[k]]
    /\ UNCHANGED <<holder, waiting, reqs, clock, cpc, round, unlockCh, closed,
                   spc, cur, wakeupList, lastRecycle, history>>

\* Every caller has run its transactions and released its latches.
Finished ==
    /\ \A c \in Callers : cpc[c] = "idle" /\ round[c] = Rounds
    /\ unlockCh = << >> /\ spc = "recv" /\ recycles = {}

Next ==
    \/ \E c \in Callers : Lock(c) \/ Commit(c) \/ UnLock(c)
    \/ Recv \/ Wakeup \/ RecycleTrigger \/ SchedExit
    \/ \E v \in recycles : Recycle(v)
    \/ Close
    \/ Finished /\ UNCHANGED vars

\* The schedule goroutine and the recycle goroutines run whenever they can;
\* a caller that holds latches always goes on to UnLock (the test's worker
\* body).  UnLock's send competes with other senders for the channel, so it
\* is strongly fair.
Fairness ==
    /\ WF_vars(Recv) /\ WF_vars(Wakeup) /\ WF_vars(RecycleTrigger)
    /\ WF_vars(\E v \in recycles : Recycle(v))
    /\ \A c \in Callers : WF_vars(Commit(c)) /\ SF_vars(UnLock(c))

Spec == Init /\ [][Next]_vars
FairSpec == Spec /\ Fairness

-----------------------------------------------------------------------------
(* Properties.                                                             *)

TypeOK ==
    /\ holder \in [Keys -> Reqs \cup {None}]
    /\ waiting \in [Slots -> Seq(Reqs)]
    /\ maxCommit \in [Keys -> Nat]
    /\ lacq \in [Reqs -> Nat] /\ lstale \in [Reqs -> BOOLEAN]
    /\ cpc \in [Callers -> {"idle", "waiting", "locked", "unlock"}]
    /\ unlockCh \in Seq(Reqs) /\ Len(unlockCh) <= LockChanSize
    /\ spc \in {"recv", "wakeup", "done"}

\* Latch exclusivity (spec property 6): a caller whose Lock returned a grant that is
\* not stale holds the latch of every key it writes until it unlocks, so two
\* such callers never share a key.  Breaks if wakeup releases the caller of
\* a request still queued on another slot.
GrantHoldsAllKeys ==
    \A c \in Callers :
        cpc[c] \in {"locked", "unlock"} /\ ~lstale[Req(c)] =>
            \A k \in TxnKeys[c] : holder[k] = Req(c)

\* The stale bit: when Lock returns a grant that is not stale, no other
\* transaction committed a write to one of its keys after its startVer
\* (the release records commitVer per key, acquire compares it with
\* startVer).  Recycling the commit memory of a key can break this.
GrantedNotSuperseded ==
    \A c \in Callers :
        cpc[c] = "locked" /\ ~lstale[Req(c)] =>
            \A h \in history : h[1] \in TxnKeys[c] => h[2] <= lstart[Req(c)]

\* Every blocked Lock call returns (spec property 6: both requests eventually reach
\* Granted, "absent external cancellation"): the unlock consumer's release
\* hands the key over and wakeup calls wg.Done.  Once Close has run, an
\* UnLock is dropped and its waiters may block for ever, which the spec
\* excuses.
AllLockCallsReturn ==
    \A c \in Callers : cpc[c] = "waiting" ~> (cpc[c] = "locked" \/ closed)

=============================================================================
