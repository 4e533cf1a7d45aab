-------------------------- MODULE StorageLifecycle --------------------------
(***************************************************************************)
(* Open and Close of the storage (storage/storage.go) and the lifecycle of *)
(* its background services: the latch scheduler's schedule goroutine       *)
(* (latch/scheduler.go), the resolver scheduler's workers                  *)
(* (resolver/scheduler.go, resolver.go) and the GC manager's workers and   *)
(* scheduler (gc/manager.go, gc/worker.go).                                *)
(*                                                                         *)
(* No transaction runs: the task channels stay empty, so a worker leaves   *)
(* its loop through ctx.Done().  What the services do with tasks is the    *)
(* subject of the Latch and Resolver modules.  Goroutines of one kind are  *)
(* counted, not named.  Closers are goroutines that each call Close once;  *)
(* two closers are two calls.  The pebble DB may not be closed twice (its  *)
(* Close panics with ErrClosed on a closed DB).                            *)
(***************************************************************************)
EXTENDS Naturals

CONSTANTS
    ResolverSize,   \* resolver.NewScheduler(4)
    GCSize,         \* gc.NewManager(2)
    Closers         \* goroutines calling Close

VARIABLES
    opened,         \* Open has returned
    db,             \* pebble: "open", "closed"
    latchClosed,    \* LatchesScheduler.closed (unlockCh closed)
    latchAlive,     \* the schedule goroutine is running
    resCancelled,   \* the resolver scheduler's context is cancelled
    resAlive,       \* resolver worker goroutines running
    resChClosed,    \* every resolver's channel is closed
    gcCancelled,    \* the GC manager's context is cancelled
    gcAlive,        \* GC worker goroutines running
    gcSchedAlive,   \* the GC scheduler goroutine is running
    timerArmed,     \* the scheduler's timer has not fired
    ticks,          \* timer events the scheduler handled (0, 1, 2 = many)
    cpc             \* per closer: where its Close is

vars == <<opened, db, latchClosed, latchAlive, resCancelled, resAlive,
          resChClosed, gcCancelled, gcAlive, gcSchedAlive, timerArmed, ticks,
          cpc>>

Init ==
    /\ opened = FALSE /\ db = "none"
    /\ latchClosed = FALSE /\ latchAlive = FALSE
    /\ resCancelled = FALSE /\ resAlive = 0 /\ resChClosed = FALSE
    /\ gcCancelled = FALSE /\ gcAlive = 0 /\ gcSchedAlive = FALSE
    /\ timerArmed = FALSE /\ ticks = 0
    /\ cpc = [c \in Closers |-> "idle"]

\* LatchesScheduler.Run: once, go scheduler.schedule().
LatchRun == latchAlive' = TRUE

\* Scheduler.Run: unless running, start s.size resolver workers.
ResolverRun == resAlive' = ResolverSize

\* Manager.Run: unless running, start m.size workers and the scheduler,
\* which arms a 5s timer.
GCRun == gcAlive' = GCSize /\ gcSchedAlive' = TRUE /\ timerArmed' = TRUE

\* Open: pebble.Open, SetDB/SetResolver, then the three Run calls.
Open ==
    /\ ~opened
    /\ opened' = TRUE /\ db' = "open"
    /\ LatchRun /\ ResolverRun /\ GCRun
    /\ UNCHANGED <<latchClosed, resCancelled, resChClosed, gcCancelled,
                   ticks, cpc>>

-----------------------------------------------------------------------------
(* Background goroutines.                                                  *)

\* The schedule goroutine: `for lock := range scheduler.unlockCh` ends once
\* Close has closed the channel.
LatchExit ==
    /\ latchAlive /\ latchClosed
    /\ latchAlive' = FALSE
    /\ UNCHANGED <<opened, db, latchClosed, resCancelled, resAlive,
                   resChClosed, gcCancelled, gcAlive, gcSchedAlive,
                   timerArmed, ticks, cpc>>

\* resolver.run: case <-ctx.Done(): return.
ResolverExit ==
    /\ resAlive > 0 /\ resCancelled
    /\ resAlive' = resAlive - 1
    /\ UNCHANGED <<opened, db, latchClosed, latchAlive, resCancelled,
                   resChClosed, gcCancelled, gcAlive, gcSchedAlive,
                   timerArmed, ticks, cpc>>

\* gc worker.run: case <-ctx.Done(): return.
GCWorkerExit ==
    /\ gcAlive > 0 /\ gcCancelled
    /\ gcAlive' = gcAlive - 1
    /\ UNCHANGED <<opened, db, latchClosed, latchAlive, resCancelled,
                   resAlive, resChClosed, gcCancelled, gcSchedAlive,
                   timerArmed, ticks, cpc>>

\* Manager.scheduler: case <-timer.C: (the pending queue is checked and
\* nothing is scheduled); the timer is not reset.
GCTick ==
    /\ gcSchedAlive /\ timerArmed
    /\ timerArmed' = FALSE
    /\ ticks' = IF ticks < 2 THEN ticks + 1 ELSE ticks
    /\ UNCHANGED <<opened, db, latchClosed, latchAlive, resCancelled,
                   resAlive, resChClosed, gcCancelled, gcAlive,
                   gcSchedAlive, cpc>>

\* Manager.scheduler: case <-ctx.Done(): return.
GCSchedExit ==
    /\ gcSchedAlive /\ gcCancelled
    /\ gcSchedAlive' = FALSE
    /\ UNCHANGED <<opened, db, latchClosed, latchAlive, resCancelled,
                   resAlive, resChClosed, gcCancelled, gcAlive, timerArmed,
                   ticks, cpc>>

-----------------------------------------------------------------------------
(* storage.Close, one statement of a service's Close per step.             *)

\* s.latches.Close(): under the scheduler's lock, close unlockCh unless
\* closed.
CloseLatches(c) ==
    /\ opened /\ cpc[c] = "idle"
    /\ latchClosed' = TRUE
    /\ cpc' = [cpc EXCEPT ![c] = "resCancel"]
    /\ UNCHANGED <<opened, db, latchAlive, resCancelled, resAlive,
                   resChClosed, gcCancelled, gcAlive, gcSchedAlive,
                   timerArmed, ticks>>

\* Mutant: the wait before the cancel.
CloseResolverCancelLate(c) ==
    /\ cpc[c] = "resCancel"
    /\ cpc' = [cpc EXCEPT ![c] = "resWait"]
    /\ UNCHANGED <<opened, db, latchClosed, latchAlive, resCancelled,
                   resAlive, resChClosed, gcCancelled, gcAlive, gcSchedAlive,
                   timerArmed, ticks>>

\* s.resolver.Close(): s.cancelFn().
CloseResolverCancel(c) ==
    /\ cpc[c] = "resCancel"
    /\ resCancelled' = TRUE
    /\ cpc' = [cpc EXCEPT ![c] = "resWait"]
    /\ UNCHANGED <<opened, db, latchClosed, latchAlive, resAlive,
                   resChClosed, gcCancelled, gcAlive, gcSchedAlive,
                   timerArmed, ticks>>

\* s.wg.Wait(); then r.close() of every resolver (guarded by r.closed).
CloseResolverWait(c) ==
    /\ cpc[c] = "resWait" /\ resAlive = 0
    /\ resChClosed' = TRUE
    /\ cpc' = [cpc EXCEPT ![c] = "gcCancel"]
    /\ UNCHANGED <<opened, db, latchClosed, latchAlive, resCancelled,
                   resAlive, gcCancelled, gcAlive, gcSchedAlive, timerArmed,
                   ticks>>

\* s.gcManager.Close(): m.cancelFn().
CloseGCCancel(c) ==
    /\ cpc[c] = "gcCancel"
    /\ gcCancelled' = TRUE
    /\ cpc' = [cpc EXCEPT ![c] = "gcWait"]
    /\ UNCHANGED <<opened, db, latchClosed, latchAlive, resCancelled,
                   resAlive, resChClosed, gcAlive, gcSchedAlive, timerArmed,
                   ticks>>

\* Mutant: Manager.Close returns without m.wg.Wait().
GCWaitSkipped == TRUE

\* m.wg.Wait(): the workers and the scheduler have returned.
GCWaitDone == gcAlive = 0 /\ ~gcSchedAlive

CloseGCWait(c) ==
    /\ cpc[c] = "gcWait" /\ GCWaitDone
    /\ cpc' = [cpc EXCEPT ![c] = "db"]
    /\ UNCHANGED <<opened, db, latchClosed, latchAlive, resCancelled,
                   resAlive, resChClosed, gcCancelled, gcAlive,
                   gcSchedAlive, timerArmed, ticks>>

\* if s.db != nil { return s.db.Close() }: a second Close panics.
CloseDB(c) ==
    /\ cpc[c] = "db"
    /\ db' = "closed"
    /\ cpc' = [cpc EXCEPT ![c] = IF db = "closed" THEN "panicked" ELSE "done"]
    /\ UNCHANGED <<opened, latchClosed, latchAlive, resCancelled, resAlive,
                   resChClosed, gcCancelled, gcAlive, gcSchedAlive,
                   timerArmed, ticks>>

CloseStep(c) ==
    \/ CloseResolverCancel(c) \/ CloseResolverWait(c) \/ CloseGCCancel(c)
    \/ CloseGCWait(c) \/ CloseDB(c)

Background == LatchExit \/ ResolverExit \/ GCWorkerExit \/ GCSchedExit

\* No call is in progress and no goroutine can move: the storage is closed
\* and its goroutines have exited, or it is open, waiting for calls, with a
\* GC scheduler whose timer has fired.
Quiescent ==
    /\ opened
    /\ \A c \in Closers : cpc[c] \in {"idle", "done", "panicked"}
    /\ ~(latchAlive /\ latchClosed)
    /\ ~(resAlive > 0 /\ resCancelled)
    /\ ~(gcAlive > 0 /\ gcCancelled)
    /\ ~(gcSchedAlive /\ (timerArmed \/ gcCancelled))

Next ==
    \/ Open \/ Background \/ GCTick
    \/ \E c \in Closers : CloseLatches(c) \/ CloseStep(c)
    \/ Quiescent /\ UNCHANGED vars

\* Open and Close are calls the user may make; a goroutine that is running
\* keeps running, and a timer that is armed fires.
Spec ==
    Init /\ [][Next]_vars
         /\ WF_vars(Background) /\ WF_vars(GCTick)
         /\ \A c \in Closers : WF_vars(CloseStep(c))

-----------------------------------------------------------------------------
(* Properties.                                                             *)

\* The pebble DB is closed only after every goroutine that holds it has
\* returned: the resolver workers (they write batches) and the GC workers
\* and scheduler.  storage.Close relies on the order of its calls and on
\* each service's Close waiting for its goroutines.
DBOutlivesWorkers ==
    db = "closed" => resAlive = 0 /\ gcAlive = 0 /\ ~gcSchedAlive

\* Once a call of storage.Close has begun, the storage ends shut down:
\* the latch schedule goroutine, the resolver workers, the GC workers and
\* the GC scheduler have all returned and the pebble DB is closed, however
\* the calls of two closers and the goroutines' exits interleave.  Each
\* service's Close cancels before it waits.
CloseDrains ==
    \A c \in Closers :
        cpc[c] # "idle" ~> /\ ~latchAlive /\ resAlive = 0 /\ gcAlive = 0
                           /\ ~gcSchedAlive /\ db = "closed"

\* Spec 5: "Close() must be idempotent".  No call of storage.Close
\* panics, the second of two included: the latch scheduler and the
\* resolvers guard their close with a closed flag, but db.Close runs again.
CloseIdempotent ==
    \A c \in Closers : cpc[c] # "panicked"

=============================================================================
