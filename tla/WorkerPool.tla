------------------------------ MODULE WorkerPool ------------------------------
(***************************************************************************)
(* The executor's worker pool: an asyncio.Semaphore of MaxWorkers permits   *)
(* in front of CapabilityAdapter.safe_execute, and a shutdown that is       *)
(* supposed to drain it.                                                    *)
(*                                                                          *)
(* Everything a coroutine does between two suspension points is one action. *)
(* The semaphore is asyncio's: a released permit is handed to the oldest    *)
(* waiter, which runs only when the event loop next schedules it.  The      *)
(* adapter's own work is a separate process, because an adapter that does   *)
(* its I/O in asyncio.to_thread keeps going when its coroutine is cancelled *)
(* by wait_for.                                                             *)
(***************************************************************************)
EXTENDS Integers, Sequences, FiniteSets, Requests

CONSTANTS
  Detached,    \* those whose adapter works in a thread that wait_for cannot stop
  MaxWorkers   \* worker_pool.max_workers

ASSUME PoolAssumption ==
  /\ MaxWorkers \in Nat \ {0}
  /\ Detached \subseteq Req

VARIABLES
  phase,     \* where each submit() call is
  permits,   \* Semaphore._value
  granted,   \* woken waiters that hold a permit and have not run yet, oldest first
  waiting,   \* waiters whose future is not done, oldest first
  active,    \* WorkerPool._active_count
  shut,      \* WorkerPool._is_shutdown
  drained,   \* WorkerPool._shutdown_event
  closer,    \* the coroutine of shutdown()
  work       \* what the adapter's execute() has done

poolVars == <<phase, permits, granted, waiting, active, shut, drained, closer, work>>
queueVars == <<permits, granted, waiting>>
closeVars == <<shut, drained, closer>>

Phase == {"new", "queued", "running", "ok", "failed", "refused", "killed"}
Work == {"none", "busy", "effected", "stopped"}

PoolTypeOK ==
  /\ phase \in [Req -> Phase]
  /\ permits \in 0..MaxWorkers
  /\ granted \in Seq(Req)
  /\ waiting \in Seq(Req)
  /\ active \in 0..MaxWorkers
  /\ shut \in BOOLEAN
  /\ drained \in BOOLEAN
  /\ closer \in {"idle", "waiting", "returned", "timed_out"}
  /\ work \in [Req -> Work]

PoolInit ==
  /\ phase = [t \in Req |-> "new"]
  /\ permits = MaxWorkers
  /\ granted = <<>>
  /\ waiting = <<>>
  /\ active = 0
  /\ shut = FALSE
  /\ drained = FALSE
  /\ closer = "idle"
  /\ work = [t \in Req |-> "none"]

-------------------------------------------------------------------------------
(* submit() *)

\* asyncio.Semaphore.locked(): no permit, or someone is ahead in the queue.
Locked == permits = 0 \/ granted # <<>> \/ waiting # <<>>

\* The body of `async with self._semaphore` up to the first suspension inside
\* safe_execute: the counter goes up and the adapter starts.
StartAdapter(t) ==
  /\ phase' = [phase EXCEPT ![t] = "running"]
  /\ active' = active + 1
  /\ work' = [work EXCEPT ![t] = "busy"]

\* _is_shutdown is read once, before the semaphore is awaited.
SubmitRefused(t) ==
  /\ phase[t] = "new" /\ shut
  /\ phase' = [phase EXCEPT ![t] = "refused"]
  /\ UNCHANGED <<queueVars, active, work, closeVars>>

SubmitNow(t) ==
  /\ phase[t] = "new" /\ ~shut /\ ~Locked
  /\ permits' = permits - 1
  /\ StartAdapter(t)
  /\ UNCHANGED <<granted, waiting, closeVars>>

SubmitQueued(t) ==
  /\ phase[t] = "new" /\ ~shut /\ Locked
  /\ phase' = [phase EXCEPT ![t] = "queued"]
  /\ waiting' = Append(waiting, t)
  /\ UNCHANGED <<permits, granted, active, work, closeVars>>

\* A woken waiter leaves the queue, passes any permit that is still free on to
\* the waiters behind it, and starts its adapter.  _is_shutdown is not read again.
Resume(t) ==
  /\ granted # <<>> /\ t = Head(granted)
  /\ LET k == IF permits < Len(waiting) THEN permits ELSE Len(waiting)
     IN /\ permits' = permits - k
        /\ granted' = Tail(granted) \o SubSeq(waiting, 1, k)
        /\ waiting' = SubSeq(waiting, k + 1, Len(waiting))
  /\ StartAdapter(t)
  /\ UNCHANGED closeVars

-------------------------------------------------------------------------------
(* safe_execute() and the adapter *)

\* The adapter performs its action on the outside world.
WorkEffects(t) ==
  /\ work[t] = "busy"
  /\ work' = [work EXCEPT ![t] = "effected"]
  /\ UNCHANGED <<phase, queueVars, active, closeVars>>

\* The adapter raises, or returns a failure, without having performed it.
WorkFails(t) ==
  /\ work[t] = "busy"
  /\ work' = [work EXCEPT ![t] = "stopped"]
  /\ UNCHANGED <<phase, queueVars, active, closeVars>>

\* Mutant: the permit is never given back.
ReleaseNever == UNCHANGED queueVars

\* Semaphore.release(): the permit goes to the oldest waiter, if there is one.
Release ==
  IF waiting = <<>>
  THEN permits' = permits + 1 /\ UNCHANGED <<granted, waiting>>
  ELSE /\ granted' = Append(granted, Head(waiting))
       /\ waiting' = Tail(waiting)
       /\ UNCHANGED permits

\* Mutant: _active_count is decremented on the success path only.
LeavePoolUncounted(t, outcome) ==
  /\ phase[t] = "running"
  /\ phase' = [phase EXCEPT ![t] = outcome]
  /\ active' = IF outcome = "ok" THEN active - 1 ELSE active
  /\ drained' = (drained \/ (active = 1 /\ shut))
  /\ Release
  /\ UNCHANGED <<shut, closer>>

\* Mutant: the count is tested before it is decremented, so the last call to
\* leave does not set the event.
LeavePoolSilent(t, outcome) ==
  /\ phase[t] = "running"
  /\ phase' = [phase EXCEPT ![t] = outcome]
  /\ active' = active - 1
  /\ drained' = (drained \/ (active = 0 /\ shut))
  /\ Release
  /\ UNCHANGED <<shut, closer>>

\* submit() leaves through its finally block and the semaphore's __aexit__.
LeavePool(t, outcome) ==
  /\ phase[t] = "running"
  /\ phase' = [phase EXCEPT ![t] = outcome]
  /\ active' = active - 1
  /\ drained' = (drained \/ (active = 1 /\ shut))
  /\ Release
  /\ UNCHANGED <<shut, closer>>

ReturnSuccess(t) ==
  /\ work[t] = "effected"
  /\ LeavePool(t, "ok")
  /\ UNCHANGED work

ReturnFailure(t) ==
  /\ work[t] = "stopped"
  /\ LeavePool(t, "failed")
  /\ UNCHANGED work

\* wait_for gives up.  The coroutine is cancelled; a thread it started is not.
\* The timer can fire just after the work was done and before its result was
\* handed over, so the state of the work does not matter.
Timeout(t) ==
  /\ LeavePool(t, "failed")
  /\ work' = IF work[t] = "busy" /\ t \notin Detached
             THEN [work EXCEPT ![t] = "stopped"]
             ELSE work

-------------------------------------------------------------------------------
(* shutdown() *)

ShutdownCalled ==
  /\ closer = "idle"
  /\ shut' = TRUE
  /\ closer' = IF active > 0 THEN "waiting" ELSE "returned"
  /\ UNCHANGED <<phase, queueVars, active, drained, work>>

ShutdownReturns ==
  /\ closer = "waiting" /\ drained
  /\ closer' = "returned"
  /\ UNCHANGED <<phase, queueVars, active, shut, drained, work>>

ShutdownTimesOut ==
  /\ closer = "waiting"
  /\ closer' = "timed_out"
  /\ UNCHANGED <<phase, queueVars, active, shut, drained, work>>

-------------------------------------------------------------------------------
PoolNext ==
  \/ \E t \in Req :
       \/ SubmitRefused(t) \/ SubmitNow(t) \/ SubmitQueued(t) \/ Resume(t)
       \/ WorkEffects(t) \/ WorkFails(t)
       \/ ReturnSuccess(t) \/ ReturnFailure(t) \/ Timeout(t)
  \/ ShutdownCalled \/ ShutdownReturns \/ ShutdownTimesOut

PoolSpec == PoolInit /\ [][PoolNext]_poolVars

\* The event loop runs every coroutine that is ready, the timer of wait_for
\* bounds every adapter call.  Callers need not submit, nobody need call
\* shutdown(), and its own timer is not relied on.
PoolFairness ==
  /\ \A t \in Req : WF_poolVars(Resume(t))
  /\ \A t \in Req : WF_poolVars(ReturnSuccess(t) \/ ReturnFailure(t) \/ Timeout(t))
  /\ WF_poolVars(ShutdownReturns)

PoolFairSpec == PoolSpec /\ PoolFairness

-------------------------------------------------------------------------------
(* Properties *)

Running == {t \in Req : phase[t] = "running"}

\* "At most max_workers adapters execute concurrently": no more submit() calls
\* than MaxWorkers are between the semaphore's acquire and its release, however
\* permits travel between releases, woken waiters and late arrivals.
ConcurrencyBound == Cardinality(Running) <= MaxWorkers

\* A permit is never lost or duplicated: it is free, or travelling to a woken
\* waiter, or held by a running call, and _active_count counts the latter.
PermitsConserved ==
  /\ permits + Len(granted) + active = MaxWorkers
  /\ active = Cardinality(Running)

\* Together, at every moment, however calls, releases and the shutdown interleave.
PoolSafe == PoolTypeOK /\ ConcurrencyBound /\ PermitsConserved

\* Every call that entered the queue is eventually answered, whatever adapters
\* hang or fail in front of it and whether or not the pool is being shut down.
QueuedIsAnswered ==
  \A t \in Req : phase[t] = "queued" ~> phase[t] \in {"ok", "failed"}

\* A call of shutdown() that had to wait is woken: the last call to leave sets
\* the event.  (Its ten-second timer may fire first; nothing relies on it.)
ShutdownAnswered == closer = "waiting" ~> closer \in {"returned", "timed_out"}

\* Both: no one who waits on the pool is forgotten by those who leave it.
WaitersAnswered == QueuedIsAnswered /\ ShutdownAnswered
===============================================================================
