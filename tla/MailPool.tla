-------------------------------- MODULE MailPool --------------------------------
(***************************************************************************)
(* The IMAP connections of one account in one process.  A provider hands    *)
(* out connections under permits, keeps the idle ones for the next borrower *)
(* and, when it is closed, makes room for another provider.  Whatever       *)
(* blocks, a LOGIN, a NOOP or the command of a borrower, runs in a worker   *)
(* thread, which a borrower that is cancelled leaves to itself.             *)
(*                                                                          *)
(* The daemon stops by closing its provider and the connections that wait   *)
(* for mail, and cancels after a while what still runs.  An operation of    *)
(* the executor's client is cancelled by the timeout of its adapter.        *)
(***************************************************************************)
EXTENDS Naturals, Sequences, FiniteSets, SequencesExt

CONSTANTS
  Borrower,    \* the tasks that use connections
  Waiter,      \* those whose connection waits for mail, known to request_stop
  Twice,       \* those that borrow again without a look at the stop event
  MaxConns,    \* DEFAULT_MAX_CONNS
  Retries,     \* CONNECT_MAX_RETRIES - 1
  MaxFaults    \* refusals, lost connections and cancelled borrowers

ASSUME PoolAssumption ==
  /\ IsFiniteSet(Borrower) /\ Waiter \subseteq Borrower /\ Twice \subseteq Borrower
  /\ MaxConns \in Nat \ {0} /\ Retries \in Nat /\ MaxFaults \in Nat

VARIABLES
  conns,    \* the connections, a number for each that somebody has
  pool,     \* the provider before and after the stop: permits, idle, waiters
  task,     \* what each borrower does
  stop,     \* the stop event
  faults

vars == <<conns, pool, task, stop, faults>>

\* As many as two providers have and cancelled borrowers lose.
Conn == 1..(2 * MaxConns + MaxFaults)
NoConn == [at |-> "none", of |-> "first", tries |-> 0, lost |-> FALSE]
Provider == {"first", "second"}   \* only a stop closes one, and it comes once
Live(c) == conns[c].at \in {"login", "open"}

Off(again) == [at |-> "off", of |-> "first", conn |-> 0, again |-> again]
Done == [at |-> "done", of |-> "first", conn |-> 0, again |-> FALSE]

Init ==
  /\ conns = [c \in Conn |-> NoConn]
  /\ pool = [p \in Provider |-> [free |-> MaxConns, idle |-> <<>>, wait |-> <<>>]]
  /\ task = [t \in Borrower |-> Off(FALSE)]
  /\ stop = FALSE /\ faults = 0

PoolTypeOK ==
  /\ conns \in [Conn -> [at : {"none", "login", "open", "closed"}, of : Provider,
                         tries : 0..Retries, lost : BOOLEAN]]
  /\ \A p \in Provider :
       /\ pool[p].free \in 0..MaxConns
       /\ pool[p].idle \in Seq(Conn) /\ pool[p].wait \in Seq(Borrower)
  /\ task \in [Borrower -> [at : {"off", "waiting", "checking", "login", "using", "done"},
                            of : Provider, conn : {0} \cup Conn, again : BOOLEAN]]
  /\ stop \in BOOLEAN /\ faults \in 0..MaxFaults

-------------------------------------------------------------------------------
(* connection(): the pieces between two awaits *)

\* get_provider: a closed one is replaced.
Current == IF stop THEN "second" ELSE "first"
Closed(p) == p = "first" /\ stop

\* The connections when c is closed and nobody has it.
Without(c) == [conns EXCEPT ![c] = NoConn]

\* The number the next connection gets: the least one that none has.
Unused(cs) ==
  {c \in Conn : cs[c].at = "none" /\ \A n \in Conn : cs[n].at = "none" => c <= n}

\* _get_or_create by t with the permit in hand: the oldest idle connection is
\* checked, a new one made if there is none.
GetOrCreate(t, p, cs, ps) ==
  IF ps[p].idle # <<>>
  THEN /\ conns' = cs
       /\ pool' = [ps EXCEPT ![p].idle = Tail(@)]
       /\ task' = [task EXCEPT ![t].at = "checking", ![t].of = p, ![t].conn = Head(ps[p].idle)]
  ELSE \E c \in Unused(cs) :
         /\ conns' = [cs EXCEPT ![c] = [at |-> "login", of |-> p, tries |-> 0, lost |-> FALSE]]
         /\ pool' = ps
         /\ task' = [task EXCEPT ![t].at = "login", ![t].of = p, ![t].conn = c]

\* The permit goes back: it wakes the borrower that waits the longest, or is free.
Released(ps, p) == [ps EXCEPT ![p].free = @ + 1]

\* The end of t's with block.  A Twice borrower borrows again, once.
Over(t) ==
  task' = [task EXCEPT ![t] = IF t \in Twice /\ ~task[t].again THEN Off(TRUE)
                              ELSE IF stop THEN Done ELSE Off(FALSE)]

\* The caller asks for a connection.  Nobody starts anew after the stop.
Borrow(t) ==
  /\ task[t].at = "off" /\ (~stop \/ task[t].again)
  /\ LET p == Current IN
     IF pool[p].free > 0 /\ pool[p].wait = <<>>
     THEN GetOrCreate(t, p, conns, [pool EXCEPT ![p].free = @ - 1])
     ELSE /\ pool' = [pool EXCEPT ![p].wait = Append(@, t)]
          /\ task' = [task EXCEPT ![t].at = "waiting", ![t].of = p]
          /\ UNCHANGED conns
  /\ UNCHANGED <<stop, faults>>

\* A loop whose condition is the stop event ends.
Ends(t) ==
  /\ task[t].at = "off" /\ stop /\ ~task[t].again
  /\ task' = [task EXCEPT ![t] = Done]
  /\ UNCHANGED <<conns, pool, stop, faults>>

\* The semaphore wakes its first waiter.
Woken(t) ==
  /\ task[t].at = "waiting"
  /\ LET p == task[t].of IN
     /\ pool[p].free > 0 /\ pool[p].wait # <<>> /\ Head(pool[p].wait) = t
     /\ GetOrCreate(t, p, conns, [pool EXCEPT ![p].free = @ - 1, ![p].wait = Tail(@)])
  /\ UNCHANGED <<stop, faults>>

\* _health_check: a NOOP answers on an open connection.
Healthy(t) ==
  /\ task[t].at = "checking" /\ conns[task[t].conn].at = "open"
  /\ task' = [task EXCEPT ![t].at = "using"]
  /\ UNCHANGED <<conns, pool, stop, faults>>

\* It does not: the connection is destroyed, and the next one tried.
Unhealthy(t) ==
  /\ task[t].at = "checking" /\ faults < MaxFaults
  /\ faults' = faults + 1
  /\ GetOrCreate(t, task[t].of, Without(task[t].conn), pool)
  /\ UNCHANGED stop

\* _create_sync: LOGIN is accepted, for a borrower or for none.
LoggedIn(c) ==
  /\ conns[c].at = "login"
  /\ conns' = [conns EXCEPT ![c].at = "open"]
  /\ task' = [t \in Borrower |->
                IF task[t].at = "login" /\ task[t].conn = c THEN [task[t] EXCEPT !.at = "using"] ELSE task[t]]
  /\ UNCHANGED <<pool, stop, faults>>

\* Too many simultaneous connections: the socket is closed and another opened.
TooMany(c) ==
  /\ conns[c].at = "login" /\ conns[c].tries < Retries /\ faults < MaxFaults
  /\ faults' = faults + 1
  /\ conns' = [conns EXCEPT ![c].tries = @ + 1]
  /\ UNCHANGED <<pool, task, stop>>

\* Any other refusal, or the last: the with block raises.
Refused(c) ==
  /\ conns[c].at = "login" /\ faults < MaxFaults
  /\ faults' = faults + 1
  /\ conns' = Without(c)
  /\ IF conns[c].lost THEN UNCHANGED <<pool, task>>
     ELSE \E t \in Borrower :
            /\ task[t].at = "login" /\ task[t].conn = c
            /\ pool' = Released(pool, conns[c].of) /\ Over(t)
  /\ UNCHANGED stop

\* Mutant: a connection goes back to the pool it came from, closed or not.
AlwaysReturned(p, c) == [pool EXCEPT ![p].idle = Append(@, c)]

\* _return_or_destroy: the pool with c back in it.  The queue has a place for
\* every permit.
Returned(p, c) == IF Closed(p) THEN pool ELSE [pool EXCEPT ![p].idle = Append(@, c)]

\* The block ends.
Returns(t) ==
  /\ task[t].at = "using" /\ conns[task[t].conn].at = "open"
  /\ LET c == task[t].conn p == task[t].of back == Returned(p, c) IN
     /\ conns' = IF back = pool THEN Without(c) ELSE conns
     /\ pool' = Released(back, p)
  /\ Over(t)
  /\ UNCHANGED <<stop, faults>>

\* The block raises, because the connection was closed under it or was lost.
Raises(t) ==
  /\ task[t].at = "using"
  /\ IF conns[task[t].conn].at = "open" THEN faults < MaxFaults /\ faults' = faults + 1
     ELSE UNCHANGED faults
  /\ conns' = Without(task[t].conn)
  /\ pool' = Released(pool, task[t].of)
  /\ Over(t)
  /\ UNCHANGED stop

\* A borrower that is cancelled before it has a permit leaves the queue.
CancelWaiting(t) ==
  /\ task[t].at = "waiting"
  /\ LET p == task[t].of IN
     \E i \in DOMAIN pool[p].wait :
       /\ pool[p].wait[i] = t
       /\ pool' = [pool EXCEPT ![p].wait = RemoveAt(@, i)]
  /\ UNCHANGED conns

\* In the block the connection is destroyed; while it is checked or made, nobody
\* has it any more.
Given(t) ==
  LET c == task[t].conn IN
  conns' = IF task[t].at = "using" THEN Without(c) ELSE [conns EXCEPT ![c].lost = TRUE]

\* Mutant: what a borrower that is cancelled leaves behind is a permit too few.
CancelKeeps(t) ==
  /\ task[t].at \in {"checking", "login", "using"}
  /\ Given(t)
  /\ UNCHANGED pool

CancelInside(t) ==
  /\ task[t].at \in {"checking", "login", "using"}
  /\ Given(t)
  /\ pool' = Released(pool, task[t].of)

\* The borrower is cancelled at its await.
Cancel(t) ==
  /\ faults < MaxFaults
  /\ faults' = faults + 1
  /\ CancelWaiting(t) \/ CancelInside(t)
  /\ task' = [task EXCEPT ![t] = Done]
  /\ UNCHANGED stop

\* request_stop: the sockets that wait for mail and the idle ones are closed.
RequestStop ==
  /\ ~stop /\ stop' = TRUE
  /\ LET waitingForMail == {task[t].conn : t \in {u \in Waiter : task[u].at = "using"}} IN
     conns' = [c \in Conn |-> IF c \in waitingForMail THEN [conns[c] EXCEPT !.at = "closed"]
                              ELSE IF c \in ToSet(pool["first"].idle) THEN NoConn ELSE conns[c]]
  /\ pool' = [pool EXCEPT !["first"].idle = <<>>]
  /\ UNCHANGED <<task, faults>>

Next ==
  \/ \E t \in Borrower :
       \/ Borrow(t) \/ Ends(t) \/ Woken(t) \/ Healthy(t) \/ Unhealthy(t)
       \/ Returns(t) \/ Raises(t) \/ Cancel(t)
  \/ \E c \in Conn : LoggedIn(c) \/ TooMany(c) \/ Refused(c)
  \/ RequestStop

\* A thread ends, and a borrower gives its connection back at last.
Fair ==
  /\ \A t \in Borrower : WF_vars(Woken(t)) /\ WF_vars(Healthy(t) \/ Unhealthy(t))
                         /\ WF_vars(Returns(t) \/ Raises(t))
  /\ \A c \in Conn : WF_vars(LoggedIn(c) \/ Refused(c))

Spec == Init /\ [][Next]_vars
FairSpec == Spec /\ Fair

-------------------------------------------------------------------------------
(* Properties *)

\* "enforces a per-account concurrency cap": the connections of a provider, those
\* apart that a cancelled borrower left in the middle of their login or check.
CapHolds ==
  \A p \in Provider :
    Cardinality({c \in Conn : Live(c) /\ conns[c].of = p /\ ~conns[c].lost}) <= MaxConns

\* "guarantees no zombie TCP connections": whoever is open is in a pool that is
\* not closed, has a borrower, or lost it to a cancel.
NoZombies ==
  \A c \in Conn :
    conns[c].at = "open" /\ ~conns[c].lost =>
      \/ ~Closed(conns[c].of) /\ c \in ToSet(pool[conns[c].of].idle)
      \/ \E t \in Borrower : task[t].conn = c /\ task[t].at \in {"checking", "using"}

\* The provider keeps its promises: permits and queues of their types, no more
\* connections than its cap and none without an owner.
ConnsSafe == PoolTypeOK /\ CapHolds /\ NoZombies

\* Nobody waits for ever: whoever ends its use, fails or is cancelled makes room
\* for the next, before and after the stop.
BorrowEnds == \A t \in Borrower : task[t].at = "waiting" ~> task[t].at # "waiting"
===============================================================================
