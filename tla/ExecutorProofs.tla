---------------------------- MODULE ExecutorProofs ----------------------------
(***************************************************************************)
(* The executor's safety for every set of requests, adapters, rollback ids  *)
(* and worker permits, and any number of faults and restarts.               *)
(*                                                                          *)
(* First the worker pool on its own, a conservation law: free permits,      *)
(* permits on their way to a woken waiter, and running calls add up to      *)
(* MaxWorkers.  It needs to know that whoever is in the queue is not        *)
(* running, and is there once: otherwise a call could be resumed twice and  *)
(* hold one permit too few.                                                 *)
(*                                                                          *)
(* Then the service, whose one inductive invariant carries all of it.       *)
(* ServiceTypes and PoolInd are type correctness and the pool's own         *)
(* invariant; Handlers ties the program counter of each handler to what the *)
(* pool has done for it, to the entry it has built and to the rows it has   *)
(* in the table.                                                            *)
(***************************************************************************)
EXTENDS ExecutorProperties, FiniteSetTheorems, SequenceTheorems, TLAPS

\* The semaphore's deque: woken waiters first, then the ones still waiting.
Queue == granted \o waiting

PoolTypes ==
  /\ phase \in [Req -> Phase]
  /\ permits \in Nat
  /\ granted \in Seq(Req)
  /\ waiting \in Seq(Req)
  /\ active \in Nat
  /\ shut \in BOOLEAN
  /\ drained \in BOOLEAN
  /\ closer \in {"idle", "waiting", "returned", "timed_out"}
  /\ work \in [Req -> Work]

\* Who is in the queue is there once, and its call is suspended.
QueueOK ==
  /\ \A i \in 1..Len(Queue) : phase[Queue[i]] = "queued"
  /\ \A i, j \in 1..Len(Queue) : Queue[i] = Queue[j] => i = j

PoolInd ==
  /\ PoolTypes
  /\ IsFiniteSet(Running)
  /\ PermitsConserved
  /\ QueueOK

-------------------------------------------------------------------------------
(* The deque *)

\* Handing permits to the first k waiters and dropping the head of the woken
\* ones drops the head of the deque (Resume).
LEMMA QueueTail ==
  ASSUME NEW S, NEW g \in Seq(S), NEW w \in Seq(S), g # <<>>, NEW k \in 0..Len(w)
  PROVE  /\ Tail(g) \o SubSeq(w, 1, k) \in Seq(S)
         /\ SubSeq(w, k + 1, Len(w)) \in Seq(S)
         /\ Len(Tail(g) \o SubSeq(w, 1, k)) = Len(g) - 1 + k
         /\ (Tail(g) \o SubSeq(w, 1, k)) \o SubSeq(w, k + 1, Len(w)) = Tail(g \o w)
<1> DEFINE a == Tail(g)
           b == SubSeq(w, 1, k)
           c == SubSeq(w, k + 1, Len(w))
<1>1. /\ Len(g) \in Nat /\ Len(w) \in Nat
      /\ \A i \in 1..Len(w) : w[i] \in S
  BY LenProperties, ElementOfSeq
<1>2. /\ a \in Seq(S) /\ Len(a) = Len(g) - 1
      /\ \A i \in 1..Len(a) : a[i] = g[i + 1]
  BY HeadTailProperties
<1>3. /\ b \in Seq(S) /\ Len(b) = k
      /\ \A i \in 1..k : b[i] = w[i]
  BY <1>1, SubSeqProperties
<1>4. /\ c \in Seq(S) /\ Len(c) = Len(w) - k
      /\ \A i \in 1..(Len(w) - k) : c[i] = w[k + i]
  BY <1>1, SubSeqProperties
<1>5. /\ a \o b \in Seq(S) /\ Len(a \o b) = Len(g) - 1 + k
      /\ \A i \in 1..(Len(g) - 1 + k) :
           (a \o b)[i] = IF i <= Len(g) - 1 THEN a[i] ELSE b[i - (Len(g) - 1)]
  <2>1. a \in Seq(S) /\ b \in Seq(S) /\ Len(a) = Len(g) - 1 /\ Len(b) = k
    BY <1>2, <1>3
  <2> HIDE DEF a, b
  <2>2. /\ a \o b \in Seq(S) /\ Len(a \o b) = Len(a) + Len(b)
        /\ \A i \in 1..(Len(a) + Len(b)) :
             (a \o b)[i] = IF i <= Len(a) THEN a[i] ELSE b[i - Len(a)]
    BY <2>1, ConcatProperties
  <2> QED BY <2>1, <2>2
<1>6. /\ (a \o b) \o c \in Seq(S) /\ Len((a \o b) \o c) = Len(g) - 1 + Len(w)
      /\ \A i \in 1..(Len(g) - 1 + Len(w)) :
           ((a \o b) \o c)[i] = IF i <= Len(g) - 1 + k THEN (a \o b)[i]
                                ELSE c[i - (Len(g) - 1 + k)]
  <2> DEFINE ab == a \o b
  <2> HIDE DEF a, b, c, ab
  <2>1. ab \in Seq(S) /\ Len(ab) = Len(g) - 1 + k
    BY <1>5 DEF ab
  <2>2. /\ ab \o c \in Seq(S) /\ Len(ab \o c) = Len(ab) + Len(c)
        /\ \A i \in 1..(Len(ab) + Len(c)) :
             (ab \o c)[i] = IF i <= Len(ab) THEN ab[i] ELSE c[i - Len(ab)]
    BY <2>1, <1>4, ConcatProperties
  <2>3. Len(ab) + Len(c) = Len(g) - 1 + Len(w)
    BY <1>1, <1>4, <2>1
  <2> QED BY <2>1, <2>2, <2>3 DEF ab
<1>7. /\ g \o w \in Seq(S) /\ Len(g \o w) = Len(g) + Len(w)
      /\ \A i \in 1..(Len(g) + Len(w)) :
           (g \o w)[i] = IF i <= Len(g) THEN g[i] ELSE w[i - Len(g)]
  BY ConcatProperties
<1>8. g \o w # <<>>
  BY <1>1, <1>7, EmptySeq
<1>9. /\ Tail(g \o w) \in Seq(S) /\ Len(Tail(g \o w)) = Len(g) - 1 + Len(w)
      /\ \A i \in 1..(Len(g) - 1 + Len(w)) : Tail(g \o w)[i] = (g \o w)[i + 1]
  BY <1>1, <1>7, <1>8, HeadTailProperties
<1>10. Len(g) >= 1
  BY <1>1, EmptySeq
<1>11. \A i \in 1..(Len(g) - 1 + Len(w)) : ((a \o b) \o c)[i] = Tail(g \o w)[i]
  <2> HIDE DEF a, b, c
  <2> SUFFICES ASSUME NEW i \in 1..(Len(g) - 1 + Len(w))
               PROVE  ((a \o b) \o c)[i] = Tail(g \o w)[i]
    OBVIOUS
  <2>1. Tail(g \o w)[i] = IF i + 1 <= Len(g) THEN g[i + 1] ELSE w[i + 1 - Len(g)]
    BY <1>1, <1>7, <1>9
  <2>2. CASE i <= Len(g) - 1
    BY <2>1, <2>2, <1>1, <1>2, <1>5, <1>6
  <2>3. CASE i > Len(g) - 1 /\ i <= Len(g) - 1 + k
    BY SMTT(30), <2>1, <2>3, <1>1, <1>3, <1>5, <1>6, <1>10
  <2>4. CASE i > Len(g) - 1 + k
    <3> DEFINE j == i - (Len(g) - 1 + k)
    <3>1. j \in 1..(Len(w) - k) /\ k + j = i + 1 - Len(g) /\ ~(i + 1 <= Len(g))
      BY <2>4, <1>1, <1>10
    <3>2. c[j] = w[k + j]
      BY <3>1, <1>4
    <3>3. ~(i <= Len(g) - 1 + k)
      BY <2>4, <1>1
    <3>4. ((a \o b) \o c)[i] = c[j]
      BY ONLY <3>3, <1>6, i \in 1..(Len(g) - 1 + Len(w)), SMTT(30)
    <3> QED BY <2>1, <3>1, <3>2, <3>4
  <2>5. \/ i <= Len(g) - 1
        \/ i > Len(g) - 1 /\ i <= Len(g) - 1 + k
        \/ i > Len(g) - 1 + k
    BY <1>1, <1>10
  <2> QED BY <2>2, <2>3, <2>4, <2>5, Zenon
<1>12. (a \o b) \o c = Tail(g \o w)
  <2> DEFINE l == (a \o b) \o c
             r == Tail(g \o w)
  <2>1. l \in Seq(S) /\ r \in Seq(S) /\ Len(l) = Len(r)
    BY <1>6, <1>9
  <2>2. \A i \in 1..Len(l) : l[i] = r[i]
    BY <1>6, <1>11
  <2> HIDE DEF l, r
  <2>3. l = r
    BY <2>1, <2>2, SeqEqual
  <2> QED BY <2>3 DEF l, r
<1> QED BY <1>4, <1>5, <1>12

\* Handing the permit to the oldest waiter leaves the deque as it is (Release).
LEMMA QueueHandOver ==
  ASSUME NEW S, NEW g \in Seq(S), NEW w \in Seq(S), w # <<>>
  PROVE  /\ Append(g, Head(w)) \in Seq(S) /\ Tail(w) \in Seq(S)
         /\ Len(Append(g, Head(w))) = Len(g) + 1
         /\ Append(g, Head(w)) \o Tail(w) = g \o w
<1>1. /\ Len(g) \in Nat /\ Len(w) \in Nat /\ Len(w) >= 1
  BY LenProperties, EmptySeq
<1>2. /\ Head(w) \in S /\ Head(w) = w[1]
      /\ Tail(w) \in Seq(S) /\ Len(Tail(w)) = Len(w) - 1
      /\ \A i \in 1..(Len(w) - 1) : Tail(w)[i] = w[i + 1]
  BY HeadTailProperties
<1> DEFINE a == Append(g, Head(w))
           b == Tail(w)
<1>3. /\ a \in Seq(S) /\ Len(a) = Len(g) + 1
      /\ \A i \in 1..Len(g) : a[i] = g[i]
      /\ a[Len(g) + 1] = w[1]
  BY <1>1, <1>2
<1>4. /\ a \o b \in Seq(S) /\ Len(a \o b) = Len(g) + Len(w)
      /\ \A i \in 1..(Len(g) + Len(w)) :
           (a \o b)[i] = IF i <= Len(g) + 1 THEN a[i] ELSE b[i - (Len(g) + 1)]
  <2>1. a \in Seq(S) /\ Len(a) = Len(g) + 1 /\ b \in Seq(S) /\ Len(b) = Len(w) - 1
    BY <1>2, <1>3
  <2> HIDE DEF a, b
  <2>2. /\ a \o b \in Seq(S) /\ Len(a \o b) = Len(a) + Len(b)
        /\ \A i \in 1..(Len(a) + Len(b)) :
             (a \o b)[i] = IF i <= Len(a) THEN a[i] ELSE b[i - Len(a)]
    BY <2>1, ConcatProperties
  <2>3. Len(a) + Len(b) = Len(g) + Len(w)
    BY <1>1, <2>1
  <2> QED BY <2>1, <2>2, <2>3
<1>5. /\ g \o w \in Seq(S) /\ Len(g \o w) = Len(g) + Len(w)
      /\ \A i \in 1..(Len(g) + Len(w)) :
           (g \o w)[i] = IF i <= Len(g) THEN g[i] ELSE w[i - Len(g)]
  BY ConcatProperties
<1>6. \A i \in 1..(Len(g) + Len(w)) : (a \o b)[i] = (g \o w)[i]
  <2>1. \A i \in 1..(Len(w) - 1) : b[i] = w[i + 1]
    BY <1>2
  <2> HIDE DEF a, b
  <2> SUFFICES ASSUME NEW i \in 1..(Len(g) + Len(w)) PROVE (a \o b)[i] = (g \o w)[i]
    OBVIOUS
  <2>2. CASE i <= Len(g)
    BY <2>2, <1>1, <1>3, <1>4, <1>5
  <2>3. CASE i = Len(g) + 1
    BY <2>3, <1>1, <1>3, <1>4, <1>5
  <2>4. CASE i > Len(g) + 1
    <3> DEFINE j == i - (Len(g) + 1)
    <3>1. j \in 1..(Len(w) - 1) /\ j + 1 = i - Len(g)
      BY <2>4, <1>1
    <3>2. b[j] = w[j + 1]
      BY <3>1, <2>1
    <3>3. (a \o b)[i] = b[j] /\ (g \o w)[i] = w[i - Len(g)]
      BY <2>4, <1>1, <1>4, <1>5
    <3> QED BY <3>1, <3>2, <3>3
  <2>5. i <= Len(g) \/ i = Len(g) + 1 \/ i > Len(g) + 1
    BY <1>1
  <2> QED BY <2>2, <2>3, <2>4, <2>5, Zenon
<1>7. a \o b = g \o w
  <2> DEFINE l == a \o b
             r == g \o w
  <2>1. l \in Seq(S) /\ r \in Seq(S) /\ Len(l) = Len(r) /\ \A i \in 1..Len(l) : l[i] = r[i]
    BY <1>4, <1>5, <1>6
  <2> HIDE DEF l, r
  <2>2. l = r
    BY <2>1, SeqEqual
  <2> QED BY <2>2 DEF l, r
<1> QED BY <1>2, <1>3, <1>7

\* A late arrival goes to the end of the deque (SubmitQueued).
LEMMA QueueAppend ==
  ASSUME NEW S, NEW g \in Seq(S), NEW w \in Seq(S), NEW t \in S
  PROVE  /\ Append(w, t) \in Seq(S)
         /\ g \o w \in Seq(S)
         /\ g \o Append(w, t) = Append(g \o w, t)
<1> DEFINE a == Append(w, t)
<1>1. Len(g) \in Nat /\ Len(w) \in Nat
  BY LenProperties
<1>2. /\ a \in Seq(S) /\ Len(a) = Len(w) + 1
      /\ \A i \in 1..Len(w) : a[i] = w[i]
      /\ a[Len(w) + 1] = t
  BY <1>1
<1>3. /\ g \o a \in Seq(S) /\ Len(g \o a) = Len(g) + Len(w) + 1
      /\ \A i \in 1..(Len(g) + Len(w) + 1) :
           (g \o a)[i] = IF i <= Len(g) THEN g[i] ELSE a[i - Len(g)]
  <2> HIDE DEF a
  <2>1. /\ g \o a \in Seq(S) /\ Len(g \o a) = Len(g) + Len(a)
        /\ \A i \in 1..(Len(g) + Len(a)) :
             (g \o a)[i] = IF i <= Len(g) THEN g[i] ELSE a[i - Len(g)]
    BY <1>2, ConcatProperties
  <2>2. Len(g) + Len(a) = Len(g) + Len(w) + 1
    BY <1>1, <1>2
  <2> QED BY <2>1, <2>2
<1>4. /\ g \o w \in Seq(S) /\ Len(g \o w) = Len(g) + Len(w)
      /\ \A i \in 1..(Len(g) + Len(w)) :
           (g \o w)[i] = IF i <= Len(g) THEN g[i] ELSE w[i - Len(g)]
  BY ConcatProperties
<1> DEFINE q == g \o w
           l == g \o a
           r == Append(q, t)
<1>5. /\ r \in Seq(S) /\ Len(r) = Len(g) + Len(w) + 1
      /\ \A i \in 1..(Len(g) + Len(w)) : r[i] = q[i]
      /\ r[Len(g) + Len(w) + 1] = t
  <2>1. q \in Seq(S) /\ Len(q) = Len(g) + Len(w)
    BY <1>4
  <2> HIDE DEF q
  <2> QED BY <1>1, <2>1
<1>6. \A i \in 1..(Len(g) + Len(w) + 1) : l[i] = r[i]
  <2>1. \A i \in 1..(Len(g) + Len(w)) : q[i] = IF i <= Len(g) THEN g[i] ELSE w[i - Len(g)]
    BY <1>4
  <2>2. \A i \in 1..(Len(g) + Len(w) + 1) : l[i] = IF i <= Len(g) THEN g[i] ELSE a[i - Len(g)]
    BY <1>3
  <2> HIDE DEF a, q, l, r
  <2> SUFFICES ASSUME NEW i \in 1..(Len(g) + Len(w) + 1) PROVE l[i] = r[i]
    OBVIOUS
  <2>3. CASE i <= Len(g)
    BY <2>1, <2>2, <2>3, <1>1, <1>5
  <2>4. CASE i > Len(g) /\ i <= Len(g) + Len(w)
    <3> DEFINE j == i - Len(g)
    <3>1. j \in 1..Len(w)
      BY <2>4, <1>1
    <3>2. l[i] = a[j] /\ r[i] = w[j]
      BY <2>1, <2>2, <2>4, <1>1, <1>5
    <3> QED BY <3>1, <3>2, <1>2
  <2>5. CASE i = Len(g) + Len(w) + 1
    <3>1. i - Len(g) = Len(w) + 1 /\ ~(i <= Len(g))
      BY <2>5, <1>1
    <3> QED BY <2>2, <2>5, <3>1, <1>2, <1>5
  <2>6. i <= Len(g) \/ (i > Len(g) /\ i <= Len(g) + Len(w)) \/ i = Len(g) + Len(w) + 1
    BY <1>1
  <2> QED BY <2>3, <2>4, <2>5, <2>6, Zenon
<1>7. l = r
  <2>1. l \in Seq(S) /\ r \in Seq(S) /\ Len(l) = Len(r) /\ \A i \in 1..Len(l) : l[i] = r[i]
    BY <1>3, <1>5, <1>6
  <2> HIDE DEF l, r
  <2> QED BY <2>1, SeqEqual
<1> QED BY <1>2, <1>4, <1>7

-------------------------------------------------------------------------------
(* The calls that run *)

LEMMA RunningGrows ==
  ASSUME phase \in [Req -> Phase], IsFiniteSet(Running), NEW t \in Req,
         phase[t] # "running", phase' = [phase EXCEPT ![t] = "running"]
  PROVE  IsFiniteSet(Running') /\ Cardinality(Running') = Cardinality(Running) + 1
<1>1. Running' = Running \cup {t} /\ t \notin Running
  BY DEF Running
<1> HIDE DEF Running
<1> QED BY <1>1, FS_AddElement

LEMMA RunningShrinks ==
  ASSUME phase \in [Req -> Phase], IsFiniteSet(Running), NEW t \in Req, NEW p,
         phase[t] = "running", p # "running", phase' = [phase EXCEPT ![t] = p]
  PROVE  IsFiniteSet(Running') /\ Cardinality(Running') = Cardinality(Running) - 1
<1>1. Running' = Running \ {t} /\ t \in Running
  BY DEF Running
<1> HIDE DEF Running
<1> QED BY <1>1, FS_RemoveElement

LEMMA RunningKept ==
  ASSUME phase \in [Req -> Phase], NEW t \in Req, NEW p,
         phase[t] # "running", p # "running", phase' = [phase EXCEPT ![t] = p]
  PROVE  Running' = Running
BY DEF Running

\* No call enters or leaves the deque, and none in it changes its phase.
LEMMA QueueKept ==
  ASSUME phase \in [Req -> Phase], granted \in Seq(Req), waiting \in Seq(Req),
         QueueOK, Queue' = Queue, NEW t \in Req, NEW p,
         phase[t] # "queued", phase' = [phase EXCEPT ![t] = p]
  PROVE  QueueOK'
<1>1. Queue \in Seq(Req) /\ Len(Queue) \in Nat
  BY ConcatProperties, LenProperties DEF Queue
<1>2. \A i \in 1..Len(Queue) : Queue[i] \in Req
  BY <1>1, ElementOfSeq
<1> QED
  <2> HIDE DEF Queue
  <2> QED BY <1>1, <1>2 DEF QueueOK

-------------------------------------------------------------------------------
(* The invariant is inductive *)

LEMMA PoolInitInd == PoolInit => PoolInd
<1> SUFFICES ASSUME PoolInit PROVE PoolInd
  OBVIOUS
<1>1. PoolTypes
  <2>1. <<>> \in Seq(Req)
    BY EmptySeq
  <2> QED BY <2>1, PoolAssumption DEF PoolInit, PoolTypes, Phase, Work
<1>2. Running = {}
  BY DEF PoolInit, Running
<1>3. IsFiniteSet(Running) /\ Cardinality(Running) = 0
  BY <1>2, FS_EmptySet
<1>4. PermitsConserved
  BY <1>3, PoolAssumption DEF PoolInit, PermitsConserved
<1>5. Queue = <<>>
  BY DEF Queue, PoolInit
<1>6. Len(Queue) = 0
  BY <1>5
<1>7. QueueOK
  BY <1>6 DEF QueueOK
<1> QED BY <1>1, <1>3, <1>4, <1>7 DEF PoolInd

\* Between two steps the pool's own state does not change.
LEMMA PoolUnchanged == PoolInd /\ UNCHANGED poolVars => PoolInd'
<1> SUFFICES ASSUME PoolInd, UNCHANGED poolVars PROVE PoolInd'
  OBVIOUS
<1>1. Queue' = Queue /\ Running' = Running
  BY DEF poolVars, Queue, Running
<1>2. PoolTypes' /\ PermitsConserved' /\ IsFiniteSet(Running)'
  BY <1>1 DEF PoolInd, poolVars, PoolTypes, PermitsConserved
<1>3. QueueOK'
  BY <1>1 DEF PoolInd, QueueOK, poolVars
<1> QED BY <1>2, <1>3 DEF PoolInd

\* A call leaves the pool and its permit goes back or on.
LEMMA LeavePoolInd ==
  ASSUME PoolInd, NEW t \in Req, NEW outcome \in {"ok", "failed"},
         LeavePool(t, outcome), work' \in [Req -> Work]
  PROVE  PoolInd'
<1> USE DEF PoolInd
<1>1. /\ phase[t] = "running" /\ phase' = [phase EXCEPT ![t] = outcome]
      /\ active' = active - 1 /\ UNCHANGED <<shut, closer>>
      /\ drained' = (drained \/ (active = 1 /\ shut))
  BY DEF LeavePool
<1>2. /\ IsFiniteSet(Running') /\ Cardinality(Running') = Cardinality(Running) - 1
      /\ Cardinality(Running') \in Nat
  BY <1>1, RunningShrinks, FS_CardinalityType DEF PoolTypes
<1>3. active' = Cardinality(Running') /\ active' \in Nat
  BY <1>1, <1>2 DEF PermitsConserved
<1>4. /\ permits' \in Nat /\ granted' \in Seq(Req) /\ waiting' \in Seq(Req)
      /\ permits' + Len(granted') + active' = MaxWorkers
      /\ Queue' = Queue
  <2>1. Len(granted) \in Nat
    BY LenProperties DEF PoolTypes
  <2>2. CASE waiting = <<>>
    <3>1. permits' = permits + 1 /\ granted' = granted /\ waiting' = waiting
      BY <2>2 DEF LeavePool, Release
    <3>2. Queue' = Queue
      BY <3>1 DEF Queue
    <3>3. permits' + Len(granted') + active' = MaxWorkers
      BY <1>1, <2>1, <3>1 DEF PermitsConserved, PoolTypes
    <3> QED BY <3>1, <3>2, <3>3 DEF PoolTypes
  <2>3. CASE waiting # <<>>
    <3>1. granted' = Append(granted, Head(waiting)) /\ waiting' = Tail(waiting)
          /\ permits' = permits
      BY <2>3 DEF LeavePool, Release
    <3>2. /\ granted' \in Seq(Req) /\ waiting' \in Seq(Req)
          /\ Len(granted') = Len(granted) + 1
          /\ granted' \o waiting' = granted \o waiting
      BY <2>3, <3>1, QueueHandOver DEF PoolTypes
    <3>3. permits' + Len(granted') + active' = MaxWorkers
      BY <1>1, <2>1, <3>1, <3>2 DEF PermitsConserved, PoolTypes
    <3> QED BY <3>1, <3>2, <3>3 DEF PoolTypes, Queue
  <2> QED BY <2>2, <2>3
<1>5. QueueOK'
  BY <1>1, <1>4, QueueKept DEF PoolTypes
<1>6. PoolTypes'
  BY <1>1, <1>3, <1>4 DEF PoolTypes, Phase
<1> QED BY <1>2, <1>3, <1>4, <1>5, <1>6 DEF PermitsConserved

\* A call starts its adapter, on a permit it takes or was handed.
LEMMA SubmitNowInd ==
  ASSUME PoolInd, NEW t \in Req, SubmitNow(t)
  PROVE  PoolInd'
<1> USE DEF PoolInd
<1>1. /\ phase[t] = "new" /\ phase' = [phase EXCEPT ![t] = "running"]
      /\ permits # 0 /\ permits' = permits - 1 /\ active' = active + 1
      /\ work' = [work EXCEPT ![t] = "busy"]
      /\ UNCHANGED <<granted, waiting, shut, drained, closer>>
  BY DEF SubmitNow, StartAdapter, Locked, closeVars
<1>2. IsFiniteSet(Running') /\ Cardinality(Running') = Cardinality(Running) + 1
  BY <1>1, RunningGrows DEF PoolTypes
<1>3. PoolTypes'
  BY <1>1 DEF PoolTypes, Phase, Work
<1>4. PermitsConserved'
  <2>1. Len(granted) \in Nat
    BY LenProperties DEF PoolTypes
  <2> QED BY <1>1, <1>2, <2>1 DEF PermitsConserved, PoolTypes
<1>5. QueueOK'
  <2>1. Queue' = Queue
    BY <1>1 DEF Queue
  <2> QED BY <1>1, <2>1, QueueKept DEF PoolTypes
<1> QED BY <1>2, <1>3, <1>4, <1>5

\* The oldest woken waiter is the head of the deque: it is suspended, and no one
\* else in the deque is the same call.
LEMMA WokenIsQueued ==
  ASSUME PoolInd, granted # <<>>
  PROVE  /\ Queue \in Seq(Req) /\ Len(Queue) \in Nat /\ Len(Queue) >= 1
         /\ phase[Head(granted)] = "queued"
         /\ \A i \in 2..Len(Queue) : Queue[i] # Head(granted) /\ Queue[i] \in Req
<1> USE DEF PoolInd
<1>1. Len(waiting) \in Nat /\ Len(granted) \in Nat
  BY LenProperties DEF PoolTypes
<1>2. /\ Queue \in Seq(Req) /\ Len(Queue) \in Nat /\ Len(Queue) >= 1
      /\ Queue[1] = Head(granted)
  <2>1. /\ granted \o waiting \in Seq(Req)
        /\ Len(granted \o waiting) = Len(granted) + Len(waiting)
        /\ \A i \in 1..(Len(granted) + Len(waiting)) :
             (granted \o waiting)[i] = IF i <= Len(granted) THEN granted[i]
                                       ELSE waiting[i - Len(granted)]
    BY ConcatProperties DEF PoolTypes
  <2>2. Len(granted) >= 1
    BY <1>1, EmptySeq DEF PoolTypes
  <2>3. (granted \o waiting)[1] = granted[1]
    BY <1>1, <2>1, <2>2
  <2>4. Head(granted) = granted[1]
    BY DEF PoolTypes
  <2>5. Len(granted) + Len(waiting) \in Nat /\ Len(granted) + Len(waiting) >= 1
    BY <1>1, <2>2
  <2> QED BY <1>1, <2>1, <2>3, <2>4, <2>5 DEF Queue
<1> QED BY <1>2, ElementOfSeq DEF QueueOK

LEMMA ResumeInd ==
  ASSUME PoolInd, NEW t \in Req, Resume(t)
  PROVE  PoolInd'
<1> USE DEF PoolInd
<1> DEFINE k == IF permits < Len(waiting) THEN permits ELSE Len(waiting)
<1>1. /\ granted # <<>> /\ t = Head(granted)
      /\ permits' = permits - k
      /\ granted' = Tail(granted) \o SubSeq(waiting, 1, k)
      /\ waiting' = SubSeq(waiting, k + 1, Len(waiting))
      /\ phase' = [phase EXCEPT ![t] = "running"] /\ active' = active + 1
      /\ work' = [work EXCEPT ![t] = "busy"] /\ UNCHANGED <<shut, drained, closer>>
  BY DEF Resume, StartAdapter, closeVars
<1>2. Len(waiting) \in Nat /\ Len(granted) \in Nat
  BY LenProperties DEF PoolTypes
<1>3. k \in 0..Len(waiting) /\ k \in 0..permits
  BY <1>2 DEF PoolTypes
<1> HIDE DEF k
<1>4. /\ granted' \in Seq(Req) /\ waiting' \in Seq(Req)
      /\ Len(granted') = Len(granted) - 1 + k
      /\ Queue' = Tail(Queue)
  <2>1. /\ Tail(granted) \o SubSeq(waiting, 1, k) \in Seq(Req)
        /\ SubSeq(waiting, k + 1, Len(waiting)) \in Seq(Req)
        /\ Len(Tail(granted) \o SubSeq(waiting, 1, k)) = Len(granted) - 1 + k
        /\ (Tail(granted) \o SubSeq(waiting, 1, k)) \o SubSeq(waiting, k + 1, Len(waiting))
             = Tail(granted \o waiting)
    <3>1. granted \in Seq(Req) /\ waiting \in Seq(Req) /\ granted # <<>>
      BY <1>1 DEF PoolTypes
    <3> QED BY ONLY <1>3, <3>1, QueueTail, Zenon
  <2> QED BY <1>1, <2>1 DEF Queue
<1>5. /\ Queue \in Seq(Req) /\ Len(Queue) \in Nat /\ Len(Queue) >= 1
      /\ phase[t] = "queued"
      /\ \A i \in 2..Len(Queue) : Queue[i] # t /\ Queue[i] \in Req
  BY <1>1, WokenIsQueued
<1>7. IsFiniteSet(Running') /\ Cardinality(Running') = Cardinality(Running) + 1
  BY <1>1, <1>5, RunningGrows DEF PoolTypes
<1>8. PoolTypes'
  BY <1>1, <1>3, <1>4 DEF PoolTypes, Phase, Work
<1>9. PermitsConserved'
  <2>1. permits + Len(granted) + active = MaxWorkers /\ active = Cardinality(Running)
    BY DEF PermitsConserved
  <2>2. k \in Nat /\ permits \in Nat /\ active \in Nat
    BY <1>3 DEF PoolTypes
  <2>3. permits' + Len(granted') + active' = MaxWorkers
    BY SMTT(30), <1>1, <1>2, <1>4, <2>1, <2>2
  <2> QED BY <1>1, <1>7, <2>1, <2>3 DEF PermitsConserved
<1>10. QueueOK'
  <2>1. /\ Len(Queue') = Len(Queue) - 1
        /\ \A i \in 1..(Len(Queue) - 1) : Queue'[i] = Queue[i + 1]
    <3> DEFINE q == Queue
    <3>1. q \in Seq(Req) /\ q # <<>>
      BY <1>5
    <3>2. Len(Tail(q)) = Len(q) - 1 /\ \A i \in 1..Len(Tail(q)) : Tail(q)[i] = q[i + 1]
      <4> HIDE DEF q
      <4> QED BY <3>1, HeadTailProperties
    <3> QED BY <1>4, <3>2
  <2>2. \A i \in 1..(Len(Queue) - 1) : phase'[Queue'[i]] = "queued"
    <3> SUFFICES ASSUME NEW i \in 1..(Len(Queue) - 1) PROVE phase'[Queue'[i]] = "queued"
      OBVIOUS
    <3>1. i + 1 \in 2..Len(Queue) /\ i + 1 \in 1..Len(Queue)
      BY <1>5
    <3> QED BY <1>1, <1>5, <2>1, <3>1 DEF QueueOK, PoolTypes
  <2>3. \A i, j \in 1..(Len(Queue) - 1) : Queue'[i] = Queue'[j] => i = j
    <3> SUFFICES ASSUME NEW i \in 1..(Len(Queue) - 1), NEW j \in 1..(Len(Queue) - 1),
                        Queue'[i] = Queue'[j]
                 PROVE  i = j
      OBVIOUS
    <3>1. i + 1 \in 1..Len(Queue) /\ j + 1 \in 1..Len(Queue)
      BY <1>5
    <3>2. i + 1 = j + 1
      BY <2>1, <3>1 DEF QueueOK
    <3> QED BY <1>5, <3>2
  <2> QED BY <2>1, <2>2, <2>3 DEF QueueOK
<1> QED BY <1>7, <1>8, <1>9, <1>10

LEMMA SubmitQueuedInd ==
  ASSUME PoolInd, NEW t \in Req, SubmitQueued(t)
  PROVE  PoolInd'
<1> USE DEF PoolInd
<1>1. /\ phase[t] = "new" /\ phase' = [phase EXCEPT ![t] = "queued"]
      /\ waiting' = Append(waiting, t)
      /\ UNCHANGED <<permits, granted, active, work, shut, drained, closer>>
  BY DEF SubmitQueued, closeVars
<1>2. Running' = Running
  BY <1>1, RunningKept DEF PoolTypes
<1>3. waiting' \in Seq(Req) /\ Queue \in Seq(Req) /\ Queue' = Append(Queue, t)
  BY <1>1, QueueAppend DEF PoolTypes, Queue
<1>4. PoolTypes' /\ PermitsConserved' /\ IsFiniteSet(Running)'
  BY <1>1, <1>2, <1>3 DEF PoolTypes, PermitsConserved, Phase
<1>5. QueueOK'
  <2>1. /\ Len(Queue) \in Nat /\ Len(Queue') = Len(Queue) + 1 /\ Queue'[Len(Queue) + 1] = t
        /\ \A i \in 1..Len(Queue) : Queue'[i] = Queue[i] /\ Queue[i] \in Req
    <3> DEFINE q == Queue
    <3>1. q \in Seq(Req)
      BY <1>3
    <3>2. /\ Len(q) \in Nat /\ Len(Append(q, t)) = Len(q) + 1 /\ Append(q, t)[Len(q) + 1] = t
          /\ \A i \in 1..Len(q) : Append(q, t)[i] = q[i] /\ q[i] \in Req
      <4> HIDE DEF q
      <4> QED BY <3>1, ElementOfSeq
    <3> QED BY <1>3, <3>2
  <2>2. \A i \in 1..Len(Queue) : phase[Queue[i]] = "queued" /\ Queue[i] # t
    BY <1>1 DEF QueueOK
  <2>3. \A i \in 1..(Len(Queue) + 1) : i \in 1..Len(Queue) \/ i = Len(Queue) + 1
    BY <2>1
  <2>4. \A i \in 1..(Len(Queue) + 1) : phase'[Queue'[i]] = "queued"
    BY <1>1, <2>1, <2>2, <2>3 DEF PoolTypes
  <2>5. \A i, j \in 1..(Len(Queue) + 1) : Queue'[i] = Queue'[j] => i = j
    BY <2>1, <2>2, <2>3 DEF QueueOK
  <2> QED BY <2>1, <2>4, <2>5 DEF QueueOK
<1> QED BY <1>4, <1>5

\* The adapter's work and the shutdown's own steps do not move permits.
LEMMA PoolOtherInd ==
  ASSUME PoolInd, UNCHANGED <<phase, permits, granted, waiting, active>>,
         work' \in [Req -> Work], shut' \in BOOLEAN, drained' \in BOOLEAN,
         closer' \in {"idle", "waiting", "returned", "timed_out"}
  PROVE  PoolInd'
<1>1. Queue' = Queue /\ Running' = Running
  BY DEF Queue, Running
<1>2. PoolTypes' /\ PermitsConserved' /\ IsFiniteSet(Running)'
  BY <1>1 DEF PoolInd, PoolTypes, PermitsConserved
<1>3. QueueOK'
  BY <1>1 DEF PoolInd, QueueOK
<1> QED BY <1>2, <1>3 DEF PoolInd

LEMMA PoolStepInd == PoolInd /\ [PoolNext]_poolVars => PoolInd'
<1> SUFFICES ASSUME PoolInd, [PoolNext]_poolVars PROVE PoolInd'
  OBVIOUS
<1> USE DEF PoolInd
<1>1. ASSUME NEW t \in Req, SubmitRefused(t) PROVE PoolInd'
  <2>1. /\ phase[t] = "new" /\ phase' = [phase EXCEPT ![t] = "refused"]
        /\ UNCHANGED <<permits, granted, waiting, active, work, shut, drained, closer>>
    BY <1>1 DEF SubmitRefused, queueVars, closeVars
  <2>2. Running' = Running /\ Queue' = Queue
    BY <2>1, RunningKept DEF PoolTypes, Queue
  <2>3. QueueOK'
    BY <2>1, <2>2, QueueKept DEF PoolTypes
  <2> QED BY <2>1, <2>2, <2>3 DEF PoolTypes, Phase, PermitsConserved
<1>2. ASSUME NEW t \in Req, SubmitNow(t) PROVE PoolInd'
  BY <1>2, SubmitNowInd
<1>3. ASSUME NEW t \in Req, SubmitQueued(t) PROVE PoolInd'
  BY <1>3, SubmitQueuedInd
<1>4. ASSUME NEW t \in Req, Resume(t) PROVE PoolInd'
  BY <1>4, ResumeInd
<1>5. ASSUME NEW t \in Req, WorkEffects(t) \/ WorkFails(t) PROVE PoolInd'
  <2>1. /\ UNCHANGED <<phase, permits, granted, waiting, active, shut, drained, closer>>
        /\ work' \in [Req -> Work]
    BY <1>5 DEF WorkEffects, WorkFails, queueVars, closeVars, PoolTypes, Work
  <2> QED BY <2>1, PoolOtherInd DEF PoolTypes
<1>6. ASSUME NEW t \in Req, ReturnSuccess(t) \/ ReturnFailure(t) \/ Timeout(t) PROVE PoolInd'
  <2>1. work' \in [Req -> Work]
    BY <1>6 DEF ReturnSuccess, ReturnFailure, Timeout, PoolTypes, Work
  <2>2. LeavePool(t, "ok") \/ LeavePool(t, "failed")
    BY <1>6 DEF ReturnSuccess, ReturnFailure, Timeout
  <2> QED BY <2>1, <2>2, LeavePoolInd
<1>7. ASSUME ShutdownCalled \/ ShutdownReturns \/ ShutdownTimesOut PROVE PoolInd'
  <2>1. /\ UNCHANGED <<phase, permits, granted, waiting, active, work, drained>>
        /\ shut' \in BOOLEAN /\ closer' \in {"idle", "waiting", "returned", "timed_out"}
    BY <1>7 DEF ShutdownCalled, ShutdownReturns, ShutdownTimesOut, queueVars, PoolTypes
  <2> QED BY <2>1, PoolOtherInd DEF PoolTypes
<1>8. CASE UNCHANGED poolVars
  BY <1>8, PoolUnchanged
<1> QED BY <1>1, <1>2, <1>3, <1>4, <1>5, <1>6, <1>7, <1>8 DEF PoolNext

-------------------------------------------------------------------------------
(* What follows from it *)

LEMMA PoolIndConsequences == PoolInd => PoolTypeOK /\ ConcurrencyBound /\ PermitsConserved
<1> SUFFICES ASSUME PoolInd PROVE PoolTypeOK /\ ConcurrencyBound
  BY DEF PoolInd
<1>1. Len(granted) \in Nat
  BY LenProperties DEF PoolInd, PoolTypes
<1>2. permits \in 0..MaxWorkers /\ active \in 0..MaxWorkers
  BY <1>1, PoolAssumption DEF PoolInd, PoolTypes, PermitsConserved
<1> QED BY <1>2 DEF PoolInd, PoolTypes, PoolTypeOK, PermitsConserved, ConcurrencyBound

LEMMA PoolInvariant == PoolSpec => []PoolInd
<1>1. PoolInit => PoolInd
  BY PoolInitInd
<1>2. PoolInd /\ [PoolNext]_poolVars => PoolInd'
  BY PoolStepInd
<1> QED BY <1>1, <1>2, PTL DEF PoolSpec

\* Every reachable state of the pool is well typed; in particular the permits
\* and the active count never leave 0..MaxWorkers.
THEOREM PoolTypeCorrect == PoolSpec => []PoolTypeOK
BY PoolInvariant, PoolIndConsequences, PTL

\* No permit is lost or duplicated, and _active_count is the number of calls
\* between acquire and release.
THEOREM PoolConservesPermits == PoolSpec => []PermitsConserved
BY PoolInvariant, PoolIndConsequences, PTL

\* At most MaxWorkers submit() calls are past the semaphore at any time.
THEOREM PoolBoundsConcurrency == PoolSpec => []ConcurrencyBound
BY PoolInvariant, PoolIndConsequences, PTL

(* The three together, as the run checks them (worker_pool.py). *)
THEOREM PoolIsSafe == PoolSpec => []PoolSafe
BY PoolTypeCorrect, PoolConservesPermits, PoolBoundsConcurrency, PTL DEF PoolSafe

-------------------------------------------------------------------------------
(* The service *)

\* The executions with a STARTED row, with an outcome row, with a COMPLETED row.
Started == {r \in Req : Recorded(r)}
Ended == {r \in Req : HasRow(r, Outcome)}
Won == {r \in Req : HasRow(r, {"COMPLETED"})}

ServiceTypes ==
  /\ AuditTypeOK /\ StoreTypeOK
  /\ pc \in [Req -> Pc]
  /\ reply \in [Req -> Reply]
  /\ offered \subseteq Req
  /\ upc \in [Undo -> UndoPc]
  /\ undos \in [RbId -> Nat]
  /\ auditFaults \in 0..AuditFaults
  /\ vaultFaults \in 0..VaultFaults
  /\ restarts \in 0..MaxRestarts

BuiltEntry(r, statuses) ==
  entry[r] \in Row /\ entry[r].id = r /\ entry[r].status \in statuses

\* Before the STARTED row is in the table, nothing has happened.
Before(r) ==
  /\ pc[r] \in {"idle", "secEvent", "logStart"} => phase[r] = "new" /\ r \notin Started
  /\ pc[r] = "logStart" => BuiltEntry(r, {"STARTED"})
  /\ pc[r] \in {"started", "creds"} => phase[r] = "new"
  /\ pc[r] \notin {"idle", "secEvent", "logStart", "done"} => r \in Started

\* What the pool has done for a request, its handler knows.
Meanwhile(r) ==
  /\ phase[r] \in {"queued", "running"} => pc[r] = "pool"
  /\ phase[r] # "new" => r \in Started
  /\ phase[r] \in {"new", "queued"} => work[r] = "none"
  /\ phase[r] = "ok" => work[r] = "effected"

\* The answer and the outcome row agree with what the pool did.
After(r) ==
  /\ pc[r] \in {"saveRb", "rbSaved"} => phase[r] = "ok"
  /\ pc[r] = "logEnd" =>
       /\ phase[r] \in {"ok", "failed"}
       /\ BuiltEntry(r, Outcome)
       /\ entry[r].status = "COMPLETED" => phase[r] = "ok"
  /\ pc[r] # "done" => reply[r] = "none" /\ r \notin Ended
  /\ r \in Ended => phase[r] # "new"
  /\ r \in Won => work[r] = "effected"
  /\ reply[r] = "ok" => phase[r] = "ok"
  /\ reply[r] \in {"denied", "blocked"} => phase[r] = "new"

Handlers == \A r \in Req : Before(r) /\ Meanwhile(r) /\ After(r)

ExecInd == PoolInd /\ ServiceTypes /\ Handlers

-------------------------------------------------------------------------------
(* The table only grows *)

LEMMA AppendedRows ==
  ASSUME NEW x \in Row, log \in Seq(Row), log' = Append(log, x), NEW r, NEW statuses
  PROVE  HasRow(r, statuses)' <=> HasRow(r, statuses) \/ (x.id = r /\ x.status \in statuses)
<1>1. /\ Len(log) \in Nat /\ DOMAIN log = 1..Len(log)
      /\ log' \in Seq(Row) /\ DOMAIN log' = 1..(Len(log) + 1)
      /\ \A i \in 1..Len(log) : log'[i] = log[i]
      /\ log'[Len(log) + 1] = x
  BY LenProperties
<1>2. \A i \in 1..(Len(log) + 1) : i \in 1..Len(log) \/ i = Len(log) + 1
  BY <1>1
<1>3. /\ \A i \in 1..Len(log) : i \in 1..(Len(log) + 1)
      /\ Len(log) + 1 \in 1..(Len(log) + 1)
  BY <1>1
<1> QED BY <1>1, <1>2, <1>3 DEF HasRow

LEMMA StartedInserted ==
  ASSUME NEW x \in Row, x.id \in Req, x.status = "STARTED",
         log \in Seq(Row), log' = Append(log, x)
  PROVE  Started' = Started \cup {x.id} /\ Ended' = Ended /\ Won' = Won
BY AppendedRows DEF Started, Ended, Won, Recorded, Outcome

LEMMA OutcomeInserted ==
  ASSUME NEW x \in Row, x.id \in Req, x.status \in Outcome,
         log \in Seq(Row), log' = Append(log, x)
  PROVE  /\ Started' = Started
         /\ Ended' = Ended \cup {x.id}
         /\ Won' = IF x.status = "COMPLETED" THEN Won \cup {x.id} ELSE Won
BY AppendedRows DEF Started, Ended, Won, Recorded, Outcome

LEMMA LogKept ==
  ASSUME UNCHANGED log
  PROVE  Started' = Started /\ Ended' = Ended /\ Won' = Won
BY DEF Started, Ended, Won, Recorded, HasRow

-------------------------------------------------------------------------------
(* The initial state *)

LEMMA ExecInitInd == Init => ExecInd
<1> SUFFICES ASSUME Init PROVE ExecInd
  OBVIOUS
<1>1. PoolInd
  BY PoolInitInd DEF Init
<1>2. ServiceTypes
  <2>1. log = <<>> /\ <<>> \in Seq(Row)
    BY EmptySeq DEF Init, AuditInit
  <2>2. AuditTypeOK
    BY <2>1 DEF Init, AuditInit, AuditTypeOK, Hash
  <2>3. StoreTypeOK
    BY DEF Init, StoreInit, StoreTypeOK, Absent, RbStatus
  <2> QED BY <2>2, <2>3, GatewayAssumption DEF Init, ServiceTypes, Pc, Reply, UndoPc
<1>3. Started = {} /\ Ended = {} /\ Won = {}
  <2>1. log = <<>> /\ DOMAIN log = {}
    BY DEF Init, AuditInit
  <2> QED BY <2>1 DEF Started, Ended, Won, Recorded, HasRow
<1>4. Handlers
  BY <1>3 DEF Init, PoolInit, Handlers, Before, Meanwhile, After
<1> QED BY <1>1, <1>2, <1>4 DEF ExecInd

-------------------------------------------------------------------------------
(* Steps of one handler: what they change, conjunct by conjunct *)

\* The pool's part of the invariant survives every step of a handler.
LEMMA HandlePool ==
  ASSUME PoolInd, NEW r \in Req, Handle(r)
  PROVE  PoolInd'
<1>1. [PoolNext]_poolVars
  BY DEF Handle, Reject, Denied, Accept, InsertStarted, StartBlocked, Execute,
         FetchCredentials, ExecuteWithCredentials, VaultRaises, Dequeue, AdapterWorks,
         Fails, Succeeds, SucceedsReversibly, SaveRollback, Completes, Respond, Submit,
         PoolNext
<1> QED BY <1>1, PoolStepInd

\* The types of the rest do.
LEMMA HandleTypes ==
  ASSUME ServiceTypes, Handlers, NEW r \in Req, Handle(r)
  PROVE  ServiceTypes'
<1> USE DEF ServiceTypes, AuditTypeOK, StoreTypeOK, faultVars, auditVars, storeVars,
            gatewayVars, undoVars
<1>1. CASE Reject(r)
  BY <1>1 DEF Reject, Goto, Pc
<1>2. CASE Denied(r)
  BY <1>2, GatewayAssumption DEF Denied, Answer, Goto, Pc, Reply, AuditWriteFails
<1>3. ASSUME NEW status \in Status, ChainAppend(r, status)
      PROVE  head' \in Hash /\ entry' \in [Req -> Row \cup {NoEntry}]
  <2>1. [id |-> r, status |-> status, prev |-> head] \in Row /\ <<r, status>> \in Hash
    BY DEF Row, Hash
  <2> QED BY <1>3, <2>1 DEF ChainAppend
<1>4. CASE Accept(r)
  BY <1>3, <1>4 DEF Accept, Goto, Pc, Status
<1>5. ASSUME pc[r] \in {"logStart", "logEnd"}, InsertRow(r)
      PROVE  log' \in Seq(Row)
  BY <1>5 DEF InsertRow, Handlers, Before, After, BuiltEntry
<1>6. CASE InsertStarted(r)
  BY <1>5, <1>6 DEF InsertStarted, Goto, Pc
<1>7. CASE StartBlocked(r)
  BY <1>7, GatewayAssumption DEF StartBlocked, Answer, Goto, Pc, Reply, AuditWriteFails
<1>8. CASE Execute(r) \/ FetchCredentials(r) \/ ExecuteWithCredentials(r)
  BY <1>8 DEF Execute, FetchCredentials, ExecuteWithCredentials, Goto, Pc
<1>9. CASE VaultRaises(r)
  BY <1>9, GatewayAssumption DEF VaultRaises, Answer, Goto, Pc, Reply
<1>10. CASE Dequeue(r) \/ AdapterWorks(r)
  BY <1>10 DEF Dequeue, AdapterWorks
<1>11. CASE Fails(r)
  BY <1>3, <1>11 DEF Fails, Goto, Pc, Status, Outcome
<1>12. CASE Succeeds(r)
  BY <1>3, <1>12 DEF Succeeds, Goto, Pc, Status, Outcome
<1>13. CASE SucceedsReversibly(r)
  BY <1>13 DEF SucceedsReversibly, Goto, Pc
<1>14. CASE SaveRollback(r)
  <2>1. pc' \in [Req -> Pc] /\ txOpen' \in BOOLEAN /\ offered' \subseteq Req
    BY <1>14 DEF SaveRollback, Goto, Pc, SaveEntry, SaveConflict
  <2>2. registry' \in [RbId -> [status : RbStatus, owner : Req \cup {NoOwner}]]
    <3>1. [status |-> "AVAILABLE", owner |-> r] \in [status : RbStatus, owner : Req \cup {NoOwner}]
      BY DEF RbStatus
    <3>2. \/ UNCHANGED registry
          \/ registry' = [registry EXCEPT ![RbIdOf[r]] = [status |-> "AVAILABLE", owner |-> r]]
      BY <1>14 DEF SaveRollback, SaveEntry, SaveConflict
    <3> QED BY <3>1, <3>2
  <2> QED BY <1>14, <2>1, <2>2 DEF SaveRollback
<1>15. CASE Completes(r)
  BY <1>3, <1>15 DEF Completes, Goto, Pc, Status, Outcome
<1>16. CASE Respond(r)
  <2>1. log' \in Seq(Row) /\ auditFaults' \in 0..AuditFaults
    BY <1>5, <1>16, GatewayAssumption DEF Respond, Answer, Goto, AuditWriteFails
  <2> QED BY <1>16, <2>1 DEF Respond, Answer, Goto, Pc, Reply
<1> QED BY <1>1, <1>2, <1>4, <1>6, <1>7, <1>8, <1>9, <1>10, <1>11, <1>12, <1>13, <1>14,
           <1>15, <1>16 DEF Handle

\* What the handlers know survives every step of one of them.
LEMMA HandleHandlers ==
  ASSUME PoolInd, ServiceTypes, Handlers, NEW r \in Req, Handle(r)
  PROVE  Handlers'
<1> DEFINE HInd(q) == Before(q) /\ Meanwhile(q) /\ After(q)
<1>1. /\ pc \in [Req -> Pc] /\ reply \in [Req -> Reply]
      /\ entry \in [Req -> Row \cup {NoEntry}] /\ log \in Seq(Row) /\ head \in Hash
      /\ phase \in [Req -> Phase] /\ work \in [Req -> Work]
  BY DEF ServiceTypes, AuditTypeOK, PoolInd, PoolTypes
<1> USE <1>1 DEF Handlers, Before, Meanwhile, After, BuiltEntry, auditVars, poolVars,
                 gatewayVars, queueVars
<1>2. ASSUME NEW status \in Status, ChainAppend(r, status)
      PROVE  /\ entry'[r] \in Row /\ entry'[r].id = r /\ entry'[r].status = status
             /\ \A q \in Req \ {r} : entry'[q] = entry[q]
  BY <1>2 DEF ChainAppend, Row
<1>3. CASE Reject(r)
  BY <1>3, LogKept DEF Reject, Goto
<1>4. CASE Denied(r)
  BY <1>4, LogKept DEF Denied, Answer, Goto
<1>5. CASE Accept(r)
  BY <1>2, <1>5, LogKept DEF Accept, Goto, Status
<1>6. CASE InsertStarted(r)
  <2>1. Started' = Started \cup {r} /\ Ended' = Ended /\ Won' = Won
    BY <1>6, StartedInserted DEF InsertStarted, InsertRow, Goto
  <2> QED BY <1>6, <2>1 DEF InsertStarted, Goto
<1>7. CASE StartBlocked(r)
  BY <1>7, LogKept DEF StartBlocked, Answer, Goto
<1>8. ASSUME Submit(r), Goto(r, "started", "pool") \/ Goto(r, "creds", "pool"),
             UNCHANGED <<reply, head, entry, log, secEvents>>
      PROVE  Handlers'
  BY <1>8, LogKept DEF Submit, SubmitNow, SubmitQueued, StartAdapter, Goto
<1>9. CASE Execute(r) \/ ExecuteWithCredentials(r)
  BY <1>8, <1>9 DEF Execute, ExecuteWithCredentials
<1>10. CASE FetchCredentials(r)
  BY <1>10, LogKept DEF FetchCredentials, Goto
<1>11. CASE VaultRaises(r)
  BY <1>11, LogKept DEF VaultRaises, Answer, Goto
<1>12. CASE Dequeue(r)
  BY <1>12, LogKept, WokenIsQueued DEF Dequeue, Resume, StartAdapter
<1>13. CASE AdapterWorks(r)
  BY <1>13, LogKept DEF AdapterWorks, WorkEffects, WorkFails
<1>14. CASE Fails(r)
  BY <1>2, <1>14, LogKept DEF Fails, ReturnFailure, Timeout, LeavePool, Goto, Status, Outcome
<1>15. CASE Succeeds(r)
  BY <1>2, <1>15, LogKept DEF Succeeds, ReturnSuccess, LeavePool, Goto, Status, Outcome
<1>16. CASE SucceedsReversibly(r)
  BY <1>16, LogKept DEF SucceedsReversibly, ReturnSuccess, LeavePool, Goto
<1>17. CASE SaveRollback(r)
  BY <1>17, LogKept DEF SaveRollback, Goto
<1>18. CASE Completes(r)
  BY <1>2, <1>18, LogKept DEF Completes, Goto, Status, Outcome
<1>19. CASE Respond(r)
  <2>1. \/ Started' = Started /\ Ended' = Ended /\ Won' = Won
        \/ /\ Started' = Started /\ Ended' = Ended \cup {r}
           /\ Won' = IF entry[r].status = "COMPLETED" THEN Won \cup {r} ELSE Won
    <3>1. CASE UNCHANGED log
      BY <3>1, LogKept
    <3>2. CASE InsertRow(r)
      BY <1>19, <3>2, OutcomeInserted DEF InsertRow, Respond, Answer, Goto
    <3> QED BY <1>19, <3>1, <3>2 DEF Respond
  <2> QED BY <1>19, <2>1 DEF Respond, Answer, Goto
<1> QED BY <1>3, <1>4, <1>5, <1>6, <1>7, <1>9, <1>10, <1>11, <1>12, <1>13, <1>14, <1>15,
           <1>16, <1>17, <1>18, <1>19 DEF Handle

-------------------------------------------------------------------------------
(* The other steps *)

LEMMA RollbackInd ==
  ASSUME ExecInd, NEW u \in Undo, HandleRollback(u)
  PROVE  ExecInd'
<1>1. UNCHANGED <<poolVars, auditVars, gatewayVars, faultVars>>
  BY DEF HandleRollback, UndoLookup, UndoRuns, UndoRecorded
<1>2. PoolInd'
  BY <1>1, PoolUnchanged DEF ExecInd
<1>3. ServiceTypes'
  <2>1. upc' \in [Undo -> UndoPc] /\ undos' \in [RbId -> Nat]
    BY GatewayAssumption DEF HandleRollback, UndoLookup, UndoRuns, UndoRecorded, UndoGoto, UndoPc,
                             ExecInd, ServiceTypes
  <2>2. StoreTypeOK'
    <3>1. CASE UNCHANGED storeVars
      BY <3>1 DEF ExecInd, ServiceTypes, StoreTypeOK, storeVars
    <3>2. ASSUME NEW s \in {"EXECUTED", "FAILED"}, SetStatus(UndoId[u], s)
          PROVE  StoreTypeOK'
      <4>1. [registry[UndoId[u]] EXCEPT !.status = s] \in [status : RbStatus, owner : Req \cup {NoOwner}]
        BY GatewayAssumption DEF ExecInd, ServiceTypes, StoreTypeOK, RbStatus
      <4> QED BY <3>2, <4>1 DEF ExecInd, ServiceTypes, StoreTypeOK, SetStatus
    <3> QED BY <3>1, <3>2 DEF HandleRollback, UndoLookup, UndoRuns, UndoRecorded
  <2> QED BY <1>1, <2>1, <2>2 DEF ExecInd, ServiceTypes, AuditTypeOK, auditVars, gatewayVars,
                                  faultVars
<1>4. Handlers'
  BY <1>1, LogKept DEF ExecInd, Handlers, Before, Meanwhile, After, BuiltEntry, auditVars,
                       poolVars, gatewayVars
<1> QED BY <1>2, <1>3, <1>4 DEF ExecInd

LEMMA RestartInd ==
  ASSUME ExecInd, Restart
  PROVE  ExecInd'
<1> USE DEF ExecInd
<1>1. PoolInd'
  <2>1. PoolTypes'
    <3>1. <<>> \in Seq(Req)
      BY EmptySeq
    <3> QED BY <3>1, PoolAssumption DEF Restart, PoolInd, PoolTypes, Phase, Work, closeVars
  <2>2. Running' = {}
    BY DEF Restart, Running, PoolInd, PoolTypes
  <2>3. IsFiniteSet(Running)' /\ Cardinality(Running') = 0
    BY <2>2, FS_EmptySet
  <2>4. PermitsConserved'
    BY <2>3, PoolAssumption DEF PermitsConserved, Restart
  <2>5. Queue' = <<>>
    BY DEF Restart, Queue
  <2>6. Len(Queue') = 0
    BY <2>5
  <2>7. QueueOK'
    BY <2>6 DEF QueueOK
  <2> QED BY <2>1, <2>3, <2>4, <2>7 DEF PoolInd
<1>2. ServiceTypes'
  <2>1. /\ restarts' \in 0..MaxRestarts
        /\ pc' \in [Req -> Pc] /\ reply' \in [Req -> Reply] /\ upc' \in [Undo -> UndoPc]
    BY GatewayAssumption DEF Restart, ServiceTypes, Pc, Reply, UndoPc
  <2>2. AuditTypeOK' /\ StoreTypeOK'
    BY DEF Restart, ServiceTypes, AuditTypeOK, StoreTypeOK, NewChain, Hash
  <2> QED BY <2>1, <2>2 DEF Restart, ServiceTypes
<1>3. Handlers'
  BY LogKept DEF Restart, Handlers, Before, Meanwhile, After, BuiltEntry, InFlight, PoolInd,
                 PoolTypes, ServiceTypes, Pc, Phase
<1> QED BY <1>1, <1>2, <1>3

LEMMA ExecStepInd == ExecInd /\ [Next]_vars => ExecInd'
<1> SUFFICES ASSUME ExecInd, [Next]_vars PROVE ExecInd'
  OBVIOUS
<1>1. ASSUME NEW r \in Req, Handle(r) PROVE ExecInd'
  BY <1>1, HandlePool, HandleTypes, HandleHandlers DEF ExecInd
<1>2. ASSUME NEW u \in Undo, HandleRollback(u) PROVE ExecInd'
  BY <1>2, RollbackInd
<1>3. CASE Restart
  BY <1>3, RestartInd
<1>4. CASE UNCHANGED vars
  <2>1. PoolInd'
    BY <1>4, PoolUnchanged DEF vars, ExecInd
  <2>2. ServiceTypes'
    BY <1>4 DEF vars, ExecInd, ServiceTypes, AuditTypeOK, StoreTypeOK, auditVars, storeVars,
                gatewayVars, undoVars, faultVars
  <2>3. Handlers'
    BY <1>4, LogKept DEF vars, ExecInd, Handlers, Before, Meanwhile, After, BuiltEntry,
                         auditVars, poolVars, gatewayVars
  <2> QED BY <2>1, <2>2, <2>3 DEF ExecInd
<1> QED BY <1>1, <1>2, <1>3, <1>4 DEF Next

LEMMA ExecInvariant == Spec => []ExecInd
<1>1. Init => ExecInd
  BY ExecInitInd
<1>2. ExecInd /\ [Next]_vars => ExecInd'
  BY ExecStepInd
<1> QED BY <1>1, <1>2, PTL DEF Spec

-------------------------------------------------------------------------------
(* What follows from it *)

LEMMA ExecIndConsequences == ExecInd => TypeOK /\ FailClosed /\ GoodNewsIsTrue
<1> SUFFICES ASSUME ExecInd PROVE TypeOK /\ FailClosed /\ GoodNewsIsTrue
  OBVIOUS
<1>1. TypeOK
  BY PoolIndConsequences DEF ExecInd, ServiceTypes, TypeOK
<1>2. FailClosed
  BY DEF ExecInd, Handlers, Meanwhile, Started, FailClosed
<1>3. GoodNewsIsTrue
  BY DEF ExecInd, Handlers, Before, Meanwhile, After, Started, Ended, Won, GoodNewsIsTrue, Effected,
         PoolInd, PoolTypes, Phase
<1> QED BY <1>1, <1>2, <1>3

\* Every reachable state of the service is well typed.
THEOREM ExecutorTypeCorrect == Spec => []TypeOK
BY ExecInvariant, ExecIndConsequences, PTL

\* Fail-closed execution: nothing is ever executed without a STARTED row that
\* was committed before, whatever fails and whenever the process dies.
THEOREM ExecutorIsFailClosed == Spec => []FailClosed
BY ExecInvariant, ExecIndConsequences, PTL

\* A COMPLETED row or a success reply is only given for an action that was
\* performed, and a refused or blocked request never is.
THEOREM ExecutorGoodNewsIsTrue == Spec => []GoodNewsIsTrue
BY ExecInvariant, ExecIndConsequences, PTL

-------------------------------------------------------------------------------
(* The order of the rows *)

\* Only two steps insert rows, each for a request whose rows are known.
LEMMA InsertedRow ==
  ASSUME ExecInd, [Next]_vars, log' # log
  PROVE  \E r \in Req :
           /\ BuiltEntry(r, Status) /\ log' = Append(log, entry[r]) /\ r \notin Ended
           /\ IF entry[r].status = "STARTED" THEN r \notin Started ELSE r \in Started
<1>1. PICK r \in Req : InsertStarted(r) \/ (Respond(r) /\ InsertRow(r))
  BY DEF Next, Handle, HandleRollback, Reject, Denied, Accept, StartBlocked,
         Execute, FetchCredentials, ExecuteWithCredentials, VaultRaises, Dequeue, AdapterWorks,
         Fails, Succeeds, SucceedsReversibly, SaveRollback, Completes, Respond, UndoLookup,
         UndoRuns, UndoRecorded, Restart, vars, auditVars
<1>2. CASE InsertStarted(r)
  BY <1>2 DEF InsertStarted, InsertRow, Goto, ExecInd, Handlers, Before, After, BuiltEntry, Status
<1>3. CASE Respond(r) /\ InsertRow(r)
  BY <1>3 DEF Respond, Answer, InsertRow, Goto, ExecInd, Handlers, Before, After, BuiltEntry,
              Status, Outcome
<1> QED BY <1>1, <1>2, <1>3

LEMMA RowsInOrderStep == ExecInd /\ RowsInOrder /\ [Next]_vars => RowsInOrder'
<1> SUFFICES ASSUME ExecInd, RowsInOrder, [Next]_vars PROVE RowsInOrder'
  OBVIOUS
<1>1. CASE log' = log
  BY <1>1 DEF RowsInOrder
<1>2. CASE log' # log
  <2>1. PICK r \in Req :
          /\ BuiltEntry(r, Status) /\ log' = Append(log, entry[r]) /\ r \notin Ended
          /\ IF entry[r].status = "STARTED" THEN r \notin Started ELSE r \in Started
    BY <1>2, InsertedRow
  <2>2. /\ log \in Seq(Row) /\ Len(log) \in Nat /\ DOMAIN log = 1..Len(log)
        /\ DOMAIN log' = 1..(Len(log) + 1) /\ log'[Len(log) + 1] = entry[r]
        /\ \A i \in 1..Len(log) : log'[i] = log[i] /\ log[i] \in Row
    <3>1. log \in Seq(Row)
      BY DEF ExecInd, ServiceTypes, AuditTypeOK
    <3> QED BY <2>1, <3>1, LenProperties, ElementOfSeq DEF BuiltEntry
  <2>3. \A i \in 1..Len(log) : 1..(i - 1) \subseteq 1..Len(log)
    BY <2>2
  <2>4. \A i \in 1..Len(log) :
          /\ log'[i].status \in Outcome =>
               \E j \in 1..(i - 1) : log'[j].id = log'[i].id /\ log'[j].status = "STARTED"
          /\ \A j \in 1..(i - 1) :
               log'[j].id = log'[i].id => log'[j].status = "STARTED" /\ log'[i].status \in Outcome
    BY <2>2, <2>3 DEF RowsInOrder
  <2>5. entry[r].status \in Outcome =>
          \E j \in 1..Len(log) : log[j].id = r /\ log[j].status = "STARTED"
    BY <2>1, <2>2 DEF Started, Recorded, HasRow, Outcome
  <2>6. \A j \in 1..Len(log) :
          log[j].id = r => log[j].status = "STARTED" /\ entry[r].status \in Outcome
    BY <2>1, <2>2 DEF Started, Ended, Recorded, HasRow, BuiltEntry, Row, Status
  <2>7. LET n == Len(log) + 1
        IN  /\ log'[n].status \in Outcome =>
                 \E j \in 1..(n - 1) : log'[j].id = log'[n].id /\ log'[j].status = "STARTED"
            /\ \A j \in 1..(n - 1) :
                 log'[j].id = log'[n].id => log'[j].status = "STARTED" /\ log'[n].status \in Outcome
    BY <2>1, <2>2, <2>5, <2>6 DEF BuiltEntry
  <2>8. \A i \in 1..(Len(log) + 1) : i \in 1..Len(log) \/ i = Len(log) + 1
    BY <2>2
  <2> QED BY <2>2, <2>4, <2>7, <2>8 DEF RowsInOrder
<1> QED BY <1>1, <1>2

\* An outcome row comes after its STARTED row, and no event is logged twice.
THEOREM ExecutorRowsInOrder == Spec => []RowsInOrder
<1>1. Init => RowsInOrder
  <2> SUFFICES ASSUME Init PROVE RowsInOrder
    OBVIOUS
  <2>1. DOMAIN log = {}
    BY DEF Init, AuditInit
  <2> QED BY <2>1 DEF RowsInOrder
<1> QED BY <1>1, ExecInvariant, RowsInOrderStep, PTL DEF Spec

\* Together: the audit trail of the gateway tells nothing that is not so.
THEOREM ExecutorTrailIsTrue == Spec => []TrailIsTrue
BY ExecutorTypeCorrect, ExecutorIsFailClosed, ExecutorRowsInOrder, ExecutorGoodNewsIsTrue, PTL
   DEF TrailIsTrue

-------------------------------------------------------------------------------
(* What outlives an execution: the entry that can undo it *)

\* Every entry of the registry was stored by an execution that took effect; whoever
\* offers or looks up an entry relies on it, and none is ever overwritten.
RegistryInd ==
  /\ \A id \in RbId :
       /\ registry[id].status # "absent" => registry[id].owner \in Req /\ Effected(registry[id].owner)
       /\ undos[id] > 0 => registry[id].status # "absent"
       /\ registry[id].status = "EXECUTED" => undos[id] > 0
  /\ \A r \in Req : pc[r] = "saveRb" => r \in Reversible
  /\ \A r \in offered :
       /\ r \in Reversible
       /\ registry[RbIdOf[r]].status # "absent" /\ registry[RbIdOf[r]].owner = r
  /\ \A u \in Undo :
       /\ upc[u] \in {"found", "undone", "failed"} => registry[UndoId[u]].status # "absent"
       /\ upc[u] = "undone" => undos[UndoId[u]] > 0

\* What an adapter has done stays done, and a handler stores a rollback only after
\* it has got one.
LEMMA EffectsStay ==
  ASSUME ExecInd, [Next]_vars
  PROVE  \A q \in Req : /\ Effected(q) => Effected(q)'
                        /\ pc'[q] = "saveRb" => pc[q] = "saveRb" \/ q \in Reversible
<1>1. /\ pc \in [Req -> Pc] /\ phase \in [Req -> Phase] /\ work \in [Req -> Work]
  BY DEF ExecInd, ServiceTypes, PoolInd, PoolTypes
<1>2. \A t \in Req : phase[t] \in {"new", "queued"} => work[t] = "none"
  BY DEF ExecInd, Handlers, Meanwhile
<1>3. ASSUME NEW r \in Req, Handle(r)
      PROVE  /\ \/ UNCHANGED work
                \/ work[r] \in {"none", "busy"} /\ \E w \in Work : work' = [work EXCEPT ![r] = w]
             /\ \/ UNCHANGED pc
                \/ \E to \in Pc : pc' = [pc EXCEPT ![r] = to] /\ (to = "saveRb" => r \in Reversible)
  <2> USE DEF Goto, Answer, Pc, Work
  <2>1. CASE Reject(r) \/ Denied(r) \/ Accept(r) \/ InsertStarted(r) \/ StartBlocked(r)
    BY <2>1 DEF Reject, Denied, Accept, InsertStarted, StartBlocked, poolVars
  <2>2. CASE Execute(r) \/ ExecuteWithCredentials(r)
    BY <1>2, <2>2 DEF Execute, ExecuteWithCredentials, Submit, SubmitNow, SubmitQueued, StartAdapter
  <2>3. CASE FetchCredentials(r) \/ VaultRaises(r)
    BY <2>3 DEF FetchCredentials, VaultRaises, poolVars
  <2>4. CASE Dequeue(r)
    BY <1>2, <2>4, WokenIsQueued DEF Dequeue, Resume, StartAdapter, gatewayVars, ExecInd
  <2>5. CASE AdapterWorks(r)
    BY <2>5 DEF AdapterWorks, WorkEffects, WorkFails, gatewayVars
  <2>6. CASE Fails(r) \/ Succeeds(r) \/ SucceedsReversibly(r)
    <3>1. UNCHANGED work \/ (work[r] = "busy" /\ work' = [work EXCEPT ![r] = "stopped"])
      BY <1>1, <2>6 DEF Fails, Succeeds, SucceedsReversibly, ReturnFailure, Timeout, ReturnSuccess
    <3> QED BY <2>6, <3>1 DEF Fails, Succeeds, SucceedsReversibly
  <2>7. CASE SaveRollback(r) \/ Completes(r) \/ Respond(r)
    BY <2>7 DEF SaveRollback, Completes, Respond, poolVars
  <2> QED BY <1>3, <2>1, <2>2, <2>3, <2>4, <2>5, <2>6, <2>7 DEF Handle
<1>4. ASSUME NEW r \in Req, Handle(r), NEW q \in Req
      PROVE  /\ Effected(q) => Effected(q)'
             /\ pc'[q] = "saveRb" => pc[q] = "saveRb" \/ q \in Reversible
  <2>1. work[q] = "effected" => work'[q] = "effected"
    BY <1>1, <1>3, <1>4
  <2>2. pc'[q] = "saveRb" => pc[q] = "saveRb" \/ q \in Reversible
    BY <1>1, <1>3, <1>4
  <2> QED BY <2>1, <2>2 DEF Effected
<1>5. ASSUME NEW u \in Undo, HandleRollback(u) PROVE UNCHANGED <<work, pc>>
  BY <1>5 DEF HandleRollback, UndoLookup, UndoRuns, UndoRecorded, poolVars, gatewayVars
<1>6. CASE Restart
  BY <1>1, <1>6 DEF Restart, Effected
<1>7. CASE UNCHANGED vars
  BY <1>7 DEF vars, poolVars, gatewayVars, Effected
<1> QED BY <1>4, <1>5, <1>6, <1>7 DEF Next, Effected

LEMMA RegistryStep == ExecInd /\ RegistryInd /\ [Next]_vars => RegistryInd'
<1> SUFFICES ASSUME ExecInd, RegistryInd, [Next]_vars PROVE RegistryInd'
  OBVIOUS
<1>1. /\ registry \in [RbId -> [status : RbStatus, owner : Req \cup {NoOwner}]]
      /\ offered \subseteq Req /\ upc \in [Undo -> UndoPc] /\ undos \in [RbId -> Nat]
      /\ pc \in [Req -> Pc]
  BY DEF ExecInd, ServiceTypes, StoreTypeOK
<1>2. /\ \A q \in Req : work[q] = "effected" => work'[q] = "effected"
      /\ \A q \in Req : pc'[q] = "saveRb" => q \in Reversible
  BY EffectsStay DEF RegistryInd, Effected
<1>3. UndoId \in [Undo -> RbId] /\ RbIdOf \in [Reversible -> RbId]
  BY GatewayAssumption
<1>4. ASSUME UNCHANGED <<registry, offered, upc, undos>> PROVE RegistryInd'
  BY <1>1, <1>2, <1>4 DEF RegistryInd, Effected
<1>5. ASSUME NEW r \in Req, Handle(r) PROVE RegistryInd'
  <2>1. CASE SaveRollback(r)
    <3>1. /\ r \in Reversible /\ RbIdOf[r] \in RbId /\ Effected(r)
          /\ UNCHANGED <<upc, undos>>
      BY <1>3, <2>1 DEF SaveRollback, Goto, RegistryInd, ExecInd, Handlers, Meanwhile, After, Effected,
                        undoVars
    <3>2. CASE SaveConflict(RbIdOf[r]) /\ UNCHANGED offered
      BY <1>4, <3>1, <3>2 DEF SaveConflict
    <3>3. CASE SaveEntry(RbIdOf[r], r) /\ offered' = offered \cup {r}
      <4> DEFINE x == RbIdOf[r]
      <4>1. /\ registry[x].status = "absent" /\ x \in RbId
            /\ registry'[x].status = "AVAILABLE" /\ registry'[x].owner = r
            /\ \A id \in RbId \ {x} : registry'[id] = registry[id]
        BY <1>1, <3>1, <3>3 DEF SaveEntry, Absent
      <4> HIDE DEF x
      <4>2. \A id \in RbId :
              /\ registry'[id].status # "absent" =>
                   registry'[id].owner \in Req /\ work'[registry'[id].owner] = "effected"
              /\ undos'[id] > 0 => registry'[id].status # "absent"
              /\ registry'[id].status = "EXECUTED" => undos'[id] > 0
        BY <1>2, <3>1, <4>1 DEF RegistryInd, Effected
      <4>3. \A q \in offered' :
              /\ q \in Reversible
              /\ registry'[RbIdOf[q]].status # "absent" /\ registry'[RbIdOf[q]].owner = q
        BY <1>3, <3>1, <3>3, <4>1 DEF RegistryInd, x
      <4>4. \A u \in Undo :
              /\ upc'[u] \in {"found", "undone", "failed"} => registry'[UndoId[u]].status # "absent"
              /\ upc'[u] = "undone" => undos'[UndoId[u]] > 0
        BY <1>3, <3>1, <4>1 DEF RegistryInd
      <4> QED BY <1>2, <4>2, <4>3, <4>4 DEF RegistryInd, Effected
    <3> QED BY <2>1, <3>2, <3>3 DEF SaveRollback
  <2>2. CASE ~SaveRollback(r)
    <3>1. UNCHANGED <<registry, offered, upc, undos>>
      BY <1>5, <2>2 DEF Handle, Reject, Denied, Accept, InsertStarted, StartBlocked, Execute,
         FetchCredentials, ExecuteWithCredentials, VaultRaises, Dequeue, AdapterWorks, Fails,
         Succeeds, SucceedsReversibly, Completes, Respond, storeVars, undoVars, gatewayVars
    <3> QED BY <1>4, <3>1
  <2> QED BY <2>1, <2>2
<1>6. ASSUME NEW u \in Undo, HandleRollback(u) PROVE RegistryInd'
  <2> DEFINE x == UndoId[u]
  <2>1. UNCHANGED <<offered, pc, work>> /\ x \in RbId
    BY <1>3, <1>6 DEF HandleRollback, UndoLookup, UndoRuns, UndoRecorded, gatewayVars, poolVars
  <2>2. CASE UndoLookup(u)
    <3>1. UNCHANGED <<registry, undos>> /\ upc' = [upc EXCEPT ![u] = IF Undoable(x) THEN "found" ELSE "done"]
      BY <2>2 DEF UndoLookup, UndoGoto, storeVars
    <3>2. Undoable(x) => registry[x].status # "absent"
      BY DEF Undoable
    <3> QED BY <1>1, <1>2, <2>1, <3>1, <3>2 DEF RegistryInd, Effected
  <2>3. CASE UndoRuns(u)
    <3>1. registry[x].status # "absent" /\ UNCHANGED registry
      BY <2>3 DEF UndoRuns, UndoGoto, RegistryInd, storeVars
    <3>2. /\ \A id \in RbId : undos'[id] \in Nat /\ undos'[id] >= undos[id]
          /\ \A id \in RbId \ {x} : undos'[id] = undos[id]
      BY <1>1, <2>1, <2>3 DEF UndoRuns
    <3>3. \/ upc' = [upc EXCEPT ![u] = "undone"] /\ undos'[x] > 0
          \/ upc' = [upc EXCEPT ![u] = "failed"]
      <4>1. undos[x] + 1 > 0 /\ undos[x] \in Nat
        BY <1>1, <2>1
      <4> QED BY <1>1, <2>1, <2>3, <4>1 DEF UndoRuns, UndoGoto
    <3>4. \A id \in RbId :
            /\ registry[id].status # "absent" => registry[id].owner \in Req /\ work'[registry[id].owner] = "effected"
            /\ undos'[id] > 0 => registry[id].status # "absent"
            /\ registry[id].status = "EXECUTED" => undos'[id] > 0
      BY <1>1, <1>2, <3>1, <3>2 DEF RegistryInd, Effected
    <3>5. \A w \in Undo :
            /\ upc'[w] \in {"found", "undone", "failed"} => registry[UndoId[w]].status # "absent"
            /\ upc'[w] = "undone" => undos'[UndoId[w]] > 0
      BY <1>1, <1>3, <3>1, <3>2, <3>3 DEF RegistryInd
    <3> QED BY <1>2, <2>1, <3>1, <3>4, <3>5 DEF RegistryInd, Effected
  <2>4. CASE UndoRecorded(u)
    <3>1. PICK s \in {"EXECUTED", "FAILED"} :
            /\ SetStatus(x, s) /\ upc' = [upc EXCEPT ![u] = "done"]
            /\ registry[x].status # "absent" /\ (s = "EXECUTED" => undos[x] > 0) /\ UNCHANGED undos
      BY <2>4 DEF UndoRecorded, UndoGoto, RegistryInd
    <3>2. /\ registry'[x].status = s /\ registry'[x].owner = registry[x].owner
          /\ \A id \in RbId \ {x} : registry'[id] = registry[id]
      BY <1>1, <2>1, <3>1 DEF SetStatus
    <3> HIDE DEF x
    <3>3. \A id \in RbId :
            /\ registry'[id].status # "absent" =>
                 registry'[id].owner \in Req /\ work'[registry'[id].owner] = "effected"
            /\ undos'[id] > 0 => registry'[id].status # "absent"
            /\ registry'[id].status = "EXECUTED" => undos'[id] > 0
      BY <1>2, <2>1, <3>1, <3>2 DEF RegistryInd, Effected
    <3>4. \A q \in offered' :
            /\ q \in Reversible
            /\ registry'[RbIdOf[q]].status # "absent" /\ registry'[RbIdOf[q]].owner = q
      BY <1>3, <2>1, <3>1, <3>2 DEF RegistryInd
    <3>5. \A w \in Undo :
            /\ upc'[w] \in {"found", "undone", "failed"} => registry'[UndoId[w]].status # "absent"
            /\ upc'[w] = "undone" => undos'[UndoId[w]] > 0
      BY <1>1, <1>3, <3>1, <3>2 DEF RegistryInd
    <3> QED BY <1>2, <3>3, <3>4, <3>5 DEF RegistryInd, Effected
  <2> QED BY <1>6, <2>2, <2>3, <2>4 DEF HandleRollback
<1>7. CASE Restart
  <2>1. UNCHANGED <<registry, offered, undos>> /\ \A u \in Undo : upc'[u] \in {"idle", "done"}
    BY <1>7 DEF Restart
  <2> QED BY <1>1, <1>2, <2>1 DEF RegistryInd, Effected
<1>8. CASE UNCHANGED vars
  BY <1>4, <1>8 DEF vars, storeVars, gatewayVars, undoVars
<1> QED BY <1>5, <1>6, <1>7, <1>8 DEF Next

LEMMA RegistryInvariant == Spec => []RegistryInd
<1>1. Init => RegistryInd
  BY GatewayAssumption DEF Init, StoreInit, Absent, RegistryInd
<1> QED BY <1>1, ExecInvariant, RegistryStep, PTL DEF Spec

\* A reply that offers a rollback names the entry of that very execution, and only
\* what was performed is ever undone, however calls of handle and handle_rollback
\* for one id overlap.
THEOREM ExecutorRollbacksAreSound == Spec => [](OfferedRollbackIsStored /\ UndoneWasDone)
<1>1. ExecInd /\ RegistryInd => OfferedRollbackIsStored /\ UndoneWasDone
  <2> SUFFICES ASSUME ExecInd, RegistryInd PROVE OfferedRollbackIsStored /\ UndoneWasDone
    OBVIOUS
  <2>1. \A r \in offered : r \in Req /\ RbIdOf[r] \in RbId
    BY GatewayAssumption DEF ExecInd, ServiceTypes, RegistryInd
  <2> QED BY <2>1 DEF RegistryInd, OfferedRollbackIsStored, UndoneWasDone
<1> QED BY <1>1, ExecInvariant, RegistryInvariant, PTL

-------------------------------------------------------------------------------
(* The chain of the rows *)

\* The handlers whose entry is built and not yet in the table.
Pending(r) == pc[r] \in {"logStart", "logEnd"}

\* The event a hash stands for has been built, with the handlers at those places.
BuiltAt(h, at) ==
  \A q \in Req : /\ h = <<q, "STARTED">> => at[q] # "idle"
                 /\ \A s \in Outcome : h = <<q, s>> => at[q] \in {"logEnd", "done"}
Built(h) == BuiltAt(h, pc)

\* Who has a predecessor has it alone, but for the rows at the start of a chain; and
\* nobody has the head yet, which is nobody's future event.
ChainInd ==
  /\ Built(head)
  /\ \A r \in Req : Pending(r) =>
       /\ entry[r].prev # head /\ Built(entry[r].prev)
       /\ \A q \in Req \ {r} : Pending(q) => entry[q].prev # entry[r].prev
       /\ \A i \in DOMAIN log : log[i].prev = entry[r].prev => log[i].prev = Genesis
  /\ \A i \in DOMAIN log : Built(log[i].prev) /\ (log[i].prev = head => head = Genesis)
  /\ \A i, j \in DOMAIN log : i # j /\ log[i].prev = log[j].prev => log[i].prev = Genesis

\* Each process begins at genesis once: by now, or with a row still to come.
Beginnings == {i \in DOMAIN log : log[i].prev = Genesis}
ToBegin == head = Genesis \/ \E r \in Req : Pending(r) /\ entry[r].prev = Genesis
BeginsOnce ==
  /\ Cardinality(Beginnings) <= restarts + 1
  /\ ToBegin => Cardinality(Beginnings) <= restarts

\* The four ways in which a step touches the chain.
KeepsChain ==
  UNCHANGED <<log, head, entry, restarts>> /\ \A q \in Req : Pending(q)' => Pending(q)
Builds(r, s) ==
  /\ ChainAppend(r, s) /\ UNCHANGED <<log, restarts>>
  /\ ~Pending(r) /\ \A q \in Req \ {r} : Pending(q)' => Pending(q)
  /\ ~Built(<<r, s>>) /\ Built(<<r, s>>)'
Inserts(r) ==
  /\ InsertRow(r) /\ UNCHANGED <<head, entry, restarts>>
  /\ Pending(r) /\ ~Pending(r)' /\ \A q \in Req : Pending(q)' => Pending(q)
StartsAgain ==
  head' = Genesis /\ UNCHANGED log /\ restarts' = restarts + 1 /\ \A q \in Req : ~Pending(q)'

LEMMA ChainMoves ==
  ASSUME ExecInd, [Next]_vars
  PROVE  \/ KeepsChain
         \/ \E r \in Req, s \in Status : Builds(r, s)
         \/ \E r \in Req : Inserts(r)
         \/ StartsAgain
<1>1. pc \in [Req -> Pc]
  BY DEF ExecInd, ServiceTypes
<1> USE DEF Pending, Goto, Answer, Pc
<1>2. ASSUME NEW r \in Req, Handle(r)
      PROVE  KeepsChain \/ (\E s \in Status : Builds(r, s)) \/ Inserts(r)
  <2>1. CASE Reject(r) \/ Denied(r) \/ StartBlocked(r)
    BY <1>1, <2>1 DEF Reject, Denied, StartBlocked, KeepsChain, auditVars, faultVars
  <2>2. CASE Accept(r)
    <3>1. <<r, "STARTED">> # <<r, "COMPLETED">> /\ <<r, "STARTED">> # <<r, "FAILED">>
      OBVIOUS
    <3>2. ~Built(<<r, "STARTED">>) /\ pc'[r] = "logStart"
      BY <1>1, <2>2 DEF Accept, Built, BuiltAt
    <3>3. Built(<<r, "STARTED">>)'
      BY <1>1, <3>2 DEF Built, BuiltAt, Outcome
    <3> QED BY <1>1, <2>2, <3>2, <3>3 DEF Accept, Builds, Status, faultVars
  <2>3. CASE InsertStarted(r)
    BY <1>1, <2>3 DEF InsertStarted, Inserts, faultVars
  <2>4. CASE \/ Execute(r) \/ FetchCredentials(r) \/ ExecuteWithCredentials(r) \/ VaultRaises(r)
             \/ SucceedsReversibly(r) \/ SaveRollback(r)
    BY <1>1, <2>4 DEF Execute, FetchCredentials, ExecuteWithCredentials, VaultRaises,
       SucceedsReversibly, SaveRollback, KeepsChain, auditVars, faultVars
  <2>5. CASE Dequeue(r) \/ AdapterWorks(r)
    BY <2>5 DEF Dequeue, AdapterWorks, KeepsChain, auditVars, faultVars, gatewayVars
  <2>6. ASSUME NEW s \in Outcome, ChainAppend(r, s), UNCHANGED <<log, restarts>>,
               Goto(r, "pool", "logEnd") \/ Goto(r, "rbSaved", "logEnd")
        PROVE  Builds(r, s)
    <3>1. ~Built(<<r, s>>) /\ pc'[r] = "logEnd" /\ ~Pending(r)
      BY <1>1, <2>6 DEF Built, BuiltAt
    <3>2. Built(<<r, s>>)'
      BY <1>1, <3>1 DEF Built, BuiltAt, Outcome
    <3>3. \A q \in Req \ {r} : Pending(q)' => Pending(q)
      BY <1>1, <2>6
    <3> QED BY <2>6, <3>1, <3>2, <3>3 DEF Builds
  <2>7. CASE Fails(r) \/ Succeeds(r) \/ Completes(r)
    BY <2>6, <2>7 DEF Fails, Succeeds, Completes, Outcome, Status, faultVars
  <2>8. CASE Respond(r)
    BY <1>1, <2>8 DEF Respond, Inserts, KeepsChain
  <2> QED BY <1>2, <2>1, <2>2, <2>3, <2>4, <2>5, <2>7, <2>8 DEF Handle
<1>3. ASSUME NEW u \in Undo, HandleRollback(u) PROVE KeepsChain
  BY <1>3 DEF HandleRollback, UndoLookup, UndoRuns, UndoRecorded, auditVars, gatewayVars, faultVars,
     KeepsChain
<1>4. CASE Restart
  BY <1>1, <1>4 DEF Restart, NewChain, StartsAgain, InFlight
<1>5. CASE UNCHANGED vars
  BY <1>5 DEF vars, auditVars, gatewayVars, faultVars, KeepsChain
<1> QED BY <1>2, <1>3, <1>4, <1>5 DEF Next

LEMMA BuiltStays ==
  ASSUME ExecInd, [Next]_vars, NEW h, Built(h) PROVE Built(h)'
<1>1. pc \in [Req -> Pc]
  BY DEF ExecInd, ServiceTypes
<1> USE DEF Goto, Answer, Pc
<1>2. ASSUME NEW r \in Req, Handle(r)
      PROVE  \/ UNCHANGED pc
             \/ \E to \in Pc \ {"idle"} :
                  /\ pc' = [pc EXCEPT ![r] = to]
                  /\ pc[r] \in {"logEnd", "done"} => to \in {"logEnd", "done"}
  <2>1. CASE \/ Reject(r) \/ Denied(r) \/ Accept(r) \/ InsertStarted(r) \/ StartBlocked(r)
             \/ Execute(r) \/ FetchCredentials(r) \/ ExecuteWithCredentials(r) \/ VaultRaises(r)
    BY <2>1 DEF Reject, Denied, Accept, InsertStarted, StartBlocked, Execute, FetchCredentials,
       ExecuteWithCredentials, VaultRaises
  <2>2. CASE \/ Dequeue(r) \/ AdapterWorks(r) \/ Fails(r) \/ Succeeds(r) \/ SucceedsReversibly(r)
             \/ SaveRollback(r) \/ Completes(r) \/ Respond(r)
    BY <2>2 DEF Dequeue, AdapterWorks, Fails, Succeeds, SucceedsReversibly, SaveRollback, Completes,
       Respond, gatewayVars
  <2> QED BY <1>2, <2>1, <2>2 DEF Handle
<1>3. ASSUME NEW q \in Req
      PROVE  /\ pc[q] # "idle" => pc'[q] # "idle"
             /\ pc[q] \in {"logEnd", "done"} => pc'[q] \in {"logEnd", "done"}
  <2>1. CASE \E r \in Req : Handle(r)
    BY <1>1, <1>2, <2>1
  <2>2. CASE \E u \in Undo : HandleRollback(u)
    BY <2>2 DEF HandleRollback, UndoLookup, UndoRuns, UndoRecorded, gatewayVars
  <2>3. CASE Restart
    BY <1>1, <2>3 DEF Restart, InFlight
  <2>4. CASE UNCHANGED vars
    BY <2>4 DEF vars, gatewayVars
  <2> QED BY <2>1, <2>2, <2>3, <2>4 DEF Next
<1> QED BY <1>3 DEF Built, BuiltAt

\* A longer table.
LEMMA RowAdded ==
  ASSUME NEW x \in Row, log \in Seq(Row), log' = Append(log, x)
  PROVE  LET n == Len(log) + 1
         IN  /\ n \notin DOMAIN log /\ DOMAIN log' = DOMAIN log \cup {n} /\ log'[n] = x
             /\ \A i \in DOMAIN log : log'[i] = log[i]
<1>1. /\ Len(log) \in Nat /\ DOMAIN log = 1..Len(log)
      /\ DOMAIN log' = 1..(Len(log) + 1)
      /\ \A i \in 1..Len(log) : log'[i] = log[i]
      /\ log'[Len(log) + 1] = x
  BY LenProperties
<1>2. 1..(Len(log) + 1) = 1..Len(log) \cup {Len(log) + 1} /\ Len(log) + 1 \notin 1..Len(log)
  BY <1>1
<1> QED BY <1>1, <1>2

LEMMA ChainStep == ExecInd /\ ChainInd /\ [Next]_vars => ChainInd'
<1> SUFFICES ASSUME ExecInd, ChainInd, [Next]_vars PROVE ChainInd'
  OBVIOUS
<1>1. \A h : Built(h) => BuiltAt(h, pc')
  <2> SUFFICES ASSUME NEW h, Built(h) PROVE BuiltAt(h, pc')
    OBVIOUS
  <2>1. Built(h)'
    BY BuiltStays
  <2> QED BY <2>1 DEF Built
<1>2. /\ log \in Seq(Row) /\ entry \in [Req -> Row \cup {NoEntry}] /\ head \in Hash
      /\ \A r \in Req : Pending(r) => entry[r] \in Row
  BY DEF ExecInd, ServiceTypes, AuditTypeOK, Handlers, Before, After, BuiltEntry, Pending
<1>3. CASE KeepsChain
  <2>1. BuiltAt(head, pc') /\ \A i \in DOMAIN log : BuiltAt(log[i].prev, pc')
    BY <1>1, <1>3 DEF KeepsChain, ChainInd, Built
  <2>2. \A r \in Req : Pending(r) => BuiltAt(entry[r].prev, pc')
    BY <1>1, <1>3 DEF KeepsChain, ChainInd, Built
  <2> QED BY <1>3, <2>1, <2>2 DEF KeepsChain, ChainInd, Built
<1>4. ASSUME NEW r \in Req, NEW s \in Status, Builds(r, s) PROVE ChainInd'
  <2> DEFINE h == <<r, s>>
  <2>1. /\ log' = log /\ head' = h /\ entry'[r].prev = head
        /\ \A q \in Req \ {r} : entry'[q] = entry[q] /\ (Pending(q)' => Pending(q))
        /\ ~Built(h) /\ BuiltAt(h, pc') /\ h # Genesis
    <3>1. <<r, s>> # <<>>
      OBVIOUS
    <3> QED BY <1>2, <1>4, <3>1 DEF Builds, ChainAppend, Genesis, Built
  <2> HIDE DEF h
  <2>2. h # head /\ BuiltAt(head, pc')
    BY <1>1, <2>1 DEF ChainInd
  <2>3. ASSUME NEW q \in Req, Pending(q)'
        PROVE  /\ entry'[q].prev # head' /\ BuiltAt(entry'[q].prev, pc')
               /\ \A p \in Req \ {q} : Pending(p)' => entry'[p].prev # entry'[q].prev
               /\ \A i \in DOMAIN log' : log'[i].prev = entry'[q].prev => log'[i].prev = Genesis
    <3>1. CASE q = r
      <4>1. entry'[q].prev = head
        BY <2>1, <3>1
      <4>2. \A p \in Req \ {q} : Pending(p)' => entry'[p].prev # head
        BY <2>1, <3>1 DEF ChainInd
      <4>3. \A i \in DOMAIN log' : log'[i].prev = head => log'[i].prev = Genesis
        BY <2>1 DEF ChainInd
      <4>4. BuiltAt(entry'[q].prev, pc')
        BY <2>2, <4>1 DEF Built
      <4> QED BY <2>1, <2>2, <4>1, <4>2, <4>3, <4>4
    <3>2. CASE q # r
      <4>1. Pending(q) /\ entry'[q] = entry[q]
        BY <2>1, <2>3, <3>2
      <4>2. Built(entry[q].prev) /\ entry[q].prev # head
        BY <4>1 DEF ChainInd
      <4>3. BuiltAt(entry'[q].prev, pc') /\ entry'[q].prev # h
        BY <1>1, <2>1, <4>1, <4>2 DEF Built
      <4>4. \A p \in Req \ {q} : Pending(p)' => entry'[p].prev # entry'[q].prev
        BY <2>1, <4>1, <4>2 DEF ChainInd
      <4> QED BY <2>1, <4>1, <4>3, <4>4 DEF ChainInd
    <3> QED BY <3>1, <3>2
  <2>4. \A i \in DOMAIN log' : BuiltAt(log'[i].prev, pc') /\ log'[i].prev # head'
    BY <1>1, <2>1 DEF ChainInd, Built
  <2>5. \A i, j \in DOMAIN log' : i # j /\ log'[i].prev = log'[j].prev => log'[i].prev = Genesis
    BY <2>1 DEF ChainInd
  <2>6. BuiltAt(head', pc')
    BY <2>1 DEF Built
  <2> QED BY <2>3, <2>4, <2>5, <2>6 DEF ChainInd, Built
<1>5. ASSUME NEW r \in Req, Inserts(r) PROVE ChainInd'
  <2> DEFINE n == Len(log) + 1
             x == entry[r]
  <2>1. /\ UNCHANGED <<head, entry>> /\ Pending(r) /\ ~Pending(r)' /\ x \in Row /\ x = entry[r]
        /\ \A q \in Req : Pending(q)' => Pending(q)
        /\ log' = Append(log, x)
    BY <1>2, <1>5 DEF Inserts, InsertRow
  <2>2. /\ n \notin DOMAIN log /\ DOMAIN log' = DOMAIN log \cup {n} /\ log'[n] = x
        /\ \A i \in DOMAIN log : log'[i] = log[i]
    BY <1>2, <2>1, RowAdded
  <2> HIDE DEF n, x
  <2>3. /\ x.prev # head /\ Built(x.prev)
        /\ \A q \in Req \ {r} : Pending(q) => entry[q].prev # x.prev
        /\ \A i \in DOMAIN log : log[i].prev = x.prev => log[i].prev = Genesis
    BY <2>1 DEF ChainInd
  <2>4. ASSUME NEW q \in Req, Pending(q)'
        PROVE  /\ entry'[q].prev # head' /\ BuiltAt(entry'[q].prev, pc')
               /\ \A p \in Req \ {q} : Pending(p)' => entry'[p].prev # entry'[q].prev
               /\ \A i \in DOMAIN log' : log'[i].prev = entry'[q].prev => log'[i].prev = Genesis
    <3>1. Pending(q) /\ q # r /\ entry' = entry /\ head' = head
      BY <2>1, <2>4
    <3>2. BuiltAt(entry'[q].prev, pc')
      BY <1>1, <3>1 DEF ChainInd, Built
    <3>3. \A i \in DOMAIN log' : log'[i].prev = entry[q].prev => log'[i].prev = Genesis
      BY <2>2, <2>3, <3>1 DEF ChainInd
    <3> QED BY <2>1, <3>1, <3>2, <3>3 DEF ChainInd
  <2>5. \A i \in DOMAIN log' : BuiltAt(log'[i].prev, pc') /\ (log'[i].prev = head' => head' = Genesis)
    <3>1. BuiltAt(x.prev, pc') /\ x.prev # head'
      BY <1>1, <2>1, <2>3 DEF Built
    <3>2. \A i \in DOMAIN log : BuiltAt(log[i].prev, pc') /\ (log[i].prev = head' => head' = Genesis)
      BY <1>1, <2>1, <2>3 DEF Built, ChainInd
    <3> QED BY <2>2, <3>1, <3>2 DEF Built
  <2>6. \A i, j \in DOMAIN log' : i # j /\ log'[i].prev = log'[j].prev => log'[i].prev = Genesis
    BY <2>2, <2>3 DEF ChainInd
  <2>7. BuiltAt(head', pc')
    BY <1>1, <2>1 DEF ChainInd, Built
  <2> QED BY <2>4, <2>5, <2>6, <2>7 DEF ChainInd, Built
<1>6. CASE StartsAgain
  <2>1. BuiltAt(head', pc')
    BY <1>6 DEF StartsAgain, BuiltAt, Genesis
  <2>2. \A i \in DOMAIN log : BuiltAt(log[i].prev, pc')
    BY <1>1, <1>6 DEF StartsAgain, ChainInd, Built
  <2> QED BY <1>6, <2>1, <2>2 DEF StartsAgain, ChainInd, Built
<1> QED BY <1>3, <1>4, <1>5, <1>6, ChainMoves

LEMMA ChainInit == Init => ChainInd /\ BeginsOnce
<1> SUFFICES ASSUME Init PROVE ChainInd /\ BeginsOnce
  OBVIOUS
<1>1. /\ DOMAIN log = {} /\ head = Genesis /\ restarts = 0 /\ \A r \in Req : ~Pending(r)
  BY DEF Init, AuditInit, Pending
<1>2. Built(Genesis)
  BY DEF Built, BuiltAt, Genesis
<1>3. Beginnings = {} /\ Cardinality({}) = 0
  BY <1>1, FS_EmptySet DEF Beginnings
<1> QED BY <1>1, <1>2, <1>3 DEF ChainInd, BeginsOnce

LEMMA FiniteBeginnings ==
  ASSUME log \in Seq(Row)
  PROVE  IsFiniteSet(Beginnings) /\ Cardinality(Beginnings) \in Nat
<1>1. DOMAIN log = 1..Len(log) /\ Len(log) \in Nat
  OBVIOUS
<1>2. IsFiniteSet(1..Len(log))
  BY <1>1, FS_Interval
<1>3. Beginnings \subseteq 1..Len(log)
  BY <1>1 DEF Beginnings
<1>4. IsFiniteSet(Beginnings)
  BY <1>2, <1>3, FS_Subset
<1> QED BY <1>4, FS_CardinalityType

LEMMA BeginsStep == ExecInd /\ ChainInd /\ BeginsOnce /\ [Next]_vars => BeginsOnce'
<1> SUFFICES ASSUME ExecInd, ChainInd, BeginsOnce, [Next]_vars PROVE BeginsOnce'
  OBVIOUS
<1>1. /\ log \in Seq(Row) /\ entry \in [Req -> Row \cup {NoEntry}]
      /\ \A r \in Req : Pending(r) => entry[r] \in Row
      /\ restarts \in Nat /\ IsFiniteSet(Beginnings) /\ Cardinality(Beginnings) \in Nat
  BY FiniteBeginnings, GatewayAssumption
     DEF ExecInd, ServiceTypes, AuditTypeOK, Handlers, Before, After, BuiltEntry, Pending
<1>2. ASSUME UNCHANGED <<log, restarts>>, ToBegin' => ToBegin PROVE BeginsOnce'
  <2>1. Beginnings' = Beginnings
    BY <1>2 DEF Beginnings
  <2> QED BY <1>2, <2>1 DEF BeginsOnce
<1>3. CASE KeepsChain
  <2>1. ToBegin' => ToBegin
    BY <1>3 DEF KeepsChain, ToBegin
  <2> QED BY <1>2, <1>3, <2>1 DEF KeepsChain
<1>4. ASSUME NEW r \in Req, NEW s \in Status, Builds(r, s) PROVE BeginsOnce'
  <2>1. /\ head' # Genesis /\ entry'[r].prev = head
        /\ \A q \in Req \ {r} : entry'[q] = entry[q] /\ (Pending(q)' => Pending(q))
    <3>1. <<r, s>> # <<>>
      OBVIOUS
    <3> QED BY <1>1, <1>4, <3>1 DEF Builds, ChainAppend, Genesis
  <2>2. ToBegin' => ToBegin
    BY <2>1 DEF ToBegin
  <2> QED BY <1>2, <1>4, <2>2 DEF Builds
<1>5. ASSUME NEW r \in Req, Inserts(r) PROVE BeginsOnce'
  <2> DEFINE n == Len(log) + 1
             x == entry[r]
  <2>1. /\ UNCHANGED <<head, entry, restarts>> /\ Pending(r) /\ ~Pending(r)' /\ x \in Row /\ x = entry[r]
        /\ \A q \in Req : Pending(q)' => Pending(q)
        /\ log' = Append(log, x)
    BY <1>1, <1>5 DEF Inserts, InsertRow
  <2>2. /\ n \notin DOMAIN log /\ DOMAIN log' = DOMAIN log \cup {n} /\ log'[n] = x
        /\ \A i \in DOMAIN log : log'[i] = log[i]
    BY <1>1, <2>1, RowAdded
  <2> HIDE DEF n, x
  <2>3. ToBegin' => ToBegin
    BY <2>1 DEF ToBegin
  <2>4. CASE x.prev # Genesis
    <3>1. Beginnings' = Beginnings
      BY <2>2, <2>4 DEF Beginnings
    <3> QED BY <2>1, <2>3, <3>1 DEF BeginsOnce
  <2>5. CASE x.prev = Genesis
    <3>1. Beginnings' = Beginnings \cup {n} /\ n \notin Beginnings
      BY <2>2, <2>5 DEF Beginnings
    <3>2. Cardinality(Beginnings') = Cardinality(Beginnings) + 1
      BY <1>1, <3>1, FS_AddElement
    <3>3. ToBegin /\ ~ToBegin'
      <4>1. ToBegin
        BY <2>1, <2>5 DEF ToBegin
      <4>2. head # Genesis /\ \A q \in Req \ {r} : Pending(q) => entry[q].prev # Genesis
        BY <2>1, <2>5 DEF ChainInd
      <4>3. ~ToBegin'
        BY <2>1, <4>2 DEF ToBegin
      <4> QED BY <4>1, <4>3
    <3>4. Cardinality(Beginnings) <= restarts
      BY <3>3 DEF BeginsOnce
    <3>5. Cardinality(Beginnings') <= restarts' + 1
      BY <1>1, <2>1, <3>2, <3>4
    <3> QED BY <3>3, <3>5 DEF BeginsOnce
  <2> QED BY <2>4, <2>5
<1>6. CASE StartsAgain
  <2>1. Beginnings' = Beginnings /\ restarts' = restarts + 1
    BY <1>6 DEF StartsAgain, Beginnings
  <2>2. Cardinality(Beginnings) <= restarts + 1
    BY DEF BeginsOnce
  <2>3. Cardinality(Beginnings') <= restarts' /\ Cardinality(Beginnings') <= restarts' + 1
    BY <1>1, <2>1, <2>2
  <2> QED BY <2>3 DEF BeginsOnce
<1> QED BY <1>3, <1>4, <1>5, <1>6, ChainMoves

LEMMA ChainInvariant == Spec => [](ChainInd /\ BeginsOnce)
<1>1. Init => ChainInd /\ BeginsOnce
  BY ChainInit
<1>2. ExecInd /\ (ChainInd /\ BeginsOnce) /\ [Next]_vars => (ChainInd /\ BeginsOnce)'
  BY ChainStep, BeginsStep
<1> QED BY <1>1, <1>2, ExecInvariant, PTL DEF Spec

\* However handlers overlap and INSERTs fail or overtake each other, no two rows
\* claim one predecessor, and there are no more chains than processes there were.
THEOREM ExecutorChainNeverForks == Spec => []NoFork
<1>1. ChainInd /\ BeginsOnce => NoFork
  BY DEF ChainInd, BeginsOnce, Beginnings, NoFork
<1> QED BY <1>1, ChainInvariant, PTL

\* Together: the place of an execution in the chain and the entry that can undo it
\* are its own.
THEOREM ExecutorHistoryIsSound == Spec => []HistoryIsSound
BY ExecutorChainNeverForks, ExecutorRollbacksAreSound, PTL DEF HistoryIsSound

-------------------------------------------------------------------------------
(* The gateway implements the contract *)

told == [r \in Req |-> IF reply[r] \in {"none", "ok"} THEN reply[r] ELSE "no"]
Performed == {r \in Req : Effected(r)}

LEMMA ContractInit == Init => Contract!Init
<1> SUFFICES ASSUME Init PROVE Contract!Init
  OBVIOUS
<1>1. \A r \in Req : ~Recorded(r) /\ ~Effected(r) /\ reply[r] = "none"
  <2>1. DOMAIN log = {}
    BY DEF Init, AuditInit
  <2> QED BY <2>1 DEF Init, PoolInit, Recorded, HasRow, Effected
<1> QED BY <1>1 DEF Contract!Init

LEMMA ContractStep == ExecInd /\ [Next]_vars => [Contract!Next]_Contract!vars
<1> SUFFICES ASSUME ExecInd, [Next]_vars PROVE [Contract!Next]_Contract!vars
  OBVIOUS
<1>1. /\ reply \in [Req -> Reply] /\ phase \in [Req -> Phase] /\ work \in [Req -> Work]
      /\ pc \in [Req -> Pc] /\ log \in Seq(Row)
  BY DEF ExecInd, ServiceTypes, AuditTypeOK, PoolInd, PoolTypes
<1>2. ASSUME UNCHANGED <<Started, Performed, told>>
      PROVE  [Contract!Next]_Contract!vars
  BY <1>2 DEF Contract!vars, Started, Performed, told
<1>3. ASSUME NEW r \in Req, r \notin Started, told[r] = "none", Started' = Started \cup {r},
             UNCHANGED <<Performed, told>>
      PROVE  [Contract!Next]_Contract!vars
  BY <1>3 DEF Contract!Next, Contract!Record, Started, Performed, told
<1>4. ASSUME NEW r \in Req, r \in Started \ Performed, Performed' = Performed \cup {r},
             UNCHANGED <<Started, told>>
      PROVE  [Contract!Next]_Contract!vars
  BY <1>4 DEF Contract!Next, Contract!Perform, Started, Performed, told
<1>5. ASSUME NEW r \in Req, told[r] = "none", r \in Performed,
             told' = [told EXCEPT ![r] = "ok"], UNCHANGED <<Started, Performed>>
      PROVE  [Contract!Next]_Contract!vars
  BY <1>5 DEF Contract!Next, Contract!Confirm, Started, Performed, told
<1>6. ASSUME NEW S \in SUBSET Req, \A r \in S : told[r] = "none",
             told' = [r \in Req |-> IF r \in S THEN "no" ELSE told[r]],
             UNCHANGED <<Started, Performed>>
      PROVE  [Contract!Next]_Contract!vars
  BY <1>6 DEF Contract!Next, Contract!Disappoint, Started, Performed, told
<1>7. ASSUME NEW r \in Req, NEW from \in Pc \ {"done"}, NEW answer \in Reply \ {"none", "ok"},
             Answer(r, from, answer), UNCHANGED <<Started, Performed>>
      PROVE  [Contract!Next]_Contract!vars
  <2>1. told[r] = "none"
    BY <1>1, <1>7 DEF Answer, Goto, ExecInd, Handlers, After, told
  <2>2. told' = [q \in Req |-> IF q \in {r} THEN "no" ELSE told[q]]
    BY <1>1, <1>7 DEF Answer, told
  <2> QED BY <1>6, <1>7, <2>1, <2>2
<1>8. ASSUME NEW r \in Req, Handle(r)
      PROVE  [Contract!Next]_Contract!vars
  <2> USE DEF gatewayVars, poolVars, auditVars, Pc, Reply
  <2>1. CASE Denied(r)
    BY <1>1, <1>7, <2>1, LogKept DEF Denied, Performed, Effected
  <2>2. CASE InsertStarted(r)
    <3>1. /\ BuiltEntry(r, {"STARTED"}) /\ r \notin Started
          /\ log' = Append(log, entry[r])
      BY <2>2 DEF InsertStarted, InsertRow, Goto, ExecInd, Handlers, Before
    <3>2. Started' = Started \cup {r}
      BY <1>1, <3>1, StartedInserted DEF BuiltEntry
    <3>3. told[r] = "none"
      BY <1>1, <2>2 DEF InsertStarted, Goto, ExecInd, Handlers, After, told
    <3> QED BY <1>3, <2>2, <3>1, <3>2, <3>3 DEF InsertStarted, Performed, Effected, told
  <2>3. CASE StartBlocked(r)
    BY <1>1, <1>7, <2>3, LogKept DEF StartBlocked, Performed, Effected
  <2>4. CASE VaultRaises(r)
    BY <1>1, <1>7, <2>4, LogKept DEF VaultRaises, Performed, Effected
  <2>5. CASE AdapterWorks(r)
    <3>1. CASE WorkEffects(r)
      <4>1. r \in Started \ Performed /\ Performed' = Performed \cup {r}
        BY <1>1, <3>1 DEF WorkEffects, ExecInd, Handlers, Meanwhile, Performed, Effected
      <4> QED BY <1>4, <2>5, <4>1, LogKept DEF AdapterWorks, told
    <3>2. CASE WorkFails(r)
      <4>1. Performed' = Performed
        BY <1>1, <3>2 DEF WorkFails, Performed, Effected
      <4> QED BY <1>2, <2>5, <4>1, LogKept DEF AdapterWorks, told
    <3> QED BY <2>5, <3>1, <3>2 DEF AdapterWorks
  <2>6. CASE Respond(r)
    <3>1. Started' = Started
      <4>1. CASE InsertRow(r)
        BY <1>1, <2>6, <4>1, OutcomeInserted
           DEF InsertRow, Respond, Answer, Goto, ExecInd, Handlers, After, BuiltEntry
      <4>2. CASE UNCHANGED log
        BY <4>2, LogKept
      <4> QED BY <2>6, <4>1, <4>2 DEF Respond
    <3>2. Performed' = Performed
      BY <2>6 DEF Respond, Performed, Effected
    <3>3. CASE phase[r] = "ok"
      <4>1. told[r] = "none" /\ r \in Performed /\ told' = [told EXCEPT ![r] = "ok"]
        BY <1>1, <2>6, <3>3 DEF Respond, Answer, Goto, ExecInd, Handlers, Meanwhile, After,
                                 Performed, Effected, told
      <4> QED BY <1>5, <3>1, <3>2, <4>1
    <3>4. CASE phase[r] # "ok"
      <4>1. Answer(r, "logEnd", "failed")
        BY <2>6, <3>4 DEF Respond
      <4> QED BY <1>7, <3>1, <3>2, <4>1
    <3> QED BY <3>3, <3>4
  <2>7. CASE \/ Reject(r) \/ Accept(r) \/ FetchCredentials(r) \/ SaveRollback(r) \/ Completes(r)
    <3>1. UNCHANGED <<log, work, reply>>
      BY <2>7 DEF Reject, Accept, FetchCredentials, SaveRollback, Completes
    <3> QED BY <1>2, <3>1, LogKept DEF Performed, Effected, told
  <2>8. CASE Execute(r) \/ ExecuteWithCredentials(r) \/ Dequeue(r)
    <3>1. /\ UNCHANGED <<log, reply>>
          /\ phase[r] \in {"new", "queued"}
          /\ UNCHANGED work \/ work' = [work EXCEPT ![r] = "busy"]
      BY <2>8, WokenIsQueued DEF Execute, ExecuteWithCredentials, Dequeue, Submit, SubmitNow,
             SubmitQueued, Resume, StartAdapter, ExecInd
    <3>2. Performed' = Performed
      BY <1>1, <3>1 DEF ExecInd, Handlers, Meanwhile, Performed, Effected
    <3> QED BY <1>2, <3>1, <3>2, LogKept DEF told
  <2>9. CASE Fails(r) \/ Succeeds(r) \/ SucceedsReversibly(r)
    <3>1. UNCHANGED <<log, reply>> /\ Performed' = Performed
      BY <1>1, <2>9 DEF Fails, Succeeds, SucceedsReversibly, ReturnFailure, Timeout, ReturnSuccess,
                        Performed, Effected
    <3> QED BY <1>2, <3>1, LogKept DEF told
  <2> QED BY <1>8, <2>1, <2>2, <2>3, <2>4, <2>5, <2>6, <2>7, <2>8, <2>9 DEF Handle
<1>9. ASSUME NEW u \in Undo, HandleRollback(u)
      PROVE  [Contract!Next]_Contract!vars
  <2>1. UNCHANGED <<log, work, reply>>
    BY <1>9 DEF HandleRollback, UndoLookup, UndoRuns, UndoRecorded, auditVars, poolVars, gatewayVars
  <2> QED BY <1>2, <2>1, LogKept DEF Performed, Effected, told
<1>10. CASE Restart
  <2> DEFINE S == {r \in Req : InFlight(r)}
  <2>1. \A r \in S : told[r] = "none"
    BY <1>1 DEF InFlight, ExecInd, Handlers, After, told
  <2>2. told' = [r \in Req |-> IF r \in S THEN "no" ELSE told[r]]
    BY <1>1, <1>10 DEF Restart, told
  <2>3. UNCHANGED <<Started, Performed>>
    BY <1>1, <1>10, LogKept DEF Restart, Performed, Effected
  <2> QED BY <1>6, <2>1, <2>2, <2>3
<1>11. CASE UNCHANGED vars
  BY <1>2, <1>11, LogKept DEF vars, poolVars, auditVars, gatewayVars, Performed, Effected, told
<1> QED BY <1>8, <1>9, <1>10, <1>11 DEF Next

\* The gateway, with its handlers, pool, tables, faults and restarts, implements
\* the three-variable contract: every step records, performs, confirms or
\* disappoints, or is invisible.
THEOREM ExecutorImplementsContract == Spec => ImplementsContract
<1>1. Init => Contract!Init
  BY ContractInit
<1>2. ExecInd /\ [Next]_vars => [Contract!Next]_Contract!vars
  BY ContractStep
<1> QED BY <1>1, <1>2, ExecInvariant, PTL DEF Spec, ImplementsContract, Contract!Spec
===============================================================================
