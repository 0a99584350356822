----------------------------- MODULE MailProofs -----------------------------
(***************************************************************************)
(* What holds of the mail daemon for every value of the constants: of the   *)
(* connections of an account (MailPool), and of what is synchronised over   *)
(* them (MailSync).                                                         *)
(***************************************************************************)
EXTENDS MailPool, MailSync, FiniteSetTheorems, SequenceTheorems, TLAPS

(***************************************************************************)
(* The connections of a provider are under its cap, none is open without an *)
(* owner and none has two, for every set of borrowers and every cap.        *)
(*                                                                          *)
(* An action is a few moves of one connection: it is taken from the idle    *)
(* ones or made for a borrower, let go, given up or put back.  The          *)
(* invariant is therefore stated of the connections cs, the provider ps,    *)
(* the tasks tk and the stop event st, and of a set B of borrowers: between *)
(* two moves of an action of t it holds of the others, B = Borrower \ {t}.  *)
(***************************************************************************)

ConnRec == [at : {"none", "login", "open", "closed"}, of : Provider,
            tries : 0..Retries, lost : BOOLEAN]
TaskRec == [at : {"off", "waiting", "checking", "login", "using", "done"},
            of : Provider, conn : {0} \cup Conn, again : BOOLEAN]

PoolSet == [Provider -> [free : Int, idle : Seq(Conn), wait : Seq(Borrower)]]

Types(cs, ps, tk) ==
  /\ cs \in [Conn -> ConnRec]
  /\ ps \in PoolSet
  /\ tk \in [Borrower -> TaskRec]

\* t has a connection.
Has(tk, t) == tk[t].at \in {"checking", "login", "using"}

NoDup(s) == \A i, j \in 1..Len(s) : s[i] = s[j] => i = j

IdleIn(ps, p) == ToSet(ps[p].idle)

\* Idle connections are open, the provider's own, and in its queue once.
IdleOK(cs, ps) ==
  \A p \in Provider :
    /\ NoDup(ps[p].idle)
    /\ \A c \in IdleIn(ps, p) : cs[c].at = "open" /\ cs[c].of = p /\ ~cs[c].lost

\* A borrower's connection exists, is of the provider it borrowed from and not idle.
HeldOK(cs, ps, tk, B) ==
  \A t \in B : Has(tk, t) =>
    /\ tk[t].conn \in Conn
    /\ cs[tk[t].conn].at # "none" /\ cs[tk[t].conn].of = tk[t].of /\ ~cs[tk[t].conn].lost
    /\ tk[t].at = "login" <=> cs[tk[t].conn].at = "login"
    /\ \A p \in Provider : tk[t].conn \notin IdleIn(ps, p)

AloneOK(tk, B) ==
  \A t, u \in B : Has(tk, t) /\ Has(tk, u) /\ tk[t].conn = tk[u].conn => t = u

\* A connection that nobody lost is idle or held.
KeptOK(cs, ps, tk, B) ==
  \A c \in Conn : cs[c].at \in {"login", "open"} /\ ~cs[c].lost =>
    \/ \E p \in Provider : c \in IdleIn(ps, p)
    \/ \E t \in B : Has(tk, t) /\ tk[t].conn = c

Owned(cs, ps, tk, st, B) ==
  /\ Types(cs, ps, tk)
  /\ IdleOK(cs, ps)
  /\ HeldOK(cs, ps, tk, B)
  /\ AloneOK(tk, B)
  /\ KeptOK(cs, ps, tk, B)
  /\ st => ps["first"].idle = <<>>

-------------------------------------------------------------------------------
(* The queue of idle connections *)

\* The head of a queue leaves it.
LEMMA QueueHead ==
  ASSUME NEW S, NEW s \in Seq(S), s # <<>>, NoDup(s)
  PROVE  /\ Head(s) \in S /\ Head(s) \in ToSet(s)
         /\ Tail(s) \in Seq(S) /\ Len(Tail(s)) = Len(s) - 1 /\ NoDup(Tail(s))
         /\ ToSet(Tail(s)) = ToSet(s) \ {Head(s)}
<1>1. Len(s) \in Nat \ {0} /\ DOMAIN s = 1..Len(s)
  BY EmptySeq, LenProperties
<1>2. Tail(s) \in Seq(S) /\ Len(Tail(s)) = Len(s) - 1
      /\ \A i \in 1..Len(Tail(s)) : Tail(s)[i] = s[i + 1]
  BY HeadTailProperties
<1>3. Head(s) = s[1] /\ Head(s) \in S
  BY <1>1, HeadTailProperties
<1>4. NoDup(Tail(s))
  BY <1>1, <1>2 DEF NoDup
<1>5. DOMAIN Tail(s) = 1..Len(Tail(s))
  BY <1>2, LenProperties
<1>6. ASSUME NEW x PROVE x \in ToSet(Tail(s)) <=> x \in ToSet(s) \ {Head(s)}
  <2>1. x \in ToSet(Tail(s)) => x \in ToSet(s) \ {Head(s)}
    BY <1>1, <1>2, <1>3, <1>5 DEF ToSet, NoDup
  <2>2. ASSUME NEW i \in 1..Len(s), x = s[i], x # s[1] PROVE x \in ToSet(Tail(s))
    <3>1. i - 1 \in 1..Len(Tail(s)) /\ Tail(s)[i - 1] = s[i]
      BY <1>1, <1>2, <2>2
    <3> QED BY <2>2, <3>1, <1>5 DEF ToSet
  <2> QED BY <2>1, <2>2, <1>1, <1>3 DEF ToSet
<1> QED BY <1>1, <1>2, <1>3, <1>4, <1>6 DEF ToSet

\* A connection that is not in the queue is put at its end.
LEMMA QueueAppend ==
  ASSUME NEW S, NEW s \in Seq(S), NEW c \in S
  PROVE  /\ Append(s, c) \in Seq(S) /\ Len(Append(s, c)) = Len(s) + 1
         /\ ToSet(Append(s, c)) = ToSet(s) \cup {c}
         /\ NoDup(s) /\ c \notin ToSet(s) => NoDup(Append(s, c))
<1>1. Len(s) \in Nat /\ DOMAIN s = 1..Len(s)
  BY LenProperties
<1>2. Append(s, c) \in Seq(S) /\ Len(Append(s, c)) = Len(s) + 1
      /\ (\A i \in 1..Len(s) : Append(s, c)[i] = s[i]) /\ Append(s, c)[Len(s) + 1] = c
  BY AppendProperties
<1>3. DOMAIN Append(s, c) = 1..(Len(s) + 1)
  BY <1>2, LenProperties
<1>4. ToSet(Append(s, c)) = ToSet(s) \cup {c}
  <2>1. ASSUME NEW x PROVE x \in ToSet(Append(s, c)) => x \in ToSet(s) \cup {c}
    BY <1>1, <1>2, <1>3 DEF ToSet
  <2>2. ASSUME NEW i \in 1..Len(s) PROVE s[i] \in ToSet(Append(s, c))
    <3>1. i \in DOMAIN Append(s, c) /\ s[i] = Append(s, c)[i]
      BY <1>1, <1>2, <1>3
    <3> QED BY <3>1 DEF ToSet
  <2>3. c \in ToSet(Append(s, c))
    <3>1. Len(s) + 1 \in DOMAIN Append(s, c)
      BY <1>1, <1>3
    <3> QED BY <3>1, <1>2 DEF ToSet
  <2> QED BY <2>1, <2>2, <2>3, <1>1 DEF ToSet
<1>5. ASSUME NoDup(s), c \notin ToSet(s) PROVE NoDup(Append(s, c))
  <2>1. \A i \in 1..Len(s) : s[i] # c
    BY <1>1, <1>5 DEF ToSet
  <2> QED BY <1>1, <1>2, <2>1, <1>5 DEF NoDup
<1> QED BY <1>2, <1>4, <1>5

\* A waiter that gives up leaves the queue of the others.
LEMMA QueueLeaves ==
  ASSUME NEW S, NEW s \in Seq(S), NEW i \in DOMAIN s
  PROVE  RemoveAt(s, i) \in Seq(S)
<1>1. Len(s) \in Nat /\ i \in 1..Len(s)
  BY LenProperties
<1>2. SubSeq(s, 1, i - 1) \in Seq(S) /\ SubSeq(s, i + 1, Len(s)) \in Seq(S)
  <2>1. \A k \in 1..Len(s) : s[k] \in S
    BY ElementOfSeq
  <2> QED BY <1>1, <2>1, SubSeqProperties
<1> QED BY <1>2, ConcatProperties DEF RemoveAt

\* What a provider of that type has.
LEMMA PoolTyped ==
  ASSUME NEW ps \in PoolSet, NEW p \in Provider
  PROVE  ps[p].free \in Int /\ ps[p].idle \in Seq(Conn) /\ ps[p].wait \in Seq(Borrower)
  BY DEF PoolSet

-------------------------------------------------------------------------------
(* The moves *)

\* Permits and waiters are free to change: the connections do not depend on them.
LEMMA PermitsMove ==
  ASSUME NEW cs, NEW ps, NEW tk, NEW st, NEW B, NEW qs \in PoolSet,
         \A q \in Provider : qs[q].idle = ps[q].idle, Owned(cs, ps, tk, st, B)
  PROVE  Owned(cs, qs, tk, st, B)
<1>1. IdleOK(cs, qs) /\ HeldOK(cs, qs, tk, B) /\ KeptOK(cs, qs, tk, B)
  BY DEF Owned, IdleOK, HeldOK, KeptOK, IdleIn
<1> QED BY <1>1 DEF Owned, Types, Provider

\* A borrower that has nothing counts or does not.
LEMMA LetsGo ==
  ASSUME NEW cs, NEW ps, NEW tk, NEW st, NEW t \in Borrower, NEW tn \in [Borrower -> TaskRec],
         ~Has(tn, t), \A u \in Borrower \ {t} : tn[u] = tk[u],
         Owned(cs, ps, tk, st, Borrower \ {t})
  PROVE  Owned(cs, ps, tn, st, Borrower)
<1>1. HeldOK(cs, ps, tn, Borrower) /\ AloneOK(tn, Borrower) /\ KeptOK(cs, ps, tn, Borrower)
  BY DEF Owned, HeldOK, AloneOK, KeptOK, Has
<1> QED BY <1>1 DEF Owned, Types

\* One that has nothing need not be counted.
LEMMA SetAside ==
  ASSUME NEW cs, NEW ps, NEW tk, NEW st, NEW t \in Borrower, ~Has(tk, t),
         Owned(cs, ps, tk, st, Borrower)
  PROVE  Owned(cs, ps, tk, st, Borrower \ {t})
  BY DEF Owned, HeldOK, AloneOK, KeptOK

\* The idle connections are connections.
LEMMA IdleAreConns ==
  ASSUME NEW cs, NEW ps, NEW tk, Types(cs, ps, tk), NEW p \in Provider
  PROVE  ps[p].idle \in Seq(Conn) /\ IdleIn(ps, p) \subseteq Conn
<1>1. ps[p].idle \in Seq(Conn)
  BY DEF Types, PoolSet
<1> QED BY <1>1, ElementOfSeq, LenProperties DEF IdleIn, ToSet

\* The connection of t is closed and forgotten, or lost.
LEMMA GivesUp ==
  ASSUME NEW cs, NEW ps, NEW tk, NEW st, NEW t \in Borrower, Has(tk, t),
         NEW cn \in [Conn -> ConnRec], \A c \in Conn : c # tk[t].conn => cn[c] = cs[c],
         cn[tk[t].conn].at = "none" \/ cn[tk[t].conn].lost, Owned(cs, ps, tk, st, Borrower)
  PROVE  Owned(cn, ps, tk, st, Borrower \ {t})
<1> DEFINE d == tk[t].conn
<1>1. /\ d \in Conn /\ \A p \in Provider : d \notin IdleIn(ps, p)
      /\ \A u \in Borrower \ {t} : Has(tk, u) => tk[u].conn # d
  BY DEF Owned, HeldOK, AloneOK
<1>2. Types(cn, ps, tk) /\ \A p \in Provider : IdleIn(ps, p) \subseteq Conn
  BY IdleAreConns DEF Owned, Types
<1>3. /\ cn[d].at = "none" \/ cn[d].lost
      /\ \A c \in Conn : c # d => cn[c] = cs[c]
  OBVIOUS
<1>4. IdleOK(cn, ps)
  <2> HIDE DEF d
  <2> QED BY <1>1, <1>2, <1>3 DEF Owned, IdleOK
<1>5. HeldOK(cn, ps, tk, Borrower \ {t})
  <2> HIDE DEF d
  <2> QED BY <1>1, <1>3 DEF Owned, HeldOK
<1>6. KeptOK(cn, ps, tk, Borrower \ {t})
  BY <1>3 DEF Owned, KeptOK
<1> QED BY <1>2, <1>4, <1>5, <1>6 DEF Owned, AloneOK

\* t puts its open connection back in its provider's queue.
LEMMA PutsBack ==
  ASSUME NEW cs, NEW ps, NEW tk, NEW st, NEW t \in Borrower, Has(tk, t),
         NEW qs \in PoolSet, cs[tk[t].conn].at = "open", ~(st /\ tk[t].of = "first"),
         qs[tk[t].of].idle = Append(ps[tk[t].of].idle, tk[t].conn),
         \A q \in Provider : q # tk[t].of => qs[q].idle = ps[q].idle,
         Owned(cs, ps, tk, st, Borrower)
  PROVE  Owned(cs, qs, tk, st, Borrower \ {t})
<1> DEFINE d == tk[t].conn
           p == tk[t].of
<1>1. /\ d \in Conn /\ \A q \in Provider : d \notin IdleIn(ps, q)
      /\ cs[d].of = p /\ ~cs[d].lost /\ cs[d].at = "open"
      /\ \A u \in Borrower \ {t} : Has(tk, u) => tk[u].conn # d
  BY DEF Owned, HeldOK, AloneOK
<1>2. p \in Provider
  BY DEF Owned, Types, TaskRec
<1>3. IdleIn(qs, p) = IdleIn(ps, p) \cup {d} /\ NoDup(qs[p].idle)
  <2>1. ps[p].idle \in Seq(Conn) /\ NoDup(ps[p].idle) /\ d \notin ToSet(ps[p].idle)
    BY <1>1, <1>2, IdleAreConns DEF Owned, IdleOK, IdleIn
  <2>2. qs[p].idle = Append(ps[p].idle, d)
    OBVIOUS
  <2> HIDE DEF d, p
  <2> QED BY ONLY <1>1, <2>1, <2>2, QueueAppend DEF IdleIn
<1>4. \A q \in Provider : q # p => IdleIn(qs, q) = IdleIn(ps, q) /\ NoDup(qs[q].idle)
  BY DEF Owned, IdleOK, IdleIn
<1>5. st => qs["first"].idle = <<>>
  BY DEF Owned, Provider
<1> HIDE DEF d, p
<1>6. IdleOK(cs, qs)
  <2>1. IdleOK(cs, ps)
    BY DEF Owned
  <2> QED BY ONLY <1>1, <1>2, <1>3, <1>4, <2>1 DEF IdleOK
<1>7. HeldOK(cs, qs, tk, Borrower \ {t})
  <2>1. HeldOK(cs, ps, tk, Borrower)
    BY DEF Owned
  <2>2. \A q \in Provider : IdleIn(qs, q) \subseteq IdleIn(ps, q) \cup {d}
    BY ONLY <1>3, <1>4
  <2> SUFFICES ASSUME NEW u \in Borrower \ {t}, Has(tk, u)
               PROVE  \A q \in Provider : tk[u].conn \notin IdleIn(qs, q)
    BY <2>1 DEF HeldOK
  <2>3. tk[u].conn # d
    BY <1>1
  <2>4. \A q \in Provider : tk[u].conn \notin IdleIn(ps, q)
    BY <2>1 DEF HeldOK
  <2> QED BY ONLY <2>2, <2>3, <2>4
<1>8. KeptOK(cs, qs, tk, Borrower \ {t})
  <2> SUFFICES ASSUME NEW c \in Conn, cs[c].at \in {"login", "open"}, ~cs[c].lost
               PROVE  \/ \E q \in Provider : c \in IdleIn(qs, q)
                      \/ \E u \in Borrower \ {t} : Has(tk, u) /\ tk[u].conn = c
    BY DEF KeptOK
  <2>1. CASE c = d
    BY <2>1, <1>2, <1>3
  <2>2. CASE c # d
    <3>1. (\E q \in Provider : c \in IdleIn(ps, q)) \/ \E u \in Borrower \ {t} : Has(tk, u) /\ tk[u].conn = c
      BY <2>2 DEF Owned, KeptOK, d
    <3> QED BY <3>1, <1>3, <1>4
  <2> QED BY <2>1, <2>2
<1> QED BY <1>5, <1>6, <1>7, <1>8 DEF Owned, AloneOK, Types

\* t takes the connection that has been idle the longest.
LEMMA TakesIdle ==
  ASSUME NEW cs, NEW ps, NEW tk, NEW st, NEW t \in Borrower, NEW p \in Provider,
         NEW qs \in PoolSet, NEW tn \in [Borrower -> TaskRec], ps[p].idle # <<>>,
         qs[p].idle = Tail(ps[p].idle), \A q \in Provider : q # p => qs[q].idle = ps[q].idle,
         tn[t].at = "checking", tn[t].of = p, tn[t].conn = Head(ps[p].idle),
         \A u \in Borrower \ {t} : tn[u] = tk[u],
         Owned(cs, ps, tk, st, Borrower \ {t})
  PROVE  Owned(cs, qs, tn, st, Borrower)
<1> DEFINE d == Head(ps[p].idle)
<1>1. /\ d \in Conn /\ d \in IdleIn(ps, p) /\ NoDup(qs[p].idle)
      /\ IdleIn(qs, p) = IdleIn(ps, p) \ {d}
  <2>1. ps[p].idle \in Seq(Conn) /\ NoDup(ps[p].idle)
    BY IdleAreConns DEF Owned, IdleOK
  <2> QED BY <2>1, QueueHead DEF IdleIn
<1>2. \A q \in Provider : q # p => IdleIn(qs, q) = IdleIn(ps, q) /\ NoDup(qs[q].idle)
  BY DEF Owned, IdleOK, IdleIn
<1>3. tn[t].conn = d
  OBVIOUS
<1>4. st => qs["first"].idle = <<>>
  BY DEF Owned, Provider
<1> HIDE DEF d
<1>5. cs[d].at = "open" /\ cs[d].of = p /\ ~cs[d].lost
  BY <1>1 DEF Owned, IdleOK
<1>6. \A q \in Provider : q # p => d \notin IdleIn(ps, q)
  BY <1>5 DEF Owned, IdleOK
<1>7. \A u \in Borrower \ {t} : Has(tk, u) => tk[u].conn # d
  BY <1>1 DEF Owned, HeldOK
<1>8. IdleOK(cs, qs)
  BY <1>1, <1>2 DEF Owned, IdleOK
<1>9. HeldOK(cs, qs, tn, Borrower)
  <2> SUFFICES ASSUME NEW u \in Borrower, Has(tn, u)
               PROVE  /\ tn[u].conn \in Conn
                      /\ cs[tn[u].conn].at # "none" /\ cs[tn[u].conn].of = tn[u].of
                      /\ ~cs[tn[u].conn].lost
                      /\ tn[u].at = "login" <=> cs[tn[u].conn].at = "login"
                      /\ \A q \in Provider : tn[u].conn \notin IdleIn(qs, q)
    BY DEF HeldOK
  <2>1. CASE u = t
    BY <2>1, <1>1, <1>2, <1>3, <1>5, <1>6
  <2>2. CASE u # t
    <3>1. Has(tk, u) /\ tn[u] = tk[u]
      BY <2>2 DEF Has
    <3> QED BY <2>2, <3>1, <1>1, <1>2 DEF Owned, HeldOK
  <2> QED BY <2>1, <2>2
<1>10. AloneOK(tn, Borrower)
  BY <1>3, <1>7 DEF Owned, AloneOK, Has
<1>11. KeptOK(cs, qs, tn, Borrower)
  <2> SUFFICES ASSUME NEW c \in Conn, cs[c].at \in {"login", "open"}, ~cs[c].lost
               PROVE  \/ \E q \in Provider : c \in IdleIn(qs, q)
                      \/ \E u \in Borrower : Has(tn, u) /\ tn[u].conn = c
    BY DEF KeptOK
  <2>1. CASE c = d
    BY <2>1, <1>3 DEF Has
  <2>2. CASE c # d
    <3>1. (\E q \in Provider : c \in IdleIn(ps, q)) \/ \E u \in Borrower \ {t} : Has(tk, u) /\ tk[u].conn = c
      BY DEF Owned, KeptOK
    <3> QED BY <2>2, <3>1, <1>1, <1>2 DEF Has
  <2> QED BY <2>1, <2>2
<1> QED BY <1>4, <1>8, <1>9, <1>10, <1>11 DEF Owned, Types

\* t logs in to a new one.
LEMMA LogsIn ==
  ASSUME NEW cs, NEW ps, NEW tk, NEW st, NEW t \in Borrower, NEW d \in Conn,
         NEW cn \in [Conn -> ConnRec], NEW tn \in [Borrower -> TaskRec], cs[d].at = "none",
         cn[d].at = "login", cn[d].of = tn[t].of, ~cn[d].lost,
         \A c \in Conn : c # d => cn[c] = cs[c],
         tn[t].at = "login", tn[t].conn = d, \A u \in Borrower \ {t} : tn[u] = tk[u],
         Owned(cs, ps, tk, st, Borrower \ {t})
  PROVE  Owned(cn, ps, tn, st, Borrower)
<1>1. \A p \in Provider : d \notin IdleIn(ps, p) /\ IdleIn(ps, p) \subseteq Conn
  BY IdleAreConns DEF Owned, IdleOK
<1>2. \A u \in Borrower \ {t} : Has(tk, u) => tk[u].conn # d
  BY DEF Owned, HeldOK
<1>3. IdleOK(cn, ps)
  BY <1>1 DEF Owned, IdleOK
<1>4. HeldOK(cn, ps, tn, Borrower)
  BY <1>1, <1>2 DEF Owned, HeldOK, Has
<1>5. AloneOK(tn, Borrower)
  BY <1>2 DEF Owned, AloneOK, Has
<1>6. KeptOK(cn, ps, tn, Borrower)
  BY DEF Owned, KeptOK, Has
<1> QED BY <1>3, <1>4, <1>5, <1>6 DEF Owned, Types

\* _get_or_create gives the borrower t a connection.
LEMMA GetsOne ==
  ASSUME NEW t \in Borrower, NEW p \in Provider, NEW cs, NEW ps,
         task \in [Borrower -> TaskRec],
         Owned(cs, ps, task, stop, Borrower \ {t}), GetOrCreate(t, p, cs, ps)
  PROVE  Owned(conns', pool', task', stop, Borrower)
<1>1. Types(cs, ps, task)
  BY DEF Owned
<1>2. CASE ps[p].idle # <<>>
  <2>1. ps[p].idle \in Seq(Conn) /\ NoDup(ps[p].idle)
    BY <1>1, IdleAreConns DEF Owned, IdleOK
  <2>2. Head(ps[p].idle) \in Conn /\ Tail(ps[p].idle) \in Seq(Conn)
    BY <1>2, <2>1, QueueHead
  <2>3. /\ conns' = cs
        /\ pool' = [ps EXCEPT ![p].idle = Tail(@)]
        /\ task' = [task EXCEPT ![t].at = "checking", ![t].of = p, ![t].conn = Head(ps[p].idle)]
    BY <1>2 DEF GetOrCreate
  <2>4. /\ pool' \in PoolSet /\ pool'[p].idle = Tail(ps[p].idle)
        /\ \A q \in Provider : q # p => pool'[q].idle = ps[q].idle
    BY <1>1, <2>2, <2>3 DEF Types, PoolSet
  <2>5. /\ task' \in [Borrower -> TaskRec]
        /\ task'[t].at = "checking" /\ task'[t].of = p /\ task'[t].conn = Head(ps[p].idle)
        /\ \A u \in Borrower \ {t} : task'[u] = task[u]
    BY <1>1, <2>2, <2>3 DEF Types, TaskRec
  <2>6. Owned(cs, pool', task', stop, Borrower)
    BY <1>2, <2>4, <2>5, TakesIdle
  <2> QED BY <2>3, <2>6
<1>3. CASE ps[p].idle = <<>>
  <2>1. PICK c \in Unused(cs) :
          /\ conns' = [cs EXCEPT ![c] = [at |-> "login", of |-> p, tries |-> 0, lost |-> FALSE]]
          /\ pool' = ps
          /\ task' = [task EXCEPT ![t].at = "login", ![t].of = p, ![t].conn = c]
    BY <1>3 DEF GetOrCreate
  <2>2. c \in Conn /\ cs[c].at = "none"
    BY DEF Unused
  <2>3. /\ conns' \in [Conn -> ConnRec]
        /\ conns'[c].at = "login" /\ conns'[c].of = p /\ ~conns'[c].lost
        /\ \A d \in Conn : d # c => conns'[d] = cs[d]
    BY <1>1, <2>1, <2>2, PoolAssumption DEF Types, ConnRec
  <2>4. /\ task' \in [Borrower -> TaskRec]
        /\ task'[t].at = "login" /\ task'[t].of = p /\ task'[t].conn = c
        /\ \A u \in Borrower \ {t} : task'[u] = task[u]
    BY <1>1, <2>1, <2>2 DEF Types, TaskRec
  <2>5. Owned(conns', ps, task', stop, Borrower)
    BY <2>2, <2>3, <2>4, LogsIn
  <2> QED BY <2>1, <2>5
<1> QED BY <1>2, <1>3

-------------------------------------------------------------------------------
(* The actions *)

Ind == Owned(conns, pool, task, stop, Borrower)

LEMMA InitOwned == Init => Ind
<1> SUFFICES ASSUME Init PROVE Ind
  OBVIOUS
<1>1. Types(conns, pool, task)
  <2>1. conns \in [Conn -> ConnRec]
    BY PoolAssumption DEF Init, NoConn, ConnRec, Provider
  <2>2. pool \in PoolSet
    BY PoolAssumption, EmptySeq DEF Init, PoolSet
  <2>3. task \in [Borrower -> TaskRec]
    BY DEF Init, Off, TaskRec, Provider
  <2> QED BY <2>1, <2>2, <2>3 DEF Types
<1>2. \A p \in Provider : IdleIn(pool, p) = {} /\ NoDup(pool[p].idle)
  BY DEF Init, IdleIn, ToSet, NoDup
<1>3. \A t \in Borrower : ~Has(task, t)
  BY DEF Init, Off, Has
<1>4. \A c \in Conn : conns[c].at = "none"
  BY DEF Init, NoConn
<1> QED BY <1>1, <1>2, <1>3, <1>4 DEF Ind, Owned, IdleOK, HeldOK, AloneOK, KeptOK, Init

\* The types as the actions use them.
LEMMA IndTypes ==
  Ind => /\ conns \in [Conn -> ConnRec] /\ pool \in PoolSet /\ task \in [Borrower -> TaskRec]
         /\ \A t \in Borrower : Has(task, t) => task[t].conn \in Conn /\ task[t].of \in Provider
  BY DEF Ind, Owned, Types, HeldOK, TaskRec

\* After the with block of t, which has no connection any more.
LEMMA OverOwned ==
  ASSUME NEW t \in Borrower, NEW cn, NEW qs, task \in [Borrower -> TaskRec],
         Owned(cn, qs, task, stop, Borrower \ {t}), Over(t)
  PROVE  Owned(cn, qs, task', stop, Borrower)
<1>1. /\ task' \in [Borrower -> TaskRec] /\ ~Has(task', t)
      /\ \A u \in Borrower \ {t} : task'[u] = task[u]
  BY DEF Over, Off, Done, TaskRec, Provider, Has
<1> QED BY <1>1, LetsGo

\* A permit given back disturbs no connection.
LEMMA ReleasedOwned ==
  ASSUME NEW cn, NEW qs, NEW tk, NEW B, NEW p \in Provider, qs \in PoolSet,
         Owned(cn, qs, tk, stop, B)
  PROVE  Owned(cn, Released(qs, p), tk, stop, B)
<1> DEFINE n == qs[p].free + 1
           rs == Released(qs, p)
<1>1. n \in Int /\ qs[p].wait \in Seq(Borrower) /\ rs = [qs EXCEPT ![p].free = n]
  BY PoolTyped DEF Released
<1> HIDE DEF n, rs
<1>2. rs \in PoolSet /\ \A q \in Provider : rs[q].idle = qs[q].idle
  BY ONLY <1>1, qs \in PoolSet, p \in Provider DEF PoolSet
<1> USE DEF rs
<1> QED BY <1>2, PermitsMove

LEMMA BorrowOwned ==
  ASSUME Ind, NEW t \in Borrower, Borrow(t) PROVE Ind'
<1>1. Owned(conns, pool, task, stop, Borrower \ {t}) /\ ~Has(task, t)
  BY SetAside DEF Ind, Borrow, Has
<1>2. Current \in Provider
  BY DEF Current, Provider
<1>3. CASE pool[Current].free > 0 /\ pool[Current].wait = <<>>
  <2> DEFINE ps == [pool EXCEPT ![Current].free = @ - 1]
  <2>1. ps \in PoolSet /\ \A q \in Provider : ps[q].idle = pool[q].idle
    <3> DEFINE n == pool[Current].free - 1
    <3>1. /\ n \in Int /\ pool \in PoolSet /\ pool[Current].wait \in Seq(Borrower)
          /\ ps = [pool EXCEPT ![Current].free = n]
      BY <1>2, IndTypes, PoolTyped
    <3> HIDE DEF n, ps
    <3> QED BY ONLY <1>2, <3>1 DEF PoolSet
  <2>2. GetOrCreate(t, Current, conns, ps) /\ stop' = stop
    BY <1>3 DEF Borrow
  <2> HIDE DEF ps
  <2>3. Owned(conns, ps, task, stop, Borrower \ {t})
    BY <1>1, <2>1, PermitsMove
  <2> QED BY <1>2, <2>2, <2>3, IndTypes, GetsOne DEF Ind
<1>4. CASE ~(pool[Current].free > 0 /\ pool[Current].wait = <<>>)
  <2>1. /\ pool' = [pool EXCEPT ![Current].wait = Append(@, t)]
        /\ task' = [task EXCEPT ![t].at = "waiting", ![t].of = Current]
        /\ conns' = conns /\ stop' = stop
    BY <1>4 DEF Borrow
  <2>2. pool' \in PoolSet /\ \A q \in Provider : pool'[q].idle = pool[q].idle
    <3> DEFINE w == Append(pool[Current].wait, t)
    <3>1. /\ w \in Seq(Borrower) /\ pool \in PoolSet /\ pool[Current].free \in Int
          /\ pool' = [pool EXCEPT ![Current].wait = w]
      BY <1>2, <2>1, IndTypes, PoolTyped, AppendProperties
    <3> HIDE DEF w
    <3> QED BY ONLY <1>2, <3>1 DEF PoolSet
  <2>3. /\ task' \in [Borrower -> TaskRec] /\ ~Has(task', t)
        /\ \A u \in Borrower \ {t} : task'[u] = task[u]
    BY ZenonT(30), <1>2, <2>1, IndTypes DEF TaskRec, Has
  <2>4. Owned(conns, pool', task, stop, Borrower \ {t})
    BY <1>1, <2>2, PermitsMove
  <2> QED BY <2>1, <2>3, <2>4, LetsGo DEF Ind
<1> QED BY <1>3, <1>4

LEMMA EndsOwned ==
  ASSUME Ind, NEW t \in Borrower, Ends(t) PROVE Ind'
<1>1. Owned(conns, pool, task, stop, Borrower \ {t})
  BY SetAside DEF Ind, Ends, Has
<1>2. /\ task' \in [Borrower -> TaskRec] /\ ~Has(task', t)
      /\ \A u \in Borrower \ {t} : task'[u] = task[u]
  BY IndTypes DEF Ends, Done, TaskRec, Provider, Has
<1>3. conns' = conns /\ pool' = pool /\ stop' = stop
  BY DEF Ends
<1> QED BY <1>1, <1>2, <1>3, LetsGo DEF Ind

LEMMA WokenOwned ==
  ASSUME Ind, NEW t \in Borrower, Woken(t) PROVE Ind'
<1> DEFINE p == task[t].of
           ps == [pool EXCEPT ![p].free = @ - 1, ![p].wait = Tail(@)]
<1>1. Owned(conns, pool, task, stop, Borrower \ {t})
  BY SetAside DEF Ind, Woken, Has
<1>2. p \in Provider
  BY IndTypes DEF TaskRec
<1>3. ps \in PoolSet /\ \A q \in Provider : ps[q].idle = pool[q].idle
  <2>1. pool[p].wait \in Seq(Borrower) /\ pool[p].wait # <<>>
    BY <1>2, IndTypes, PoolTyped DEF Woken
  <2> DEFINE w == Tail(pool[p].wait)
             n == pool[p].free - 1
  <2>2. /\ w \in Seq(Borrower) /\ n \in Int /\ pool \in PoolSet
        /\ ps = [pool EXCEPT ![p].free = n, ![p].wait = w]
    BY <1>2, <2>1, HeadTailProperties, IndTypes, PoolTyped
  <2> HIDE DEF w, n, ps, p
  <2> QED BY ONLY <1>2, <2>2 DEF PoolSet
<1>4. GetOrCreate(t, p, conns, ps) /\ stop' = stop
  BY DEF Woken
<1> HIDE DEF p, ps
<1>5. Owned(conns, ps, task, stop, Borrower \ {t})
  BY <1>1, <1>3, PermitsMove
<1> QED BY <1>2, <1>4, <1>5, IndTypes, GetsOne DEF Ind

\* The connections stay with whom they are: those that are open stay open.
LEMMA HealthyOwned ==
  ASSUME Ind, NEW t \in Borrower, Healthy(t) PROVE Ind'
<1>1. /\ task' = [task EXCEPT ![t].at = "using"] /\ task[t].at = "checking"
      /\ conns' = conns /\ pool' = pool /\ stop' = stop /\ conns[task[t].conn].at = "open"
  BY DEF Healthy
<1>2. /\ task' \in [Borrower -> TaskRec]
      /\ \A u \in Borrower :
           /\ task'[u].conn = task[u].conn /\ task'[u].of = task[u].of
           /\ Has(task', u) <=> Has(task, u)
           /\ task'[u].at = "login" <=> task[u].at = "login"
  BY <1>1, IndTypes DEF TaskRec, Has
<1>3. HeldOK(conns, pool, task', Borrower) /\ AloneOK(task', Borrower)
      /\ KeptOK(conns, pool, task', Borrower)
  BY <1>2 DEF Ind, Owned, HeldOK, AloneOK, KeptOK
<1> QED BY <1>1, <1>2, <1>3 DEF Ind, Owned, Types

LEMMA UnhealthyOwned ==
  ASSUME Ind, NEW t \in Borrower, Unhealthy(t) PROVE Ind'
<1> DEFINE cn == Without(task[t].conn)
<1>1. Has(task, t)
  BY DEF Unhealthy, Has
<1>2. /\ cn \in [Conn -> ConnRec] /\ cn[task[t].conn].at = "none"
      /\ \A c \in Conn : c # task[t].conn => cn[c] = conns[c]
  BY <1>1, IndTypes, PoolAssumption DEF Without, NoConn, ConnRec, Provider
<1>3. GetOrCreate(t, task[t].of, cn, pool) /\ stop' = stop
  BY DEF Unhealthy
<1> HIDE DEF cn
<1>4. Owned(cn, pool, task, stop, Borrower \ {t})
  BY <1>1, <1>2, GivesUp DEF Ind
<1> QED BY <1>1, <1>3, <1>4, IndTypes, GetsOne DEF Ind

\* A login that ends or is tried again leaves its connection with whom it was for.
LEMMA LoggedInOwned ==
  ASSUME Ind, NEW c \in Conn, LoggedIn(c) PROVE Ind'
<1>1. /\ conns' = [conns EXCEPT ![c].at = "open"] /\ conns[c].at = "login"
      /\ task' = [t \in Borrower |->
                    IF task[t].at = "login" /\ task[t].conn = c THEN [task[t] EXCEPT !.at = "using"] ELSE task[t]]
      /\ pool' = pool /\ stop' = stop
  BY DEF LoggedIn
<1>2. /\ conns' \in [Conn -> ConnRec] /\ conns'[c].at = "open"
      /\ \A d \in Conn : /\ conns'[d].of = conns[d].of /\ conns'[d].lost = conns[d].lost
                         /\ d # c => conns'[d] = conns[d]
  BY <1>1, IndTypes DEF ConnRec
<1>3. task' \in [Borrower -> TaskRec]
  BY <1>1, IndTypes DEF TaskRec
<1>4. \A t \in Borrower : task[t].at = "login" /\ task[t].conn = c =>
           task'[t].at = "using" /\ task'[t].conn = task[t].conn /\ task'[t].of = task[t].of
  BY <1>1, IndTypes DEF TaskRec
<1>5. \A t \in Borrower : ~(task[t].at = "login" /\ task[t].conn = c) => task'[t] = task[t]
  BY <1>1
<1>6. \A t \in Borrower : /\ Has(task', t) <=> Has(task, t)
                          /\ task'[t].conn = task[t].conn /\ task'[t].of = task[t].of
  BY <1>4, <1>5 DEF Has
<1>7. IdleOK(conns', pool)
  <2>1. \A p \in Provider : c \notin IdleIn(pool, p) /\ IdleIn(pool, p) \subseteq Conn
    BY <1>1, IdleAreConns DEF Ind, Owned, IdleOK
  <2> QED BY <2>1, <1>2 DEF Ind, Owned, IdleOK
<1>8. HeldOK(conns', pool, task', Borrower)
  <2> SUFFICES ASSUME NEW t \in Borrower, Has(task', t)
               PROVE  /\ task'[t].conn \in Conn
                      /\ conns'[task'[t].conn].at # "none" /\ conns'[task'[t].conn].of = task'[t].of
                      /\ ~conns'[task'[t].conn].lost
                      /\ task'[t].at = "login" <=> conns'[task'[t].conn].at = "login"
                      /\ \A p \in Provider : task'[t].conn \notin IdleIn(pool, p)
    BY DEF HeldOK
  <2>1. /\ task[t].conn \in Conn
        /\ conns[task[t].conn].at # "none" /\ conns[task[t].conn].of = task[t].of
        /\ ~conns[task[t].conn].lost
        /\ task[t].at = "login" <=> conns[task[t].conn].at = "login"
        /\ \A p \in Provider : task[t].conn \notin IdleIn(pool, p)
    BY <1>6 DEF Ind, Owned, HeldOK
  <2>2. CASE task[t].conn = c
    BY <1>1, <1>2, <1>4, <2>1, <2>2
  <2>3. CASE task[t].conn # c
    BY <1>2, <1>5, <2>1, <2>3
  <2> QED BY <2>2, <2>3
<1>9. AloneOK(task', Borrower)
  BY <1>6 DEF Ind, Owned, AloneOK
<1>10. KeptOK(conns', pool, task', Borrower)
  <2> SUFFICES ASSUME NEW d \in Conn, conns'[d].at \in {"login", "open"}, ~conns'[d].lost
               PROVE  \/ \E p \in Provider : d \in IdleIn(pool, p)
                      \/ \E t \in Borrower : Has(task', t) /\ task'[t].conn = d
    BY DEF KeptOK
  <2>1. conns[d].at \in {"login", "open"} /\ ~conns[d].lost
    BY <1>1, <1>2
  <2> QED BY <2>1, <1>6 DEF Ind, Owned, KeptOK
<1> QED BY <1>1, <1>2, <1>3, <1>7, <1>8, <1>9, <1>10 DEF Ind, Owned, Types

LEMMA TooManyOwned ==
  ASSUME Ind, NEW c \in Conn, TooMany(c) PROVE Ind'
<1>1. /\ conns' = [conns EXCEPT ![c].tries = @ + 1] /\ conns[c].tries < Retries
      /\ task' = task /\ pool' = pool /\ stop' = stop
  BY DEF TooMany
<1>2. conns[c].tries + 1 \in 0..Retries
  BY <1>1, IndTypes, PoolAssumption DEF ConnRec
<1>3. /\ conns' \in [Conn -> ConnRec]
      /\ \A d \in Conn : /\ conns'[d].of = conns[d].of /\ conns'[d].lost = conns[d].lost
                         /\ conns'[d].at = conns[d].at
  <2> DEFINE n == conns[c].tries + 1
  <2>1. conns' = [conns EXCEPT ![c].tries = n] /\ n \in 0..Retries
    BY <1>1, <1>2
  <2> HIDE DEF n
  <2> QED BY <2>1, IndTypes DEF ConnRec
<1>4. IdleOK(conns', pool)
  <2>1. \A p \in Provider : IdleIn(pool, p) \subseteq Conn
    BY IdleAreConns DEF Ind, Owned
  <2> QED BY <2>1, <1>3 DEF Ind, Owned, IdleOK
<1>5. HeldOK(conns', pool, task, Borrower) /\ KeptOK(conns', pool, task, Borrower)
  BY <1>3 DEF Ind, Owned, HeldOK, KeptOK
<1> QED BY <1>1, <1>3, <1>4, <1>5 DEF Ind, Owned, Types

\* Nobody has a lost connection; of any other, the borrower it was for lets go.
LEMMA RefusedOwned ==
  ASSUME Ind, NEW c \in Conn, Refused(c) PROVE Ind'
<1>1. conns' = Without(c) /\ conns[c].at = "login" /\ stop' = stop
  BY DEF Refused
<1>2. /\ conns' \in [Conn -> ConnRec] /\ conns'[c].at = "none"
      /\ \A d \in Conn : d # c => conns'[d] = conns[d]
  BY <1>1, IndTypes, PoolAssumption DEF Without, NoConn, ConnRec, Provider
<1>3. CASE conns[c].lost
  <2>1. pool' = pool /\ task' = task
    BY <1>3 DEF Refused
  <2>2. \A t \in Borrower : Has(task, t) => task[t].conn # c
    BY <1>3 DEF Ind, Owned, HeldOK
  <2>3. \A p \in Provider : c \notin IdleIn(pool, p) /\ IdleIn(pool, p) \subseteq Conn
    BY <1>3, IdleAreConns DEF Ind, Owned, IdleOK
  <2>4. IdleOK(conns', pool)
    BY <1>2, <2>3 DEF Ind, Owned, IdleOK
  <2>5. HeldOK(conns', pool, task, Borrower)
    BY <1>2, <2>2 DEF Ind, Owned, HeldOK
  <2>6. KeptOK(conns', pool, task, Borrower)
    <3>1. ASSUME NEW d \in Conn, conns'[d].at \in {"login", "open"}, ~conns'[d].lost
          PROVE  d # c /\ conns'[d] = conns[d]
      BY <1>2, <3>1
    <3> QED BY <3>1 DEF Ind, Owned, KeptOK
  <2> QED BY <1>1, <1>2, <2>1, <2>4, <2>5, <2>6 DEF Ind, Owned, Types
<1>4. CASE ~conns[c].lost
  <2>1. PICK t \in Borrower : /\ task[t].at = "login" /\ task[t].conn = c
                              /\ pool' = Released(pool, conns[c].of) /\ Over(t)
    BY <1>4 DEF Refused
  <2>2. Has(task, t)
    BY <2>1 DEF Has
  <2>3. Owned(conns', pool, task, stop, Borrower \ {t})
    BY <1>2, <2>1, <2>2, GivesUp DEF Ind
  <2>4. conns[c].of \in Provider /\ pool \in PoolSet
    BY IndTypes DEF ConnRec
  <2>5. Owned(conns', pool', task, stop, Borrower \ {t})
    BY <2>1, <2>3, <2>4, ReleasedOwned
  <2>6. Owned(conns', pool', task', stop, Borrower)
    BY <2>1, <2>5, IndTypes, OverOwned
  <2> QED BY <1>1, <2>6 DEF Ind
<1> QED BY <1>3, <1>4

\* The block of t ends: its connection is put back, or closed with its provider.
LEMMA ReturnsOwned ==
  ASSUME Ind, NEW t \in Borrower, Returns(t) PROVE Ind'
<1> DEFINE d == task[t].conn
           p == task[t].of
           back == Returned(p, d)
<1>1. /\ Has(task, t) /\ conns[d].at = "open" /\ stop' = stop /\ Over(t)
      /\ conns' = IF back = pool THEN Without(d) ELSE conns
      /\ pool' = Released(back, p)
  BY DEF Returns, Has
<1>2. d \in Conn /\ p \in Provider /\ pool \in PoolSet
  BY <1>1, IndTypes
<1>3. Owned(conns', back, task, stop, Borrower \ {t}) /\ back \in PoolSet
  <2>1. CASE Closed(p)
    <3>1. back = pool /\ conns' = Without(d)
      BY <1>1, <2>1 DEF Returned
    <3>2. /\ Without(d) \in [Conn -> ConnRec] /\ Without(d)[d].at = "none"
          /\ \A c \in Conn : c # d => Without(d)[c] = conns[c]
      BY <1>2, IndTypes, PoolAssumption DEF Without, NoConn, ConnRec, Provider
    <3>3. Owned(Without(d), pool, task, stop, Borrower \ {t})
      BY <1>1, <3>2, GivesUp DEF Ind
    <3> QED BY <1>2, <3>1, <3>3
  <2>2. CASE ~Closed(p)
    <3> DEFINE q0 == Append(pool[p].idle, d)
    <3>1. back = [pool EXCEPT ![p].idle = q0]
      BY <2>2 DEF Returned
    <3>2. pool[p].idle \in Seq(Conn) /\ q0 \in Seq(Conn) /\ Len(q0) = Len(pool[p].idle) + 1
      BY <1>2, PoolTyped, AppendProperties
    <3>3. q0 # pool[p].idle
      BY <3>2, LenProperties
    <3> HIDE DEF q0, back, p, d
    <3>4. back \in PoolSet /\ back[p].idle = q0 /\ \A q \in Provider : q # p => back[q].idle = pool[q].idle
      BY ONLY <1>2, <3>1, <3>2 DEF PoolSet
    <3>5. conns' = conns
      BY <1>1, <3>3, <3>4
    <3>6. Owned(conns, back, task, stop, Borrower \ {t})
      BY <1>1, <2>2, <3>4, PutsBack DEF Ind, Closed, p, d, q0
    <3> QED BY <3>4, <3>5, <3>6
  <2> QED BY <2>1, <2>2
<1> HIDE DEF d, p, back
<1>4. Owned(conns', pool', task, stop, Borrower \ {t})
  BY <1>1, <1>2, <1>3, ReleasedOwned
<1>5. Owned(conns', pool', task', stop, Borrower)
  BY <1>1, <1>4, IndTypes, OverOwned
<1> QED BY <1>1, <1>5 DEF Ind

LEMMA RaisesOwned ==
  ASSUME Ind, NEW t \in Borrower, Raises(t) PROVE Ind'
<1>1. /\ Has(task, t) /\ stop' = stop /\ Over(t)
      /\ conns' = Without(task[t].conn) /\ pool' = Released(pool, task[t].of)
  BY DEF Raises, Has
<1>2. task[t].conn \in Conn /\ task[t].of \in Provider /\ pool \in PoolSet
  BY <1>1, IndTypes
<1>3. /\ conns' \in [Conn -> ConnRec] /\ conns'[task[t].conn].at = "none"
      /\ \A c \in Conn : c # task[t].conn => conns'[c] = conns[c]
  BY <1>1, <1>2, IndTypes, PoolAssumption DEF Without, NoConn, ConnRec, Provider
<1>4. Owned(conns', pool, task, stop, Borrower \ {t})
  BY <1>1, <1>3, GivesUp DEF Ind
<1>5. Owned(conns', pool', task, stop, Borrower \ {t})
  BY <1>1, <1>2, <1>4, ReleasedOwned
<1>6. Owned(conns', pool', task', stop, Borrower)
  BY <1>1, <1>5, IndTypes, OverOwned
<1> QED BY <1>1, <1>6 DEF Ind

LEMMA CancelOwned ==
  ASSUME Ind, NEW t \in Borrower, Cancel(t) PROVE Ind'
<1>1. stop' = stop /\ task' = [task EXCEPT ![t] = Done]
  BY DEF Cancel
<1>2. /\ task' \in [Borrower -> TaskRec] /\ ~Has(task', t)
      /\ \A u \in Borrower \ {t} : task'[u] = task[u]
  BY <1>1, IndTypes DEF Done, TaskRec, Provider, Has
<1>3. Owned(conns', pool', task, stop, Borrower \ {t})
  <2>1. CASE CancelWaiting(t)
    <3> DEFINE p == task[t].of
    <3>1. p \in Provider /\ pool \in PoolSet /\ pool[p].wait \in Seq(Borrower)
      BY IndTypes, PoolTyped DEF TaskRec
    <3>2. PICK i \in DOMAIN pool[p].wait : pool' = [pool EXCEPT ![p].wait = RemoveAt(@, i)]
      BY <2>1 DEF CancelWaiting
    <3> DEFINE w == RemoveAt(pool[p].wait, i)
    <3>3. w \in Seq(Borrower) /\ pool' = [pool EXCEPT ![p].wait = w]
      BY <3>1, <3>2, QueueLeaves
    <3> HIDE DEF w, p
    <3>4. pool' \in PoolSet /\ \A q \in Provider : pool'[q].idle = pool[q].idle
      BY ONLY <3>1, <3>3 DEF PoolSet
    <3>5. Owned(conns, pool, task, stop, Borrower \ {t}) /\ conns' = conns
      BY <2>1, SetAside DEF Ind, CancelWaiting, Has
    <3> QED BY <3>4, <3>5, PermitsMove
  <2>2. CASE CancelInside(t)
    <3>1. /\ Has(task, t) /\ pool' = Released(pool, task[t].of)
          /\ conns' = IF task[t].at = "using" THEN Without(task[t].conn)
                      ELSE [conns EXCEPT ![task[t].conn].lost = TRUE]
      BY <2>2 DEF CancelInside, Given, Has
    <3>2. task[t].conn \in Conn /\ task[t].of \in Provider /\ pool \in PoolSet
      BY <3>1, IndTypes
    <3>3. /\ conns' \in [Conn -> ConnRec]
          /\ conns'[task[t].conn].at = "none" \/ conns'[task[t].conn].lost
          /\ \A c \in Conn : c # task[t].conn => conns'[c] = conns[c]
      <4>1. CASE task[t].at = "using"
        BY <3>1, <3>2, <4>1, IndTypes, PoolAssumption DEF Without, NoConn, ConnRec, Provider
      <4>2. CASE task[t].at # "using"
        BY <3>1, <3>2, <4>2, IndTypes DEF ConnRec
      <4> QED BY <4>1, <4>2
    <3>4. Owned(conns', pool, task, stop, Borrower \ {t})
      BY <3>1, <3>3, GivesUp DEF Ind
    <3> QED BY <3>1, <3>2, <3>4, ReleasedOwned
  <2> QED BY <2>1, <2>2 DEF Cancel
<1>4. Owned(conns', pool', task', stop, Borrower)
  BY <1>2, <1>3, LetsGo
<1> QED BY <1>1, <1>4 DEF Ind

\* The stop closes the idle connections of the provider, which nobody has, and
\* the sockets that wait for mail, which their borrowers keep.
LEMMA RequestStopOwned ==
  ASSUME Ind, RequestStop PROVE Ind'
<1> DEFINE cut == {task[t].conn : t \in {u \in Waiter : task[u].at = "using"}}
           idle == IdleIn(pool, "first")
<1>1. /\ conns' = [c \in Conn |-> IF c \in cut THEN [conns[c] EXCEPT !.at = "closed"]
                                  ELSE IF c \in idle THEN NoConn ELSE conns[c]]
      /\ pool' = [pool EXCEPT !["first"].idle = <<>>]
      /\ task' = task
  BY DEF RequestStop, IdleIn
<1>2. /\ pool' \in PoolSet /\ pool'["first"].idle = <<>> /\ pool'["second"] = pool["second"]
  <2> DEFINE e == <<>>
  <2>1. e \in Seq(Conn) /\ "first" \in Provider /\ "second" \in Provider /\ pool \in PoolSet
    BY EmptySeq, IndTypes DEF Provider
  <2> HIDE DEF e
  <2>2. pool' = [pool EXCEPT !["first"].idle = e]
    BY <1>1 DEF e
  <2>3. pool' \in PoolSet /\ pool'["first"].idle = e /\ pool'["second"] = pool["second"]
    BY ONLY <2>1, <2>2 DEF PoolSet
  <2> QED BY <2>3 DEF e
<1>3. /\ IdleIn(pool', "first") = {} /\ NoDup(pool'["first"].idle)
      /\ IdleIn(pool', "second") = IdleIn(pool, "second")
  BY <1>2 DEF IdleIn, ToSet, NoDup
<1>4. \A c \in cut : c \in Conn /\ \E t \in Borrower : Has(task, t) /\ task[t].at = "using" /\ task[t].conn = c
  BY PoolAssumption, IndTypes DEF Has
<1>5. \A c \in cut : \A p \in Provider : c \notin IdleIn(pool, p)
  BY <1>4 DEF Ind, Owned, HeldOK
<1>6. \A c \in IdleIn(pool, "second") : c \notin cut /\ c \notin idle /\ c \in Conn
  BY <1>5, IdleAreConns DEF Ind, Owned, IdleOK, Provider
<1> HIDE DEF cut, idle
<1>7. conns' \in [Conn -> ConnRec]
  <2>1. NoConn \in ConnRec
    BY PoolAssumption DEF NoConn, ConnRec, Provider
  <2>2. \A c \in Conn : [conns[c] EXCEPT !.at = "closed"] \in ConnRec /\ conns[c] \in ConnRec
    BY IndTypes DEF ConnRec
  <2> QED BY <1>1, <2>1, <2>2
<1>8. /\ \A c \in cut : /\ conns'[c].at = "closed" /\ conns'[c].of = conns[c].of
                        /\ conns'[c].lost = conns[c].lost
      /\ \A c \in Conn : c \notin cut /\ c \in idle => conns'[c].at = "none"
      /\ \A c \in Conn : c \notin cut /\ c \notin idle => conns'[c] = conns[c]
  BY <1>1, <1>4, IndTypes DEF ConnRec, NoConn
<1>9. IdleOK(conns', pool')
  <2>1. NoDup(pool'["second"].idle)
    BY <1>2 DEF Ind, Owned, IdleOK, Provider
  <2>2. \A c \in IdleIn(pool', "second") : conns'[c].at = "open" /\ conns'[c].of = "second" /\ ~conns'[c].lost
    BY <1>3, <1>6, <1>8 DEF Ind, Owned, IdleOK, Provider
  <2> QED BY <1>3, <2>1, <2>2 DEF IdleOK, Provider
<1>10. HeldOK(conns', pool', task, Borrower)
  <2> SUFFICES ASSUME NEW t \in Borrower, Has(task, t)
               PROVE  /\ task[t].conn \in Conn
                      /\ conns'[task[t].conn].at # "none" /\ conns'[task[t].conn].of = task[t].of
                      /\ ~conns'[task[t].conn].lost
                      /\ task[t].at = "login" <=> conns'[task[t].conn].at = "login"
                      /\ \A p \in Provider : task[t].conn \notin IdleIn(pool', p)
    BY DEF HeldOK
  <2>1. /\ task[t].conn \in Conn
        /\ conns[task[t].conn].at # "none" /\ conns[task[t].conn].of = task[t].of
        /\ ~conns[task[t].conn].lost
        /\ task[t].at = "login" <=> conns[task[t].conn].at = "login"
        /\ \A p \in Provider : task[t].conn \notin IdleIn(pool, p)
    BY DEF Ind, Owned, HeldOK
  <2>2. \A p \in Provider : task[t].conn \notin IdleIn(pool', p)
    BY <1>3, <2>1 DEF Provider
  <2>3. CASE task[t].conn \in cut
    <3>1. task[t].at = "using"
      BY <1>4, <2>3 DEF Ind, Owned, AloneOK
    <3> QED BY <1>8, <2>1, <2>2, <2>3, <3>1
  <2>4. CASE task[t].conn \notin cut
    <3>1. task[t].conn \notin idle
      BY <2>1 DEF idle, Provider
    <3> QED BY <1>8, <2>1, <2>2, <2>4, <3>1
  <2> QED BY <2>3, <2>4
<1>11. KeptOK(conns', pool', task, Borrower)
  <2> SUFFICES ASSUME NEW c \in Conn, conns'[c].at \in {"login", "open"}, ~conns'[c].lost
               PROVE  \/ \E p \in Provider : c \in IdleIn(pool', p)
                      \/ \E t \in Borrower : Has(task, t) /\ task[t].conn = c
    BY DEF KeptOK
  <2>1. c \notin cut /\ c \notin idle /\ conns'[c] = conns[c]
    BY <1>8
  <2>2. (\E p \in Provider : c \in IdleIn(pool, p)) \/ \E t \in Borrower : Has(task, t) /\ task[t].conn = c
    BY <2>1 DEF Ind, Owned, KeptOK
  <2> QED BY <2>1, <2>2, <1>3 DEF Provider, idle
<1> QED BY <1>1, <1>2, <1>7, <1>9, <1>10, <1>11 DEF Ind, Owned, Types

LEMMA NextOwned == Ind /\ [Next]_vars => Ind'
<1> SUFFICES ASSUME Ind, [Next]_vars PROVE Ind'
  OBVIOUS
<1>1. CASE UNCHANGED vars
  BY <1>1 DEF Ind, vars
<1>2. CASE Next
  BY <1>2, BorrowOwned, EndsOwned, WokenOwned, HealthyOwned, UnhealthyOwned, ReturnsOwned,
     RaisesOwned, CancelOwned, LoggedInOwned, TooManyOwned, RefusedOwned, RequestStopOwned DEF Next
<1> QED BY <1>1, <1>2

THEOREM SpecOwned == Spec => []Ind
<1>1. Init => Ind
  BY InitOwned
<1>2. Ind /\ [Next]_vars => Ind'
  BY NextOwned
<1> QED BY <1>1, <1>2, PTL DEF Spec

\* "guarantees no zombie TCP connections", whatever the borrowers do and whenever
\* the daemon stops.
THEOREM NobodyIsAZombie == Spec => []NoZombies
<1>1. Ind => NoZombies
  <2> SUFFICES ASSUME Ind, NEW c \in Conn, conns[c].at = "open", ~conns[c].lost
               PROVE  \/ ~Closed(conns[c].of) /\ c \in ToSet(pool[conns[c].of].idle)
                      \/ \E t \in Borrower : task[t].conn = c /\ task[t].at \in {"checking", "using"}
    BY DEF NoZombies
  <2>1. CASE \E p \in Provider : c \in IdleIn(pool, p)
    <3>1. PICK p \in Provider : c \in IdleIn(pool, p)
      BY <2>1
    <3>2. conns[c].of = p
      BY <3>1 DEF Ind, Owned, IdleOK
    <3>3. ~(stop /\ p = "first")
      BY <3>1 DEF Ind, Owned, IdleIn, ToSet
    <3> QED BY <3>1, <3>2, <3>3 DEF IdleIn, Closed
  <2>2. CASE \E t \in Borrower : Has(task, t) /\ task[t].conn = c
    BY <2>2 DEF Ind, Owned, HeldOK, Has
  <2> QED BY <2>1, <2>2 DEF Ind, Owned, KeptOK
<1> QED BY <1>1, SpecOwned, PTL

\* No connection is ever in the hands of two borrowers, or lent while it is idle.
THEOREM NoTwoOwners ==
  Spec => [](/\ \A t, u \in Borrower :
                  Has(task, t) /\ Has(task, u) /\ task[t].conn = task[u].conn => t = u
             /\ \A t \in Borrower : \A p \in Provider :
                  Has(task, t) => task[t].conn \notin ToSet(pool[p].idle))
<1> DEFINE Alone ==
      /\ \A t, u \in Borrower :
           Has(task, t) /\ Has(task, u) /\ task[t].conn = task[u].conn => t = u
      /\ \A t \in Borrower : \A p \in Provider :
           Has(task, t) => task[t].conn \notin ToSet(pool[p].idle)
<1>1. Ind => Alone
  BY DEF Ind, Owned, AloneOK, HeldOK, IdleIn
<1> HIDE DEF Alone
<1>2. Spec => []Alone
  BY <1>1, SpecOwned, PTL
<1> QED BY <1>2 DEF Alone

-------------------------------------------------------------------------------
(* The cap *)

\* Who has a connection of p.
Users(tk, p) == {t \in Borrower : Has(tk, t) /\ tk[t].of = p}

\* A permit is free or stands for one of them, and an idle connection for a permit
\* that is free.
Counted(ps, tk) ==
  \A p \in Provider :
    /\ Cardinality(Users(tk, p)) + ps[p].free = MaxConns
    /\ Len(ps[p].idle) <= ps[p].free

LEMMA UsersFinite ==
  ASSUME NEW tk, NEW p
  PROVE  IsFiniteSet(Users(tk, p)) /\ Cardinality(Users(tk, p)) \in Nat
<1>1. Users(tk, p) \in SUBSET Borrower
  BY DEF Users
<1> QED BY <1>1, PoolAssumption, FS_Subset, FS_CardinalityType

\* One more borrower has a connection, of p.
LEMMA UserComes ==
  ASSUME NEW tk, NEW tn, NEW t \in Borrower, NEW p \in Provider,
         ~Has(tk, t), Has(tn, t), tn[t].of = p, \A u \in Borrower \ {t} : tn[u] = tk[u]
  PROVE  /\ Cardinality(Users(tn, p)) = Cardinality(Users(tk, p)) + 1
         /\ \A q \in Provider : q # p => Cardinality(Users(tn, q)) = Cardinality(Users(tk, q))
<1>1. Users(tn, p) = Users(tk, p) \cup {t} /\ t \notin Users(tk, p)
  BY DEF Users, Has
<1>2. \A q \in Provider : q # p => Users(tn, q) = Users(tk, q)
  BY DEF Users, Has
<1>3. Cardinality(Users(tk, p) \cup {t}) = Cardinality(Users(tk, p)) + 1
  BY <1>1, UsersFinite, FS_AddElement
<1> QED BY <1>1, <1>2, <1>3

\* One borrower less.
LEMMA UserGoes ==
  ASSUME NEW tk, NEW tn, NEW t \in Borrower, NEW p \in Provider,
         Has(tk, t), ~Has(tn, t), tk[t].of = p, \A u \in Borrower \ {t} : tn[u] = tk[u]
  PROVE  /\ Cardinality(Users(tn, p)) = Cardinality(Users(tk, p)) - 1
         /\ \A q \in Provider : q # p => Cardinality(Users(tn, q)) = Cardinality(Users(tk, q))
<1>1. Users(tn, p) = Users(tk, p) \ {t} /\ t \in Users(tk, p)
  BY DEF Users, Has
<1>2. \A q \in Provider : q # p => Users(tn, q) = Users(tk, q)
  BY DEF Users, Has
<1>3. Cardinality(Users(tk, p) \ {t}) = Cardinality(Users(tk, p)) - 1
  BY <1>1, UsersFinite, FS_RemoveElement
<1> QED BY <1>1, <1>2, <1>3

\* The same borrowers have the same providers' connections.
LEMMA UsersStay ==
  ASSUME NEW tk, NEW tn,
         \A t \in Borrower : (Has(tn, t) <=> Has(tk, t)) /\ (Has(tk, t) => tn[t].of = tk[t].of)
  PROVE  \A q \in Provider : Users(tn, q) = Users(tk, q)
  BY DEF Users

CapInd == Ind /\ Counted(pool, task)

\* A borrower that gets a connection took the permit ps[p].free lacks, or had one.
LEMMA GetsCounted ==
  ASSUME Ind, NEW t \in Borrower, NEW p \in Provider, NEW cs, NEW ps \in PoolSet,
         GetOrCreate(t, p, cs, ps), Has(task, t) => task[t].of = p,
         \A q \in Provider : /\ ps[q].idle = pool[q].idle
                             /\ q # p => ps[q].free = pool[q].free,
         ps[p].free = IF Has(task, t) THEN pool[p].free ELSE pool[p].free - 1,
         ~Has(task, t) => pool[p].free > 0,
         Counted(pool, task)
  PROVE  Counted(pool', task')
<1>1. /\ Has(task', t) /\ task'[t].of = p
      /\ \A u \in Borrower \ {t} : task'[u] = task[u]
  BY IndTypes DEF GetOrCreate, TaskRec, Has
<1>2. /\ \A q \in Provider : pool'[q].free = ps[q].free
      /\ \A q \in Provider : q # p => pool'[q].idle = ps[q].idle
      /\ \/ ps[p].idle = <<>> /\ pool'[p].idle = <<>>
         \/ ps[p].idle # <<>> /\ pool'[p].idle = Tail(ps[p].idle)
  <2>1. CASE ps[p].idle = <<>>
    <3>1. pool' = ps
      BY <2>1 DEF GetOrCreate
    <3> QED BY <2>1, <3>1
  <2>2. CASE ps[p].idle # <<>>
    <3> DEFINE s == Tail(ps[p].idle)
    <3>1. ps[p].idle \in Seq(Conn)
      BY PoolTyped
    <3>2. s \in Seq(Conn) /\ pool' = [ps EXCEPT ![p].idle = s]
      BY <2>2, <3>1, HeadTailProperties DEF GetOrCreate
    <3> HIDE DEF s
    <3>3. /\ \A q \in Provider : pool'[q].free = ps[q].free
          /\ \A q \in Provider : q # p => pool'[q].idle = ps[q].idle
          /\ pool'[p].idle = s
      BY ONLY <3>2, p \in Provider, ps \in PoolSet DEF PoolSet
    <3> QED BY <2>2, <3>3 DEF s
  <2> QED BY <2>1, <2>2
<1>3. Len(pool'[p].idle) <= ps[p].free
  <2>1. /\ ps[p].idle \in Seq(Conn) /\ ps[p].free \in Int /\ pool[p].free \in Int
        /\ Len(ps[p].idle) <= pool[p].free
    BY PoolTyped, IndTypes DEF Counted
  <2>2. CASE ps[p].idle = <<>>
    <3>1. Len(pool'[p].idle) = 0 /\ Len(ps[p].idle) = 0
      BY <1>2, <2>2, EmptySeq
    <3> QED BY <2>1, <3>1
  <2>3. CASE ps[p].idle # <<>>
    <3>1. Len(pool'[p].idle) = Len(ps[p].idle) - 1 /\ Len(ps[p].idle) \in Nat
      BY <1>2, <2>1, <2>3, HeadTailProperties, LenProperties
    <3> QED BY <2>1, <3>1
  <2> QED BY <2>2, <2>3
<1>4. Cardinality(Users(task', p)) + ps[p].free = MaxConns
  <2>1. /\ pool[p].free \in Int /\ Cardinality(Users(task, p)) \in Nat
        /\ Cardinality(Users(task, p)) + pool[p].free = MaxConns
    BY PoolTyped, IndTypes, UsersFinite DEF Counted
  <2>2. CASE Has(task, t)
    <3>1. Users(task', p) = Users(task, p)
      BY <1>1, <2>2 DEF Users, Has
    <3> QED BY <2>1, <2>2, <3>1
  <2>3. CASE ~Has(task, t)
    <3>1. Cardinality(Users(task', p)) = Cardinality(Users(task, p)) + 1
      BY <1>1, <2>3, UserComes
    <3> QED BY <2>1, <2>3, <3>1, PoolAssumption
  <2> QED BY <2>2, <2>3
<1>5. \A q \in Provider : q # p => Cardinality(Users(task', q)) = Cardinality(Users(task, q))
  <2>1. CASE Has(task, t)
    <3>1. \A q \in Provider : Users(task', q) = Users(task, q)
      BY <1>1, <2>1 DEF Users, Has
    <3> QED BY <3>1
  <2>2. CASE ~Has(task, t)
    BY <1>1, <2>2, UserComes
  <2> QED BY <2>1, <2>2
<1> QED
  <2> SUFFICES ASSUME NEW q \in Provider
               PROVE  /\ Cardinality(Users(task', q)) + pool'[q].free = MaxConns
                      /\ Len(pool'[q].idle) <= pool'[q].free
    BY DEF Counted
  <2>1. CASE q = p
    BY <1>2, <1>3, <1>4, <2>1
  <2>2. CASE q # p
    <3>1. pool'[q].free = pool[q].free /\ pool'[q].idle = pool[q].idle
      BY <1>2, <2>2
    <3> QED BY <1>5, <2>2, <3>1 DEF Counted
  <2> QED BY <2>1, <2>2

\* A borrower that goes gives back its permit, and at most one connection with it.
LEMMA GoesCounted ==
  ASSUME Ind, NEW t \in Borrower, Has(task, t), NEW back \in PoolSet,
         pool' = Released(back, task[t].of), ~Has(task', t),
         \A u \in Borrower \ {t} : task'[u] = task[u],
         \A q \in Provider : /\ back[q].free = pool[q].free
                             /\ q # task[t].of => back[q].idle = pool[q].idle,
         Len(back[task[t].of].idle) <= Len(pool[task[t].of].idle) + 1,
         Counted(pool, task)
  PROVE  Counted(pool', task')
<1> DEFINE p == task[t].of
           n == back[p].free + 1
<1>1. p \in Provider /\ back[p].free \in Int /\ Len(back[p].idle) \in Nat /\ Len(pool[p].idle) \in Nat
  <2>1. p \in Provider /\ pool \in PoolSet
    BY IndTypes
  <2> QED BY <2>1, PoolTyped, LenProperties
<1>2. n \in Int /\ pool' = [back EXCEPT ![p].free = n] /\ n = pool[p].free + 1 /\ pool[p].free \in Int
  BY <1>1 DEF Released
<1>3. /\ Cardinality(Users(task', p)) = Cardinality(Users(task, p)) - 1
      /\ \A q \in Provider : q # p => Cardinality(Users(task', q)) = Cardinality(Users(task, q))
  BY <1>1, UserGoes
<1>4. Len(back[p].idle) <= Len(pool[p].idle) + 1
  OBVIOUS
<1>5. \A q \in Provider : /\ back[q].free = pool[q].free
                          /\ q # p => back[q].idle = pool[q].idle
  OBVIOUS
<1> HIDE DEF p, n
<1>6. /\ pool'[p].free = n
      /\ \A q \in Provider : pool'[q].idle = back[q].idle
      /\ \A q \in Provider : q # p => pool'[q].free = back[q].free
  BY ONLY <1>1, <1>2, back \in PoolSet DEF PoolSet
<1>7. Cardinality(Users(task', p)) + n = MaxConns
  <2>1. Cardinality(Users(task, p)) \in Nat /\ Cardinality(Users(task, p)) + pool[p].free = MaxConns
    BY <1>1, UsersFinite DEF Counted
  <2> QED BY ONLY <1>2, <1>3, <2>1, SMTT(30)
<1>8. Len(pool'[p].idle) <= n
  <2>1. Len(pool[p].idle) <= pool[p].free
    BY <1>1 DEF Counted
  <2> QED BY <1>1, <1>2, <1>4, <1>6, <2>1
<1> QED
  <2> SUFFICES ASSUME NEW q \in Provider
               PROVE  /\ Cardinality(Users(task', q)) + pool'[q].free = MaxConns
                      /\ Len(pool'[q].idle) <= pool'[q].free
    BY DEF Counted
  <2>1. CASE q = p
    BY <1>6, <1>7, <1>8, <2>1
  <2>2. CASE q # p
    BY <1>3, <1>5, <1>6, <2>2 DEF Counted
  <2> QED BY <2>1, <2>2

\* Nobody comes, goes or gives anything back; idle connections may be closed.
LEMMA StaysCounted ==
  ASSUME Counted(pool, task),
         \A t \in Borrower : (Has(task', t) <=> Has(task, t)) /\ (Has(task, t) => task'[t].of = task[t].of),
         \A q \in Provider : /\ pool'[q].free = pool[q].free
                             /\ pool'[q].idle = pool[q].idle \/ (pool'[q].idle = <<>> /\ pool[q].idle \in Seq(Conn)),
         \A q \in Provider : pool[q].free \in Int
  PROVE  Counted(pool', task')
<1>1. \A q \in Provider : Users(task', q) = Users(task, q)
  BY UsersStay
<1> SUFFICES ASSUME NEW q \in Provider
             PROVE  /\ Cardinality(Users(task', q)) + pool'[q].free = MaxConns
                    /\ Len(pool'[q].idle) <= pool'[q].free
  BY DEF Counted
<1>2. Len(pool'[q].idle) <= pool[q].free
  <2>1. Len(pool[q].idle) <= pool[q].free
    BY DEF Counted
  <2>2. CASE pool'[q].idle = pool[q].idle
    BY <2>1, <2>2
  <2>3. CASE pool'[q].idle = <<>> /\ pool[q].idle \in Seq(Conn)
    <3>1. Len(pool'[q].idle) = 0 /\ Len(pool[q].idle) \in Nat
      BY <2>3, LenProperties
    <3> QED BY <2>1, <3>1, pool[q].free \in Int
  <2> QED BY <2>2, <2>3
<1> QED BY <1>1, <1>2 DEF Counted

LEMMA CountedStep ==
  ASSUME Ind, Counted(pool, task), [Next]_vars PROVE Counted(pool', task')
<1>1. /\ pool \in PoolSet /\ task \in [Borrower -> TaskRec]
      /\ \A q \in Provider : pool[q].free \in Int /\ pool[q].idle \in Seq(Conn) /\ pool[q].wait \in Seq(Borrower)
  BY IndTypes, PoolTyped
<1>2. CASE UNCHANGED vars
  BY <1>2 DEF vars
<1>3. ASSUME NEW t \in Borrower, Borrow(t) PROVE Counted(pool', task')
  <2>1. Current \in Provider /\ ~Has(task, t)
    BY <1>3 DEF Current, Provider, Borrow, Has
  <2>2. CASE pool[Current].free > 0 /\ pool[Current].wait = <<>>
    <3> DEFINE n == pool[Current].free - 1
               ps == [pool EXCEPT ![Current].free = n]
    <3>1. GetOrCreate(t, Current, conns, ps) /\ n \in Int
      BY <1>1, <1>3, <2>1, <2>2 DEF Borrow
    <3> DEFINE p == Current
    <3> HIDE DEF n, p
    <3>2. /\ ps \in PoolSet /\ ps[p].free = n
          /\ \A q \in Provider : ps[q].idle = pool[q].idle /\ (q # p => ps[q].free = pool[q].free)
      <4>1. p \in Provider /\ ps = [pool EXCEPT ![p].free = n]
        BY <2>1 DEF p
      <4> HIDE DEF ps
      <4> QED BY ONLY <1>1, <3>1, <4>1 DEF PoolSet
    <3> HIDE DEF ps
    <3> QED BY <2>1, <2>2, <3>1, <3>2, GetsCounted DEF n, p
  <2>3. CASE ~(pool[Current].free > 0 /\ pool[Current].wait = <<>>)
    <3> DEFINE w == Append(pool[Current].wait, t)
    <3>1. /\ pool' = [pool EXCEPT ![Current].wait = w] /\ w \in Seq(Borrower)
          /\ task' = [task EXCEPT ![t].at = "waiting", ![t].of = Current]
      BY <1>1, <1>3, <2>1, <2>3, AppendProperties DEF Borrow
    <3> HIDE DEF w
    <3>2. \A q \in Provider : pool'[q].idle = pool[q].idle /\ pool'[q].free = pool[q].free
      BY ONLY <1>1, <2>1, <3>1 DEF PoolSet
    <3>3. \A u \in Borrower : (Has(task', u) <=> Has(task, u)) /\ (Has(task, u) => task'[u].of = task[u].of)
      BY <1>1, <2>1, <3>1 DEF TaskRec, Has
    <3> QED BY <1>1, <3>2, <3>3, StaysCounted
  <2> QED BY <2>2, <2>3
<1>4. ASSUME NEW t \in Borrower, Woken(t) PROVE Counted(pool', task')
  <2> DEFINE p == task[t].of
             n == pool[p].free - 1
             w == Tail(pool[p].wait)
             ps == [pool EXCEPT ![p].free = n, ![p].wait = w]
  <2>1. /\ p \in Provider /\ ~Has(task, t) /\ pool[p].free > 0 /\ n \in Int /\ w \in Seq(Borrower)
        /\ GetOrCreate(t, p, conns, ps)
    <3>1. p \in Provider
      BY <1>1 DEF TaskRec
    <3> QED BY <1>1, <1>4, <3>1, HeadTailProperties DEF Woken, Has
  <2> HIDE DEF p, n, w
  <2>2. /\ ps \in PoolSet /\ ps[p].free = n
        /\ \A q \in Provider : ps[q].idle = pool[q].idle /\ (q # p => ps[q].free = pool[q].free)
    BY ONLY <1>1, <2>1 DEF PoolSet
  <2> HIDE DEF ps
  <2> QED BY <2>1, <2>2, GetsCounted DEF n
<1>5. ASSUME NEW t \in Borrower, Unhealthy(t) PROVE Counted(pool', task')
  <2>1. Has(task, t) /\ task[t].of \in Provider /\ GetOrCreate(t, task[t].of, Without(task[t].conn), pool)
    BY <1>1, <1>5 DEF Unhealthy, Has, TaskRec
  <2> QED BY <1>1, <2>1, GetsCounted
<1>6. ASSUME NEW t \in Borrower, Ends(t) \/ Healthy(t) PROVE Counted(pool', task')
  <2>1. /\ pool' = pool
        /\ \A u \in Borrower : (Has(task', u) <=> Has(task, u)) /\ (Has(task, u) => task'[u].of = task[u].of)
    BY <1>1, <1>6 DEF Ends, Healthy, Done, TaskRec, Has
  <2> QED BY <1>1, <2>1, StaysCounted
<1>7. ASSUME NEW c \in Conn, LoggedIn(c) \/ TooMany(c) PROVE Counted(pool', task')
  <2>1. /\ pool' = pool
        /\ \A u \in Borrower : (Has(task', u) <=> Has(task, u)) /\ (Has(task, u) => task'[u].of = task[u].of)
    BY <1>1, <1>7 DEF LoggedIn, TooMany, TaskRec, Has
  <2> QED BY <1>1, <2>1, StaysCounted
<1>8. ASSUME NEW t \in Borrower, Over(t), Has(task, t), pool' = Released(pool, task[t].of)
      PROVE  Counted(pool', task')
  <2>1. ~Has(task', t) /\ \A u \in Borrower \ {t} : task'[u] = task[u]
    BY <1>1, <1>8 DEF Over, Off, Done, Has
  <2>2. Len(pool[task[t].of].idle) <= Len(pool[task[t].of].idle) + 1
    BY <1>1, <1>8, IndTypes, LenProperties
  <2> QED BY <1>1, <1>8, <2>1, <2>2, GoesCounted
<1>9. ASSUME NEW c \in Conn, Refused(c) PROVE Counted(pool', task')
  <2>1. CASE conns[c].lost
    BY <1>9, <2>1 DEF Refused
  <2>2. CASE ~conns[c].lost
    <3>1. PICK t \in Borrower : /\ task[t].at = "login" /\ task[t].conn = c
                                /\ pool' = Released(pool, conns[c].of) /\ Over(t)
      BY <1>9, <2>2 DEF Refused
    <3>2. Has(task, t) /\ conns[c].of = task[t].of
      BY <3>1 DEF Has, Ind, Owned, HeldOK
    <3> QED BY <1>8, <3>1, <3>2
  <2> QED BY <2>1, <2>2
<1>10. ASSUME NEW t \in Borrower, Raises(t) PROVE Counted(pool', task')
  BY <1>8, <1>10 DEF Raises, Has
<1>11. ASSUME NEW t \in Borrower, Returns(t) PROVE Counted(pool', task')
  <2> DEFINE p == task[t].of
             d == task[t].conn
             back == Returned(p, d)
             q0 == Append(pool[p].idle, d)
  <2>1. Has(task, t) /\ pool' = Released(back, p) /\ Over(t)
    BY <1>11 DEF Returns, Has
  <2>2. p \in Provider /\ d \in Conn /\ q0 \in Seq(Conn) /\ Len(q0) = Len(pool[p].idle) + 1
        /\ Len(pool[p].idle) \in Nat
    <3>1. p \in Provider /\ d \in Conn
      BY <2>1, IndTypes
    <3> QED BY <1>1, <3>1, AppendProperties, LenProperties
  <2>3. back = pool \/ back = [pool EXCEPT ![p].idle = q0]
    BY DEF Returned
  <2>4. ~Has(task', t) /\ \A u \in Borrower \ {t} : task'[u] = task[u]
    BY <1>1, <2>1 DEF Over, Off, Done, Has
  <2> HIDE DEF p, d, back, q0
  <2>5. /\ back \in PoolSet
        /\ \A q \in Provider : back[q].free = pool[q].free /\ (q # p => back[q].idle = pool[q].idle)
        /\ back[p].idle \in {pool[p].idle, q0}
    <3>1. CASE back = pool
      BY <1>1, <3>1
    <3>2. CASE back = [pool EXCEPT ![p].idle = q0]
      BY ONLY <1>1, <2>2, <3>2 DEF PoolSet
    <3> QED BY <2>3, <3>1, <3>2
  <2>6. Len(back[p].idle) <= Len(pool[p].idle) + 1
    BY <2>2, <2>5
  <2> QED BY <2>1, <2>4, <2>5, <2>6, GoesCounted DEF p
<1>12. ASSUME NEW t \in Borrower, Cancel(t) PROVE Counted(pool', task')
  <2>1. task' = [task EXCEPT ![t] = Done]
    BY <1>12 DEF Cancel
  <2>2. ~Has(task', t) /\ \A u \in Borrower \ {t} : task'[u] = task[u]
    BY <1>1, <2>1 DEF Done, Has
  <2>3. CASE CancelWaiting(t)
    <3> DEFINE p == task[t].of
    <3>1. p \in Provider /\ ~Has(task, t)
      BY <1>1, <2>3 DEF TaskRec, CancelWaiting, Has
    <3>2. PICK i \in DOMAIN pool[p].wait : pool' = [pool EXCEPT ![p].wait = RemoveAt(@, i)]
      BY <2>3 DEF CancelWaiting
    <3> DEFINE w == RemoveAt(pool[p].wait, i)
    <3>3. pool' = [pool EXCEPT ![p].wait = w] /\ w \in Seq(Borrower)
      BY <1>1, <3>1, <3>2, QueueLeaves
    <3> HIDE DEF p, w
    <3>4. \A q \in Provider : pool'[q].idle = pool[q].idle /\ pool'[q].free = pool[q].free
      BY ONLY <1>1, <3>1, <3>3 DEF PoolSet
    <3>5. \A u \in Borrower : (Has(task', u) <=> Has(task, u)) /\ (Has(task, u) => task'[u].of = task[u].of)
      BY <2>2, <3>1 DEF Has
    <3> QED BY <1>1, <3>4, <3>5, StaysCounted
  <2>4. CASE CancelInside(t)
    <3>1. Has(task, t) /\ pool' = Released(pool, task[t].of)
      BY <2>4 DEF CancelInside, Has
    <3>2. Len(pool[task[t].of].idle) <= Len(pool[task[t].of].idle) + 1
      BY <1>1, <3>1, IndTypes, LenProperties
    <3> QED BY <1>1, <2>2, <3>1, <3>2, GoesCounted
  <2> QED BY <1>12, <2>3, <2>4 DEF Cancel
<1>13. CASE RequestStop
  <2> DEFINE e == <<>>
  <2>1. pool' = [pool EXCEPT !["first"].idle = e] /\ task' = task /\ e \in Seq(Conn)
        /\ "first" \in Provider
    BY <1>13, EmptySeq DEF RequestStop, Provider
  <2> HIDE DEF e
  <2>2. \A q \in Provider : /\ pool'[q].free = pool[q].free
                            /\ pool'[q].idle = pool[q].idle \/ pool'[q].idle = e
    BY ONLY <1>1, <2>1 DEF PoolSet
  <2> QED BY <1>1, <2>1, <2>2, StaysCounted DEF e
<1> QED
  BY <1>2, <1>3, <1>4, <1>5, <1>6, <1>7, <1>9, <1>10, <1>11, <1>12, <1>13 DEF Next

LEMMA InitCounted == Init => Counted(pool, task)
<1> SUFFICES ASSUME Init PROVE Counted(pool, task)
  OBVIOUS
<1>1. \A p \in Provider : pool[p].free = MaxConns /\ pool[p].idle = <<>>
  BY DEF Init
<1>2. \A p \in Provider : Users(task, p) = {}
  BY DEF Init, Off, Users, Has
<1>3. Len(<<>>) = 0
  OBVIOUS
<1>4. Cardinality({}) = 0
  BY FS_EmptySet
<1> SUFFICES ASSUME NEW p \in Provider
             PROVE  /\ Cardinality(Users(task, p)) + pool[p].free = MaxConns
                    /\ Len(pool[p].idle) <= pool[p].free
  BY DEF Counted
<1>5. Cardinality(Users(task, p)) = 0 /\ Len(pool[p].idle) = 0 /\ pool[p].free = MaxConns
  BY <1>1, <1>2, <1>3, <1>4
<1> QED BY <1>5, PoolAssumption

THEOREM SpecCounted == Spec => []CapInd
<1>1. Init => CapInd
  BY InitOwned, InitCounted DEF CapInd
<1>2. CapInd /\ [Next]_vars => CapInd'
  BY NextOwned, CountedStep DEF CapInd
<1> QED BY <1>1, <1>2, PTL DEF Spec

\* The values of a function are no more than its arguments.
LEMMA ValuesAreFewer ==
  ASSUME NEW S, IsFiniteSet(S), NEW f
  PROVE  IsFiniteSet({f[x] : x \in S}) /\ Cardinality({f[x] : x \in S}) <= Cardinality(S)
<1> DEFINE T == {f[x] : x \in S}
           g == [x \in S |-> f[x]]
<1>1. g \in Surjection(S, T)
  BY DEF Surjection
<1> HIDE DEF T, g
<1>2. IsFiniteSet(T) /\ Cardinality(T) <= Cardinality(S)
  BY <1>1, FS_Surjection
<1> QED BY <1>2 DEF T

LEMMA UpToN ==
  ASSUME NEW n \in Nat PROVE IsFiniteSet(1..n) /\ Cardinality(1..n) = n
<1>1. IsFiniteSet(1..n) /\ Cardinality(1..n) = IF 1 > n THEN 0 ELSE n - 1 + 1
  BY FS_Interval
<1> QED BY <1>1

\* The connections of p are idle, and there are as many free permits, or held, and
\* there are as many permits out.
LEMMA CapFollows == CapInd => CapHolds
<1> SUFFICES ASSUME CapInd, NEW p \in Provider
             PROVE  Cardinality({c \in Conn : Live(c) /\ conns[c].of = p /\ ~conns[c].lost}) <= MaxConns
  BY DEF CapHolds
<1> DEFINE mine == {c \in Conn : Live(c) /\ conns[c].of = p /\ ~conns[c].lost}
           s == pool[p].idle
           idle == {s[i] : i \in 1..Len(s)}
           conn == [t \in Borrower |-> task[t].conn]
           held == {conn[t] : t \in Users(task, p)}
<1>1. /\ s \in Seq(Conn) /\ Len(s) \in Nat /\ DOMAIN s = 1..Len(s) /\ pool[p].free \in Int
      /\ Len(s) <= pool[p].free /\ Cardinality(Users(task, p)) + pool[p].free = MaxConns
  <2>1. pool \in PoolSet
    BY IndTypes DEF CapInd
  <2> QED BY <2>1, PoolTyped, LenProperties DEF CapInd, Counted
<1>2. mine \subseteq idle \cup held
  <2> SUFFICES ASSUME NEW c \in Conn, conns[c].at \in {"login", "open"}, conns[c].of = p, ~conns[c].lost
               PROVE  c \in idle \/ c \in held
    BY DEF Live
  <2>1. CASE \E q \in Provider : c \in IdleIn(pool, q)
    <3>1. c \in IdleIn(pool, p)
      BY <2>1 DEF CapInd, Ind, Owned, IdleOK
    <3> QED BY <1>1, <3>1 DEF IdleIn, ToSet
  <2>2. CASE \E t \in Borrower : Has(task, t) /\ task[t].conn = c
    <3>1. PICK t \in Borrower : Has(task, t) /\ task[t].conn = c
      BY <2>2
    <3>2. t \in Users(task, p)
      BY <3>1 DEF CapInd, Ind, Owned, HeldOK, Users
    <3> QED BY <3>1, <3>2
  <2> QED BY <2>1, <2>2 DEF CapInd, Ind, Owned, KeptOK
<1> HIDE DEF conn, s
<1>3. IsFiniteSet(idle) /\ Cardinality(idle) <= Len(s)
  <2>1. IsFiniteSet(1..Len(s)) /\ Cardinality(1..Len(s)) = Len(s)
    BY <1>1, UpToN
  <2> QED BY <2>1, ValuesAreFewer
<1>4. IsFiniteSet(held) /\ Cardinality(held) <= Cardinality(Users(task, p))
  BY UsersFinite, ValuesAreFewer
<1>5. Cardinality(Users(task, p)) \in Nat
  BY UsersFinite
<1> HIDE DEF idle, held, mine
<1>6. /\ IsFiniteSet(idle \cup held)
      /\ Cardinality(idle \cup held) = Cardinality(idle) + Cardinality(held) - Cardinality(idle \cap held)
  BY <1>3, <1>4, FS_Union
<1>7. Cardinality(idle \cap held) \in Nat /\ Cardinality(idle) \in Nat /\ Cardinality(held) \in Nat
  <2>1. IsFiniteSet(idle \cap held)
    BY <1>3, FS_Subset
  <2> QED BY <1>3, <1>4, <2>1, FS_CardinalityType
<1>8. IsFiniteSet(mine) /\ Cardinality(mine) <= Cardinality(idle \cup held)
  BY <1>2, <1>6, FS_Subset
<1>9. Cardinality(mine) \in Nat
  BY <1>8, FS_CardinalityType
<1>10. s = pool[p].idle
  BY DEF s
<1>11. Cardinality(mine) <= MaxConns
  BY <1>1, <1>3, <1>4, <1>5, <1>6, <1>7, <1>8, <1>9, PoolAssumption
<1> QED BY <1>11 DEF mine

LEMMA TypesFollow == CapInd => (stop \in BOOLEAN /\ faults \in 0..MaxFaults => PoolTypeOK)
<1> SUFFICES ASSUME CapInd, stop \in BOOLEAN, faults \in 0..MaxFaults PROVE PoolTypeOK
  OBVIOUS
<1>1. conns \in [Conn -> ConnRec] /\ pool \in PoolSet /\ task \in [Borrower -> TaskRec]
  BY IndTypes DEF CapInd
<1>2. ASSUME NEW p \in Provider
      PROVE  pool[p].free \in 0..MaxConns /\ pool[p].idle \in Seq(Conn) /\ pool[p].wait \in Seq(Borrower)
  <2>1. pool[p].free \in Int /\ pool[p].idle \in Seq(Conn) /\ pool[p].wait \in Seq(Borrower)
    BY <1>1, PoolTyped
  <2>2. Cardinality(Users(task, p)) \in Nat /\ Len(pool[p].idle) \in Nat
    BY <2>1, UsersFinite, LenProperties
  <2>3. Cardinality(Users(task, p)) + pool[p].free = MaxConns /\ Len(pool[p].idle) <= pool[p].free
    BY DEF CapInd, Counted
  <2> QED BY <2>1, <2>2, <2>3, PoolAssumption
<1> QED BY <1>1, <1>2 DEF PoolTypeOK, ConnRec, TaskRec

LEMMA SpecBounds == Spec => [](stop \in BOOLEAN /\ faults \in 0..MaxFaults)
<1> DEFINE B == stop \in BOOLEAN /\ faults \in 0..MaxFaults
<1>1. Init => B
  <2>1. 0 \in 0..MaxFaults
    BY PoolAssumption
  <2> QED BY <2>1 DEF Init
<1>2. B /\ [Next]_vars => B'
  <2> SUFFICES ASSUME B, [Next]_vars PROVE B'
    OBVIOUS
  <2>1. faults' = faults \/ (faults < MaxFaults /\ faults' = faults + 1)
    BY DEF Next, vars, Borrow, Ends, Woken, Healthy, Unhealthy, Returns, Raises, Cancel,
           LoggedIn, TooMany, Refused, RequestStop
  <2>2. stop' = stop \/ stop' = TRUE
    BY DEF Next, vars, Borrow, Ends, Woken, Healthy, Unhealthy, Returns, Raises, Cancel,
           LoggedIn, TooMany, Refused, RequestStop
  <2>3. faults' \in 0..MaxFaults
    <3>1. faults \in 0..MaxFaults
      OBVIOUS
    <3> QED BY <2>1, <3>1, PoolAssumption
  <2>4. stop' \in BOOLEAN
    <3>1. stop \in BOOLEAN
      OBVIOUS
    <3> QED BY <2>2, <3>1
  <2> QED BY <2>3, <2>4
<1> HIDE DEF B
<1>3. Spec => []B
  BY <1>1, <1>2, PTL DEF Spec
<1> QED BY <1>3 DEF B

\* "enforces a per-account concurrency cap and guarantees no zombie TCP connections",
\* for every cap and any number of borrowers that fail, wait or are cancelled.
THEOREM ConnectionsAreSafe == Spec => []ConnsSafe
<1>1. CapInd /\ stop \in BOOLEAN /\ faults \in 0..MaxFaults => PoolTypeOK /\ CapHolds
  BY CapFollows, TypesFollow
<1>2. PoolTypeOK /\ CapHolds /\ NoZombies => ConnsSafe
  BY DEF ConnsSafe
<1> QED BY <1>1, <1>2, SpecCounted, SpecBounds, NobodyIsAZombie, PTL

-------------------------------------------------------------------------------
(***************************************************************************)
(* The rows and marks of an account, whatever its messages, its folders and *)
(* the troubles it meets.                                                   *)
(*                                                                          *)
(* A uid is passed from hand to hand: from the folder to the call that      *)
(* fetches it, into a row, from the row to a client, through a move into    *)
(* another folder and back into the row.  Each is a claim that under one    *)
(* UIDVALIDITY the uid is a message's, and the invariant is that no two     *)
(* claims differ and none is above UIDNEXT, so a number the server gives    *)
(* out anew is nobody's.  What a mark promises needs the call in progress:  *)
(* whatever is above its old mark is in the database, in its hands, or      *)
(* above everything it has seen.                                            *)
(***************************************************************************)
Entry == [uid : Nat \ {0}, msg : Msg]
RowRec == [msg : Msg, at : Folder, uid : Nat \ {0}, epoch : Nat \ {0}, sure : BOOLEAN,
           strayed : BOOLEAN, body : Msg \cup {None}]
MarkRec == [validity : Nat, last : Nat]
SyncPhase == {"early", "rest", "all", "inbox"}
Phase == SyncPhase \cup {"off", "bodies", "verify", "wait", "deferred", "sleep", "done", "dead"}
SyncRec == [phase : Phase, todo : Seq(Folder), stage : {"read", "fetch", "store"}, validity : Nat,
            last : Nat, epoch : Nat, got : SUBSET Entry, top : Nat, uids : SUBSET Nat,
            seen : SUBSET [at : Folder, uid : Nat \ {0}, msg : Msg]]
ClientRec == [pc : {None, "body", "write", "lookup", "server", "local"},
              op : {None, "read", "delete", "move"}, msg : Msg \cup {None}, at : Folder, uid : Nat,
              epoch : Nat, sure : BOOLEAN, found : Msg \cup {None}, to : Folder]

Shapes ==
  /\ rows \in [Keys -> RowRec \cup {NoRow}] /\ mark \in [Folder -> MarkRec]
  /\ activity \in [Task -> SyncRec] /\ cl \in ClientRec
  /\ left \in [Folder -> SUBSET Nat] /\ excused \subseteq Msg /\ coming \subseteq Msg

Anew == \E f \in Folder : epoch[f] # 1

BoxOK ==
  /\ box \in [Folder -> SUBSET Entry] /\ \A f \in Folder : IsFiniteSet(box[f])
  /\ next \in [Folder -> Nat \ {0}] /\ epoch \in [Folder -> Nat \ {0}]

\* A row is kept under its own Message-ID, and its body is its own as long as its
\* uid was.
RowOK(k, r) ==
  r # NoRow =>
    /\ Key(r.msg) = k
    /\ r.sure \/ r.strayed
    /\ r.body \in {None, r.msg} \/ r.strayed \/ Anew

Covered(m) == Stored(m) \/ m \in excused

\* The mark of a folder that was never numbered anew.
MarkOK(f) ==
  epoch[f] = 1 =>
    /\ mark[f].validity <= 1 /\ mark[f].last < next[f]
    /\ \A u \in left[f] : u < next[f]
    /\ \A e \in box[f] : e.uid <= mark[f].last => Covered(e.msg) \/ e.uid \in left[f]

\* A call of sync_folder in progress.
InCall(r) == r.phase \in SyncPhase /\ r.todo # <<>>
HasGot(r) == r.phase \in SyncPhase \cup {"bodies"} /\ r.todo # <<>> /\ r.stage = "store"

TaskOK(t, r) ==
  /\ HasGot(r) => r.epoch >= 1 /\ r.epoch <= epoch[Head(r.todo)]
  /\ t = "backfill" /\ r.phase = "early" => r.last = 0

\* What is above the old mark is in the database, in hand, or came later; what a
\* windowed pass left out is in the hands of a pass that takes everything.
CallOK(t, r, f) ==
  epoch[f] = 1 =>
    /\ r.validity <= 1 /\ r.last < next[f] /\ r.top < next[f]
    /\ r.stage = "fetch" => \A e \in box[f] : e.uid <= r.last => Covered(e.msg) \/ e.uid \in left[f]
    /\ r.stage = "store" =>
         \A e \in box[f] : \/ Covered(e.msg) \/ e.uid \in left[f] \/ e \in r.got
                           \/ e.uid > r.top /\ \A d \in r.got : e.uid > d.uid
    /\ r.stage = "store" /\ t # "start" /\ r.last = 0 =>
         \A e \in box[f] : e.uid \in left[f] => Covered(e.msg) \/ e \in r.got
SyncOK(t, r) == InCall(r) /\ r.stage # "read" => CallOK(t, r, Head(r.todo))

\* Who syncs when.
DaemonOK ==
  /\ daemon \in {"off", "starting", "running", "stopped"}
  /\ \A t \in Task :
       \/ activity[t].phase \in {"off", "done"}
       \/ daemon = "starting" /\ t = "start"
       \/ daemon = "running" /\ t # "start"

ClientOK ==
  /\ cl.pc # None => cl.msg \in Msg \ NoId /\ rows[cl.msg] # NoRow
  /\ cl.pc \in {"body", "server", "local"} => cl.uid # 0 /\ cl.epoch # 0
  /\ cl.pc = "body" => cl.sure \/ rows[cl.msg].strayed
  /\ cl.pc = "write" => cl.found \in {None, cl.msg} \/ rows[cl.msg].strayed \/ Anew

\* Whoever says that a uid is, or was, a message's.
BoxClaim(f, n, u, m) == n = epoch[f] /\ [uid |-> u, msg |-> m] \in box[f]
RowClaim(r, f, n, u, m) == r # NoRow /\ r.sure /\ r.at = f /\ r.epoch = n /\ r.uid = u /\ r.msg = m
GotClaim(r, f, n, u, m) == HasGot(r) /\ Head(r.todo) = f /\ r.epoch = n /\ [uid |-> u, msg |-> m] \in r.got
SeenClaim(r, f, n, u, m) ==
  r.phase = "verify" /\ r.stage = "store" /\ n = 1 /\ epoch[f] = 1 /\ [at |-> f, uid |-> u, msg |-> m] \in r.seen
ClientClaim(c, f, n, u, m) ==
  /\ c.sure /\ c.epoch = n /\ c.uid = u /\ c.msg = m
  /\ \/ c.pc \in {"body", "server"} /\ c.at = f
     \/ c.pc = "local" /\ c.op = "move" /\ c.to = f
Claim(f, n, u, m) ==
  \/ BoxClaim(f, n, u, m)
  \/ \E k \in Keys : RowClaim(rows[k], f, n, u, m)
  \/ \E t \in Task : GotClaim(activity[t], f, n, u, m) \/ SeenClaim(activity[t], f, n, u, m)
  \/ ClientClaim(cl, f, n, u, m)

\* They agree, and no number is given twice.
ClaimsOK ==
  \A f \in Folder : \A n, u \in Nat, m \in Msg : Claim(f, n, u, m) =>
    /\ n < epoch[f] \/ (n = epoch[f] /\ u < next[f])
    /\ \A o \in Msg : Claim(f, n, u, o) => o = m

SyncInd ==
  /\ BoxOK /\ Shapes
  /\ \A k \in Keys : RowOK(k, rows[k])
  /\ \A f \in Folder : MarkOK(f)
  /\ \A t \in Task : TaskOK(t, activity[t]) /\ SyncOK(t, activity[t])
  /\ DaemonOK /\ ClientOK /\ ClaimsOK

LEMMA HeadOf == ASSUME NEW S, NEW s \in Seq(S), s # <<>> PROVE Head(s) \in S /\ Tail(s) \in Seq(S)
OBVIOUS

-------------------------------------------------------------------------------
(* What the steps have in common *)

\* What a step may do to a folder without disturbing a mark or a call.
Keeps(f) ==
  epoch'[f] = 1 =>
    /\ epoch[f] = 1 /\ next[f] <= next'[f]
    /\ \A e \in box'[f] : \/ e \in box[f] /\ (Covered(e.msg) => Covered(e.msg)')
                          \/ e.uid >= next[f]
    /\ \A e \in box'[f] : e.uid \in left[f] => e.uid \in left'[f] \/ Covered(e.msg)'

Numbers == box \in [Folder -> SUBSET Entry] /\ next \in [Folder -> Nat \ {0}] /\ epoch \in [Folder -> Nat \ {0}]

LEMMA CallKept ==
  ASSUME NEW t \in Task, NEW r \in SyncRec, NEW f \in Folder, CallOK(t, r, f), Keeps(f), Numbers, Numbers',
         epoch[f] = 1 => \A u \in left[f] : u < next[f],
         epoch[f] = 1 /\ r.stage = "store" => \A d \in r.got : d.uid < next[f],
         t = "start" \/ left'[f] \subseteq left[f]
  PROVE  CallOK(t, r, f)'
<1> SUFFICES ASSUME epoch'[f] = 1 PROVE CallOK(t, r, f)'
  BY DEF CallOK
<1>1. epoch[f] = 1 /\ next[f] <= next'[f] /\ r.validity <= 1 /\ r.last < next[f] /\ r.top < next[f]
  BY DEF CallOK, Keeps
<1>2. r.validity <= 1 /\ r.last < next'[f] /\ r.top < next'[f]
  BY <1>1 DEF SyncRec, Numbers
<1>3. ASSUME r.stage = "fetch", NEW e \in box'[f], e.uid <= r.last
      PROVE  Covered(e.msg)' \/ e.uid \in left'[f]
  <2>1. e \in box[f] /\ (Covered(e.msg) => Covered(e.msg)')
    BY <1>1, <1>3 DEF Keeps, Numbers, Entry, SyncRec
  <2>2. Covered(e.msg) \/ e.uid \in left[f]
    BY <1>1, <1>3, <2>1 DEF CallOK
  <2>3. QED
    BY <2>1, <2>2 DEF Keeps
<1>4. ASSUME r.stage = "store", NEW e \in box'[f]
      PROVE  \/ Covered(e.msg)' \/ e.uid \in left'[f] \/ e \in r.got
             \/ e.uid > r.top /\ \A d \in r.got : e.uid > d.uid
  <2>1. CASE e.uid >= next[f]
    <3>1. e.uid \in Nat /\ next[f] \in Nat /\ r.top \in Nat /\ \A d \in r.got : d.uid \in Nat
      BY DEF Numbers, Entry, SyncRec
    <3>2. e.uid > r.top
      BY <1>1, <2>1, <3>1
    <3>3. \A d \in r.got : e.uid > d.uid
      BY <1>1, <1>4, <2>1, <3>1
    <3>4. QED
      BY <3>2, <3>3
  <2>2. CASE e \in box[f] /\ (Covered(e.msg) => Covered(e.msg)')
    <3>1. \/ Covered(e.msg) \/ e.uid \in left[f] \/ e \in r.got
          \/ e.uid > r.top /\ \A d \in r.got : e.uid > d.uid
      BY <1>1, <1>4, <2>2 DEF CallOK
    <3>2. QED
      BY <2>2, <3>1 DEF Keeps
  <2>3. QED
    BY <2>1, <2>2 DEF Keeps
<1>5. ASSUME r.stage = "store", t # "start", r.last = 0, NEW e \in box'[f], e.uid \in left'[f]
      PROVE  Covered(e.msg)' \/ e \in r.got
  <2>1. e.uid \in left[f]
    BY <1>5
  <2>2. e.uid < next[f]
    BY <1>1, <2>1
  <2>3. e \in box[f] /\ (Covered(e.msg) => Covered(e.msg)')
    BY <2>2 DEF Keeps, Numbers, Entry
  <2>4. Covered(e.msg) \/ e \in r.got
    BY <1>1, <1>5, <2>1, <2>3 DEF CallOK
  <2>5. QED
    BY <2>3, <2>4
<1>6. QED
  BY <1>2, <1>3, <1>4, <1>5 DEF CallOK

\* What a call has in hand was numbered before.
LEMMA GotBelow ==
  ASSUME SyncInd, NEW t \in Task, NEW f \in Folder, HasGot(activity[t]), Head(activity[t].todo) = f, epoch[f] = 1
  PROVE  \A d \in activity[t].got : d.uid < next[f]
<1> DEFINE r == activity[t]
<1>1. r \in SyncRec /\ r.epoch = 1
  BY DEF SyncInd, Shapes, TaskOK, SyncRec
<1> SUFFICES ASSUME NEW d \in r.got PROVE d.uid < next[f]
  OBVIOUS
<1>2. d = [uid |-> d.uid, msg |-> d.msg] /\ d.uid \in Nat /\ d.msg \in Msg
  BY <1>1 DEF SyncRec, Entry
<1>3. Claim(f, 1, d.uid, d.msg)
  BY <1>1, <1>2 DEF Claim, GotClaim
<1>4. QED
  BY <1>2, <1>3 DEF SyncInd, ClaimsOK

LEMMA CallsKept ==
  ASSUME SyncInd, Numbers', NEW t \in Task, activity'[t] = activity[t], \A f \in Folder : Keeps(f),
         \/ t = "start" \/ ~InCall(activity[t])
         \/ \A f \in Folder : left'[f] \subseteq left[f]
  PROVE  SyncOK(t, activity[t])'
<1>1. PICK r : r = activity[t]
  OBVIOUS
<1>2. SUFFICES ASSUME InCall(r), r.stage # "read" PROVE CallOK(t, r, Head(r.todo))'
  BY <1>1 DEF SyncOK
<1>3. r \in SyncRec /\ SyncOK(t, r) /\ Numbers
  BY <1>1 DEF SyncInd, Shapes, BoxOK, Numbers
<1>4. PICK f \in Folder : f = Head(r.todo)
  BY <1>2, <1>3, HeadOf DEF InCall, SyncRec
<1>5. CallOK(t, r, f) /\ Keeps(f) /\ MarkOK(f)
  BY <1>2, <1>3, <1>4 DEF SyncOK, SyncInd
<1>6. epoch[f] = 1 => \A u \in left[f] : u < next[f]
  BY <1>5 DEF MarkOK
<1>7. epoch[f] = 1 /\ r.stage = "store" => \A d \in r.got : d.uid < next[f]
  BY <1>1, <1>2, <1>4, GotBelow DEF HasGot, InCall
<1>8. t = "start" \/ left'[f] \subseteq left[f]
  BY <1>1, <1>2
<1>9. CallOK(t, r, f)'
  BY <1>3, <1>5, <1>6, <1>7, <1>8, CallKept
<1>10. QED
  BY <1>4, <1>9

LEMMA MarkKept ==
  ASSUME SyncInd, Numbers', NEW f \in Folder, mark'[f] = mark[f], Keeps(f), left'[f] \subseteq Nat,
         \A u \in left'[f] : u \in left[f] \/ (epoch'[f] = 1 => u < next'[f])
  PROVE  MarkOK(f)'
<1>1. MarkOK(f) /\ Numbers
  BY DEF SyncInd, BoxOK, Numbers
<1>2. mark'[f] \in MarkRec /\ left'[f] \subseteq Nat
  BY DEF SyncInd, Shapes
<1>3. SUFFICES ASSUME epoch'[f] = 1 
      PROVE  /\ mark[f].validity <= 1 /\ mark[f].last < next'[f]
             /\ \A u \in left'[f] : u < next'[f]
             /\ \A e \in box'[f] : e.uid <= mark[f].last => Covered(e.msg)' \/ e.uid \in left'[f]
  BY <1>2 DEF MarkOK
<1>4. epoch[f] = 1 /\ next[f] <= next'[f] /\ mark[f].validity <= 1 /\ mark[f].last < next[f] /\ \A u \in left[f] : u < next[f]
  BY <1>1, <1>3 DEF Keeps, MarkOK
<1>5. mark[f].last \in Nat /\ next[f] \in Nat /\ next'[f] \in Nat /\ left'[f] \subseteq Nat
  BY <1>1, <1>2 DEF MarkRec, Numbers
<1>6. ASSUME NEW e \in box'[f], e.uid <= mark[f].last PROVE Covered(e.msg)' \/ e.uid \in left'[f]
  <2>1. e \in box[f] /\ (Covered(e.msg) => Covered(e.msg)')
    BY <1>3, <1>4, <1>5, <1>6 DEF Keeps, Numbers, Entry
  <2>2. Covered(e.msg) \/ e.uid \in left[f]
    BY <1>1, <1>4, <1>6, <2>1 DEF MarkOK
  <2>3. QED
    BY <1>3, <2>1, <2>2 DEF Keeps
<1>7. \A u \in left'[f] : u < next'[f]
  BY <1>3, <1>4, <1>5
<1>8. QED
  BY <1>4, <1>5, <1>6, <1>7

LEMMA ClaimsKept ==
  ASSUME SyncInd, UNCHANGED <<next, epoch>>,
         \A f \in Folder : \A n, u \in Nat, m \in Msg : Claim(f, n, u, m)' => Claim(f, n, u, m)
  PROVE  ClaimsOK'
BY DEF SyncInd, ClaimsOK

-------------------------------------------------------------------------------
(* Steps that change a task and nothing else *)

LEMMA RowsKept ==
  ASSUME SyncInd, Numbers', \A f \in Folder : epoch'[f] = 1 => epoch[f] = 1, NEW k \in Keys, rows'[k] = rows[k]
  PROVE  RowOK(k, rows[k])'
BY DEF SyncInd, RowOK, Anew

LEMMA TaskStep ==
  ASSUME SyncInd, NEW t \in Task, NEW r, activity' = [activity EXCEPT ![t] = r], DaemonOK',
         UNCHANGED <<server, local, cl, excused>>, r \in SyncRec, TaskOK(t, r), SyncOK(t, r)',
         \/ left' = left
         \/ /\ t = "start" /\ daemon = "starting" /\ left' \in [Folder -> SUBSET Nat]
            /\ \A f \in Folder : /\ left[f] \subseteq left'[f]
                                 /\ epoch[f] = 1 => \A u \in left'[f] : u < next[f],
         \A f \in Folder : \A n, u \in Nat, m \in Msg :
            GotClaim(r, f, n, u, m) \/ SeenClaim(r, f, n, u, m) => Claim(f, n, u, m)
  PROVE  SyncInd'
<1> USE DEF server, local, history
<1>0. activity \in [Task -> SyncRec]
  BY DEF SyncInd, Shapes
<1>9. Shapes'
  BY <1>0 DEF SyncInd, Shapes
<1>1. BoxOK' /\ Numbers'
  BY DEF SyncInd, BoxOK, Numbers
<1>2. \A k \in Keys : RowOK(k, rows[k])'
  BY <1>1, RowsKept
<1>3. \A f \in Folder : /\ Keeps(f) /\ mark'[f] = mark[f] /\ left'[f] \subseteq Nat
                        /\ \A u \in left'[f] : u \in left[f] \/ (epoch'[f] = 1 => u < next'[f])
  BY <1>1, <1>9 DEF Keeps, Covered, Stored, Numbers, Shapes
<1>4. \A f \in Folder : MarkOK(f)'
  BY <1>1, <1>3, MarkKept
<1>5. ASSUME NEW u \in Task PROVE TaskOK(u, activity[u])' /\ SyncOK(u, activity[u])'
  <2>1. CASE u = t
    <3>1. activity'[u] = r
      BY <1>0, <2>1
    <3>2. TaskOK(t, r)' /\ SyncOK(t, r)'
      BY DEF TaskOK
    <3>3. QED
      BY <2>1, <3>1, <3>2 DEF TaskOK, SyncOK
  <2>2. CASE u # t
    <3>1. activity'[u] = activity[u]
      BY <1>0, <2>2
    <3>2. (\A f \in Folder : left'[f] \subseteq left[f]) \/ ~InCall(activity[u])
      BY <2>2 DEF SyncInd, DaemonOK, InCall, SyncPhase
    <3> SyncOK(u, activity[u])'
      BY <1>1, <1>3, <3>1, <3>2, CallsKept
    <3>3. TaskOK(u, activity[u])'
      BY <3>1 DEF SyncInd, TaskOK
    <3>4. QED
      BY <3>3
  <2>3. QED
    BY <2>1, <2>2
<1>6. ClientOK'
  BY DEF SyncInd, ClientOK, Anew
<1>7. ASSUME NEW f \in Folder, NEW n \in Nat, NEW u \in Nat, NEW m \in Msg, Claim(f, n, u, m)' PROVE Claim(f, n, u, m)
  <2>1. CASE \E v \in Task : (GotClaim(activity[v], f, n, u, m) \/ SeenClaim(activity[v], f, n, u, m))'
    <3>1. PICK v \in Task : (GotClaim(activity[v], f, n, u, m) \/ SeenClaim(activity[v], f, n, u, m))'
      BY <2>1
    <3>2. PICK q : q = activity'[v]
      OBVIOUS
    <3>3. GotClaim(q, f, n, u, m) \/ SeenClaim(q, f, n, u, m)
      BY <3>1, <3>2 DEF GotClaim, SeenClaim
    <3>4. q = r \/ q = activity[v]
      BY <1>0, <3>2
    <3>5. QED
      BY <3>3, <3>4 DEF Claim
  <2>2. CASE ~\E v \in Task : (GotClaim(activity[v], f, n, u, m) \/ SeenClaim(activity[v], f, n, u, m))'
    BY <1>7, <2>2 DEF Claim, BoxClaim, RowClaim, ClientClaim
  <2>3. QED
    BY <2>1, <2>2
<1>8. ClaimsOK'
  BY <1>7, ClaimsKept
<1>10. QED
  BY <1>1, <1>2, <1>4, <1>5, <1>6, <1>8, <1>9 DEF SyncInd

LEMMA Unchanged == ASSUME SyncInd, UNCHANGED <<server, local, activity, daemon, cl, history>> PROVE SyncInd'
<1> USE DEF server, local, history
<1>1. BoxOK' /\ Shapes' /\ DaemonOK' /\ ClientOK' /\ Numbers'
  BY DEF SyncInd, BoxOK, Shapes, DaemonOK, ClientOK, Anew, Numbers
<1>2. \A k \in Keys : RowOK(k, rows[k])'
  BY <1>1, RowsKept
<1>3. \A f \in Folder : MarkOK(f)'
  BY DEF SyncInd, MarkOK, Covered, Stored
<1>4. \A t \in Task : TaskOK(t, activity[t])' /\ SyncOK(t, activity[t])'
  BY DEF SyncInd, TaskOK, SyncOK, CallOK, Covered, Stored
<1>5. ClaimsOK'
  BY ClaimsKept DEF Claim, BoxClaim, RowClaim, GotClaim, SeenClaim, ClientClaim
<1>6. QED
  BY <1>1, <1>2, <1>3, <1>4, <1>5 DEF SyncInd

-------------------------------------------------------------------------------
(* Tasks between their calls *)

LEMMA EnterOK ==
  ASSUME NEW t \in Task, NEW p \in Phase, NEW s \in Seq(Folder)
  PROVE  /\ Enter(p, s) \in SyncRec /\ TaskOK(t, Enter(p, s)) /\ SyncOK(t, Enter(p, s))
         /\ Enter(p, s).phase = p /\ Enter(p, s).stage = "read"
         /\ \A f, n, u, m : ~GotClaim(Enter(p, s), f, n, u, m) /\ ~SeenClaim(Enter(p, s), f, n, u, m)
BY DEF Enter, Quiet, SyncRec, TaskOK, SyncOK, HasGot, InCall, GotClaim, SeenClaim

\* A task at rest enters another phase.
LEMMA Enters ==
  ASSUME SyncInd, NEW t \in Task, NEW p \in Phase, NEW s \in Seq(Folder),
         Set(t, Enter(p, s)), UNCHANGED <<server, local, daemon, cl, history>>,
         p \in {"off", "done"} \/ activity[t].phase \notin {"off", "done"}
  PROVE  SyncInd'
<1>1. PICK r : r = Enter(p, s)
  OBVIOUS
<1>2. /\ r \in SyncRec /\ TaskOK(t, r) /\ SyncOK(t, r) /\ r.phase = p
      /\ \A f, n, u, m : ~GotClaim(r, f, n, u, m) /\ ~SeenClaim(r, f, n, u, m)
  BY <1>1, EnterOK
<1>3. activity' = [activity EXCEPT ![t] = r]
  BY <1>1 DEF Set
<1>4. DaemonOK'
  BY <1>2, <1>3 DEF SyncInd, DaemonOK, Shapes
<1>5. SyncOK(t, r)'
  BY <1>2 DEF SyncOK, CallOK, Covered, Stored, server, local, history
<1>6. QED
  BY <1>2, <1>3, <1>4, <1>5, TaskStep DEF history

LEMMA Folders == Early \in Seq(Folder) /\ Rest \in Seq(Folder) /\ Early \o Rest \in Seq(Folder)
                 /\ <<Inbox>> \in Seq(Folder) /\ <<>> \in Seq(Folder) /\ Inbox \in Folder
BY SyncAssumption

LEMMA NextFolderIs ==
  ASSUME SyncInd, NEW t \in Task, activity[t].todo # <<>>
  PROVE  \E p \in Phase, s \in Seq(Folder) : NextFolder(t) = Enter(p, s)
<1>1. activity[t] \in SyncRec
  BY DEF SyncInd, Shapes
<1>2. Tail(activity[t].todo) \in Seq(Folder) /\ activity[t].phase \in Phase
  BY <1>1, HeadOf DEF SyncRec
<1>3. \E p \in Phase, s \in Seq(Folder) : Then(t) = Enter(p, s)
  BY Folders DEF Then, Ended, Phase, SyncPhase
<1>4. QED
  BY <1>2, <1>3 DEF NextFolder

LEMMA AfterVerifyIs == \A t : \E p \in Phase, s \in Seq(Folder) : AfterVerify(t) = Enter(p, s)
BY Folders DEF AfterVerify, Ended, Phase

LEMMA AfterIs ==
  ASSUME SyncInd, NEW t \in Task, NEW lost, activity[t].todo # <<>> \/ activity[t].phase = "verify"
  PROVE  \E p \in Phase, s \in Seq(Folder) : After(t, lost) = Enter(p, s)
BY NextFolderIs, AfterVerifyIs, Folders DEF After, Ended, Phase

LEMMA Running ==
  ASSUME SyncInd, NEW t \in Task
  PROVE  /\ Syncing(t) \/ (daemon = "running" /\ activity[t].todo # <<>> /\ activity[t].phase = "bodies")
              => activity[t].phase \notin {"off", "done"} /\ activity[t].todo # <<>>
         /\ \A p : At(t, p) /\ p \notin {"off", "done"} => activity[t].phase \notin {"off", "done"}
BY DEF Syncing, At

LEMMA VerifyLocalInd == ASSUME SyncInd, NEW t \in Task, VerifyLocal(t) PROVE SyncInd'
<1>1. PICK p \in Phase : \E s \in Seq(Folder) : AfterVerify(t) = Enter(p, s)
  BY AfterVerifyIs
<1>2. PICK s \in Seq(Folder) : AfterVerify(t) = Enter(p, s)
  BY <1>1
<1>3. activity[t].phase \notin {"off", "done"}
  BY DEF VerifyLocal, Verifies, At
<1>4. QED
  BY <1>2, <1>3, Enters DEF VerifyLocal

LEMMA FailInd == ASSUME SyncInd, NEW t \in Task, Fail(t) PROVE SyncInd'
<1>1. activity[t].phase \notin {"off", "done"} /\ (activity[t].todo # <<>> \/ activity[t].phase = "verify")
  BY DEF Fail, Syncing, Upgrading, Verifies, At
<1>2. PICK lost \in BOOLEAN : Set(t, After(t, lost))
  BY DEF Fail
<1>3. PICK p \in Phase : \E s \in Seq(Folder) : After(t, lost) = Enter(p, s)
  BY <1>1, AfterIs
<1>4. PICK s \in Seq(Folder) : After(t, lost) = Enter(p, s)
  BY <1>3
<1>5. QED
  BY <1>1, <1>2, <1>4, Enters DEF Fail

LEMMA BackfillStopsInd == ASSUME SyncInd, BackfillStops PROVE SyncInd'
<1>1. activity["backfill"].phase \notin {"off", "done"}
  BY DEF BackfillStops, IsFull, Verifies, At
<1>2. QED
  BY <1>1, Folders, Enters DEF BackfillStops, Ended, Phase, Task

LEMMA IdleWakesInd == ASSUME SyncInd, IdleWakes PROVE SyncInd'
<1>1. activity["idle"].phase \notin {"off", "done"} /\ UNCHANGED <<server, local, daemon, cl, history>>
  BY DEF IdleWakes, At
<1>2. CASE Set("idle", Ended) \/ Set("idle", Enter("inbox", <<Inbox>>))
  BY <1>1, <1>2, Folders, Enters DEF Ended, Phase, SyncPhase, Task
<1>3. CASE activity' = activity
  BY <1>1, <1>3, Unchanged
<1>4. QED
  BY <1>2, <1>3 DEF IdleWakes

LEMMA PeriodicInd == ASSUME SyncInd, DeferralEnds \/ PeriodicWakes PROVE SyncInd'
<1>1. activity["periodic"].phase \notin {"off", "done"} /\ UNCHANGED <<server, local, daemon, cl, history>>
  BY DEF DeferralEnds, PeriodicWakes, At
<1>2. Set("periodic", Ended) \/ Set("periodic", Enter("all", Early \o Rest))
  BY DEF DeferralEnds, PeriodicWakes
<1>3. QED
  BY <1>1, <1>2, Folders, Enters DEF Ended, Phase, SyncPhase, Task

-------------------------------------------------------------------------------
(* sync_folder *)

\* The task whose step it is, its record and its folder.
LEMMA Caller ==
  ASSUME SyncInd, NEW t \in Task, Syncing(t)
  PROVE  /\ activity[t] \in SyncRec /\ InCall(activity[t]) /\ Head(activity[t].todo) \in Folder
         /\ activity[t].phase \notin {"off", "done"}
         /\ daemon = "starting" <=> t = "start"
BY HeadOf DEF SyncInd, Shapes, DaemonOK, Syncing, InCall, SyncRec, SyncPhase

LEMMA SameDaemon ==
  ASSUME SyncInd, NEW t \in Task, NEW r, activity' = [activity EXCEPT ![t] = r], daemon' = daemon,
         r.phase \in {"off", "done"} \/ activity[t].phase \notin {"off", "done"}
  PROVE  DaemonOK'
BY DEF SyncInd, DaemonOK, Shapes

LEMMA ReadInd == ASSUME SyncInd, NEW t \in Task, Read(t) PROVE SyncInd'
<1>1. PICK f \in Folder : f = Head(activity[t].todo)
  BY Caller DEF Read
<1>2. PICK m : m = IF IsFull(t) THEN [validity |-> 0, last |-> 0] ELSE mark[f]
  OBVIOUS
<1>3. m \in MarkRec
  BY <1>2 DEF SyncInd, Shapes, MarkRec
<1>4. PICK r : r = [activity[t] EXCEPT !.stage = "fetch", !.validity = m.validity, !.last = m.last, !.top = m.last]
  OBVIOUS
<1>5. activity' = [activity EXCEPT ![t] = r]
  BY <1>1, <1>2, <1>4 DEF Read, Set
<1>6. /\ r \in SyncRec /\ r.stage = "fetch" /\ r.validity = m.validity /\ r.last = m.last /\ r.top = m.last
      /\ r.phase = activity[t].phase /\ r.todo = activity[t].todo
  BY <1>3, <1>4, Caller DEF Read, SyncRec, MarkRec
<1>7. UNCHANGED <<server, local, daemon, cl, history>>
  BY DEF Read
<1>8. DaemonOK'
  BY <1>5, <1>6, <1>7, Caller, SameDaemon DEF Read
<1>9. TaskOK(t, r)
  BY <1>2, <1>6 DEF TaskOK, HasGot, IsFull
<1>10. CallOK(t, r, f)
  <2> SUFFICES ASSUME epoch[f] = 1 PROVE CallOK(t, r, f)
    BY DEF CallOK
  <2>1. next[f] \in Nat \ {0} /\ box[f] \subseteq Entry
    BY DEF SyncInd, BoxOK
  <2>2. CASE IsFull(t)
    <3>1. m.validity = 0 /\ m.last = 0
      BY <1>2, <2>2
    <3>2. \A e \in box[f] : ~(e.uid <= m.last)
      BY <2>1, <3>1 DEF Entry
    <3>3. QED
      BY <1>6, <2>1, <3>1, <3>2 DEF CallOK
  <2>3. CASE ~IsFull(t)
    BY <1>2, <1>6, <2>3 DEF SyncInd, MarkOK, CallOK
  <2>4. QED
    BY <2>2, <2>3
<1>11. SyncOK(t, r)'
  BY <1>1, <1>6, <1>7, <1>10 DEF SyncOK, CallOK, Covered, Stored, server, local, history
<1>12. \A g, n, u, i : ~GotClaim(r, g, n, u, i) /\ ~SeenClaim(r, g, n, u, i)
  BY <1>6 DEF GotClaim, SeenClaim, HasGot
<1>13. QED
  BY <1>5, <1>6, <1>7, <1>8, <1>9, <1>11, <1>12, TaskStep DEF history

LEMMA FetchInd == ASSUME SyncInd, NEW t \in Task, Fetch(t) PROVE SyncInd'
<1>1. PICK f \in Folder : f = Head(activity[t].todo)
  BY Caller DEF Fetch
<1>2. PICK old : old = activity[t]
  OBVIOUS
<1>3. /\ old \in SyncRec /\ InCall(old) /\ old.stage = "fetch" /\ f = Head(old.todo) /\ TaskOK(t, old)
      /\ CallOK(t, old, f) /\ old.phase \notin {"off", "done"}
  BY <1>1, <1>2, Caller DEF Fetch, SyncInd, SyncOK
<1>4. PICK got : got = Fetched(t, f)
  OBVIOUS
<1>5. PICK wanted : wanted = Wanted(t, f)
  OBVIOUS
<1>6. /\ wanted \subseteq box[f] /\ got = {e \in wanted : IsFull(t) \/ e.uid > old.last}
      /\ box[f] \subseteq Entry /\ epoch[f] \in Nat \ {0} /\ next[f] \in Nat \ {0}
  BY <1>2, <1>4, <1>5 DEF Wanted, Fetched, SyncInd, BoxOK
<1>7. PICK r : r = [old EXCEPT !.stage = "store", !.validity = 0, !.epoch = epoch[f], !.got = got]
  OBVIOUS
<1>8. activity' = [activity EXCEPT ![t] = r]
  BY <1>1, <1>2, <1>4, <1>7 DEF Fetch, Set
<1>9. /\ r \in SyncRec /\ r.stage = "store" /\ r.validity = 0 /\ r.epoch = epoch[f] /\ r.got = got
      /\ r.last = old.last /\ r.top = old.top /\ r.phase = old.phase /\ r.todo = old.todo
  BY <1>3, <1>6, <1>7 DEF SyncRec
<1>10. UNCHANGED <<server, local, daemon, cl, excused>>
  BY DEF Fetch
<1>11. DaemonOK'
  BY <1>2, <1>3, <1>8, <1>10, SameDaemon
<1>12. TaskOK(t, r)
  BY <1>3, <1>6, <1>9 DEF TaskOK, HasGot
<1>13. left' = IF old.last = 0 THEN [left EXCEPT ![f] = @ \cup {e.uid : e \in box[f] \ wanted}] ELSE left
  BY <1>1, <1>2, <1>5 DEF Fetch
<1>14. \A g, n, u, i : ~SeenClaim(r, g, n, u, i)
  BY <1>3, <1>9 DEF SeenClaim, InCall, SyncPhase
<1>15. \A g \in Folder, n, u \in Nat, i \in Msg : GotClaim(r, g, n, u, i) => Claim(g, n, u, i)
  BY ZenonT(30), <1>3, <1>6, <1>9 DEF GotClaim, Claim, BoxClaim
<1>16. t # "start" => left' = left
  <2> SUFFICES ASSUME t # "start", old.last = 0 PROVE left' = left
    BY <1>13
  <2>1. wanted = box[f]
    BY <1>2, <1>5 DEF Wanted, Windowed
  <2>2. left \in [Folder -> SUBSET Nat]
    BY DEF SyncInd, Shapes
  <2>3. left[f] \cup {e.uid : e \in box[f] \ wanted} = left[f]
    BY <2>1
  <2>4. QED
    BY <1>13, <2>2, <2>3
<1>17. left' \in [Folder -> SUBSET Nat] /\ \A g \in Folder : left[g] \subseteq left'[g]
  <2>1. left \in [Folder -> SUBSET Nat]
    BY DEF SyncInd, Shapes
  <2>2. {e.uid : e \in box[f] \ wanted} \subseteq Nat
    BY <1>6 DEF Entry
  <2>3. QED
    BY <1>13, <2>1, <2>2
<1>18. \A g \in Folder : epoch[g] = 1 => \A u \in left'[g] : u < next[g]
  <2> SUFFICES ASSUME NEW g \in Folder, epoch[g] = 1, NEW u \in left'[g] PROVE u < next[g]
    OBVIOUS
  <2>1. CASE u \in left[g]
    BY <2>1 DEF SyncInd, MarkOK
  <2>2. CASE u \notin left[g]
    <3>1. g = f /\ u \in {e.uid : e \in box[f] \ wanted}
      BY <1>13, <2>2 DEF SyncInd, Shapes
    <3>2. PICK e \in box[f] : u = e.uid
      BY <3>1
    <3>3. e = [uid |-> e.uid, msg |-> e.msg] /\ e.uid \in Nat /\ e.msg \in Msg
      BY <1>6, <3>2 DEF Entry
    <3>4. Claim(f, 1, e.uid, e.msg)
      BY <3>1, <3>2, <3>3 DEF Claim, BoxClaim
    <3>5. QED
      BY <3>1, <3>2, <3>3, <3>4 DEF SyncInd, ClaimsOK
  <2>3. QED
    BY <2>1, <2>2
<1>19. SyncOK(t, r)'
  <2> SUFFICES ASSUME epoch[f] = 1
      PROVE  /\ r.validity <= 1 /\ r.last < next[f] /\ r.top < next[f]
             /\ \A e \in box[f] : Covered(e.msg) \/ e.uid \in left'[f] \/ e \in got
             /\ t # "start" /\ r.last = 0 => \A e \in box[f] : e \in got
    BY <1>3, <1>9, <1>10 DEF SyncOK, CallOK, Covered, Stored, server, local
  <2>1. r.validity <= 1 /\ r.last < next[f] /\ r.top < next[f] /\ old.validity <= 1
    BY <1>3, <1>9 DEF CallOK
  <2>2. old.last \in Nat /\ old.validity \in Nat
    BY <1>3 DEF SyncRec
  <2>3. ~(old.validity # 0 /\ epoch[f] # old.validity)
    BY <2>1, <2>2
  <2>4. ASSUME NEW e \in box[f] PROVE Covered(e.msg) \/ e.uid \in left'[f] \/ e \in got
    <3>1. e.uid \in Nat \ {0}
      BY <1>6 DEF Entry
    <3>2. CASE e.uid <= old.last
      BY <1>3, <1>17, <3>2 DEF CallOK
    <3>3. CASE e.uid > old.last /\ e \in wanted
      BY <1>6, <3>3
    <3>4. CASE e.uid > old.last /\ e \notin wanted
      <4>1. old.last = 0
        BY <1>2, <1>5, <2>3, <3>4 DEF Wanted
      <4>2. e.uid \in left'[f]
        BY <1>13, <3>4, <4>1 DEF SyncInd, Shapes
      <4>3. QED
        BY <4>2
    <3>5. QED
      BY <2>2, <3>1, <3>2, <3>3, <3>4
  <2>5. ASSUME t # "start", r.last = 0, NEW e \in box[f] PROVE e \in got
    <3>1. wanted = box[f]
      BY <1>2, <1>5, <1>9, <2>3, <2>5 DEF Wanted, Windowed
    <3>2. e.uid > old.last
      BY <1>6, <1>9, <2>5 DEF Entry
    <3>3. QED
      BY <1>6, <3>1, <3>2
  <2>6. QED
    BY <2>1, <2>4, <2>5
<1>20. t = "start" => daemon = "starting"
  BY Caller DEF Fetch
<1>21. QED
  BY <1>8, <1>9, <1>10, <1>11, <1>12, <1>14, <1>15, <1>16, <1>17, <1>18, <1>19, <1>20, TaskStep

\* Steps that change the rows.
LEMMA RowsStep ==
  ASSUME SyncInd, UNCHANGED <<server, mark, daemon, left>>, Shapes', DaemonOK', ClientOK',
         \A m \in Msg : OnServer(m) /\ Covered(m) => Covered(m)',
         \A k \in Keys : RowOK(k, rows[k])',
         \A t \in Task : \/ activity'[t] = activity[t]
                         \/ TaskOK(t, activity[t])' /\ SyncOK(t, activity[t])',
         \A f \in Folder : \A n, u \in Nat, m \in Msg : Claim(f, n, u, m)' => Claim(f, n, u, m)
  PROVE  SyncInd'
<1>1. BoxOK' /\ Numbers'
  BY DEF SyncInd, BoxOK, Numbers, server
<1>2. \A f \in Folder : Keeps(f)
  <2>1. \A f \in Folder : \A e \in box[f] : e.msg \in Msg /\ OnServer(e.msg)
    BY DEF SyncInd, BoxOK, Entry, OnServer
  <2>2. QED
    BY <1>1, <2>1 DEF Keeps, Numbers, server
<1>3. \A f \in Folder : MarkOK(f)'
  BY <1>1, <1>2, MarkKept DEF SyncInd, Shapes
<1>4. ASSUME NEW t \in Task PROVE TaskOK(t, activity[t])' /\ SyncOK(t, activity[t])'
  <2>1. CASE activity'[t] = activity[t]
    <3>1. SyncOK(t, activity[t])'
      BY <1>1, <1>2, <2>1, CallsKept
    <3>2. TaskOK(t, activity[t])'
      BY <2>1 DEF SyncInd, TaskOK, server
    <3>3. QED
      BY <3>1, <3>2
  <2>2. QED
    BY <2>1
<1>5. ClaimsOK'
  BY ClaimsKept DEF server
<1>6. QED
  BY <1>1, <1>3, <1>4, <1>5 DEF SyncInd

LEMMA KeyIn == \A m \in Msg : Key(m) \in Keys
BY DEF Key, Keys

LEMMA KeyOwn == \A m \in Msg \ NoId : m \in Keys /\ Key(m) = m /\ \A i \in Msg : Key(i) = m => i = m
BY SyncAssumption DEF Key, Keys

LEMMA InsertInd == ASSUME SyncInd, NEW t \in Task, Insert(t) PROVE SyncInd'
<1>1. PICK f \in Folder : f = Head(activity[t].todo)
  BY Caller DEF Insert
<1>2. PICK old : old = activity[t]
  OBVIOUS
<1>3. /\ old \in SyncRec /\ InCall(old) /\ old.stage = "store" /\ f = Head(old.todo) /\ TaskOK(t, old)
      /\ CallOK(t, old, f) /\ old.phase \notin {"off", "done"} /\ HasGot(old)
  BY <1>1, <1>2, Caller DEF Insert, SyncInd, SyncOK, HasGot, InCall
<1>4. PICK e \in old.got :
        /\ Set(t, [old EXCEPT !.got = @ \ {e}, !.top = IF e.uid > @ THEN e.uid ELSE @])
        /\ \/ rows' = Inserted(t, f, e) /\ UNCHANGED <<trouble, excused>>
           \/ excused' = excused \cup {e.msg} /\ UNCHANGED rows
  BY <1>1, <1>2 DEF Insert, Lowest
<1>5. /\ e \in Entry /\ e.uid \in Nat \ {0} /\ e.msg \in Msg /\ e = [uid |-> e.uid, msg |-> e.msg]
      /\ old.got \subseteq Entry /\ old.top \in Nat
  BY <1>3 DEF SyncRec, Entry
<1>6. PICK r : r = [old EXCEPT !.got = @ \ {e}, !.top = IF e.uid > @ THEN e.uid ELSE @]
  OBVIOUS
<1>7. /\ r \in SyncRec /\ r.got = old.got \ {e} /\ r.top = (IF e.uid > old.top THEN e.uid ELSE old.top)
      /\ r.stage = "store" /\ r.validity = old.validity /\ r.epoch = old.epoch /\ r.last = old.last
      /\ r.phase = old.phase /\ r.todo = old.todo
  BY <1>3, <1>5, <1>6 DEF SyncRec
<1>8. activity' = [activity EXCEPT ![t] = r]
  BY <1>4, <1>6 DEF Set
<1>9. UNCHANGED <<server, mark, daemon, cl, left, coming>>
  BY DEF Insert, server
<1>10. PICK k \in Keys : k = Key(e.msg)
  BY <1>5, KeyIn
<1>11. PICK row : row = Row(f, e, old.epoch, WithBodies(t))
  OBVIOUS
<1>12. /\ row \in RowRec /\ row # NoRow /\ row.msg = e.msg /\ row.at = f /\ row.uid = e.uid /\ row.epoch = old.epoch
       /\ row.sure /\ row.body \in {None, e.msg}
  BY <1>3, <1>5, <1>11 DEF Row, RowRec, NoRow, TaskOK, HasGot, SyncRec
<1>13. rows \in [Keys -> RowRec \cup {NoRow}] /\ excused \subseteq Msg /\ activity \in [Task -> SyncRec]
  BY DEF SyncInd, Shapes
<1>14. \/ rows' = rows
       \/ rows[k] = NoRow /\ rows' = [rows EXCEPT ![k] = row]
  <2>1. Inserted(t, f, e) = [rows EXCEPT ![k] = IF @ = NoRow THEN row ELSE @]
    BY <1>2, <1>10, <1>11 DEF Inserted
  <2>2. QED
    BY <1>4, <1>13, <2>1
<1>15. Shapes'
  <2>1. rows' \in [Keys -> RowRec \cup {NoRow}]
    BY <1>12, <1>13, <1>14
  <2>2. excused' \subseteq Msg
    BY <1>4, <1>5, <1>13
  <2>3. activity' \in [Task -> SyncRec]
    BY <1>7, <1>8, <1>13
  <2>4. QED
    BY <1>9, <2>1, <2>2, <2>3 DEF SyncInd, Shapes
<1>16. DaemonOK'
  BY <1>2, <1>3, <1>8, <1>9, SameDaemon
<1>17. \A j \in Keys : \/ rows'[j] = rows[j]
                       \/ rows[j] = NoRow /\ j = k /\ rows'[j] = row
  BY <1>13, <1>14
<1>18. ClientOK'
  BY <1>9, <1>17, KeyOwn DEF SyncInd, ClientOK, Anew, server, None
<1>19. \A m \in Msg : Covered(m) => Covered(m)'
  BY <1>4, <1>12, <1>17, KeyIn DEF Covered, Stored
<1>20. Covered(e.msg)'
  BY <1>4, <1>5, <1>10, <1>11, <1>12, <1>13, <1>2 DEF Covered, Stored, Inserted
<1>21. ASSUME NEW j \in Keys PROVE RowOK(j, rows[j])'
  <2>1. CASE rows'[j] = rows[j]
    BY <1>9, <2>1 DEF SyncInd, RowOK, Anew, server
  <2>2. CASE j = k /\ rows'[j] = row
    BY <1>10, <1>12, <2>2 DEF RowOK
  <2>3. QED
    BY <1>17, <2>1, <2>2
<1>22. \A u \in Task : u # t => activity'[u] = activity[u]
  BY <1>8, <1>13
<1>23. activity'[t] = r
  BY <1>8, <1>13
<1>24. TaskOK(t, r)'
  BY <1>3, <1>7, <1>9 DEF TaskOK, HasGot, server
<1>25. SyncOK(t, r)'
  <2> SUFFICES ASSUME epoch[f] = 1 PROVE CallOK(t, r, f)'
    BY <1>3, <1>7, <1>9 DEF SyncOK, CallOK, server
  <2>1. e.uid < next[f]
    BY <1>2, <1>3, GotBelow
  <2>2. r.validity <= 1 /\ r.last < next[f] /\ r.top < next[f]
    BY <1>3, <1>5, <1>7, <2>1 DEF CallOK
  <2>3. ASSUME NEW d \in box[f]
        PROVE  \/ Covered(d.msg)' \/ d.uid \in left[f] \/ d \in r.got
               \/ d.uid > r.top /\ \A i \in r.got : d.uid > i.uid
    <3>1. \/ Covered(d.msg) \/ d.uid \in left[f] \/ d \in old.got
          \/ d.uid > old.top /\ \A i \in old.got : d.uid > i.uid
      BY <1>3, <2>3 DEF CallOK
    <3>2. d.msg \in Msg
      BY DEF SyncInd, BoxOK, Entry
    <3>3. CASE d.uid > old.top /\ \A i \in old.got : d.uid > i.uid
      BY <1>7, <3>3
    <3>4. CASE d \in old.got
      BY <1>7, <1>20, <3>4
    <3>5. QED
      BY <1>19, <3>1, <3>2, <3>3, <3>4
  <2>4. ASSUME t # "start", r.last = 0, NEW d \in box[f], d.uid \in left[f] PROVE Covered(d.msg)' \/ d \in r.got
    <3>1. Covered(d.msg) \/ d \in old.got
      BY <1>3, <1>7, <2>4 DEF CallOK
    <3>2. d.msg \in Msg
      BY DEF SyncInd, BoxOK, Entry
    <3>3. QED
      BY <1>7, <1>19, <1>20, <3>1, <3>2
  <2>5. QED
    BY <1>7, <1>9, <2>2, <2>3, <2>4 DEF CallOK, server
<1>26. ASSUME NEW g \in Folder, NEW n \in Nat, NEW u \in Nat, NEW m \in Msg, Claim(g, n, u, m)' PROVE Claim(g, n, u, m)
  <2>1. CASE BoxClaim(g, n, u, m)' \/ ClientClaim(cl, g, n, u, m)'
    BY <1>9, <2>1 DEF Claim, BoxClaim, ClientClaim, server
  <2>2. CASE \E j \in Keys : RowClaim(rows[j], g, n, u, m)'
    <3>1. PICK j \in Keys : RowClaim(rows[j], g, n, u, m)'
      BY <2>2
    <3>2. CASE rows'[j] = rows[j]
      BY <3>1, <3>2 DEF Claim, RowClaim
    <3>3. CASE rows'[j] = row
      <4>1. GotClaim(old, g, n, u, m)
        BY <1>3, <1>5, <1>12, <3>1, <3>3 DEF RowClaim, GotClaim
      <4>2. QED
        BY <1>2, <4>1 DEF Claim
    <3>4. QED
      BY <1>17, <3>2, <3>3
  <2>3. CASE \E v \in Task : (GotClaim(activity[v], g, n, u, m) \/ SeenClaim(activity[v], g, n, u, m))'
    <3>1. PICK v \in Task : (GotClaim(activity[v], g, n, u, m) \/ SeenClaim(activity[v], g, n, u, m))'
      BY <2>3
    <3>2. CASE v = t
      <4>1. GotClaim(r, g, n, u, m) \/ (SeenClaim(r, g, n, u, m))'
        BY <1>23, <3>1, <3>2 DEF GotClaim, SeenClaim
      <4>2. GotClaim(old, g, n, u, m)
        BY <1>3, <1>7, <4>1 DEF GotClaim, SeenClaim, HasGot, InCall, SyncPhase
      <4>3. QED
        BY <1>2, <4>2 DEF Claim
    <3>3. CASE v # t
      BY <1>9, <1>22, <3>1, <3>3 DEF Claim, GotClaim, SeenClaim, server
    <3>4. QED
      BY <3>2, <3>3
  <2>4. QED
    BY <1>26, <2>1, <2>2, <2>3 DEF Claim
<1>27. \A u \in Task : \/ activity'[u] = activity[u]
                       \/ TaskOK(u, activity[u])' /\ SyncOK(u, activity[u])'
  BY <1>22, <1>23, <1>24, <1>25 DEF TaskOK, SyncOK
<1>28. QED
  BY <1>9, <1>15, <1>16, <1>18, <1>19, <1>21, <1>26, <1>27, RowsStep

LEMMA SaveInd == ASSUME SyncInd, NEW t \in Task, Save(t) PROVE SyncInd'
<1>1. PICK f \in Folder : f = Head(activity[t].todo)
  BY Caller DEF Save
<1>2. PICK old : old = activity[t]
  OBVIOUS
<1>3. /\ old \in SyncRec /\ InCall(old) /\ old.stage = "store" /\ old.got = {} /\ f = Head(old.todo)
      /\ TaskOK(t, old) /\ CallOK(t, old, f) /\ old.phase \notin {"off", "done"} /\ HasGot(old)
  BY <1>1, <1>2, Caller DEF Save, SyncInd, SyncOK, HasGot, InCall
<1>4. PICK p \in Phase : \E s \in Seq(Folder) : NextFolder(t) = Enter(p, s)
  BY <1>2, <1>3, NextFolderIs DEF InCall
<1>5. PICK s \in Seq(Folder) : NextFolder(t) = Enter(p, s)
  BY <1>4
<1>6. PICK r : r = Enter(p, s)
  OBVIOUS
<1>7. /\ r \in SyncRec /\ TaskOK(t, r) /\ SyncOK(t, r)
      /\ \A g, n, u, m : ~GotClaim(r, g, n, u, m) /\ ~SeenClaim(r, g, n, u, m)
  BY <1>6, EnterOK
<1>8. r.stage = "read" /\ ~HasGot(r) /\ (t = "backfill" /\ r.phase = "early" => r.last = 0)
  BY <1>6, <1>7 DEF Enter, Quiet, HasGot, TaskOK
<1>9. activity' = [activity EXCEPT ![t] = r]
  BY <1>5, <1>6 DEF Save, Set
<1>10. UNCHANGED <<server, rows, daemon, cl, excused>>
  BY DEF Save
<1>11. /\ rows \in [Keys -> RowRec \cup {NoRow}] /\ activity \in [Task -> SyncRec] /\ mark \in [Folder -> MarkRec]
       /\ left \in [Folder -> SUBSET Nat]
  BY DEF SyncInd, Shapes
<1>12. PICK m \in MarkRec : m = [validity |-> old.epoch, last |-> old.top]
  BY <1>3 DEF SyncRec, MarkRec
<1>13. mark' = [mark EXCEPT ![f] = m]
  BY <1>1, <1>2, <1>12 DEF Save, NewMark
<1>14. \/ left' = left
       \/ t # "start" /\ old.last = 0 /\ left' = [left EXCEPT ![f] = {}]
  BY <1>1, <1>2 DEF Save, Windowed
<1>15. Shapes'
  <2>1. activity' \in [Task -> SyncRec]
    BY <1>7, <1>9, <1>11
  <2>2. mark' \in [Folder -> MarkRec] /\ left' \in [Folder -> SUBSET Nat]
    BY <1>11, <1>13, <1>14
  <2>3. QED
    BY <1>10, <2>1, <2>2 DEF SyncInd, Shapes, server
<1>16. BoxOK' /\ Numbers'
  BY <1>10 DEF SyncInd, BoxOK, Numbers, server
<1>17. DaemonOK'
  BY <1>2, <1>3, <1>9, <1>10, SameDaemon
<1>18. epoch[f] = 1 /\ t # "start" /\ old.last = 0 => \A e \in box[f] : e.uid \in left[f] => Covered(e.msg)
  BY <1>3 DEF CallOK
<1>19. \A g \in Folder : Keeps(g) /\ left'[g] \subseteq left[g] /\ left'[g] \subseteq Nat
  <2> TAKE g \in Folder
  <2>1. \A m_1 : Covered(m_1)' <=> Covered(m_1)
    BY <1>10 DEF Covered, Stored
  <2>2. left'[g] \subseteq left[g] /\ left'[g] \subseteq Nat
    BY <1>11, <1>14
  <2>3. epoch[g] = 1 => \A e \in box[g] : e.uid \in left[g] => e.uid \in left'[g] \/ Covered(e.msg)
    BY <1>11, <1>14, <1>18
  <2>4. next[g] <= next[g]
    BY <1>16 DEF Numbers, SyncInd, BoxOK
  <2>5. QED
    BY <1>10, <2>1, <2>2, <2>3, <2>4 DEF Keeps, server
<1>20. ASSUME NEW g \in Folder PROVE MarkOK(g)'
  <2>1. CASE mark'[g] = mark[g]
    BY <1>16, <1>19, <2>1, MarkKept
  <2>2. CASE mark'[g] # mark[g]
    <3>1. g = f /\ mark'[f] = m
      BY <1>11, <1>13, <2>2
    <3>2. SUFFICES ASSUME epoch[f] = 1
          PROVE  /\ m.validity <= 1 /\ m.last < next[f] /\ \A u \in left[f] : u < next[f]
                 /\ \A e \in box[f] : e.uid <= m.last => Covered(e.msg) \/ e.uid \in left[f]
      <4>1. \A m_1 : Covered(m_1)' <=> Covered(m_1)
        BY <1>10 DEF Covered, Stored
      <4>2. epoch'[f] = 1 => \A e \in box[f] : e.uid \in left[f] => e.uid \in left'[f] \/ Covered(e.msg)
        BY <1>10, <1>19, <4>1 DEF Keeps, server
      <4>3. QED
        BY <1>10, <1>19, <3>1, <4>1, <4>2 DEF MarkOK, server
    <3>3. m.validity <= 1
      BY <1>3, <1>12, <3>2 DEF TaskOK, SyncRec
    <3>4. m.last < next[f]
      BY <1>3, <1>12, <3>2 DEF CallOK
    <3>5. \A u \in left[f] : u < next[f]
      BY <3>2 DEF SyncInd, MarkOK
    <3>6. ASSUME NEW e \in box[f], e.uid <= m.last PROVE Covered(e.msg) \/ e.uid \in left[f]
      <4>1. e.uid \in Nat /\ old.top \in Nat /\ m.last = old.top
        BY <1>3, <1>12 DEF SyncInd, BoxOK, Entry, SyncRec
      <4>2. ~(e.uid > old.top)
        BY <3>6, <4>1
      <4>3. QED
        BY <1>3, <3>2, <4>2 DEF CallOK
    <3>7. QED
      BY <3>3, <3>4, <3>5, <3>6
  <2>3. QED
    BY <2>1, <2>2
<1>21. ASSUME NEW u \in Task PROVE TaskOK(u, activity[u])' /\ SyncOK(u, activity[u])'
  <2>1. CASE u = t
    <3>1. activity'[u] = r
      BY <1>9, <1>11, <2>1
    <3>2. QED
      BY <1>8, <2>1, <3>1 DEF TaskOK, SyncOK, HasGot
  <2>2. CASE u # t
    <3>1. activity'[u] = activity[u]
      BY <1>9, <1>11, <2>2
    <3>2. SyncOK(u, activity[u])'
      BY <1>16, <1>19, <3>1, CallsKept
    <3>3. TaskOK(u, activity[u])'
      BY <1>10, <3>1 DEF SyncInd, TaskOK, server
    <3>4. QED
      BY <3>2, <3>3
  <2>3. QED
    BY <2>1, <2>2
<1>22. ClientOK' /\ \A k \in Keys : RowOK(k, rows[k])'
  BY <1>10 DEF SyncInd, ClientOK, RowOK, Anew, server
<1>23. ASSUME NEW g \in Folder, NEW n \in Nat, NEW u \in Nat, NEW i \in Msg, Claim(g, n, u, i)' PROVE Claim(g, n, u, i)
  <2>1. CASE \E v \in Task : (GotClaim(activity[v], g, n, u, i) \/ SeenClaim(activity[v], g, n, u, i))'
    <3>1. PICK v \in Task : (GotClaim(activity[v], g, n, u, i) \/ SeenClaim(activity[v], g, n, u, i))'
      BY <2>1
    <3>2. PICK q : q = activity'[v]
      OBVIOUS
    <3>3. GotClaim(q, g, n, u, i) \/ SeenClaim(q, g, n, u, i)
      BY <1>10, <3>1, <3>2 DEF GotClaim, SeenClaim, server
    <3>4. q = r \/ q = activity[v]
      BY <1>9, <1>11, <3>2
    <3>5. QED
      BY <1>7, <3>3, <3>4 DEF Claim
  <2>2. CASE ~\E v \in Task : (GotClaim(activity[v], g, n, u, i) \/ SeenClaim(activity[v], g, n, u, i))'
    BY <1>10, <1>23, <2>2 DEF Claim, BoxClaim, RowClaim, ClientClaim, server
  <2>3. QED
    BY <2>1, <2>2
<1>24. ClaimsOK'
  BY <1>10, <1>23, ClaimsKept DEF server
<1>25. QED
  BY <1>15, <1>16, <1>17, <1>20, <1>21, <1>22, <1>24 DEF SyncInd

-------------------------------------------------------------------------------
(* Bodies and checks *)

\* The backfill in upgrade_folder_bodies.
LEMMA Upgrader ==
  ASSUME SyncInd, Upgrading
  PROVE  /\ "backfill" \in Task /\ activity["backfill"] \in SyncRec /\ Head(activity["backfill"].todo) \in Folder
         /\ activity["backfill"].phase = "bodies" /\ activity["backfill"].todo # <<>>
BY HeadOf DEF SyncInd, Shapes, Upgrading, SyncRec, Task

LEMMA UpgradeSelectInd == ASSUME SyncInd, UpgradeSelect PROVE SyncInd'
<1>1. PICK f \in Folder : f = Head(activity["backfill"].todo)
  BY Upgrader DEF UpgradeSelect
<1>2. PICK old : old = activity["backfill"]
  OBVIOUS
<1>3. old \in SyncRec /\ old.phase = "bodies" /\ old.todo # <<>> /\ "backfill" \in Task
  BY <1>2, Upgrader DEF UpgradeSelect
<1>4. PICK uids : uids = {rows[k].uid : k \in {j \in Keys : HeadersOnly(rows[j], f) /\ rows[j].msg \notin Old}}
  OBVIOUS
<1>5. uids \subseteq Nat
  BY <1>4 DEF SyncInd, Shapes, RowRec, HeadersOnly
<1>6. UNCHANGED <<server, local, daemon, cl, history>>
  BY DEF UpgradeSelect
<1>7. CASE Set("backfill", NextFolder("backfill"))
  <2>1. PICK p \in Phase : \E s \in Seq(Folder) : NextFolder("backfill") = Enter(p, s)
    BY <1>2, <1>3, NextFolderIs
  <2>2. PICK s \in Seq(Folder) : NextFolder("backfill") = Enter(p, s)
    BY <2>1
  <2>3. QED
    BY <1>2, <1>3, <1>6, <1>7, <2>2, Enters
<1>8. CASE Set("backfill", [old EXCEPT !.stage = "fetch", !.uids = uids])
  <2>1. PICK r : r = [old EXCEPT !.stage = "fetch", !.uids = uids]
    OBVIOUS
  <2>2. r \in SyncRec /\ r.stage = "fetch" /\ r.phase = "bodies"
    BY <1>3, <1>5, <2>1 DEF SyncRec
  <2>3. TaskOK("backfill", r) /\ SyncOK("backfill", r)'
    BY <2>2 DEF TaskOK, SyncOK, InCall, HasGot, SyncPhase
  <2>4. activity' = [activity EXCEPT !["backfill"] = r]
    BY <1>8, <2>1 DEF Set
  <2>5. DaemonOK'
    BY <1>2, <1>3, <1>6, <2>4, SameDaemon
  <2>6. \A g, n, u, i : ~GotClaim(r, g, n, u, i) /\ ~SeenClaim(r, g, n, u, i)
    BY <2>2 DEF GotClaim, SeenClaim, HasGot
  <2>7. QED
    BY <1>3, <1>6, <2>2, <2>3, <2>4, <2>5, <2>6, TaskStep DEF history
<1>9. Set("backfill", IF uids = {} THEN NextFolder("backfill") ELSE [old EXCEPT !.stage = "fetch", !.uids = uids])
  BY <1>1, <1>2, <1>4 DEF UpgradeSelect
<1>10. QED
  BY <1>7, <1>8, <1>9

LEMMA UpgradeFetchInd == ASSUME SyncInd, UpgradeFetch PROVE SyncInd'
<1>1. PICK f \in Folder : f = Head(activity["backfill"].todo)
  BY Upgrader DEF UpgradeFetch
<1>2. PICK old : old = activity["backfill"]
  OBVIOUS
<1>3. /\ old \in SyncRec /\ old.phase = "bodies" /\ old.todo # <<>> /\ "backfill" \in Task /\ f = Head(old.todo)
  BY <1>1, <1>2, Upgrader DEF UpgradeFetch
<1>4. PICK got : got = {e \in box[f] : e.uid \in old.uids}
  OBVIOUS
<1>5. got \subseteq Entry /\ got \subseteq box[f] /\ epoch[f] \in Nat \ {0}
  BY <1>4 DEF SyncInd, BoxOK
<1>6. PICK r : r = [old EXCEPT !.stage = "store", !.epoch = epoch[f], !.got = got]
  OBVIOUS
<1>7. /\ r \in SyncRec /\ r.stage = "store" /\ r.phase = "bodies" /\ r.epoch = epoch[f] /\ r.got = got
      /\ r.todo = old.todo
  BY <1>3, <1>5, <1>6 DEF SyncRec
<1>8. activity' = [activity EXCEPT !["backfill"] = r]
  BY <1>1, <1>2, <1>4, <1>6 DEF UpgradeFetch, Set
<1>9. UNCHANGED <<server, local, daemon, cl, history>>
  BY DEF UpgradeFetch
<1>10. DaemonOK'
  BY <1>2, <1>3, <1>8, <1>9, SameDaemon
<1>11. TaskOK("backfill", r) /\ SyncOK("backfill", r)'
  BY <1>3, <1>5, <1>7 DEF TaskOK, SyncOK, InCall, HasGot, SyncPhase
<1>12. \A g \in Folder, n, u \in Nat, i \in Msg : GotClaim(r, g, n, u, i) \/ SeenClaim(r, g, n, u, i) => Claim(g, n, u, i)
  BY <1>3, <1>5, <1>7 DEF GotClaim, SeenClaim, Claim, BoxClaim
<1>13. QED
  BY <1>3, <1>7, <1>8, <1>9, <1>10, <1>11, <1>12, TaskStep DEF history

LEMMA VerifyServerInd == ASSUME SyncInd, NEW t \in Task, VerifyServer(t) PROVE SyncInd'
<1>1. PICK old : old = activity[t]
  OBVIOUS
<1>2. old \in SyncRec /\ old.phase = "verify"
  BY <1>1 DEF SyncInd, Shapes, VerifyServer, Verifies, At
<1>3. PICK seen : seen = UNION {{[at |-> f, uid |-> e.uid, msg |-> e.msg] : e \in box[f]} : f \in Folder}
  OBVIOUS
<1>4. \A x \in seen : \E f \in Folder : \E e \in box[f] : x = [at |-> f, uid |-> e.uid, msg |-> e.msg]
  BY <1>3
<1>5. seen \subseteq [at : Folder, uid : Nat \ {0}, msg : Msg]
  BY <1>4 DEF SyncInd, BoxOK, Entry
<1>6. PICK r : r = [old EXCEPT !.stage = "store", !.seen = seen]
  OBVIOUS
<1>7. r \in SyncRec /\ r.stage = "store" /\ r.phase = "verify" /\ r.seen = seen
  BY <1>2, <1>5, <1>6 DEF SyncRec
<1>8. activity' = [activity EXCEPT ![t] = r]
  BY <1>1, <1>3, <1>6 DEF VerifyServer, Set
<1>9. UNCHANGED <<server, local, daemon, cl, history>>
  BY DEF VerifyServer
<1>10. DaemonOK'
  BY <1>1, <1>2, <1>8, <1>9, SameDaemon
<1>11. TaskOK(t, r) /\ SyncOK(t, r)' /\ ~HasGot(r)
  BY <1>7 DEF TaskOK, SyncOK, InCall, HasGot, SyncPhase
<1>12. ASSUME NEW g \in Folder, NEW n \in Nat, NEW u \in Nat, NEW i \in Msg,
              GotClaim(r, g, n, u, i) \/ SeenClaim(r, g, n, u, i)
       PROVE  Claim(g, n, u, i)
  <2>1. n = 1 /\ epoch[g] = 1 /\ [at |-> g, uid |-> u, msg |-> i] \in seen
    BY <1>7, <1>11, <1>12 DEF GotClaim, SeenClaim
  <2>2. PICK f \in Folder : \E e \in box[f] : [at |-> g, uid |-> u, msg |-> i] = [at |-> f, uid |-> e.uid, msg |-> e.msg]
    BY <1>4, <2>1
  <2>3. PICK e \in box[f] : [at |-> g, uid |-> u, msg |-> i] = [at |-> f, uid |-> e.uid, msg |-> e.msg]
    BY <2>2
  <2>4. g = f /\ u = e.uid /\ i = e.msg /\ e \in Entry
    BY <2>3 DEF SyncInd, BoxOK
  <2>5. QED
    BY <2>1, <2>4 DEF Claim, BoxClaim, Entry
<1>13. QED
  BY <1>7, <1>8, <1>9, <1>10, <1>11, <1>12, TaskStep DEF history

LEMMA UpgradeStoreInd == ASSUME SyncInd, UpgradeStore PROVE SyncInd'
<1>1. PICK f \in Folder : f = Head(activity["backfill"].todo)
  BY Upgrader DEF UpgradeStore
<1>2. PICK old : old = activity["backfill"]
  OBVIOUS
<1>3. /\ old \in SyncRec /\ old.phase = "bodies" /\ old.todo # <<>> /\ "backfill" \in Task /\ f = Head(old.todo)
      /\ HasGot(old) /\ TaskOK("backfill", old)
  BY <1>1, <1>2, Upgrader DEF UpgradeStore, HasGot, SyncInd
<1>4. PICK p \in Phase : \E s \in Seq(Folder) : NextFolder("backfill") = Enter(p, s)
  BY <1>2, <1>3, NextFolderIs
<1>5. PICK s \in Seq(Folder) : NextFolder("backfill") = Enter(p, s)
  BY <1>4
<1>6. PICK r : r = Enter(p, s)
  OBVIOUS
<1>7. /\ r \in SyncRec /\ TaskOK("backfill", r) /\ SyncOK("backfill", r)
      /\ \A g, n, u, m : ~GotClaim(r, g, n, u, m) /\ ~SeenClaim(r, g, n, u, m)
  BY <1>3, <1>6, EnterOK
<1>22. r.stage = "read"
  BY <1>3, <1>6, EnterOK
<1>8. activity' = [activity EXCEPT !["backfill"] = r]
  BY <1>5, <1>6 DEF UpgradeStore, Set
<1>9. UNCHANGED <<server, mark, daemon, cl, left, excused>>
  BY DEF UpgradeStore, history
<1>10. rows \in [Keys -> RowRec \cup {NoRow}] /\ activity \in [Task -> SyncRec]
  BY DEF SyncInd, Shapes
<1>11. ASSUME NEW k \in Keys
       PROVE  \/ rows'[k] = rows[k]
              \/ /\ rows[k] # NoRow /\ rows[k].at = f
                 /\ \E e \in old.got : e.uid = rows[k].uid /\ rows'[k] = [rows[k] EXCEPT !.body = e.msg]
  <2> DEFINE B == {e.msg : e \in {d \in old.got : d.uid = rows[k].uid}}
  <2>1. rows'[k] = IF HeadersOnly(rows[k], f) /\ B # {} THEN [rows[k] EXCEPT !.body = CHOOSE b \in B : TRUE] ELSE rows[k]
    BY <1>1, <1>2 DEF UpgradeStore
  <2>2. B # {} => (CHOOSE b \in B : TRUE) \in B
    OBVIOUS
  <2>3. QED
    BY <2>1, <2>2 DEF HeadersOnly
<1>12. ASSUME NEW k \in Keys
       PROVE  /\ rows'[k] \in RowRec \cup {NoRow} /\ (rows'[k] = NoRow <=> rows[k] = NoRow)
              /\ rows'[k].msg = rows[k].msg /\ rows'[k].at = rows[k].at /\ rows'[k].uid = rows[k].uid
              /\ rows'[k].epoch = rows[k].epoch /\ rows'[k].sure = rows[k].sure /\ rows'[k].strayed = rows[k].strayed
  <2>1. CASE rows'[k] = rows[k]
    BY <1>10, <2>1
  <2>2. CASE rows'[k] # rows[k]
    <3>1. rows[k] # NoRow
      BY <1>11, <2>2
    <3>2. PICK e \in old.got : rows'[k] = [rows[k] EXCEPT !.body = e.msg]
      BY <1>11, <2>2
    <3>3. e.msg \in Msg /\ rows[k] \in RowRec
      BY <1>3, <1>10, <3>1 DEF SyncRec, Entry
    <3>4. rows'[k] \in RowRec
      BY <3>2, <3>3 DEF RowRec
    <3>5. rows'[k].msg \in Msg
      BY <3>4 DEF RowRec
    <3>6. rows'[k] # NoRow
      BY <3>5, SyncAssumption DEF NoRow
    <3>7. QED
      BY <3>1, <3>2, <3>3, <3>4, <3>6 DEF RowRec
  <2>3. QED
    BY <2>1, <2>2
<1>13. ASSUME NEW k \in Keys PROVE RowOK(k, rows[k])'
  <2>1. CASE rows'[k] = rows[k]
    BY <1>9, <2>1 DEF SyncInd, RowOK, Anew, server
  <2>2. CASE rows'[k] # rows[k]
    <3>1. rows[k] # NoRow /\ rows[k].at = f /\ RowOK(k, rows[k]) /\ rows[k] \in RowRec
      BY <1>10, <1>11, <2>2 DEF SyncInd
    <3>2. PICK e \in old.got : e.uid = rows[k].uid /\ rows'[k] = [rows[k] EXCEPT !.body = e.msg]
      BY <1>11, <2>2
    <3>3. e \in Entry /\ e = [uid |-> e.uid, msg |-> e.msg] /\ e.uid \in Nat /\ e.msg \in Msg
      BY <1>3 DEF SyncRec, Entry
    <3>4. ASSUME ~rows[k].strayed, ~Anew PROVE e.msg = rows[k].msg
      <4>1. epoch[f] = 1 /\ old.epoch = 1
        BY <1>3, <3>4 DEF Anew, TaskOK, SyncRec
      <4>2. Claim(f, 1, e.uid, e.msg)
        BY <1>2, <1>3, <3>3, <4>1 DEF Claim, GotClaim
      <4>3. rows[k].epoch \in Nat \ {0} /\ rows[k].sure /\ rows[k].msg \in Msg
        BY <3>1, <3>4 DEF RowOK, RowRec
      <4>4. Claim(f, rows[k].epoch, e.uid, rows[k].msg)
        BY <3>1, <3>2, <4>3 DEF Claim, RowClaim
      <4>5. rows[k].epoch = 1
        BY <3>3, <4>1, <4>3, <4>4 DEF SyncInd, ClaimsOK
      <4>6. QED
        BY <3>3, <4>2, <4>3, <4>4, <4>5 DEF SyncInd, ClaimsOK
    <3>5. rows'[k].body = e.msg
      BY <3>1, <3>2 DEF RowRec
    <3>6. rows'[k].body = rows'[k].msg \/ rows'[k].strayed \/ Anew
      BY <1>12, <3>4, <3>5
    <3>7. QED
      BY <1>9, <1>12, <3>1, <3>6 DEF RowOK, Anew, server
  <2>3. QED
    BY <2>1, <2>2
<1>14. rows' \in [Keys -> RowRec \cup {NoRow}]
  <2>1. rows' = [k \in Keys |-> rows'[k]]
    BY DEF UpgradeStore
  <2>2. QED
    BY <1>12, <2>1
<1>15. Shapes'
  BY <1>7, <1>8, <1>9, <1>10, <1>14 DEF SyncInd, Shapes, server
<1>16. DaemonOK'
  BY <1>2, <1>3, <1>8, <1>9, SameDaemon
<1>17. ClientOK'
  BY <1>9, <1>12, KeyOwn DEF SyncInd, ClientOK, Anew, server, None
<1>18. \A m \in Msg : Covered(m) => Covered(m)'
  BY <1>9, <1>12, KeyIn DEF Covered, Stored
<1>19. \A u \in Task : \/ activity'[u] = activity[u]
                       \/ TaskOK(u, activity[u])' /\ SyncOK(u, activity[u])'
  BY <1>7, <1>22, <1>8, <1>10 DEF TaskOK, SyncOK, HasGot
<1>20. ASSUME NEW g \in Folder, NEW n \in Nat, NEW u \in Nat, NEW i \in Msg, Claim(g, n, u, i)' PROVE Claim(g, n, u, i)
  <2>1. CASE \E v \in Task : (GotClaim(activity[v], g, n, u, i) \/ SeenClaim(activity[v], g, n, u, i))'
    <3>1. PICK v \in Task : (GotClaim(activity[v], g, n, u, i) \/ SeenClaim(activity[v], g, n, u, i))'
      BY <2>1
    <3>2. PICK q : q = activity'[v]
      OBVIOUS
    <3>3. GotClaim(q, g, n, u, i) \/ SeenClaim(q, g, n, u, i)
      BY <1>9, <3>1, <3>2 DEF GotClaim, SeenClaim, server
    <3>4. q = r \/ q = activity[v]
      BY <1>8, <1>10, <3>2
    <3>5. QED
      BY <1>7, <3>3, <3>4 DEF Claim
  <2>2. CASE \E k \in Keys : RowClaim(rows[k], g, n, u, i)'
    BY <1>12, <2>2 DEF Claim, RowClaim
  <2>3. CASE (BoxClaim(g, n, u, i) \/ ClientClaim(cl, g, n, u, i))'
    BY <1>9, <2>3 DEF Claim, BoxClaim, ClientClaim, server
  <2>4. QED
    BY <1>20, <2>1, <2>2, <2>3 DEF Claim
<1>21. QED
  BY <1>9, <1>13, <1>15, <1>16, <1>17, <1>18, <1>19, <1>20, RowsStep

-------------------------------------------------------------------------------
(* The life of the daemon *)

\* Every task begins a phase.
LEMMA AllEnter ==
  ASSUME SyncInd, UNCHANGED <<server, local, cl, history>>, DaemonOK', activity' \in [Task -> SyncRec],
         \A t \in Task : \E p \in Phase : \E s \in Seq(Folder) : activity'[t] = Enter(p, s)
  PROVE  SyncInd'
<1> USE DEF server, local, history
<1>1. BoxOK' /\ Shapes' /\ ClientOK' /\ Numbers'
  BY DEF SyncInd, BoxOK, Shapes, ClientOK, Anew, Numbers
<1>2. \A k \in Keys : RowOK(k, rows[k])'
  BY <1>1, RowsKept
<1>3. \A f \in Folder : MarkOK(f)'
  BY DEF SyncInd, MarkOK, Covered, Stored
<1>4. ASSUME NEW t \in Task
      PROVE  /\ TaskOK(t, activity[t])' /\ SyncOK(t, activity[t])'
             /\ \A f, n, u, m : ~GotClaim(activity[t], f, n, u, m)' /\ ~SeenClaim(activity[t], f, n, u, m)'
  <2>1. PICK p \in Phase : \E s \in Seq(Folder) : activity'[t] = Enter(p, s)
    OBVIOUS
  <2>2. PICK s \in Seq(Folder) : activity'[t] = Enter(p, s)
    BY <2>1
  <2>3. PICK r : r = Enter(p, s)
    OBVIOUS
  <2>4. r.stage = "read" /\ TaskOK(t, r)
    BY <2>3, EnterOK
  <2>5. activity'[t] = r
    BY <2>2, <2>3
  <2>6. TaskOK(t, r)' /\ SyncOK(t, r)'
    BY <2>4 DEF TaskOK, SyncOK, HasGot
  <2>7. \A f, n, u, m : ~GotClaim(r, f, n, u, m)' /\ ~SeenClaim(r, f, n, u, m)'
    BY <2>4 DEF GotClaim, SeenClaim, HasGot
  <2>8. QED
    BY <2>5, <2>6, <2>7 DEF TaskOK, SyncOK, GotClaim, SeenClaim
<1>5. ClaimsOK'
  BY <1>4, ClaimsKept DEF Claim, BoxClaim, RowClaim, ClientClaim
<1>6. QED
  BY <1>1, <1>2, <1>3, <1>4, <1>5 DEF SyncInd

LEMMA LifecycleInd == ASSUME SyncInd, Lifecycle \/ Spawn PROVE SyncInd'
<1>1. CASE StartDaemon
  <2>1. PICK first : first = Enter("early", Early)
    OBVIOUS
  <2>2. PICK quiet : quiet = Enter("off", <<>>)
    OBVIOUS
  <2>3. quiet = Quiet
    BY <2>2 DEF Enter, Quiet
  <2>4. first \in SyncRec /\ quiet \in SyncRec /\ quiet.phase = "off"
    BY <2>1, <2>2, EnterOK, Folders DEF Phase, SyncPhase, Task
  <2>5. activity' = [t \in Task |-> IF t = "start" THEN first ELSE quiet]
    BY <1>1, <2>1, <2>3 DEF StartDaemon
  <2>6. activity' \in [Task -> SyncRec]
    BY <2>4, <2>5
  <2>7. DaemonOK'
    BY <1>1, <2>4, <2>5 DEF DaemonOK, StartDaemon
  <2>8. \A t \in Task : \E p \in Phase : \E s \in Seq(Folder) : activity'[t] = Enter(p, s)
    BY <2>1, <2>2, <2>5, Folders DEF Phase, SyncPhase
  <2>9. QED
    BY <1>1, <2>6, <2>7, <2>8, AllEnter DEF StartDaemon
<1>2. CASE Stopped \/ Crash
  <2>1. PICK quiet : quiet = Enter("off", <<>>)
    OBVIOUS
  <2>2. quiet = Quiet
    BY <2>1 DEF Enter, Quiet
  <2>3. quiet \in SyncRec /\ quiet.phase = "off"
    BY <2>1, EnterOK, Folders DEF Phase, Task
  <2>4. activity' = [t \in Task |-> quiet]
    BY <1>2, <2>2 DEF Stopped, Crash
  <2>5. activity' \in [Task -> SyncRec] /\ DaemonOK'
    BY <1>2, <2>3, <2>4 DEF DaemonOK, Stopped, Crash
  <2>6. \A t \in Task : \E p \in Phase : \E s \in Seq(Folder) : activity'[t] = Enter(p, s)
    BY <2>1, <2>4, Folders DEF Phase
  <2>7. QED
    BY <1>2, <2>5, <2>6, AllEnter DEF Stopped, Crash
<1>3. CASE Spawn
  <2>1. PICK done : done = Enter("done", <<>>)
    OBVIOUS
  <2>2. PICK wait : wait = Enter("wait", <<>>)
    OBVIOUS
  <2>3. PICK early : early = Enter("early", Early)
    OBVIOUS
  <2>4. PICK deferred : deferred = Enter("deferred", <<>>)
    OBVIOUS
  <2>5. /\ done \in SyncRec /\ wait \in SyncRec /\ early \in SyncRec /\ deferred \in SyncRec
        /\ done.phase = "done"
    BY <2>1, <2>2, <2>3, <2>4, EnterOK, Folders DEF Phase, SyncPhase, Task
  <2>6. activity' = [start |-> done, idle |-> wait, backfill |-> early, periodic |-> deferred]
    BY <1>3, <2>1, <2>2, <2>3, <2>4 DEF Spawn, Ended
  <2>7. activity' \in [Task -> SyncRec]
    BY <2>5, <2>6 DEF Task
  <2>8. DaemonOK'
    BY <1>3, <2>5, <2>6 DEF DaemonOK, Spawn, Task
  <2>9. ASSUME NEW t \in Task PROVE \E p \in Phase : \E s \in Seq(Folder) : activity'[t] = Enter(p, s)
    <3>1. activity'[t] \in {done, wait, early, deferred}
      BY <2>6 DEF Task
    <3>2. {"done", "wait", "early", "deferred"} \subseteq Phase
      BY DEF Phase, SyncPhase
    <3>3. QED
      BY <2>1, <2>2, <2>3, <2>4, <3>1, <3>2, Folders
  <2>10. QED
    BY <1>3, <2>7, <2>8, <2>9, AllEnter DEF Spawn
<1>4. CASE StopDaemon
  BY <1>4, Unchanged DEF StopDaemon
<1>5. QED
  BY <1>1, <1>2, <1>3, <1>4 DEF Lifecycle

-------------------------------------------------------------------------------
(* The client *)

\* Steps of which only the client knows.
LEMMA ClientStep ==
  ASSUME SyncInd, UNCHANGED <<server, local, activity, daemon, history>>, NEW c \in ClientRec, cl' = c, ClientOK',
         \A f \in Folder : \A n, u \in Nat, m \in Msg : ClientClaim(c, f, n, u, m) => Claim(f, n, u, m)
  PROVE  SyncInd'
<1> USE DEF server, local, history
<1>1. BoxOK' /\ Shapes' /\ DaemonOK' /\ Numbers'
  BY DEF SyncInd, BoxOK, Shapes, DaemonOK, Numbers
<1>2. \A k \in Keys : RowOK(k, rows[k])'
  BY <1>1, RowsKept
<1>3. \A f \in Folder : MarkOK(f)'
  BY DEF SyncInd, MarkOK, Covered, Stored
<1>4. \A t \in Task : TaskOK(t, activity[t])' /\ SyncOK(t, activity[t])'
  BY DEF SyncInd, TaskOK, SyncOK, CallOK, Covered, Stored
<1>5. ASSUME NEW f \in Folder, NEW n \in Nat, NEW u \in Nat, NEW m \in Msg, Claim(f, n, u, m)' PROVE Claim(f, n, u, m)
  <2>1. CASE ClientClaim(cl, f, n, u, m)'
    BY <2>1 DEF ClientClaim
  <2>2. CASE ~ClientClaim(cl, f, n, u, m)'
    BY <1>5, <2>2 DEF Claim, BoxClaim, RowClaim, GotClaim, SeenClaim
  <2>3. QED
    BY <2>1, <2>2
<1>6. ClaimsOK'
  BY <1>5, ClaimsKept
<1>7. QED
  BY <1>1, <1>2, <1>3, <1>4, <1>6 DEF SyncInd

LEMMA NoOpIs == /\ NoOp \in ClientRec /\ NoOp.pc = None
                /\ \A f, n, u, m : ~ClientClaim(NoOp, f, n, u, m)
BY Folders DEF NoOp, ClientRec, ClientClaim, None

LEMMA EndsInd == ASSUME SyncInd, UNCHANGED <<server, local, activity, daemon, history>>, cl' = NoOp PROVE SyncInd'
<1>1. PICK c : c = NoOp
  OBVIOUS
<1>2. c \in ClientRec /\ c.pc = None /\ \A f, n, u, m : ~ClientClaim(c, f, n, u, m)
  BY <1>1, NoOpIs
<1>3. ClientOK'
  BY <1>1, <1>2 DEF ClientOK, None
<1>4. QED
  BY <1>1, <1>2, <1>3, ClientStep

\* The place the row of the message m has.
LEMMA AimsIs ==
  ASSUME SyncInd, NEW m \in Msg \ NoId, rows[m] # NoRow, NEW b \in ClientRec, b.msg = m, NEW pc \in {"body", "server"},
         NEW c, c = Aims(b, pc)
  PROVE  /\ c \in ClientRec /\ c.pc = pc /\ c.msg = m /\ c.uid # 0 /\ c.epoch # 0
         /\ c.sure \/ rows[m].strayed
         /\ \A f \in Folder : \A n, u \in Nat, i \in Msg : ClientClaim(c, f, n, u, i) => Claim(f, n, u, i)
<1>1. PICK r : r = rows[m]
  OBVIOUS
<1>2. m \in Keys /\ r \in RowRec /\ r # NoRow /\ RowOK(m, r)
  BY <1>1, KeyOwn DEF SyncInd, Shapes
<1>3. r.msg = m /\ (r.sure \/ r.strayed)
  BY <1>2, KeyOwn DEF RowOK, RowRec
<1>4. /\ c \in ClientRec /\ c.pc = pc /\ c.msg = m /\ c.uid = r.uid /\ c.epoch = r.epoch /\ c.at = r.at /\ c.sure = r.sure
  BY <1>1, <1>2 DEF Aims, ClientRec, RowRec
<1>5. c.uid # 0 /\ c.epoch # 0
  BY <1>2, <1>4 DEF RowRec
<1>6. ASSUME NEW f \in Folder, NEW n \in Nat, NEW u \in Nat, NEW i \in Msg, ClientClaim(c, f, n, u, i)
      PROVE  Claim(f, n, u, i)
  <2>1. c.sure /\ c.epoch = n /\ c.uid = u /\ c.msg = i /\ c.at = f
    BY <1>4, <1>6 DEF ClientClaim
  <2>2. RowClaim(r, f, n, u, i)
    BY <1>2, <1>3, <1>4, <2>1 DEF RowClaim
  <2>3. QED
    BY <1>1, <1>2, <2>2 DEF Claim
<1>7. QED
  BY <1>1, <1>3, <1>4, <1>5, <1>6

LEMMA OpenInd == ASSUME SyncInd, NEW m \in Msg, Open(m) PROVE SyncInd'
<1>1. m \in Msg \ NoId /\ m \in Keys /\ rows[m] # NoRow
  BY KeyOwn DEF Open, Stored
<1>2. PICK b : b = [NoOp EXCEPT !.msg = m]
  OBVIOUS
<1>3. b \in ClientRec /\ b.msg = m
  BY <1>1, <1>2, Folders DEF NoOp, ClientRec, None
<1>4. UNCHANGED <<server, local, activity, daemon, history>>
  BY DEF Open, process
<1>5. CASE cl' = Aims(b, "body")
  <2>1. PICK c : c = Aims(b, "body")
    OBVIOUS
  <2>2. /\ c \in ClientRec /\ c.pc = "body" /\ c.msg = m /\ c.uid # 0 /\ c.epoch # 0
        /\ c.sure \/ rows[m].strayed
        /\ \A f \in Folder : \A n, u \in Nat, i \in Msg : ClientClaim(c, f, n, u, i) => Claim(f, n, u, i)
    BY <1>1, <1>3, <2>1, AimsIs
  <2>3. ClientOK'
    BY <1>1, <1>4, <1>5, <2>1, <2>2 DEF ClientOK, local, None
  <2>4. QED
    BY <1>4, <1>5, <2>1, <2>2, <2>3, ClientStep
<1>6. CASE cl' = [b EXCEPT !.pc = "lookup"]
  <2>1. PICK c : c = [b EXCEPT !.pc = "lookup"]
    OBVIOUS
  <2>2. c \in ClientRec /\ c.pc = "lookup" /\ c.msg = m
    BY <1>3, <2>1 DEF ClientRec
  <2>3. ClientOK' /\ \A f, n, u, i : ~ClientClaim(c, f, n, u, i)
    BY <1>1, <1>4, <1>6, <2>1, <2>2 DEF ClientOK, ClientClaim, local, None
  <2>4. QED
    BY <1>4, <1>6, <2>1, <2>2, <2>3, ClientStep
<1>7. QED
  BY <1>2, <1>5, <1>6 DEF Open

LEMMA FetchBodyInd == ASSUME SyncInd, FetchBody PROVE SyncInd'
<1>1. PICK m \in (IF AtUid(cl.at, cl.uid) = {} THEN {None} ELSE {e.msg : e \in AtUid(cl.at, cl.uid)}) :
        cl' = [NoOp EXCEPT !.pc = "write", !.msg = cl.msg, !.found = m]
  BY DEF FetchBody
<1>2. UNCHANGED <<server, local, activity, daemon, history>> /\ cl.pc = "body" /\ cl \in ClientRec
  BY DEF FetchBody, process, SyncInd, Shapes
<1>3. /\ cl.msg \in Msg \ NoId /\ rows[cl.msg] # NoRow /\ cl.uid # 0 /\ cl.epoch # 0
      /\ cl.sure \/ rows[cl.msg].strayed
  BY <1>2 DEF SyncInd, ClientOK, None
<1>4. m = None \/ \E e \in box[cl.at] : e.uid = cl.uid /\ e.msg = m
  BY <1>1 DEF AtUid
<1>5. cl.at \in Folder /\ cl.uid \in Nat /\ cl.epoch \in Nat /\ box[cl.at] \subseteq Entry /\ epoch[cl.at] \in Nat \ {0}
  BY <1>2 DEF ClientRec, SyncInd, BoxOK
<1>6. m \in Msg \cup {None}
  BY <1>4, <1>5 DEF Entry
<1>7. m \in {None, cl.msg} \/ rows[cl.msg].strayed \/ Anew
  <2> SUFFICES ASSUME m # None, ~rows[cl.msg].strayed, ~Anew PROVE m = cl.msg
    OBVIOUS
  <2>1. PICK e \in box[cl.at] : e.uid = cl.uid /\ e.msg = m
    BY <1>4
  <2>2. e = [uid |-> cl.uid, msg |-> m] /\ m \in Msg
    BY <1>5, <2>1 DEF Entry
  <2>3. epoch[cl.at] = 1
    BY <1>5 DEF Anew
  <2>4. Claim(cl.at, cl.epoch, cl.uid, cl.msg)
    BY <1>2, <1>3 DEF Claim, ClientClaim
  <2>5. cl.epoch = 1
    BY <1>3, <1>5, <2>3, <2>4 DEF SyncInd, ClaimsOK
  <2>6. Claim(cl.at, 1, cl.uid, m)
    BY <2>1, <2>2, <2>3 DEF Claim, BoxClaim
  <2>7. QED
    BY <1>3, <1>5, <2>2, <2>4, <2>5, <2>6 DEF SyncInd, ClaimsOK
<1>8. PICK c : c = [NoOp EXCEPT !.pc = "write", !.msg = cl.msg, !.found = m]
  OBVIOUS
<1>9. c \in ClientRec /\ c.pc = "write" /\ c.msg = cl.msg /\ c.found = m
  BY <1>3, <1>6, <1>8, NoOpIs DEF NoOp, ClientRec
<1>10. ClientOK' /\ \A f, n, u, i : ~ClientClaim(c, f, n, u, i)
  BY <1>1, <1>2, <1>3, <1>7, <1>8, <1>9 DEF ClientOK, ClientClaim, Anew, server, local, None
<1>11. QED
  BY <1>1, <1>2, <1>8, <1>9, <1>10, ClientStep

LEMMA LookupInd ==
  ASSUME SyncInd, NEW op \in {"get", "read", "delete", "move"}, NEW to \in Folder, Lookup(op, to) PROVE SyncInd'
<1>1. UNCHANGED <<server, local, activity, daemon, history>> /\ cl \in ClientRec /\ cl.pc = "lookup"
  BY DEF Lookup, process, SyncInd, Shapes
<1>2. CASE cl' = NoOp
  BY <1>1, <1>2, EndsInd
<1>3. CASE op # "get" /\ cl' = Aims([cl EXCEPT !.op = op, !.to = to], "server")
  <2>1. cl.msg \in Msg \ NoId /\ rows[cl.msg] # NoRow
    BY <1>1 DEF SyncInd, ClientOK, None
  <2>2. PICK b : b = [cl EXCEPT !.op = op, !.to = to]
    OBVIOUS
  <2>3. b \in ClientRec /\ b.msg = cl.msg
    BY <1>1, <1>3, <2>2 DEF ClientRec
  <2>4. PICK c : c = Aims(b, "server")
    OBVIOUS
  <2>5. /\ c \in ClientRec /\ c.pc = "server" /\ c.msg = cl.msg /\ c.uid # 0 /\ c.epoch # 0
        /\ \A f \in Folder : \A n, u \in Nat, i \in Msg : ClientClaim(c, f, n, u, i) => Claim(f, n, u, i)
    BY <2>1, <2>3, <2>4, AimsIs
  <2>6. ClientOK'
    BY <1>1, <1>3, <2>1, <2>2, <2>4, <2>5 DEF ClientOK, local, None
  <2>7. QED
    BY <1>1, <1>3, <2>2, <2>4, <2>5, <2>6, ClientStep
<1>4. QED
  BY <1>2, <1>3 DEF Lookup

LEMMA WriteBodyInd == ASSUME SyncInd, WriteBody PROVE SyncInd'
<1>1. UNCHANGED <<server, mark, activity, daemon, left, excused>> /\ cl \in ClientRec /\ cl.pc = "write"
  BY DEF WriteBody, process, history, SyncInd, Shapes
<1>2. PICK k \in Keys : k = cl.msg /\ k \in Msg \ NoId /\ rows[k] # NoRow
  BY <1>1, KeyOwn DEF SyncInd, ClientOK, None
<1>3. PICK old : old = rows[k]
  OBVIOUS
<1>4. old \in RowRec /\ RowOK(k, old) /\ rows \in [Keys -> RowRec \cup {NoRow}]
  BY <1>2, <1>3 DEF SyncInd, Shapes
<1>5. PICK b : b = IF old.body = None THEN cl.found ELSE old.body
  OBVIOUS
<1>6. b \in Msg \cup {None}
  BY <1>1, <1>4, <1>5 DEF ClientRec, RowRec
<1>7. PICK row : row = [old EXCEPT !.body = b]
  OBVIOUS
<1>8. /\ row \in RowRec /\ row.msg = old.msg /\ row.at = old.at /\ row.uid = old.uid /\ row.epoch = old.epoch
      /\ row.sure = old.sure /\ row.strayed = old.strayed /\ row.body = b
  BY <1>4, <1>6, <1>7 DEF RowRec
<1>9. row # NoRow
  <2>1. row.msg \in Msg
    BY <1>8 DEF RowRec
  <2>2. QED
    BY <2>1, SyncAssumption DEF NoRow
<1>10. rows' = [rows EXCEPT ![k] = row]
  BY <1>2, <1>3, <1>5, <1>7 DEF WriteBody
<1>11. \A j \in Keys : rows'[j] = IF j = k THEN row ELSE rows[j]
  BY <1>4, <1>10
<1>12. old.msg = cl.msg
  BY <1>2, <1>3, <1>4, KeyOwn DEF RowOK, RowRec
<1>13. b \in {None, old.msg} \/ old.strayed \/ Anew
  <2>1. CASE old.body = None
    BY <1>1, <1>2, <1>3, <1>5, <1>12, <2>1 DEF SyncInd, ClientOK, None
  <2>2. CASE old.body # None
    BY <1>2, <1>3, <1>4, <1>5, <2>2 DEF RowOK
  <2>3. QED
    BY <2>1, <2>2
<1>14. PICK c : c = [cl EXCEPT !.pc = "lookup", !.found = None]
  OBVIOUS
<1>15. cl' = c /\ c \in ClientRec /\ c.pc = "lookup" /\ c.msg = cl.msg
  BY <1>1, <1>14 DEF WriteBody, ClientRec
<1>16. Shapes'
  <2>1. rows' \in [Keys -> RowRec \cup {NoRow}]
    BY <1>4, <1>8, <1>10
  <2>2. QED
    BY <1>1, <1>15, <2>1 DEF SyncInd, Shapes, server
<1>17. DaemonOK'
  BY <1>1 DEF SyncInd, DaemonOK
<1>18. ClientOK'
  BY <1>1, <1>2, <1>9, <1>11, <1>15 DEF ClientOK, None
<1>19. ASSUME NEW j \in Keys PROVE RowOK(j, rows[j])'
  <2>1. CASE j = k
    <3>1. RowOK(k, row)'
      BY <1>1, <1>2, <1>3, <1>4, <1>8, <1>13 DEF RowOK, Anew, server
    <3>2. QED
      BY <1>11, <2>1, <3>1 DEF RowOK
  <2>2. CASE j # k
    BY <1>1, <1>11, <2>2 DEF SyncInd, RowOK, Anew, server
  <2>3. QED
    BY <2>1, <2>2
<1>20. \A m \in Msg : Covered(m) => Covered(m)'
  BY <1>1, <1>9, <1>11, KeyIn DEF Covered, Stored
<1>21. ASSUME NEW f \in Folder, NEW n \in Nat, NEW u \in Nat, NEW m \in Msg, Claim(f, n, u, m)' PROVE Claim(f, n, u, m)
  <2>1. CASE \E j \in Keys : RowClaim(rows[j], f, n, u, m)'
    <3>1. PICK j \in Keys : RowClaim(rows[j], f, n, u, m)'
      BY <2>1
    <3>2. RowClaim(rows[j], f, n, u, m)
      BY <1>2, <1>3, <1>8, <1>11, <3>1 DEF RowClaim
    <3>3. QED
      BY <3>2 DEF Claim
  <2>2. CASE ~\E j \in Keys : RowClaim(rows[j], f, n, u, m)'
    <3>1. ~ClientClaim(cl, f, n, u, m)'
      BY <1>15 DEF ClientClaim
    <3>2. QED
      BY <1>1, <1>21, <2>2, <3>1 DEF Claim, BoxClaim, GotClaim, SeenClaim, server
  <2>3. QED
    BY <2>1, <2>2
<1>22. QED
  BY <1>1, <1>16, <1>17, <1>18, <1>19, <1>20, <1>21, RowsStep

\* A row that a move relocates keeps to what the server said; a row is only removed
\* when the message is gone, or the message is excused.
LEMMA UpdateRowInd == ASSUME SyncInd, UpdateRow PROVE SyncInd'
<1>1. UNCHANGED <<server, mark, activity, daemon, left>> /\ cl \in ClientRec /\ cl.pc = "local" /\ cl' = NoOp
  BY DEF UpdateRow, process, SyncInd, Shapes
<1>2. PICK k \in Keys : k = cl.msg /\ k \in Msg \ NoId /\ rows[k] # NoRow
  BY <1>1, KeyOwn DEF SyncInd, ClientOK, None
<1>3. PICK old : old = rows[k]
  OBVIOUS
<1>4. old \in RowRec /\ RowOK(k, old) /\ rows \in [Keys -> RowRec \cup {NoRow}] /\ excused \subseteq Msg
  BY <1>2, <1>3 DEF SyncInd, Shapes
<1>5. old.msg = cl.msg
  BY <1>2, <1>3, <1>4, KeyOwn DEF RowOK, RowRec
<1>6. PICK c : c = NoOp
  OBVIOUS
<1>7. c \in ClientRec /\ c.pc = None /\ cl' = c /\ \A f, n, u, m : ~ClientClaim(c, f, n, u, m)
  BY <1>1, <1>6, NoOpIs
<1>8. DaemonOK' /\ ClientOK'
  BY <1>1, <1>7 DEF SyncInd, DaemonOK, ClientOK, None
<1>9. ASSUME NEW row \in RowRec \cup {NoRow}, rows' = [rows EXCEPT ![k] = row], excused' \subseteq Msg, excused \subseteq excused',
             RowOK(k, row), row = NoRow => (OnServer(k) => k \in excused'),
             \A f \in Folder : \A n, u \in Nat, m \in Msg : RowClaim(row, f, n, u, m) => Claim(f, n, u, m)
      PROVE  SyncInd'
  <2>1. \A j \in Keys : rows'[j] = IF j = k THEN row ELSE rows[j]
    BY <1>4, <1>9
  <2>2. Shapes'
    <3>1. rows' \in [Keys -> RowRec \cup {NoRow}]
      BY <1>4, <1>9
    <3>2. QED
      BY <1>1, <1>7, <1>9, <3>1 DEF SyncInd, Shapes, server
  <2>3. ASSUME NEW j \in Keys PROVE RowOK(j, rows[j])'
    <3>1. CASE j = k
      <4>1. RowOK(k, row)'
        BY <1>1, <1>9 DEF RowOK, Anew, server
      <4>2. QED
        BY <2>1, <3>1, <4>1 DEF RowOK
    <3>2. CASE j # k
      BY <1>1, <2>1, <3>2 DEF SyncInd, RowOK, Anew, server
    <3>3. QED
      BY <3>1, <3>2
  <2>4. ASSUME NEW m \in Msg, OnServer(m), Covered(m) PROVE Covered(m)'
    <3>1. CASE Key(m) = k /\ row = NoRow
      <4>1. m = k
        BY <1>2, <3>1, KeyOwn
      <4>2. QED
        BY <1>9, <2>4, <3>1, <4>1 DEF Covered
    <3>2. CASE ~(Key(m) = k /\ row = NoRow)
      BY <1>9, <2>1, <2>4, <3>2, KeyIn DEF Covered, Stored
    <3>3. QED
      BY <3>1, <3>2
  <2>5. ASSUME NEW f \in Folder, NEW n \in Nat, NEW u \in Nat, NEW m \in Msg, Claim(f, n, u, m)' PROVE Claim(f, n, u, m)
    <3>1. CASE \E j \in Keys : RowClaim(rows[j], f, n, u, m)'
      <4>1. PICK j \in Keys : RowClaim(rows[j], f, n, u, m)'
        BY <3>1
      <4>2. RowClaim(rows[j], f, n, u, m) \/ RowClaim(row, f, n, u, m)
        BY <2>1, <4>1 DEF RowClaim
      <4>3. QED
        BY <1>9, <4>2 DEF Claim
    <3>2. CASE ~\E j \in Keys : RowClaim(rows[j], f, n, u, m)'
      <4>1. ~ClientClaim(cl, f, n, u, m)'
        BY <1>7 DEF ClientClaim
      <4>2. QED
        BY <1>1, <2>5, <3>2, <4>1 DEF Claim, BoxClaim, GotClaim, SeenClaim, server
    <3>3. QED
      BY <3>1, <3>2
  <2>6. QED
    BY <1>1, <1>8, <2>2, <2>3, <2>4, <2>5, RowsStep
<1>10. CASE cl.op = "move"
  <2>1. PICK row : row = Updated(old)
    OBVIOUS
  <2>2. /\ row \in RowRec /\ row.msg = cl.msg /\ row.at = cl.to /\ row.uid = cl.uid /\ row.epoch = cl.epoch
        /\ row.sure = cl.sure /\ row.strayed = (old.strayed \/ ~cl.sure) /\ row.body = old.body
    <3>1. cl.uid \in Nat \ {0} /\ cl.epoch \in Nat \ {0}
      BY <1>1 DEF SyncInd, ClientOK, ClientRec
    <3>2. QED
      BY <1>1, <1>4, <1>5, <2>1, <3>1 DEF Updated, RowRec, ClientRec
  <2>3. rows' = [rows EXCEPT ![k] = row] /\ excused' = excused
    BY <1>2, <1>3, <1>10, <2>1 DEF UpdateRow
  <2>4. RowOK(k, row)
    BY <1>2, <1>3, <1>4, <1>5, <2>2 DEF RowOK
  <2>5. row # NoRow
    <3>1. row.msg \in Msg
      BY <1>2, <2>2
    <3>2. QED
      BY <3>1, SyncAssumption DEF NoRow
  <2>6. \A f \in Folder : \A n, u \in Nat, m \in Msg : RowClaim(row, f, n, u, m) => Claim(f, n, u, m)
    BY <1>1, <1>10, <2>2 DEF RowClaim, Claim, ClientClaim
  <2>7. QED
    BY <1>4, <1>9, <2>2, <2>3, <2>4, <2>5, <2>6
<1>11. CASE cl.op # "move"
  <2>1. rows' = [rows EXCEPT ![k] = NoRow] /\ excused' = IF OnServer(k) THEN excused \cup {k} ELSE excused
    BY <1>2, <1>11 DEF UpdateRow
  <2>2. RowOK(k, NoRow) /\ \A f, n, u, m : ~RowClaim(NoRow, f, n, u, m)
    BY DEF RowOK, RowClaim
  <2>3. QED
    BY <1>2, <1>4, <1>9, <2>1, <2>2
<1>12. QED
  BY <1>10, <1>11

-------------------------------------------------------------------------------
(* The server *)

\* Steps that change the folders and, perhaps, the client.
LEMMA ServerStep ==
  ASSUME SyncInd, UNCHANGED <<local, activity, daemon, history>>, BoxOK', coming' \subseteq Msg,
         cl' \in ClientRec, ClientOK', ClaimsOK',
         \A f \in Folder : epoch[f] <= epoch'[f],
         \A f \in Folder : epoch'[f] = 1 =>
            next[f] <= next'[f] /\ \A e \in box'[f] : e \in box[f] \/ e.uid >= next[f]
  PROVE  SyncInd'
<1> USE DEF local, history
<1>1. Shapes' /\ DaemonOK' /\ Numbers'
  BY DEF SyncInd, Shapes, DaemonOK, BoxOK, Numbers
<1>2. \A f \in Folder : epoch[f] \in Nat \ {0} /\ epoch'[f] \in Nat \ {0} /\ epoch[f] <= epoch'[f]
  BY DEF SyncInd, BoxOK
<1>3. \A f \in Folder : epoch'[f] = 1 => epoch[f] = 1
  BY <1>2
<1>4. \A f \in Folder : Keeps(f)
  BY <1>3 DEF Keeps, Covered, Stored
<1>5. \A k \in Keys : RowOK(k, rows[k])'
  BY <1>1, <1>3, RowsKept
<1>6. ASSUME NEW f \in Folder PROVE MarkOK(f)'
  <2>1. left'[f] \subseteq Nat
    BY <1>1 DEF Shapes
  <2>2. \A u \in left'[f] : u \in left[f]
    OBVIOUS
  <2>3. QED
    BY <1>1, <1>4, <2>1, <2>2, MarkKept
<1>7. ASSUME NEW t \in Task PROVE TaskOK(t, activity[t])' /\ SyncOK(t, activity[t])'
  <2>1. SyncOK(t, activity[t])'
    BY <1>1, <1>4, CallsKept
  <2>2. PICK r : r = activity[t]
    OBVIOUS
  <2>3. r \in SyncRec /\ TaskOK(t, r)
    BY <2>2 DEF SyncInd, Shapes
  <2>4. TaskOK(t, r)'
    <3>1. ASSUME HasGot(r) PROVE r.epoch >= 1 /\ r.epoch <= epoch'[Head(r.todo)]
      <4>1. Head(r.todo) \in Folder /\ r.epoch \in Nat
        BY <2>3, <3>1, HeadOf DEF HasGot, SyncRec
      <4>2. r.epoch >= 1 /\ r.epoch <= epoch[Head(r.todo)]
        BY <2>3, <3>1 DEF TaskOK
      <4>3. QED
        BY <1>2, <4>1, <4>2
    <3>2. QED
      BY <2>3, <3>1 DEF TaskOK
  <2>5. TaskOK(t, activity[t])'
    BY <2>2, <2>4 DEF TaskOK
  <2>6. QED
    BY <2>1, <2>5
<1>8. QED
  BY <1>1, <1>5, <1>6, <1>7 DEF SyncInd

\* The claims of a step that only numbers new messages.
LEMMA Grows ==
  ASSUME SyncInd, UNCHANGED <<epoch, local, activity>>, BoxOK',
         \A f \in Folder : next[f] <= next'[f],
         \A f \in Folder : \A e \in box'[f] : e \in box[f] \/ (e.uid >= next[f] /\ e.uid < next'[f]),
         \A f \in Folder : \A d, e \in box'[f] : d.uid = e.uid /\ d.uid >= next[f] => d.msg = e.msg,
         \A f \in Folder : \A n, u \in Nat, m \in Msg :
            ClientClaim(cl, f, n, u, m)' => Claim(f, n, u, m) \/ BoxClaim(f, n, u, m)'
  PROVE  ClaimsOK'
<1> USE DEF local
<1>0. \A f \in Folder : next[f] \in Nat /\ next'[f] \in Nat /\ epoch[f] \in Nat
  BY DEF SyncInd, BoxOK
<1>1. ASSUME NEW f \in Folder, NEW n \in Nat, NEW u \in Nat, NEW m \in Msg, Claim(f, n, u, m)'
      PROVE  \/ Claim(f, n, u, m)
             \/ n = epoch[f] /\ u >= next[f] /\ u < next'[f] /\ [uid |-> u, msg |-> m] \in box'[f]
  <2>1. ASSUME BoxClaim(f, n, u, m)'
        PROVE  \/ Claim(f, n, u, m)
               \/ n = epoch[f] /\ u >= next[f] /\ u < next'[f] /\ [uid |-> u, msg |-> m] \in box'[f]
    <3>1. n = epoch[f] /\ [uid |-> u, msg |-> m] \in box'[f]
      BY <2>1 DEF BoxClaim
    <3>2. [uid |-> u, msg |-> m] \in box[f] \/ (u >= next[f] /\ u < next'[f])
      BY <3>1
    <3>3. QED
      BY <3>1, <3>2 DEF Claim, BoxClaim
  <2>2. CASE ClientClaim(cl, f, n, u, m)'
    BY <2>1, <2>2
  <2>3. CASE ~BoxClaim(f, n, u, m)' /\ ~ClientClaim(cl, f, n, u, m)'
    BY <1>1, <2>3 DEF Claim, RowClaim, GotClaim, SeenClaim
  <2>4. QED
    BY <2>1, <2>2, <2>3
<1>2. SUFFICES ASSUME NEW f \in Folder, NEW n \in Nat, NEW u \in Nat, NEW m \in Msg, Claim(f, n, u, m)'
      PROVE  /\ n < epoch[f] \/ (n = epoch[f] /\ u < next'[f])
             /\ \A o \in Msg : Claim(f, n, u, o)' => o = m
  BY DEF ClaimsOK
<1>3. \A o \in Msg : Claim(f, n, u, o) => n < epoch[f] \/ (n = epoch[f] /\ u < next[f])
  BY DEF SyncInd, ClaimsOK
<1>4. \A o, i \in Msg : Claim(f, n, u, o) /\ Claim(f, n, u, i) => o = i
  BY DEF SyncInd, ClaimsOK
<1>5. n < epoch[f] \/ (n = epoch[f] /\ u < next'[f])
  <2>1. CASE Claim(f, n, u, m)
    <3>1. n < epoch[f] \/ (n = epoch[f] /\ u < next[f])
      BY <1>3, <2>1
    <3>2. next[f] <= next'[f] /\ next[f] \in Nat /\ next'[f] \in Nat
      BY <1>0
    <3>3. QED
      BY <3>1, <3>2
  <2>2. QED
    BY <1>1, <1>2, <2>1
<1>6. ASSUME NEW o \in Msg, Claim(f, n, u, o)' PROVE o = m
  <2>1. \/ Claim(f, n, u, o)
        \/ n = epoch[f] /\ u >= next[f] /\ u < next'[f] /\ [uid |-> u, msg |-> o] \in box'[f]
    BY <1>1, <1>6
  <2>2. \/ Claim(f, n, u, m)
        \/ n = epoch[f] /\ u >= next[f] /\ u < next'[f] /\ [uid |-> u, msg |-> m] \in box'[f]
    BY <1>1, <1>2
  <2>3. CASE n = epoch[f] /\ u >= next[f]
    <3>1. ~Claim(f, n, u, o) /\ ~Claim(f, n, u, m)
      BY <1>0, <1>3, <2>3
    <3>2. [uid |-> u, msg |-> o] \in box'[f] /\ [uid |-> u, msg |-> m] \in box'[f]
      BY <2>1, <2>2, <3>1
    <3>3. QED
      BY <2>3, <3>2
  <2>4. CASE ~(n = epoch[f] /\ u >= next[f])
    BY <1>4, <2>1, <2>2, <2>4
  <2>5. QED
    BY <2>3, <2>4
<1>7. QED
  BY <1>5, <1>6

LEMMA OneName == ASSUME SyncInd, NEW f \in Folder, NEW d \in box[f], NEW e \in box[f], d.uid = e.uid PROVE d.msg = e.msg
<1>1. d \in Entry /\ e \in Entry /\ epoch[f] \in Nat
  BY DEF SyncInd, BoxOK
<1>2. d = [uid |-> d.uid, msg |-> d.msg] /\ e = [uid |-> d.uid, msg |-> e.msg] /\ d.uid \in Nat /\ d.msg \in Msg /\ e.msg \in Msg
  BY <1>1 DEF Entry
<1>3. Claim(f, epoch[f], d.uid, d.msg) /\ Claim(f, epoch[f], d.uid, e.msg)
  BY <1>2 DEF Claim, BoxClaim
<1>4. QED
  BY <1>1, <1>2, <1>3 DEF SyncInd, ClaimsOK

LEMMA Below == ASSUME SyncInd, NEW f \in Folder, NEW e \in box[f] PROVE e.uid < next[f]
<1>1. e \in Entry /\ epoch[f] \in Nat
  BY DEF SyncInd, BoxOK
<1>2. e = [uid |-> e.uid, msg |-> e.msg] /\ e.uid \in Nat /\ e.msg \in Msg
  BY <1>1 DEF Entry
<1>3. Claim(f, epoch[f], e.uid, e.msg)
  BY <1>2 DEF Claim, BoxClaim
<1>4. QED
  BY <1>1, <1>2, <1>3 DEF SyncInd, ClaimsOK

LEMMA DeleteInd == ASSUME SyncInd, Delete PROVE SyncInd'
<1>1. UNCHANGED <<coming, next, epoch, local, activity, daemon, history>> /\ cl \in ClientRec /\ cl.pc = "server" /\ cl.op = "delete"
  BY DEF Delete, process, SyncInd, Shapes
<1>2. cl.at \in Folder /\ box' = [box EXCEPT ![cl.at] = Others(cl.at, cl.uid)] /\ box \in [Folder -> SUBSET Entry]
  BY <1>1 DEF Delete, ClientRec, SyncInd, BoxOK
<1>3. \A f \in Folder : box'[f] \subseteq box[f]
  BY <1>2 DEF Others
<1>4. box' \in [Folder -> SUBSET Entry]
  BY <1>2 DEF Others
<1>5. BoxOK'
  BY <1>1, <1>3, <1>4, FS_Subset DEF SyncInd, BoxOK
<1>6. PICK c : c = [cl EXCEPT !.pc = "local"]
  OBVIOUS
<1>7. /\ cl' = c /\ c \in ClientRec /\ c.pc = "local" /\ c.op = "delete" /\ c.msg = cl.msg /\ c.uid = cl.uid
      /\ c.epoch = cl.epoch
  BY <1>1, <1>6 DEF Delete, ClientRec
<1>8. ClientOK'
  BY <1>1, <1>7 DEF SyncInd, ClientOK, local, None
<1>9. \A f, n, u, m : ~ClientClaim(cl, f, n, u, m)'
  BY <1>7 DEF ClientClaim
<1>10. \A f \in Folder : next[f] <= next'[f] /\ epoch[f] <= epoch'[f]
  BY <1>1 DEF SyncInd, BoxOK
<1>11. \A f \in Folder : \A d, e \in box'[f] : d.uid = e.uid /\ d.uid >= next[f] => d.msg = e.msg
  BY <1>3, OneName
<1>12. ClaimsOK'
  BY <1>1, <1>3, <1>5, <1>9, <1>10, <1>11, Grows
<1>13. coming' \subseteq Msg
  BY <1>1 DEF SyncInd, Shapes
<1>14. QED
  BY <1>1, <1>3, <1>5, <1>7, <1>8, <1>10, <1>12, <1>13, ServerStep

LEMMA ArriveInd == ASSUME SyncInd, NEW m \in Msg, NEW f \in Folder, Arrive(m, f) PROVE SyncInd'
<1>1. UNCHANGED <<epoch, local, activity, daemon, cl, history>> /\ coming' = coming \ {m}
  BY DEF Arrive, process
<1>2. /\ box' = [box EXCEPT ![f] = @ \cup {[uid |-> next[f], msg |-> m]}] /\ next' = [next EXCEPT ![f] = @ + 1]
      /\ box \in [Folder -> SUBSET Entry] /\ next \in [Folder -> Nat \ {0}]
      /\ \A g \in Folder : IsFiniteSet(box[g])
  BY DEF Arrive, SyncInd, BoxOK
<1>3. [uid |-> next[f], msg |-> m] \in Entry
  BY <1>2 DEF Entry
<1>4. BoxOK'
  <2>1. \A g \in Folder : IsFiniteSet(box'[g])
    BY <1>2, FS_AddElement
  <2>2. box' \in [Folder -> SUBSET Entry] /\ next' \in [Folder -> Nat \ {0}]
    BY <1>2, <1>3
  <2>3. QED
    BY <1>1, <2>1, <2>2 DEF SyncInd, BoxOK
<1>5. \A g \in Folder : next[g] <= next'[g] /\ epoch[g] <= epoch'[g]
  BY <1>1, <1>2 DEF SyncInd, BoxOK
<1>6. \A g \in Folder : \A e \in box'[g] : e \in box[g] \/ (g = f /\ e = [uid |-> next[f], msg |-> m])
  BY <1>2
<1>7. ASSUME NEW g \in Folder, NEW e \in box'[g] PROVE e \in box[g] \/ (e.uid >= next[g] /\ e.uid < next'[g])
  BY <1>2, <1>6
<1>8. ASSUME NEW g \in Folder, NEW d \in box'[g], NEW e \in box'[g], d.uid = e.uid, d.uid >= next[g] PROVE d.msg = e.msg
  <2>1. \A i \in box[g] : i.uid < next[g] /\ i.uid \in Nat /\ next[g] \in Nat
    BY <1>2, Below DEF Entry
  <2>2. d \notin box[g] /\ e \notin box[g]
    BY <1>8, <2>1
  <2>3. QED
    BY <1>6, <2>2
<1>9. \A g \in Folder : \A n, u \in Nat, i \in Msg : ClientClaim(cl, g, n, u, i)' => Claim(g, n, u, i)
  BY <1>1 DEF ClientClaim, Claim
<1>10. ClaimsOK'
  BY <1>1, <1>4, <1>5, <1>7, <1>8, <1>9, Grows
<1>11. coming' \subseteq Msg /\ cl' \in ClientRec /\ ClientOK'
  BY <1>1 DEF SyncInd, Shapes, ClientOK, Anew, local
<1>12. QED
  BY <1>1, <1>4, <1>5, <1>7, <1>10, <1>11, ServerStep

\* Moving what is under a uid of one folder into another.
LEMMA MovedOK ==
  ASSUME SyncInd, NEW f \in Folder, NEW g \in Folder, NEW u \in Nat, box' = Moved(f, g, u), UNCHANGED epoch,
         next' = [next EXCEPT ![g] = @ + 1] \/ (AtUid(f, u) = {} /\ next' = next)
  PROVE  /\ BoxOK'
         /\ \A h \in Folder : next[h] <= next'[h]
         /\ \A h \in Folder : \A e \in box'[h] : e \in box[h] \/ (e.uid >= next[h] /\ e.uid < next'[h])
         /\ \A h \in Folder : \A d, e \in box'[h] : d.uid = e.uid /\ d.uid >= next[h] => d.msg = e.msg
<1> DEFINE new == {[uid |-> next[g], msg |-> e.msg] : e \in AtUid(f, u)}
<1>1. /\ box \in [Folder -> SUBSET Entry] /\ next \in [Folder -> Nat \ {0}] /\ epoch \in [Folder -> Nat \ {0}]
      /\ \A h \in Folder : IsFiniteSet(box[h])
  BY DEF SyncInd, BoxOK
<1>2. AtUid(f, u) \subseteq box[f] /\ Others(f, u) \subseteq box[f] /\ \A e \in AtUid(f, u) : e.uid = u
  BY DEF AtUid, Others
<1>3. \A x \in new : \E e \in box[f] : e.uid = u /\ x = [uid |-> next[g], msg |-> e.msg]
  BY <1>2
<1>4. new \subseteq Entry /\ IsFiniteSet(new) /\ (AtUid(f, u) = {} => new = {})
  <2>1. new \subseteq Entry
    BY <1>1, <1>3 DEF Entry
  <2>2. \A x, y \in new : x = y
    BY <1>3, OneName
  <2>3. IsFiniteSet(new)
    <3>1. CASE new = {}
      BY <3>1, FS_EmptySet
    <3>2. CASE new # {}
      <4>1. PICK x : new = {x}
        BY <2>2, <3>2
      <4>2. QED
        BY <4>1, FS_Singleton
    <3>3. QED
      BY <3>1, <3>2
  <2>4. QED
    BY <2>1, <2>3
<1>5. PICK N : N = new
  OBVIOUS
<1>6. box' = [box EXCEPT ![f] = Others(f, u), ![g] = @ \cup N]
  BY <1>5 DEF Moved
<1>7. \A x \in N : x \in Entry /\ x.uid = next[g] /\ \E e \in box[f] : e.uid = u /\ x.msg = e.msg
  BY <1>3, <1>4, <1>5
<1> HIDE DEF new
<1>8. \A h \in Folder : /\ box'[h] \subseteq box[h] \cup (IF h = g THEN N ELSE {})
                        /\ box'[h] \subseteq Entry
  BY <1>1, <1>2, <1>4, <1>5, <1>6
<1>9. box' \in [Folder -> SUBSET Entry] /\ next' \in [Folder -> Nat \ {0}]
  <2>1. Others(f, u) \subseteq Entry /\ N \subseteq Entry
    BY <1>1, <1>2, <1>4, <1>5
  <2>2. [box EXCEPT ![f] = Others(f, u)] \in [Folder -> SUBSET Entry]
    BY <1>1, <2>1
  <2>3. box' \in [Folder -> SUBSET Entry]
    BY <1>6, <2>1, <2>2
  <2>4. QED
    BY <1>1, <2>3
<1>10. \A h \in Folder : IsFiniteSet(box'[h])
  <2>1. IsFiniteSet(N) /\ IsFiniteSet({})
    BY <1>4, <1>5, FS_EmptySet
  <2>2. \A h \in Folder : IsFiniteSet(box[h] \cup (IF h = g THEN N ELSE {}))
    BY <1>1, <2>1, FS_Union
  <2>3. QED
    BY <1>8, <2>2, FS_Subset
<1>11. BoxOK'
  BY <1>1, <1>8, <1>9, <1>10 DEF BoxOK
<1>12. \A h \in Folder : next[h] <= next'[h]
  BY <1>1
<1>13. ASSUME NEW h \in Folder, NEW e \in box'[h] PROVE e \in box[h] \/ (e.uid >= next[h] /\ e.uid < next'[h])
  <2>1. CASE e \notin box[h]
    <3>1. h = g /\ e \in N
      BY <1>8, <2>1
    <3>2. N # {} /\ e.uid = next[g]
      BY <1>7, <3>1
    <3>3. next' = [next EXCEPT ![g] = @ + 1]
      BY <1>4, <1>5, <3>2
    <3>4. QED
      BY <1>1, <3>1, <3>2, <3>3
  <2>2. QED
    BY <2>1
<1>14. ASSUME NEW h \in Folder, NEW d \in box'[h], NEW e \in box'[h], d.uid = e.uid, d.uid >= next[h] PROVE d.msg = e.msg
  <2>1. \A i \in box[h] : i.uid < next[h] /\ i.uid \in Nat /\ next[h] \in Nat
    BY <1>1, Below DEF Entry
  <2>2. d \notin box[h] /\ e \notin box[h]
    BY <1>14, <2>1
  <2>3. d \in N /\ e \in N
    BY <1>8, <2>2
  <2>4. PICK i \in box[f] : i.uid = u /\ d.msg = i.msg
    BY <1>7, <2>3
  <2>5. PICK j \in box[f] : j.uid = u /\ e.msg = j.msg
    BY <1>7, <2>3
  <2>6. QED
    BY <2>4, <2>5, OneName
<1>15. QED
  BY <1>11, <1>12, <1>13, <1>14

LEMMA OtherClientMovesInd ==
  ASSUME SyncInd, NEW f \in Folder, NEW g \in Folder, NEW e \in box[f], OtherClientMoves(f, g, e.uid) PROVE SyncInd'
<1>1. UNCHANGED <<coming, epoch, local, activity, daemon, cl, history>> /\ e.uid \in Nat
  BY DEF OtherClientMoves, process, SyncInd, BoxOK, Entry
<1>2. box' = Moved(f, g, e.uid) /\ next' = [next EXCEPT ![g] = @ + 1]
  BY DEF OtherClientMoves
<1>3. /\ BoxOK'
      /\ \A h \in Folder : next[h] <= next'[h]
      /\ \A h \in Folder : \A i \in box'[h] : i \in box[h] \/ (i.uid >= next[h] /\ i.uid < next'[h])
      /\ \A h \in Folder : \A d, i \in box'[h] : d.uid = i.uid /\ d.uid >= next[h] => d.msg = i.msg
  BY <1>1, <1>2, MovedOK
<1>4. \A h \in Folder : \A n, u \in Nat, i \in Msg : ClientClaim(cl, h, n, u, i)' => Claim(h, n, u, i)
  BY <1>1 DEF ClientClaim, Claim
<1>5. ClaimsOK'
  BY <1>1, <1>3, <1>4, Grows
<1>6. coming' \subseteq Msg /\ cl' \in ClientRec /\ ClientOK' /\ \A h \in Folder : epoch[h] <= epoch'[h]
  BY <1>1 DEF SyncInd, Shapes, ClientOK, Anew, local, BoxOK
<1>7. QED
  BY <1>1, <1>3, <1>5, <1>6, ServerStep

LEMMA MoveInd == ASSUME SyncInd, Move PROVE SyncInd'
<1>1. UNCHANGED <<coming, epoch, local, activity, daemon, history>> /\ cl \in ClientRec /\ cl.pc = "server" /\ cl.op = "move"
  BY DEF Move, process, SyncInd, Shapes
<1>2. /\ cl.at \in Folder /\ cl.to \in Folder /\ cl.uid \in Nat /\ cl.uid # 0 /\ cl.epoch # 0
      /\ cl.msg \in Msg \ NoId /\ rows[cl.msg] # NoRow
  BY <1>1 DEF SyncInd, ClientOK, ClientRec, None
<1>3. box' = Moved(cl.at, cl.to, cl.uid)
  BY DEF Move
<1>4. next' = [next EXCEPT ![cl.to] = @ + 1] \/ (AtUid(cl.at, cl.uid) = {} /\ next' = next)
  BY DEF Move
<1>5. /\ BoxOK'
      /\ \A h \in Folder : next[h] <= next'[h]
      /\ \A h \in Folder : \A i \in box'[h] : i \in box[h] \/ (i.uid >= next[h] /\ i.uid < next'[h])
      /\ \A h \in Folder : \A d, i \in box'[h] : d.uid = i.uid /\ d.uid >= next[h] => d.msg = i.msg
  BY <1>1, <1>2, <1>3, <1>4, MovedOK
<1>6. coming' \subseteq Msg /\ \A h \in Folder : epoch[h] <= epoch'[h]
  BY <1>1 DEF SyncInd, Shapes, BoxOK
<1>7. ASSUME NEW c \in ClientRec, cl' = c, c.pc = "local", c.msg = cl.msg, c.uid # 0, c.epoch # 0,
             \A h \in Folder : \A n, u \in Nat, i \in Msg : ClientClaim(c, h, n, u, i) => BoxClaim(h, n, u, i)'
      PROVE  SyncInd'
  <2>1. ClientOK'
    BY <1>1, <1>2, <1>7 DEF ClientOK, local, None
  <2>2. \A h \in Folder : \A n, u \in Nat, i \in Msg : ClientClaim(cl, h, n, u, i)' => BoxClaim(h, n, u, i)'
    BY <1>7 DEF ClientClaim
  <2>3. ClaimsOK'
    BY <1>1, <1>5, <2>2, Grows
  <2>4. QED
    BY <1>1, <1>5, <1>6, <1>7, <2>1, <2>3, ServerStep
<1>8. CASE \E e \in Lowest({e \in box'[cl.to] : e.msg = cl.msg}) :
             cl' = [cl EXCEPT !.pc = "local", !.epoch = epoch[cl.to], !.sure = TRUE, !.uid = e.uid]
  <2>1. PICK e \in box'[cl.to] : e.msg = cl.msg /\ cl' = [cl EXCEPT !.pc = "local", !.epoch = epoch[cl.to], !.sure = TRUE, !.uid = e.uid]
    BY <1>8 DEF Lowest
  <2>2. e \in Entry /\ e = [uid |-> e.uid, msg |-> e.msg] /\ e.uid \in Nat \ {0} /\ epoch[cl.to] \in Nat \ {0}
    BY <1>2, <1>5, <2>1 DEF BoxOK, Entry, SyncInd
  <2>3. PICK c : c = [cl EXCEPT !.pc = "local", !.epoch = epoch[cl.to], !.sure = TRUE, !.uid = e.uid]
    OBVIOUS
  <2>4. /\ c \in ClientRec /\ c.pc = "local" /\ c.msg = cl.msg /\ c.uid = e.uid /\ c.epoch = epoch[cl.to]
        /\ c.to = cl.to
    BY <1>1, <2>2, <2>3 DEF ClientRec
  <2>5. \A h \in Folder : \A n, u \in Nat, i \in Msg : ClientClaim(c, h, n, u, i) => BoxClaim(h, n, u, i)'
    <3>1. SUFFICES ASSUME NEW h \in Folder, NEW n \in Nat, NEW u \in Nat, NEW i \in Msg, ClientClaim(c, h, n, u, i)
          PROVE BoxClaim(h, n, u, i)'
      OBVIOUS
    <3>2. h = cl.to /\ n = epoch[h] /\ u = e.uid /\ i = e.msg
      BY <2>1, <2>4, <3>1 DEF ClientClaim
    <3>3. QED
      BY <1>1, <2>1, <2>2, <3>2 DEF BoxClaim
  <2>6. QED
    BY <1>7, <2>1, <2>2, <2>3, <2>4, <2>5
<1>9. CASE cl' = [cl EXCEPT !.pc = "local", !.sure = FALSE]
  <2>1. PICK c : c = [cl EXCEPT !.pc = "local", !.sure = FALSE]
    OBVIOUS
  <2>2. c \in ClientRec /\ c.pc = "local" /\ c.msg = cl.msg /\ c.uid = cl.uid /\ c.epoch = cl.epoch /\ ~c.sure
    BY <1>1, <2>1 DEF ClientRec
  <2>3. \A h, n, u, i : ~ClientClaim(c, h, n, u, i)
    BY <2>2 DEF ClientClaim
  <2>4. QED
    BY <1>2, <1>7, <1>9, <2>1, <2>2, <2>3
<1>10. QED
  BY <1>8, <1>9 DEF Move

\* Entries of a folder that are given one number have one message.
LEMMA RankIs ==
  ASSUME SyncInd, NEW f \in Folder, NEW d \in box[f], NEW e \in box[f]
  PROVE  /\ Rank(f, d) \in 1..Cardinality(box[f])
         /\ Rank(f, d) = Rank(f, e) => d.msg = e.msg
<1> DEFINE D == {x \in box[f] : x.uid <= d.uid}
           E == {x \in box[f] : x.uid <= e.uid}
<1>1. IsFiniteSet(box[f]) /\ box[f] \subseteq Entry
  BY DEF SyncInd, BoxOK
<1>2. IsFiniteSet(D) /\ IsFiniteSet(E) /\ Cardinality(D) <= Cardinality(box[f]) /\ Cardinality(box[f]) \in Nat
  BY <1>1, FS_Subset, FS_CardinalityType
<1>3. Cardinality(D) \in Nat /\ Cardinality(E) \in Nat
  BY <1>2, FS_CardinalityType
<1>4. d \in D /\ e \in E
  BY <1>1 DEF Entry
<1>5. Cardinality(D) # 0
  BY <1>2, <1>4, FS_EmptySet
<1>6. Rank(f, d) = Cardinality(D) /\ Rank(f, e) = Cardinality(E)
  BY DEF Rank
<1>7. ASSUME Cardinality(D) = Cardinality(E) PROVE d.msg = e.msg
  <2>1. d.uid \in Nat /\ e.uid \in Nat /\ \A x \in box[f] : x.uid \in Nat
    BY <1>1 DEF Entry
  <2>2. CASE d.uid <= e.uid
    <3>1. D \subseteq E
      BY <2>1, <2>2
    <3>2. D = E
      BY <1>2, <1>7, <3>1, FS_Subset
    <3>3. e.uid <= d.uid
      BY <1>4, <3>2
    <3>4. d.uid = e.uid
      BY <2>1, <2>2, <3>3
    <3>5. QED
      BY <3>4, OneName
  <2>3. CASE e.uid <= d.uid
    <3>1. E \subseteq D
      BY <2>1, <2>3
    <3>2. D = E
      BY <1>2, <1>7, <3>1, FS_Subset
    <3>3. d.uid <= e.uid
      BY <1>4, <3>2
    <3>4. d.uid = e.uid
      BY <2>1, <2>3, <3>3
    <3>5. QED
      BY <3>4, OneName
  <2>4. QED
    BY <2>1, <2>2, <2>3
<1>8. QED
  BY <1>2, <1>3, <1>5, <1>6, <1>7

LEMMA FiniteImage ==
  ASSUME NEW S, IsFiniteSet(S), NEW T, NEW h, h \in [S -> T], \A y \in T : \E x \in S : h[x] = y
  PROVE  IsFiniteSet(T)
<1>1. h \in Surjection(S, T)
  BY DEF Surjection
<1>2. QED
  BY <1>1, FS_Surjection

LEMMA RenumberInd == ASSUME SyncInd, NEW f \in Folder, Renumber(f) PROVE SyncInd'
<1> DEFINE new == {[uid |-> Rank(f, e), msg |-> e.msg] : e \in box[f]}
<1>1. UNCHANGED <<coming, local, activity, daemon, cl, history>>
  BY DEF Renumber, process
<1>2. /\ box \in [Folder -> SUBSET Entry] /\ next \in [Folder -> Nat \ {0}] /\ epoch \in [Folder -> Nat \ {0}]
      /\ \A h \in Folder : IsFiniteSet(box[h])
  BY DEF SyncInd, BoxOK
<1>3. \A x \in new : \E e \in box[f] : x = [uid |-> Rank(f, e), msg |-> e.msg]
  OBVIOUS
<1>4. new \subseteq Entry
  <2>1. \A e \in box[f] : e.msg \in Msg /\ Rank(f, e) \in 1..Cardinality(box[f])
    BY <1>2, RankIs DEF Entry
  <2>2. Cardinality(box[f]) \in Nat
    BY <1>2, FS_CardinalityType
  <2>3. QED
    BY <1>3, <2>1, <2>2 DEF Entry
<1>5. IsFiniteSet(new)
  <2> DEFINE h == [e \in box[f] |-> [uid |-> Rank(f, e), msg |-> e.msg]]
  <2>1. h \in [box[f] -> new]
    OBVIOUS
  <2>2. \A y \in new : \E x \in box[f] : h[x] = y
    OBVIOUS
  <2> HIDE DEF h, new
  <2>3. QED
    BY <1>2, <2>1, <2>2, FiniteImage
<1>6. PICK N : N = new
  OBVIOUS
<1>7. /\ box' = [box EXCEPT ![f] = N] /\ next' = [next EXCEPT ![f] = Cardinality(box[f]) + 1]
      /\ epoch' = [epoch EXCEPT ![f] = @ + 1]
  BY <1>6 DEF Renumber
<1>8. N \subseteq Entry /\ IsFiniteSet(N) /\ \A x \in N : \E e \in box[f] : x.uid = Rank(f, e) /\ x.msg = e.msg
  BY <1>3, <1>4, <1>5, <1>6
<1> HIDE DEF new
<1>9. Cardinality(box[f]) \in Nat
  BY <1>2, FS_CardinalityType
<1>10. BoxOK'
  BY <1>2, <1>7, <1>8, <1>9 DEF BoxOK
<1>11. ASSUME NEW h \in Folder
       PROVE  /\ epoch[h] <= epoch'[h]
              /\ epoch'[h] = 1 => next[h] <= next'[h] /\ \A e \in box'[h] : e \in box[h] \/ e.uid >= next[h]
  <2>1. CASE h = f
    BY <1>2, <1>7, <2>1
  <2>2. CASE h # f
    BY <1>2, <1>7, <2>2
  <2>3. QED
    BY <2>1, <2>2
<1>12. coming' \subseteq Msg /\ cl' \in ClientRec
  BY <1>1 DEF SyncInd, Shapes
<1>13. ClientOK'
  <2>1. Anew => Anew'
    BY <1>2, <1>7 DEF Anew
  <2>2. QED
    BY <1>1, <2>1 DEF SyncInd, ClientOK, local
<1>14. ASSUME NEW g \in Folder, NEW n \in Nat, NEW u \in Nat, NEW m \in Msg, Claim(g, n, u, m)'
       PROVE  Claim(g, n, u, m) \/ (g = f /\ BoxClaim(g, n, u, m)')
  <2>1. CASE BoxClaim(g, n, u, m)'
    BY <1>2, <1>7, <2>1 DEF BoxClaim, Claim
  <2>2. CASE \E t \in Task : SeenClaim(activity[t], g, n, u, m)'
    <3>1. PICK t \in Task : SeenClaim(activity[t], g, n, u, m)'
      BY <2>2
    <3>2. epoch[g] = 1
      BY <1>2, <1>7, <3>1 DEF SeenClaim
    <3>3. SeenClaim(activity[t], g, n, u, m)
      BY <1>1, <3>1, <3>2 DEF SeenClaim
    <3>4. QED
      BY <3>3 DEF Claim
  <2>3. CASE ~BoxClaim(g, n, u, m)' /\ ~\E t \in Task : SeenClaim(activity[t], g, n, u, m)'
    BY <1>1, <1>14, <2>3 DEF Claim, RowClaim, GotClaim, ClientClaim, local
  <2>4. QED
    BY <2>1, <2>2, <2>3
<1>15. ASSUME NEW g \in Folder, NEW n \in Nat, NEW u \in Nat, NEW m \in Msg, Claim(g, n, u, m)
       PROVE  n <= epoch[g] /\ (g # f => n < epoch[g] \/ (n = epoch[g] /\ u < next[g]))
  BY <1>2, <1>15 DEF SyncInd, ClaimsOK
<1>16. ASSUME NEW n \in Nat, NEW u \in Nat, NEW m \in Msg, BoxClaim(f, n, u, m)'
       PROVE  n = epoch'[f] /\ u < next'[f] /\ [uid |-> u, msg |-> m] \in N
  <2>1. n = epoch'[f] /\ [uid |-> u, msg |-> m] \in N
    BY <1>2, <1>7, <1>16 DEF BoxClaim
  <2>2. PICK e \in box[f] : u = Rank(f, e)
    BY <1>8, <2>1
  <2>3. u \in 1..Cardinality(box[f])
    BY <2>2, RankIs
  <2>4. next'[f] = Cardinality(box[f]) + 1
    BY <1>2, <1>7
  <2>5. QED
    BY <1>9, <2>1, <2>3, <2>4
<1>17. ClaimsOK'
  <2> SUFFICES ASSUME NEW g \in Folder, NEW n \in Nat, NEW u \in Nat, NEW m \in Msg, Claim(g, n, u, m)'
      PROVE  /\ n < epoch'[g] \/ (n = epoch'[g] /\ u < next'[g])
             /\ \A o \in Msg : Claim(g, n, u, o)' => o = m
    BY DEF ClaimsOK
  <2>1. Claim(g, n, u, m) \/ (g = f /\ BoxClaim(g, n, u, m)')
    BY <1>14
  <2>2. epoch[g] \in Nat /\ epoch'[f] = epoch[f] + 1 /\ (g # f => epoch'[g] = epoch[g] /\ next'[g] = next[g])
    BY <1>2, <1>7
  <2>3. n < epoch'[g] \/ (n = epoch'[g] /\ u < next'[g])
    <3>1. CASE Claim(g, n, u, m)
      <4>1. n <= epoch[g] /\ (g # f => n < epoch[g] \/ (n = epoch[g] /\ u < next[g]))
        BY <1>15, <3>1
      <4>2. QED
        BY <2>2, <4>1
    <3>2. CASE g = f /\ BoxClaim(g, n, u, m)'
      BY <1>16, <3>2
    <3>3. QED
      BY <2>1, <3>1, <3>2
  <2>4. ASSUME NEW o \in Msg, Claim(g, n, u, o)' PROVE o = m
    <3>1. Claim(g, n, u, o) \/ (g = f /\ BoxClaim(g, n, u, o)')
      BY <1>14, <2>4
    <3>2. CASE g = f /\ n = epoch'[f]
      <4>1. ~Claim(g, n, u, m) /\ ~Claim(g, n, u, o)
        BY <1>15, <2>2, <3>2
      <4>2. [uid |-> u, msg |-> m] \in N /\ [uid |-> u, msg |-> o] \in N
        BY <1>16, <2>1, <3>1, <4>1
      <4>3. PICK d \in box[f] : u = Rank(f, d) /\ m = d.msg
        BY <1>8, <4>2
      <4>4. PICK e \in box[f] : u = Rank(f, e) /\ o = e.msg
        BY <1>8, <4>2
      <4>5. QED
        BY <4>3, <4>4, RankIs
    <3>3. CASE ~(g = f /\ n = epoch'[f])
      <4>1. Claim(g, n, u, m) /\ Claim(g, n, u, o)
        BY <1>16, <2>1, <3>1, <3>3
      <4>2. QED
        BY <4>1 DEF SyncInd, ClaimsOK
    <3>4. QED
      BY <3>2, <3>3
  <2>5. QED
    BY <2>3, <2>4
<1>18. QED
  BY <1>1, <1>10, <1>11, <1>12, <1>13, <1>17, ServerStep

-------------------------------------------------------------------------------
\* What an account may start with.
LEMMA InitInd == SyncInit => SyncInd
<1> SUFFICES ASSUME SyncInit PROVE SyncInd
  OBVIOUS
<1>1. PICK s \in Setting :
       /\ box = [f \in Folder |-> {[uid |-> i, msg |-> s.content[f][i]] : i \in DOMAIN s.content[f]}]
       /\ next = [f \in Folder |-> Len(s.content[f]) + 1]
       /\ coming = {m \in Msg : \A f \in Folder : \A i \in DOMAIN s.content[f] : s.content[f][i] # m}
  BY DEF SyncInit
<1>2. PICK c : c = s.content
  OBVIOUS
<1>3. c \in [Folder -> Seq(Msg)]
  BY <1>2, SyncAssumption
<1>4. \A f \in Folder : \A e \in box[f] : \E i \in DOMAIN c[f] : e = [uid |-> i, msg |-> c[f][i]]
  BY <1>1, <1>2
<1>5. \A f \in Folder : c[f] \in Seq(Msg) /\ DOMAIN c[f] = 1..Len(c[f]) /\ Len(c[f]) \in Nat
  BY <1>3
<1>6. \A f \in Folder : \A e \in box[f] : /\ e.uid \in 1..Len(c[f]) /\ e.msg = c[f][e.uid] /\ e.msg \in Msg
                                          /\ e = [uid |-> e.uid, msg |-> e.msg]
  BY <1>4, <1>5
<1>7. /\ \A f \in Folder : next[f] = Len(c[f]) + 1
      /\ epoch = [f \in Folder |-> 1] /\ rows = [k \in Keys |-> NoRow]
      /\ mark = [f \in Folder |-> [validity |-> 0, last |-> 0]] /\ activity = [t \in Task |-> Quiet]
      /\ daemon = "off" /\ cl = NoOp /\ left = [f \in Folder |-> {}] /\ excused = {}
  BY <1>1, <1>2 DEF SyncInit
<1>8. ASSUME NEW f \in Folder PROVE IsFiniteSet(box[f])
  <2> DEFINE h == [i \in 1..Len(c[f]) |-> [uid |-> i, msg |-> c[f][i]]]
  <2>1. box[f] = {[uid |-> i, msg |-> c[f][i]] : i \in 1..Len(c[f])}
    BY <1>1, <1>2, <1>5
  <2>2. h \in [1..Len(c[f]) -> box[f]] /\ \A y \in box[f] : \E x \in 1..Len(c[f]) : h[x] = y
    BY <2>1
  <2>3. IsFiniteSet(1..Len(c[f]))
    BY <1>5, FS_Interval
  <2> HIDE DEF h
  <2>4. QED
    BY <2>2, <2>3, FiniteImage
<1>9. BoxOK
  <2>1. box = [f \in Folder |-> box[f]] /\ next = [f \in Folder |-> next[f]]
    BY <1>1
  <2>2. \A f \in Folder : box[f] \subseteq Entry /\ next[f] \in Nat \ {0}
    BY <1>5, <1>6, <1>7 DEF Entry
  <2>3. QED
    BY <1>7, <1>8, <2>1, <2>2 DEF BoxOK
<1>10. Quiet \in SyncRec /\ Quiet.phase = "off"
  BY Folders DEF Quiet, SyncRec, Phase
<1>11. Shapes
  <2>1. activity \in [Task -> SyncRec]
    BY <1>7, <1>10
  <2>2. rows \in [Keys -> RowRec \cup {NoRow}]
    BY <1>7
  <2>3. mark \in [Folder -> MarkRec]
    BY <1>7 DEF MarkRec
  <2>4. left \in [Folder -> SUBSET Nat] /\ excused \subseteq Msg /\ coming \subseteq Msg
    BY <1>1, <1>7
  <2>5. QED
    BY <1>7, <2>1, <2>2, <2>3, <2>4, NoOpIs DEF Shapes
<1>12. \A k \in Keys : RowOK(k, rows[k])
  BY <1>7 DEF RowOK
<1>13. \A f \in Folder : MarkOK(f)
  <2> TAKE f \in Folder
  <2>1. mark[f].validity = 0 /\ mark[f].last = 0 /\ left[f] = {} /\ next[f] \in Nat \ {0}
    BY <1>7, <1>9 DEF BoxOK
  <2>2. \A e \in box[f] : ~(e.uid <= mark[f].last)
    BY <1>5, <1>6, <2>1
  <2>3. QED
    BY <2>1, <2>2 DEF MarkOK
<1>14. \A t \in Task : activity[t].phase = "off" /\ TaskOK(t, activity[t]) /\ SyncOK(t, activity[t])
  BY <1>7, <1>10 DEF TaskOK, SyncOK, HasGot, InCall, SyncPhase
<1>15. DaemonOK /\ ClientOK
  BY <1>7, <1>14, NoOpIs DEF DaemonOK, ClientOK, None
<1>16. ClaimsOK
  <2> SUFFICES ASSUME NEW f \in Folder, NEW n \in Nat, NEW u \in Nat, NEW m \in Msg, Claim(f, n, u, m)
      PROVE  /\ n < epoch[f] \/ (n = epoch[f] /\ u < next[f])
             /\ \A o \in Msg : Claim(f, n, u, o) => o = m
    BY DEF ClaimsOK
  <2>1. ASSUME NEW o \in Msg, Claim(f, n, u, o) PROVE BoxClaim(f, n, u, o)
    <3>1. ~\E k \in Keys : RowClaim(rows[k], f, n, u, o)
      BY <1>7 DEF RowClaim
    <3>2. ~\E t \in Task : GotClaim(activity[t], f, n, u, o) \/ SeenClaim(activity[t], f, n, u, o)
      BY <1>14 DEF GotClaim, SeenClaim, HasGot, SyncPhase
    <3>3. ~ClientClaim(cl, f, n, u, o)
      BY <1>7, NoOpIs
    <3>4. QED
      BY <2>1, <3>1, <3>2, <3>3 DEF Claim
  <2>2. ASSUME NEW o \in Msg, BoxClaim(f, n, u, o) PROVE n = epoch[f] /\ u \in 1..Len(c[f]) /\ o = c[f][u]
    BY <1>6, <2>2 DEF BoxClaim
  <2>3. QED
    BY <1>5, <1>7, <2>1, <2>2
<1>17. QED
  BY <1>9, <1>11, <1>12, <1>13, <1>14, <1>15, <1>16 DEF SyncInd

LEMMA SyncStepInd == ASSUME SyncInd, NEW t \in Task, SyncStep(t) PROVE SyncInd'
BY ReadInd, FetchInd, InsertInd, SaveInd DEF SyncStep

\* Every step keeps the invariant.
LEMMA NextInd == SyncInd /\ [SyncNext]_syncVars => SyncInd'
<1> SUFFICES ASSUME SyncInd, [SyncNext]_syncVars PROVE SyncInd'
  OBVIOUS
<1> USE DEF Task
<1>1. CASE Start
  BY <1>1, SyncStepInd, LifecycleInd DEF Start
<1>2. CASE Idle
  BY <1>2, SyncStepInd, IdleWakesInd DEF Idle
<1>3. CASE Backfill
  BY <1>3, SyncStepInd, UpgradeSelectInd, UpgradeFetchInd, UpgradeStoreInd, VerifyServerInd, VerifyLocalInd, BackfillStopsInd
     DEF Backfill, Upgrade, Verify
<1>4. CASE Periodic
  BY <1>4, SyncStepInd, PeriodicInd, VerifyServerInd, VerifyLocalInd DEF Periodic, Verify
<1>5. CASE \E t \in Task : Fail(t)
  BY <1>5, FailInd
<1>6. CASE Lifecycle
  BY <1>6, LifecycleInd
<1>7. CASE Client
  <2>1. CASE \E m \in Msg : Open(m)
    BY <2>1, OpenInd
  <2>2. CASE FetchBody \/ WriteBody \/ Delete \/ Move \/ UpdateRow
    BY <2>2, FetchBodyInd, WriteBodyInd, DeleteInd, MoveInd, UpdateRowInd
  <2>3. CASE \E op \in {"get", "read", "delete"} : Lookup(op, Inbox)
    BY <2>3, LookupInd, Folders
  <2>4. CASE \E to \in Folder : Lookup("move", to)
    BY <2>4, LookupInd
  <2>5. CASE MarkRead \/ ClientFails
    BY <2>5, EndsInd DEF MarkRead, ClientFails, process
  <2>6. QED
    BY <1>7, <2>1, <2>2, <2>3, <2>4, <2>5 DEF Client
<1>8. CASE Server
  BY <1>8, ArriveInd, OtherClientMovesInd, RenumberInd DEF Server
<1>9. CASE UNCHANGED syncVars
  BY <1>9, Unchanged DEF syncVars, process, history
<1>10. QED
  BY <1>1, <1>2, <1>3, <1>4, <1>5, <1>6, <1>7, <1>8, <1>9 DEF SyncNext

\* Two claims on one uid are claims for one message.
LEMMA RightMessageHolds == SyncInd => RightMessage
<1> SUFFICES ASSUME SyncInd PROVE RightMessage
  OBVIOUS
<1>1. ASSUME NEW p, p.at \in Folder, p.uid \in Nat, NEW m \in Msg, NEW n \in Nat, n = p.epoch, Claim(p.at, n, p.uid, m)
      PROVE  Names(p, m)
  <2> SUFFICES ASSUME p.epoch = epoch[p.at], NEW e \in AtUid(p.at, p.uid) PROVE e.msg = m
    BY DEF Names
  <2>1. e \in box[p.at] /\ e.uid = p.uid /\ e \in Entry
    BY <1>1 DEF AtUid, SyncInd, BoxOK
  <2>2. e = [uid |-> p.uid, msg |-> e.msg] /\ e.msg \in Msg
    BY <2>1 DEF Entry
  <2>3. Claim(p.at, n, p.uid, e.msg)
    BY <1>1, <2>1, <2>2 DEF Claim, BoxClaim
  <2>4. QED
    BY <1>1, <2>2, <2>3 DEF SyncInd, ClaimsOK
<1>2. ASSUME NEW k \in Keys, rows[k] # NoRow PROVE Names(rows[k], rows[k].msg)
  <2>1. PICK r : r = rows[k]
    OBVIOUS
  <2>2. r \in RowRec /\ r # NoRow
    BY <1>2, <2>1 DEF SyncInd, Shapes
  <2>3. r.at \in Folder /\ r.uid \in Nat /\ r.msg \in Msg /\ r.epoch \in Nat
    BY <2>2 DEF RowRec
  <2>4. CASE r.sure
    <3>1. Claim(r.at, r.epoch, r.uid, r.msg)
      BY <2>1, <2>2, <2>4 DEF Claim, RowClaim
    <3>2. Names(r, r.msg)
      BY <1>1, <2>3, <3>1
    <3>3. QED
      BY <2>1, <3>2
  <2>5. CASE ~r.sure
    BY <2>1, <2>5 DEF Names
  <2>6. QED
    BY <2>4, <2>5
<1>3. ASSUME cl.pc \in {"body", "server"} PROVE Names(cl, cl.msg)
  <2>1. cl \in ClientRec /\ cl.msg \in Msg
    BY <1>3 DEF SyncInd, Shapes, ClientOK, None
  <2>2. cl.at \in Folder /\ cl.uid \in Nat /\ cl.epoch \in Nat
    BY <2>1 DEF ClientRec
  <2>3. CASE cl.sure
    <3>1. Claim(cl.at, cl.epoch, cl.uid, cl.msg)
      BY <1>3, <2>3 DEF Claim, ClientClaim
    <3>2. QED
      BY <1>1, <2>1, <2>2, <3>1
  <2>4. CASE ~cl.sure
    BY <2>4 DEF Names
  <2>5. QED
    BY <2>3, <2>4
<1>4. ASSUME NEW k \in Keys
      PROVE  rows[k].body \in {None, rows[k].msg} \/ rows[k].strayed \/ \E f \in Folder : Renumbered(f)
  <2>1. CASE rows[k] = NoRow
    BY <2>1 DEF NoRow
  <2>2. CASE rows[k] # NoRow
    <3>1. Anew => \E f \in Folder : Renumbered(f)
      BY DEF Anew, Renumbered, SyncInd, BoxOK
    <3>2. QED
      BY <2>2, <3>1 DEF SyncInd, RowOK
  <2>3. QED
    BY <2>1, <2>2
<1>5. QED
  BY <1>2, <1>3, <1>4 DEF RightMessage

\* What the check found in the database under a uid is what it saw under it.
LEMMA NothingSkippedHolds == SyncInd => NothingSkipped
<1> SUFFICES ASSUME SyncInd PROVE NothingSkipped
  OBVIOUS
<1>1. ASSUME NEW f \in Folder, ~Renumbered(f), NEW e \in box[f], e.uid <= mark[f].last PROVE Accounted(f, e)
  <2>1. epoch[f] = 1
    BY <1>1 DEF Renumbered, SyncInd, BoxOK
  <2>2. QED
    BY <1>1, <2>1 DEF SyncInd, MarkOK, Covered, Accounted
<1>2. ASSUME NEW t \in Task, Verifies(t), activity[t].stage = "store", Ok(t), UidsHold, NEW x \in activity[t].seen
      PROVE  Stored(x.msg)
  <2>1. PICK r : r = activity[t]
    OBVIOUS
  <2>2. r \in SyncRec /\ r.phase = "verify" /\ r.stage = "store" /\ x \in r.seen
    BY <1>2, <2>1 DEF SyncInd, Shapes, Verifies, At
  <2>3. /\ x.at \in Folder /\ x.uid \in Nat /\ x.msg \in Msg
        /\ x = [at |-> x.at, uid |-> x.uid, msg |-> x.msg]
    BY <2>2 DEF SyncRec
  <2>4. epoch[x.at] = 1
    BY <1>2, <2>3 DEF UidsHold, Renumbered, SyncInd, BoxOK
  <2>5. ~Missing(x)
    BY <1>2 DEF Ok
  <2>6. CASE CrossFolder(x)
    BY <2>6 DEF CrossFolder
  <2>7. CASE LocalUid(x)
    <3>1. PICK k \in Keys : rows[k] # NoRow /\ rows[k].at = x.at /\ rows[k].uid = x.uid
      BY <2>7 DEF LocalUid
    <3>2. PICK q : q = rows[k]
      OBVIOUS
    <3>3. q \in RowRec /\ q # NoRow /\ q.sure /\ Key(q.msg) = k
      BY <1>2, <3>1, <3>2 DEF SyncInd, Shapes, RowOK, UidsHold
    <3>4. q.epoch \in Nat \ {0} /\ q.msg \in Msg
      BY <3>3 DEF RowRec
    <3>5. Claim(x.at, q.epoch, x.uid, q.msg)
      BY <3>1, <3>2, <3>3 DEF Claim, RowClaim
    <3>6. q.epoch = 1
      BY <2>3, <2>4, <3>4, <3>5 DEF SyncInd, ClaimsOK
    <3>7. Claim(x.at, 1, x.uid, x.msg)
      BY <2>1, <2>2, <2>3, <2>4 DEF Claim, SeenClaim
    <3>8. q.msg = x.msg
      BY <2>3, <3>4, <3>5, <3>6, <3>7 DEF SyncInd, ClaimsOK
    <3>9. QED
      BY <3>1, <3>3, <3>8 DEF Stored
  <2>8. QED
    BY <2>5, <2>6, <2>7 DEF Missing
<1>3. QED
  BY <1>1, <1>2 DEF NothingSkipped

\* The invariant holds of every account.
THEOREM SyncInvariant == SyncSpec => []SyncInd
BY InitInd, NextInd, PTL DEF SyncSpec

\* A uid kept in a row, or about to be used by a client, names the row's message or
\* nothing, through moves, deletions, new UIDVALIDITYs, crashes and other clients.
THEOREM UidsAreRight == SyncSpec => []RightMessage
BY SyncInvariant, RightMessageHolds, PTL

\* "last_uid" is a high-water mark: what is at or below it is in the database, failed to
\* be stored, was deleted elsewhere or was left out by a windowed pass; and an integrity
\* check that finds nothing missing is right.
THEOREM MarksAreTrue == SyncSpec => []NothingSkipped
BY SyncInvariant, NothingSkippedHolds, PTL
===============================================================================
