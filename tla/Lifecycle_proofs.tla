-------------------------- MODULE Lifecycle_proofs --------------------------
(***************************************************************************)
(* Proofs about module Lifecycle, for any number of clients, connections   *)
(* and statements, and any environment.                                    *)
(***************************************************************************)
EXTENDS Lifecycle, SequenceTheorems, FiniteSetTheorems, TLAPS

-----------------------------------------------------------------------------
(* Queues: sequences without repetition.                                   *)

\* The domain of a sequence.
LEMMA DomainOfSeq ==
  ASSUME NEW S, NEW s \in Seq(S)
  PROVE  /\ DOMAIN s = 1 .. Len(s) /\ Len(s) \in Nat
         /\ \A i \in DOMAIN s : s[i] \in S
         /\ s # <<>> => Len(s) > 0 /\ Head(s) = s[1]
OBVIOUS

\* The first of a queue leaves it.
LEMMA HeadLeaves ==
  ASSUME NEW S, NEW s \in Seq(S), s # <<>>, IsInjective(s)
  PROVE  /\ Head(s) \in ToSet(s) /\ Tail(s) \in Seq(S) /\ IsInjective(Tail(s))
         /\ ToSet(Tail(s)) = ToSet(s) \ {Head(s)}
<1>1. /\ DOMAIN s = 1 .. Len(s) /\ Len(s) \in Nat /\ Len(s) > 0 /\ Head(s) = s[1]
      /\ Tail(s) \in Seq(S) /\ Len(Tail(s)) = Len(s) - 1
      /\ \A i \in 1 .. Len(Tail(s)) : Tail(s)[i] = s[i + 1]
  BY DomainOfSeq, HeadTailProperties
<1>2. DOMAIN Tail(s) = 1 .. Len(s) - 1
  BY <1>1
<1>3. Head(s) \in ToSet(s)
  BY <1>1 DEF ToSet
<1>4. IsInjective(Tail(s))
  BY <1>1, <1>2 DEF IsInjective
<1>5. ASSUME NEW x \in ToSet(Tail(s)) PROVE x \in ToSet(s) \ {Head(s)}
  <2>1. PICK i \in DOMAIN Tail(s) : x = Tail(s)[i]
    BY <1>5 DEF ToSet
  <2>2. x = s[i + 1] /\ i + 1 \in DOMAIN s /\ i + 1 # 1
    BY <1>1, <1>2, <2>1
  <2> QED
    BY <1>1, <2>2 DEF ToSet, IsInjective
<1>6. ASSUME NEW x \in ToSet(s) \ {Head(s)} PROVE x \in ToSet(Tail(s))
  <2>1. PICK i \in DOMAIN s : x = s[i]
    BY <1>6 DEF ToSet
  <2>2. i # 1 /\ i - 1 \in 1 .. Len(s) - 1 /\ (i - 1) + 1 = i
    BY <1>1, <1>6, <2>1
  <2>3. x = Tail(s)[i - 1]
    BY <1>1, <2>1, <2>2
  <2> QED
    BY <1>2, <2>2, <2>3 DEF ToSet
<1> QED
  BY <1>1, <1>3, <1>4, <1>5, <1>6

\* Somebody new joins a queue.
LEMMA LastJoins ==
  ASSUME NEW S, NEW s \in Seq(S), NEW x \in S, x \notin ToSet(s), IsInjective(s)
  PROVE  /\ Append(s, x) \in Seq(S) /\ Append(s, x) # <<>> /\ IsInjective(Append(s, x))
         /\ ToSet(Append(s, x)) = ToSet(s) \cup {x}
<1>1. /\ Append(s, x) \in Seq(S) /\ Append(s, x) # <<>> /\ Len(Append(s, x)) = Len(s) + 1
      /\ \A i \in 1 .. Len(s) : Append(s, x)[i] = s[i]
      /\ Append(s, x)[Len(s) + 1] = x
  BY AppendProperties
<1>2. /\ DOMAIN s = 1 .. Len(s) /\ Len(s) \in Nat
      /\ DOMAIN Append(s, x) = 1 .. Len(s) + 1
  BY <1>1, DomainOfSeq
<1>3. \A i \in 1 .. Len(s) : s[i] # x
  BY <1>2 DEF ToSet
<1>4. IsInjective(Append(s, x))
  BY <1>1, <1>2, <1>3 DEF IsInjective
<1>5. ToSet(Append(s, x)) = ToSet(s) \cup {x}
  BY <1>1, <1>2 DEF ToSet
<1> QED
  BY <1>1, <1>4, <1>5

\* What RemoveAt leaves of a sequence.
LEMMA RemoveAtProperties ==
  ASSUME NEW S, NEW s \in Seq(S), NEW i \in DOMAIN s
  PROVE  /\ RemoveAt(s, i) \in Seq(S) /\ Len(RemoveAt(s, i)) = Len(s) - 1
         /\ \A j \in 1 .. Len(s) - 1 : RemoveAt(s, i)[j] = IF j < i THEN s[j] ELSE s[j + 1]
<1> DEFINE a == SubSeq(s, 1, i - 1)
           b == SubSeq(s, i + 1, Len(s))
<1>1. i \in 1 .. Len(s) /\ Len(s) \in Nat
  BY DomainOfSeq
<1>2. a \in Seq(S) /\ Len(a) = i - 1 /\ \A j \in 1 .. i - 1 : a[j] = s[j]
  BY <1>1
<1>3. b \in Seq(S) /\ Len(b) = Len(s) - i /\ \A j \in 1 .. Len(s) - i : b[j] = s[i + j]
  BY <1>1
<1> HIDE DEF a, b
<1>4. /\ a \o b \in Seq(S) /\ Len(a \o b) = Len(a) + Len(b)
      /\ \A j \in 1 .. Len(a) + Len(b) : (a \o b)[j] = IF j <= Len(a) THEN a[j] ELSE b[j - Len(a)]
  BY <1>2, <1>3, ConcatProperties
<1>5. ASSUME NEW j \in 1 .. Len(s) - 1
      PROVE  (a \o b)[j] = IF j < i THEN s[j] ELSE s[j + 1]
  <2>0. j \in Int /\ i \in Int /\ j \in 1 .. Len(a) + Len(b)
    BY <1>1, <1>2, <1>3
  <2>1. ASSUME j < i PROVE (a \o b)[j] = s[j]
    BY <1>1, <1>2, <1>3, <1>4, <2>1
  <2>2. ASSUME ~(j < i) PROVE (a \o b)[j] = s[j + 1]
    <3>1. j - Len(a) \in 1 .. Len(s) - i /\ i + (j - Len(a)) = j + 1 /\ ~(j <= Len(a))
      BY <1>1, <1>2, <2>0, <2>2
    <3>2. (a \o b)[j] = b[j - Len(a)]
      BY <1>4, <2>0, <3>1
    <3>3. b[j - Len(a)] = s[i + (j - Len(a))]
      BY <1>3, <3>1
    <3> QED
      BY <3>1, <3>2, <3>3
  <2> QED
    BY <2>1, <2>2
<1>6. RemoveAt(s, i) = a \o b
  BY DEF RemoveAt, a, b
<1>7. Len(a \o b) = Len(s) - 1
  BY <1>1, <1>2, <1>3, <1>4
<1> QED
  BY <1>4, <1>5, <1>6, <1>7

\* Somebody leaves a queue from any place.
LEMMA OneLeaves ==
  ASSUME NEW S, NEW s \in Seq(S), NEW i \in DOMAIN s, IsInjective(s)
  PROVE  /\ RemoveAt(s, i) \in Seq(S) /\ IsInjective(RemoveAt(s, i))
         /\ ToSet(RemoveAt(s, i)) = ToSet(s) \ {s[i]}
<1> DEFINE r == RemoveAt(s, i)
<1>1. /\ r \in Seq(S) /\ Len(r) = Len(s) - 1
      /\ \A j \in 1 .. Len(s) - 1 : r[j] = IF j < i THEN s[j] ELSE s[j + 1]
  BY RemoveAtProperties
<1> HIDE DEF r
<1>2. /\ DOMAIN s = 1 .. Len(s) /\ Len(s) \in Nat /\ i \in 1 .. Len(s)
      /\ DOMAIN r = 1 .. Len(s) - 1
  BY <1>1, DomainOfSeq
<1>3. ASSUME NEW j \in DOMAIN r
      PROVE  \E k \in DOMAIN s : k # i /\ r[j] = s[k] /\ k = IF j < i THEN j ELSE j + 1
  BY <1>1, <1>2
<1>4. IsInjective(r)
  <2> SUFFICES ASSUME NEW j \in DOMAIN r, NEW k \in DOMAIN r, r[j] = r[k] PROVE j = k
    BY DEF IsInjective
  <2>1. (IF j < i THEN j ELSE j + 1) = (IF k < i THEN k ELSE k + 1)
    BY <1>3 DEF IsInjective
  <2> QED
    BY <1>2, <2>1
<1>5. ToSet(r) \subseteq ToSet(s) \ {s[i]}
  BY <1>3 DEF ToSet, IsInjective
<1>6. ASSUME NEW x \in ToSet(s) \ {s[i]} PROVE x \in ToSet(r)
  <2>1. PICK k \in DOMAIN s : x = s[k] /\ k # i
    BY <1>6 DEF ToSet
  <2>2. CASE k < i
    BY <1>1, <1>2, <2>1, <2>2 DEF ToSet
  <2>3. CASE k > i
    <3>1. k - 1 \in DOMAIN r /\ ~(k - 1 < i) /\ (k - 1) + 1 = k
      BY <1>2, <2>3
    <3>2. r[k - 1] = x
      BY <1>1, <1>2, <2>1, <3>1
    <3> QED
      BY <3>1, <3>2 DEF ToSet
  <2> QED
    BY <1>2, <2>1, <2>2, <2>3
<1> QED
  BY <1>1, <1>4, <1>5, <1>6 DEF r
-----------------------------------------------------------------------------
(* The pool.                                                               *)

\* Where a request may be.
Place == {"none", "open", "working", "waiting", "statement", "answering"}

\* The requests that have asked for a connection.
Asking == {"waiting", "statement"}

\* The part of the invariant that is about the pool, and its types.
Pool == IsFiniteSet(held) /\ ConnectionsFollowStatements /\ NobodyWaitsInVain

PoolTypes ==
  pc \in [Client -> Place] /\ held \subseteq Client /\ waiters \in Seq(Client)

\* A step in which nobody begins to ask, c does not ask any longer, and nobody
\* comes or goes.
OnlyStopsAsking(c) ==
  \A d \in Client : /\ pc'[d] \in Asking => pc[d] \in Asking /\ d # c
                    /\ pc'[d] = "none" <=> pc[d] = "none"

\* Requests that neither hold nor wait move without the pool.
LEMMA MovesBesidePool ==
  ASSUME PoolTypes, Pool, NEW c \in Client, pc[c] \notin Asking,
         NEW place \in Place \ Asking, pc' = [pc EXCEPT ![c] = place], UNCHANGED <<held, waiters>>
  PROVE  PoolTypes' /\ Pool'
<1>1. PoolTypes'
  BY DEF PoolTypes
<1>2. \A d \in Client : /\ pc'[d] = "statement" <=> pc[d] = "statement"
                        /\ pc'[d] = "waiting" <=> pc[d] = "waiting"
  BY DEF PoolTypes, Asking
<1>3. /\ {d \in Client : pc'[d] = "statement"} = {d \in Client : pc[d] = "statement"}
      /\ {d \in Client : pc'[d] = "waiting"} = {d \in Client : pc[d] = "waiting"}
  BY <1>2
<1>4. ConnectionsFollowStatements' /\ NobodyWaitsInVain'
  BY <1>3 DEF Pool, ConnectionsFollowStatements, NobodyWaitsInVain
<1> QED
  BY <1>1, <1>4 DEF Pool

\* A connection that is returned serves the first of the queue, or is free.
LEMMA ReleaseKeepsPool ==
  ASSUME PoolTypes, Pool, NEW c \in Client, pc[c] = "statement",
         NEW next \in {"working", "answering"}, Release(c, next)
  PROVE  PoolTypes' /\ Pool' /\ OnlyStopsAsking(c)
<1> USE DEF PoolTypes
<1>1. /\ held = {d \in Client : pc[d] = "statement"} /\ IsFiniteSet(held)
      /\ ToSet(waiters) = {d \in Client : pc[d] = "waiting"} /\ IsInjective(waiters)
      /\ Cardinality(held) <= MaxConns /\ c \in held
      /\ waiters # <<>> => Cardinality(held) = MaxConns
  BY DEF Pool, ConnectionsFollowStatements, NobodyWaitsInVain
<1>2. /\ IsFiniteSet(held \ {c}) /\ Cardinality(held \ {c}) = Cardinality(held) - 1
      /\ Cardinality(held) \in Nat
  BY <1>1, FS_RemoveElement, FS_CardinalityType
<1>3. MaxConns \in Nat
  BY LifecycleAssumption
<1>4. CASE waiters # <<>> /\ ~PoolClosed
  <2> DEFINE h == Head(waiters)
  <2>1. /\ h \in ToSet(waiters) /\ Tail(waiters) \in Seq(Client) /\ IsInjective(Tail(waiters))
        /\ ToSet(Tail(waiters)) = ToSet(waiters) \ {h}
    BY <1>1, <1>4, HeadLeaves
  <2> HIDE DEF h
  <2>2. h \in Client /\ pc[h] = "waiting" /\ h # c /\ h \notin held \ {c}
    BY <1>1, <2>1
  <2>3. /\ held' = (held \ {c}) \cup {h} /\ waiters' = Tail(waiters)
        /\ pc' = [pc EXCEPT ![c] = next, ![h] = "statement"]
    BY <1>4 DEF Release, h
  <2>4. /\ pc'[h] = "statement" /\ pc'[c] = next
        /\ \A d \in Client \ {c, h} : pc'[d] = pc[d]
    BY <2>2, <2>3
  <2>5. IsFiniteSet(held') /\ Cardinality(held') = Cardinality(held)
    <3>1. /\ IsFiniteSet((held \ {c}) \cup {h})
          /\ Cardinality((held \ {c}) \cup {h}) = Cardinality(held \ {c}) + 1
      BY <1>2, <2>2, FS_AddElement
    <3>2. Cardinality((held \ {c}) \cup {h}) = Cardinality(held)
      BY <1>2, <3>1
    <3> QED
      BY <2>3, <3>1, <3>2
  <2>6. held' = {d \in Client : pc'[d] = "statement"}
    BY <1>1, <2>2, <2>3, <2>4
  <2>7. ToSet(waiters') = {d \in Client : pc'[d] = "waiting"}
    BY <1>1, <2>1, <2>2, <2>3, <2>4
  <2>8. PoolTypes'
    BY <2>1, <2>2, <2>3 DEF Place
  <2>9. Pool'
    BY <1>1, <1>4, <2>1, <2>3, <2>5, <2>6, <2>7
       DEF Pool, ConnectionsFollowStatements, NobodyWaitsInVain
  <2>10. OnlyStopsAsking(c)
    BY <2>2, <2>4 DEF OnlyStopsAsking, Asking
  <2> QED
    BY <2>8, <2>9, <2>10
<1>5. CASE ~(waiters # <<>> /\ ~PoolClosed)
  <2>1. /\ held' = held \ {c} /\ waiters' = <<>>
        /\ pc' = [d \in Client |-> IF d = c THEN next
                                   ELSE IF pc[d] = "waiting" THEN "answering" ELSE pc[d]]
    BY <1>5 DEF Release
  <2>2. held' = {d \in Client : pc'[d] = "statement"}
    BY <1>1, <2>1
  <2>3. {d \in Client : pc'[d] = "waiting"} = {} /\ ToSet(<<>>) = {} /\ IsInjective(<<>>)
    BY <2>1 DEF ToSet, IsInjective
  <2>4. PoolTypes'
    BY <2>1, EmptySeq DEF Place
  <2>5. Pool'
    BY <1>1, <1>2, <1>3, <2>1, <2>2, <2>3 DEF Pool, ConnectionsFollowStatements, NobodyWaitsInVain
  <2>6. OnlyStopsAsking(c)
    BY <2>1 DEF OnlyStopsAsking, Asking
  <2> QED
    BY <2>4, <2>5, <2>6
<1> QED
  BY <1>4, <1>5

\* Giving up, in the queue or at the database, costs the pool nothing.
LEMMA GiveUpKeepsPool ==
  ASSUME PoolTypes, Pool, NEW c \in Client, GiveUp(c)
  PROVE  PoolTypes' /\ Pool' /\ OnlyStopsAsking(c)
<1>1. CASE pc[c] = "statement" /\ Release(c, "answering")
  BY <1>1, ReleaseKeepsPool
<1>2. CASE pc[c] # "statement" \/ ~Release(c, "answering")
  <2>1. pc[c] = "waiting" /\ pc' = [pc EXCEPT ![c] = "answering"] /\ UNCHANGED held
    BY <1>2 DEF GiveUp
  <2>2. PICK i \in DOMAIN waiters : waiters[i] = c /\ waiters' = RemoveAt(waiters, i)
    BY <1>2 DEF GiveUp
  <2>3. /\ held = {d \in Client : pc[d] = "statement"} /\ waiters \in Seq(Client)
        /\ ToSet(waiters) = {d \in Client : pc[d] = "waiting"} /\ IsInjective(waiters)
    BY DEF Pool, PoolTypes, ConnectionsFollowStatements, NobodyWaitsInVain
  <2>4. /\ waiters' \in Seq(Client) /\ IsInjective(waiters')
        /\ ToSet(waiters') = ToSet(waiters) \ {c}
    BY <2>2, <2>3, OneLeaves
  <2>5. pc'[c] = "answering" /\ \A d \in Client \ {c} : pc'[d] = pc[d]
    BY <2>1 DEF PoolTypes
  <2>6. PoolTypes'
    BY <2>1, <2>4 DEF PoolTypes, Place
  <2>7. held' = {d \in Client : pc'[d] = "statement"}
    BY <2>1, <2>3, <2>5
  <2>8. ToSet(waiters') = {d \in Client : pc'[d] = "waiting"}
    BY <2>3, <2>4, <2>5
  <2>9. waiters # <<>>
    BY <2>2
  <2>10. Pool'
    BY <2>1, <2>4, <2>7, <2>8, <2>9 DEF Pool, ConnectionsFollowStatements, NobodyWaitsInVain
  <2>11. OnlyStopsAsking(c)
    BY <2>1, <2>5 DEF OnlyStopsAsking, Asking
  <2> QED
    BY <2>6, <2>10, <2>11
<1> QED
  BY <1>1, <1>2

\* Asking for a connection: the pool is closed, has one, or has a queue.
LEMMA AcquireKeepsPool ==
  ASSUME PoolTypes, Pool, NEW c \in Client, Acquire(c)
  PROVE  PoolTypes' /\ Pool'
<1>1. pc[c] = "working"
  BY DEF Acquire
<1>2. /\ held = {d \in Client : pc[d] = "statement"} /\ IsFiniteSet(held)
      /\ Cardinality(held) <= MaxConns /\ held \subseteq Client
      /\ ToSet(waiters) = {d \in Client : pc[d] = "waiting"} /\ IsInjective(waiters)
      /\ waiters # <<>> => Cardinality(held) = MaxConns
      /\ waiters \in Seq(Client) /\ c \notin held /\ c \notin ToSet(waiters)
  BY <1>1 DEF Pool, PoolTypes, ConnectionsFollowStatements, NobodyWaitsInVain
<1>3. Cardinality(held) \in Nat /\ MaxConns \in Nat
  BY <1>2, FS_CardinalityType, LifecycleAssumption
<1>4. CASE pc' = [pc EXCEPT ![c] = "answering"] /\ UNCHANGED <<held, waiters>>
  BY <1>1, <1>4, MovesBesidePool DEF Asking, Place
<1>5. CASE /\ ConnectionFree /\ pc' = [pc EXCEPT ![c] = "statement"]
           /\ held' = held \cup {c} /\ UNCHANGED waiters
  <2>1. pc'[c] = "statement" /\ \A d \in Client \ {c} : pc'[d] = pc[d]
    BY <1>5 DEF PoolTypes
  <2>2. IsFiniteSet(held') /\ Cardinality(held') = Cardinality(held) + 1
    BY <1>2, <1>5, FS_AddElement
  <2>3. Cardinality(held') <= MaxConns /\ waiters' = <<>>
    BY <1>3, <1>5, <2>2 DEF ConnectionFree
  <2>4. /\ held' = {d \in Client : pc'[d] = "statement"}
        /\ {d \in Client : pc'[d] = "waiting"} = {d \in Client : pc[d] = "waiting"}
    BY <1>1, <1>2, <1>5, <2>1
  <2>5. Pool'
    BY <1>2, <1>5, <2>2, <2>3, <2>4 DEF Pool, ConnectionsFollowStatements, NobodyWaitsInVain
  <2>6. PoolTypes'
    BY <1>2, <1>5 DEF PoolTypes, Place
  <2> QED
    BY <2>5, <2>6
<1>6. CASE /\ ~ConnectionFree /\ pc' = [pc EXCEPT ![c] = "waiting"]
           /\ waiters' = Append(waiters, c) /\ UNCHANGED held
  <2>1. pc'[c] = "waiting" /\ \A d \in Client \ {c} : pc'[d] = pc[d]
    BY <1>6 DEF PoolTypes
  <2>2. /\ waiters' \in Seq(Client) /\ IsInjective(waiters')
        /\ ToSet(waiters') = ToSet(waiters) \cup {c}
    BY <1>2, <1>6, LastJoins
  <2>3. Cardinality(held) = MaxConns
    BY <1>2, <1>3, <1>6 DEF ConnectionFree
  <2>4. /\ held = {d \in Client : pc'[d] = "statement"}
        /\ ToSet(waiters') = {d \in Client : pc'[d] = "waiting"}
    BY <1>1, <1>2, <2>1, <2>2
  <2>5. Pool'
    BY <1>2, <1>6, <2>2, <2>3, <2>4 DEF Pool, ConnectionsFollowStatements, NobodyWaitsInVain
  <2>6. PoolTypes'
    BY <1>2, <1>6, <2>2 DEF PoolTypes, Place
  <2> QED
    BY <2>5, <2>6
<1> QED
  BY <1>4, <1>5, <1>6 DEF Acquire
-----------------------------------------------------------------------------
(* The invariant.                                                          *)

Invariant == TypeOK /\ LifecycleInv

\* What the invariant says beside the pool.
Server ==
  /\ \A c \in Client : pc[c] \in Asking => left[c] > 0
  /\ main = "draining" \/ (main = "closing" /\ outcome = "ok") => listener # "open"
  /\ CleanExitCutsNobodyOff

\* The types of everything that is not the pool.
OtherTypes ==
  /\ main \in {"loading", "connecting", "migrating", "serving", "draining", "closing", "exited"}
  /\ outcome \in {"none", "ok", "error"}
  /\ listener \in {"off", "starting", "open", "failed", "closed"}
  /\ signalled \in BOOLEAN /\ hung \in BOOLEAN
  /\ left \in [Client -> 0 .. MaxStatements]
  /\ pinging \subseteq Client

\* The invariant in parts, before and after a step.
LEMMA Parts == Invariant => PoolTypes /\ OtherTypes /\ Pool /\ Server
BY DEF Invariant, LifecycleInv, Pool, Server, Asking, TypeOK, PoolTypes, OtherTypes, Place

LEMMA PartsNext == PoolTypes' /\ OtherTypes' /\ Pool' /\ Server' => Invariant'
BY DEF Invariant, LifecycleInv, Pool, Server, Asking, TypeOK, PoolTypes, OtherTypes, Place

\* The process starts in the invariant.
LEMMA InvariantInit == Init => Invariant
<1> SUFFICES ASSUME Init PROVE Invariant
  OBVIOUS
<1> USE DEF Init
<1>0. left \in [Client -> 0 .. MaxStatements]
  <2>1. 0 \in 0 .. MaxStatements
    BY LifecycleAssumption
  <2> QED
    BY <2>1
<1>1. OtherTypes
  BY <1>0 DEF OtherTypes
<1>2. PoolTypes
  BY EmptySeq DEF PoolTypes, Place
<1>3. {c \in Client : pc[c] = "statement"} = {} /\ {c \in Client : pc[c] = "waiting"} = {}
  OBVIOUS
<1>4. Cardinality({}) = 0 /\ IsFiniteSet({}) /\ ToSet(<<>>) = {} /\ IsInjective(<<>>)
  BY FS_EmptySet DEF ToSet, IsInjective
<1>5. Pool
  BY <1>3, <1>4, LifecycleAssumption DEF Pool, ConnectionsFollowStatements, NobodyWaitsInVain
<1>6. Server
  BY DEF Server, CleanExitCutsNobodyOff, Asking
<1> QED
  BY <1>1, <1>2, <1>5, <1>6
     DEF Invariant, LifecycleInv, Pool, Server, Asking, TypeOK, PoolTypes, OtherTypes, Place

\* What only main and the listener do: the pool and the requests stay as they are.
LEMMA ProcessStep ==
  ASSUME Invariant, Load \/ Prepare \/ Listen \/ Signal \/ StopServing \/ ShutdownReturns
                      \/ DatabaseHangs
  PROVE  Invariant'
<1>1. PoolTypes /\ OtherTypes /\ Pool /\ Server
  BY Parts
<1>2. UNCHANGED requests
  BY DEF Load, Prepare, Listen, Signal, StopServing, ShutdownReturns, DatabaseHangs
<1>3. PoolTypes' /\ Pool'
  BY <1>1, <1>2 DEF PoolTypes, Pool, ConnectionsFollowStatements, NobodyWaitsInVain, requests
<1>4. OtherTypes'
  BY <1>1, <1>2 DEF OtherTypes, requests, process, Load, Prepare, Listen, Signal, StopServing,
     ShutdownReturns, DatabaseHangs
<1>5. \A c \in Client : pc'[c] \in Asking => left'[c] > 0
  BY <1>1, <1>2 DEF Server, requests
<1>6. /\ main' = "draining" \/ (main' = "closing" /\ outcome' = "ok") => listener' # "open"
      /\ CleanExitCutsNobodyOff'
  <2> USE <1>1, <1>2 DEF Server, CleanExitCutsNobodyOff, requests, process
  <2>1. CASE Load
    BY <2>1 DEF Load
  <2>2. CASE Prepare
    BY <2>2 DEF Prepare
  <2>3. CASE Listen
    BY <2>3 DEF Listen
  <2>4. CASE Signal \/ DatabaseHangs
    BY <2>4 DEF Signal, DatabaseHangs
  <2>5. CASE StopServing
    BY <2>5 DEF StopServing
  <2>6. CASE ShutdownReturns
    BY <2>6 DEF ShutdownReturns, Drained
  <2> QED
    BY <2>1, <2>2, <2>3, <2>4, <2>5, <2>6
<1>7. Server'
  BY <1>5, <1>6 DEF Server
<1> QED
  BY <1>3, <1>4, <1>7, PartsNext

\* The process ends when the last connection is returned.
LEMMA ExitStep == Invariant /\ Exit => Invariant'
<1> SUFFICES ASSUME Invariant, Exit PROVE Invariant'
  OBVIOUS
<1> USE DEF Exit
<1>1. PoolTypes /\ OtherTypes /\ Pool /\ Server
  BY Parts
<1>2. PoolTypes' /\ OtherTypes'
  BY <1>1, LifecycleAssumption, EmptySeq DEF PoolTypes, OtherTypes, Place
<1>3. /\ {c \in Client : pc'[c] = "statement"} = {} /\ {c \in Client : pc'[c] = "waiting"} = {}
      /\ ToSet(<<>>) = {} /\ IsInjective(<<>>)
  BY DEF ToSet, IsInjective
<1>4. Pool'
  BY <1>1, <1>3 DEF Pool, ConnectionsFollowStatements, NobodyWaitsInVain
<1>5. Server'
  BY DEF Server, CleanExitCutsNobodyOff, Asking
<1> QED
  BY <1>2, <1>4, <1>5, PartsNext

\* A request's step that leaves main and the listener alone, lets nobody begin to ask
\* without a statement to make and, unless the listener is open, nobody come.
LEMMA RequestKeepsServer ==
  ASSUME Server, UNCHANGED process,
         \A d \in Client : pc'[d] \in Asking => left'[d] > 0,
         listener # "open" => \A d \in Client : pc[d] = "none" => pc'[d] = "none"
  PROVE  Server'
BY DEF Server, CleanExitCutsNobodyOff, process

\* Steps of a request beside the pool.
LEMMA BesideStep ==
  ASSUME Invariant, NEW c \in Client,
         Connect(c) \/ CloseIdle(c) \/ Arrive(c) \/ Finish(c) \/ Answer(c)
  PROVE  Invariant'
<1>1. PoolTypes /\ OtherTypes /\ Pool /\ Server
  BY Parts
<1>2. PICK place \in Place \ Asking : pc' = [pc EXCEPT ![c] = place]
  BY DEF Connect, CloseIdle, Arrive, Finish, Answer, Place, Asking
<1>3. /\ pc[c] \notin Asking /\ UNCHANGED <<held, waiters, process, hung>>
      /\ listener # "open" => pc[c] # "none"
  BY DEF Connect, CloseIdle, Arrive, Finish, Answer, Asking
<1>4. PoolTypes' /\ Pool'
  BY <1>1, <1>2, <1>3, MovesBesidePool
<1>5. \A d \in Client \ {c} : left'[d] = left[d] /\ pc'[d] = pc[d]
  BY <1>1, <1>2 DEF Connect, CloseIdle, Arrive, Finish, Answer, PoolTypes, OtherTypes
<1>6. left' \in [Client -> 0 .. MaxStatements] /\ pinging' \subseteq Client
  BY <1>1, LifecycleAssumption DEF Connect, CloseIdle, Arrive, Finish, Answer, OtherTypes
<1>7. OtherTypes'
  BY <1>1, <1>3, <1>6 DEF OtherTypes, process
<1>8. pc'[c] \notin Asking
  BY <1>1, <1>2 DEF PoolTypes
<1>9. Server'
  BY <1>1, <1>3, <1>5, <1>8, RequestKeepsServer DEF Server
<1> QED
  BY <1>4, <1>7, <1>9, PartsNext

\* A request needs a connection.
LEMMA AcquireStep ==
  ASSUME Invariant, NEW c \in Client, Acquire(c)
  PROVE  Invariant'
<1>1. PoolTypes /\ OtherTypes /\ Pool /\ Server
  BY Parts
<1>2. PoolTypes' /\ Pool'
  BY <1>1, AcquireKeepsPool
<1>3. /\ pc[c] = "working" /\ left[c] > 0 /\ UNCHANGED <<process, hung, left, pinging>>
      /\ \E place \in Place : pc' = [pc EXCEPT ![c] = place]
  BY DEF Acquire, Place
<1>4. OtherTypes'
  BY <1>1, <1>3 DEF OtherTypes, process
<1>5. \A d \in Client : pc'[d] \in Asking => left'[d] > 0
  BY <1>1, <1>3 DEF Server, PoolTypes
<1>6. \A d \in Client : pc[d] = "none" => pc'[d] = "none"
  BY <1>1, <1>3 DEF PoolTypes
<1>7. Server'
  BY <1>1, <1>3, <1>5, <1>6, RequestKeepsServer
<1> QED
  BY <1>2, <1>4, <1>7, PartsNext

\* A request is done with its connection, or gives up.
LEMMA StopsAskingStep ==
  ASSUME Invariant, NEW c \in Client, Executed(c) \/ Interrupted(c) \/ PingExpires(c)
  PROVE  Invariant'
<1>1. PoolTypes /\ OtherTypes /\ Pool /\ Server
  BY Parts
<1>2. PoolTypes' /\ Pool' /\ OnlyStopsAsking(c)
  <2>1. CASE Executed(c)
    BY <1>1, <2>1, ReleaseKeepsPool DEF Executed, AfterStatement
  <2>2. CASE Interrupted(c) \/ PingExpires(c)
    BY <1>1, <2>2, GiveUpKeepsPool DEF Interrupted, PingExpires
  <2> QED
    BY <2>1, <2>2
<1>3. UNCHANGED <<process, hung, pinging>>
  BY DEF Executed, Interrupted, PingExpires
<1>4. /\ left' \in [Client -> 0 .. MaxStatements]
      /\ \A d \in Client \ {c} : left'[d] = left[d]
  <2>1. CASE Executed(c)
    <3>1. pc[c] = "statement" /\ left' = [left EXCEPT ![c] = left[c] - 1]
      BY <2>1 DEF Executed, Remaining
    <3>2. left[c] \in 0 .. MaxStatements /\ left[c] > 0 /\ MaxStatements \in Nat
      BY <1>1, <3>1, LifecycleAssumption DEF Server, OtherTypes, Asking
    <3>3. left[c] - 1 \in 0 .. MaxStatements
      BY <3>2
    <3> QED
      BY <1>1, <3>1, <3>3 DEF OtherTypes
  <2>2. CASE Interrupted(c) \/ PingExpires(c)
    BY <1>1, <2>2 DEF Interrupted, PingExpires, OtherTypes
  <2> QED
    BY <2>1, <2>2
<1>5. OtherTypes'
  BY <1>1, <1>3, <1>4 DEF OtherTypes, process
<1>6. \A d \in Client : pc'[d] \in Asking => left'[d] > 0
  BY <1>1, <1>2, <1>4 DEF Server, OnlyStopsAsking
<1>7. \A d \in Client : pc[d] = "none" => pc'[d] = "none"
  BY <1>2 DEF OnlyStopsAsking
<1>8. Server'
  BY <1>1, <1>3, <1>6, <1>7, RequestKeepsServer
<1> QED
  BY <1>2, <1>5, <1>8, PartsNext

\* Every step keeps the invariant.
LEMMA InvariantStep == Invariant /\ [Next]_vars => Invariant'
<1> SUFFICES ASSUME Invariant, [Next]_vars PROVE Invariant'
  OBVIOUS
<1>1. CASE \E c \in Client : ServerStep(c) \/ Connect(c) \/ CloseIdle(c) \/ Arrive(c)
                               \/ Interrupted(c) \/ PingExpires(c)
  BY <1>1, BesideStep, AcquireStep, StopsAskingStep DEF ServerStep
<1>2. CASE Exit
  BY <1>2, ExitStep
<1>3. CASE Load \/ Prepare \/ Listen \/ Signal \/ StopServing \/ ShutdownReturns \/ DatabaseHangs
  BY <1>3, ProcessStep
<1>4. CASE UNCHANGED vars
  BY <1>4 DEF vars, Invariant, TypeOK, LifecycleInv, ConnectionsFollowStatements,
     NobodyWaitsInVain, CleanExitCutsNobodyOff
<1> QED
  BY <1>1, <1>2, <1>3, <1>4 DEF Next

-----------------------------------------------------------------------------
\* The inductive invariant of the process, for any number of clients and connections.
THEOREM LifecycleInvariant == Spec => []LifecycleInv
<1>1. Spec => []Invariant
  BY InvariantInit, InvariantStep, PTL DEF Spec
<1> QED
  BY <1>1, PTL DEF Invariant

\* Type correctness of Lifecycle.
THEOREM LifecycleTypeCorrect == Spec => []TypeOK
<1>1. Spec => []Invariant
  BY InvariantInit, InvariantStep, PTL DEF Spec
<1> QED
  BY <1>1, PTL DEF Invariant

\* No path through errors, timeouts and shutdown loses a connection of the pool, and
\* the requests never hold more than it has.
THEOREM NoConnectionLost == Spec => []ConnectionsFollowStatements
BY LifecycleInvariant, PTL DEF LifecycleInv

\* Nobody waits beside a free connection.
THEOREM NobodyWaitsBesideFree == Spec => []NobodyWaitsInVain
BY LifecycleInvariant, PTL DEF LifecycleInv

\* A process that reports success has cut no request off.
THEOREM CleanExit == Spec => []CleanExitCutsNobodyOff
BY LifecycleInvariant, PTL DEF LifecycleInv
=============================================================================
