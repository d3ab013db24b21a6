--------------------------- MODULE EventLoopProofs ---------------------------
(***************************************************************************)
(* Proofs about the event loop of hostapd, for any timeouts, delays,        *)
(* sockets and signals: the state has its types, the loop sleeps until the  *)
(* first timeout, handlers are called for reported descriptors only, and    *)
(* the sorted list implements the promise of Timers.                        *)
(***************************************************************************)
EXTENDS EventLoop, FiniteSetTheorems, FunctionTheorems, TLAPS

(* The places of e in a list.                                               *)
Places(q, e) == {i \in DOMAIN q : q[i] = e}

Sorted(q) == \A i, j \in DOMAIN q : i <= j => q[i].time <= q[j].time

(* A list without those of K, in the order of the list.                     *)
Kept(q, K) == {i \in DOMAIN q : q[i].key \notin K}
Cancelled(p, q, K) ==
  \E f \in [1 .. Cardinality(Kept(q, K)) -> Kept(q, K)] :
    /\ \A i, j \in DOMAIN f : i < j => f[i] < f[j]
    /\ p = [i \in DOMAIN f |-> q[f[i]]]
-----------------------------------------------------------------------------
(* Finite sets.                                                             *)
LEMMA SameSize ==
  ASSUME NEW S, NEW T, IsFiniteSet(S), NEW f \in [S -> T],
         \A a, b \in S : f[a] = f[b] => a = b,
         \A t \in T : \E a \in S : f[a] = t
  PROVE  IsFiniteSet(T) /\ Cardinality(T) = Cardinality(S)
<1>1. f \in Bijection(S, T)
  BY DEF Bijection, Injection, Surjection, IsInjective
<1>2. ExistsBijection(S, T)
  BY <1>1 DEF ExistsBijection
<1> QED BY <1>2, FS_Bijection

LEMMA PlacesFinite ==
  ASSUME NEW q \in Seq(Entries), NEW x
  PROVE  IsFiniteSet(Places(q, x)) /\ Cardinality(Places(q, x)) \in Nat
<1>1. Places(q, x) \subseteq 1 .. Len(q) /\ Len(q) \in Nat
  BY DEF Places
<1>2. IsFiniteSet(1 .. Len(q))
  BY <1>1, FS_Interval
<1>3. IsFiniteSet(Places(q, x))
  BY <1>1, <1>2, FS_Subset
<1> QED BY <1>3, FS_CardinalityType
-----------------------------------------------------------------------------
(* What the operations do to a sorted list.                                 *)
LEMMA InsertSorted ==
  ASSUME NEW q \in Seq(Entries), Sorted(q), NEW e \in Entries,
         NEW j \in Place(q, e)
  PROVE  /\ Inserted(q, e, j) \in Seq(Entries)
         /\ Len(Inserted(q, e, j)) = Len(q) + 1
         /\ Sorted(Inserted(q, e, j))
<1> DEFINE p == Inserted(q, e, j)
           n == Len(q)
<1>1. n \in Nat /\ DOMAIN q = 1 .. n /\ \A i \in 1 .. n : q[i] \in Entries
  OBVIOUS
<1>2. p = [i \in 1 .. n + 1 |-> IF i < j THEN q[i] ELSE IF i = j THEN e
                                ELSE q[i - 1]]
  BY DEF Inserted
<1>3. /\ j \in 1 .. n + 1
      /\ \A i \in 1 .. (j - 1) : ~(e.time < q[i].time)
      /\ j <= n => e.time < q[j].time
  BY DEF Place
<1>4. \A i \in 1 .. n + 1 : p[i] \in Entries
  BY <1>1, <1>2, <1>3
<1>5. p \in Seq(Entries) /\ Len(p) = n + 1 /\ DOMAIN p = 1 .. n + 1
  BY <1>1, <1>2, <1>4
<1>6. ASSUME NEW x \in Entries
      PROVE  x.time \in Nat
  BY EventLoopAssumption DEF Entries
<1>7. \A i \in 1 .. (j - 1) : q[i].time <= e.time
  BY <1>1, <1>3, <1>6
<1>8. \A i \in j .. n : e.time <= q[i].time
  BY <1>1, <1>3, <1>6 DEF Sorted
<1>9. ASSUME NEW a \in 1 .. n + 1, NEW b \in 1 .. n + 1, a <= b
      PROVE  p[a].time <= p[b].time
  <2> HIDE DEF p, n
  <2>1. CASE a < j /\ b < j
    <3>1. a \in 1 .. n /\ b \in 1 .. n /\ p[a] = q[a] /\ p[b] = q[b]
      BY <2>1, <1>1, <1>2, <1>3
    <3> QED BY <3>1, <1>1, <1>9 DEF Sorted
  <2>2. CASE a < j /\ b = j
    BY <2>2, <1>1, <1>2, <1>3, <1>7, <1>9
  <2>3. CASE a < j /\ b > j
    <3>1. /\ a \in 1 .. n /\ b - 1 \in 1 .. n /\ a <= b - 1
          /\ p[a] = q[a] /\ p[b] = q[b - 1]
      BY <2>3, <1>1, <1>2, <1>3
    <3> QED BY <3>1, <1>1 DEF Sorted
  <2>4. CASE a = j /\ b = j
    BY <2>4, <1>2, <1>6
  <2>5. CASE a = j /\ b > j
    <3>1. b - 1 \in j .. n
      BY <2>5, <1>1, <1>3
    <3> QED BY <3>1, <2>5, <1>2, <1>8
  <2>6. CASE a > j
    <3>1. /\ a - 1 \in 1 .. n /\ b - 1 \in 1 .. n /\ a - 1 <= b - 1
          /\ p[a] = q[a - 1] /\ p[b] = q[b - 1]
      BY <2>6, <1>1, <1>2, <1>3, <1>9
    <3> QED BY <3>1, <1>1 DEF Sorted
  <2> QED BY <2>1, <2>2, <2>3, <2>4, <2>5, <2>6, <1>1, <1>3, <1>9
<1>10. Sorted(p)
  BY <1>5, <1>9 DEF Sorted
<1> QED BY <1>5, <1>10

LEMMA InsertCounts ==
  ASSUME NEW q \in Seq(Entries), NEW e \in Entries, NEW j \in 1 .. Len(q) + 1,
         NEW x
  PROVE  Cardinality(Places(Inserted(q, e, j), x)) =
           Cardinality(Places(q, x)) + (IF x = e THEN 1 ELSE 0)
<1> DEFINE p == Inserted(q, e, j)
           n == Len(q)
           P == Places(p, x) \ {j}
           Q == Places(q, x)
           f == [i \in Q |-> IF i < j THEN i ELSE i + 1]
<1>1. n \in Nat /\ DOMAIN q = 1 .. n /\ Q = {i \in 1 .. n : q[i] = x}
  BY DEF Places
<1>2. p = [i \in 1 .. n + 1 |-> IF i < j THEN q[i] ELSE IF i = j THEN e
                                ELSE q[i - 1]]
  BY DEF Inserted
<1>3. Places(p, x) = {i \in 1 .. n + 1 : p[i] = x}
  BY <1>1, <1>2 DEF Places
<1> HIDE DEF p
<1>4. f \in [Q -> P]
  <2> SUFFICES ASSUME NEW i \in Q
               PROVE  (IF i < j THEN i ELSE i + 1) \in P
    OBVIOUS
  <2>1. i \in 1 .. n /\ q[i] = x
    BY <1>1
  <2>2. CASE i < j
    <3>1. i \in 1 .. n + 1 /\ p[i] = q[i]
      BY <2>1, <2>2, <1>1, <1>2
    <3> QED BY <3>1, <2>1, <2>2, <1>3
  <2>3. CASE ~(i < j)
    <3>1. i + 1 \in 1 .. n + 1 /\ i + 1 > j /\ i + 1 - 1 = i
      BY <2>1, <2>3, <1>1
    <3>2. p[i + 1] = q[i]
      BY <3>1, <1>1, <1>2
    <3> QED BY <3>1, <3>2, <2>1, <2>3, <1>3
  <2> QED BY <2>2, <2>3
<1>5. \A a, b \in Q : f[a] = f[b] => a = b
  BY <1>1
<1>6. ASSUME NEW t \in P
      PROVE  \E a \in Q : f[a] = t
  <2>1. CASE t < j
    <3>1. t \in Q
      BY <2>1, <1>1, <1>2, <1>3
    <3> QED BY <2>1, <3>1
  <2>2. CASE t > j
    <3>1. t - 1 \in Q /\ t - 1 >= j /\ (t - 1) + 1 = t
      BY <2>2, <1>1, <1>2, <1>3
    <3>2. PICK u \in Q : u >= j /\ u + 1 = t
      BY <3>1
    <3>3. ~(u < j)
      BY <3>2, <1>1
    <3>4. f[u] = u + 1
      BY <3>3
    <3> QED BY <3>2, <3>4
  <2> QED BY <2>1, <2>2, <1>1, <1>3
<1>7. IsFiniteSet(Q) /\ Cardinality(Q) \in Nat
  BY PlacesFinite
<1> HIDE DEF f
<1>8. IsFiniteSet(P) /\ Cardinality(P) = Cardinality(Q)
  BY <1>4, <1>5, <1>6, <1>7, SameSize
<1>9. CASE x = e
  <2>1. Places(p, x) = P \cup {j}
    BY <1>1, <1>2, <1>3, <1>9
  <2>2. Cardinality(P \cup {j}) = Cardinality(P) + 1
    BY <1>8, FS_AddElement
  <2> QED BY <1>8, <1>9, <2>1, <2>2 DEF p
<1>10. CASE x # e
  <2>1. Places(p, x) = P
    BY <1>1, <1>2, <1>3, <1>10
  <2>2. Cardinality(Places(p, x)) = Cardinality(Q) + 0
    BY <1>7, <1>8, <2>1, SMTT(30)
  <2> QED BY <1>10, <2>2 DEF p
<1> QED BY <1>9, <1>10

LEMMA FirstEntry ==
  ASSUME NEW q \in Seq(Entries), q # <<>>
  PROVE  q[1] \in Entries /\ q[1].time \in 0 .. MaxTime /\ 1 \in DOMAIN q
<1>1. Len(q) \in Nat /\ Len(q) # 0
  OBVIOUS
<1>2. q[1] \in Entries /\ 1 \in DOMAIN q
  BY <1>1
<1> QED BY <1>2 DEF Entries

LEMMA TailSorted ==
  ASSUME NEW q \in Seq(Entries), Sorted(q), q # <<>>
  PROVE  /\ Tail(q) \in Seq(Entries) /\ Len(Tail(q)) = Len(q) - 1
         /\ Sorted(Tail(q))
<1>1. Tail(q) \in Seq(Entries) /\ Len(Tail(q)) = Len(q) - 1
  OBVIOUS
<1>2. \A i \in 1 .. Len(q) - 1 : Tail(q)[i] = q[i + 1] /\ i + 1 \in 1 .. Len(q)
  OBVIOUS
<1>3. DOMAIN Tail(q) = 1 .. Len(q) - 1 /\ DOMAIN q = 1 .. Len(q) /\ Len(q) \in Nat
  BY <1>1
<1> QED BY <1>1, <1>2, <1>3 DEF Sorted

LEMMA TailCounts ==
  ASSUME NEW q \in Seq(Entries), q # <<>>, NEW x
  PROVE  Cardinality(Places(Tail(q), x)) =
           Cardinality(Places(q, x)) - (IF x = q[1] THEN 1 ELSE 0)
<1> DEFINE p == Tail(q)
           n == Len(q)
           P == Places(p, x)
           Q == Places(q, x) \ {1}
           f == [i \in P |-> i + 1]
<1>1. n \in Nat /\ n >= 1 /\ DOMAIN q = 1 .. n
  OBVIOUS
<1>2. p \in Seq(Entries) /\ DOMAIN p = 1 .. n - 1
      /\ \A i \in 1 .. n - 1 : p[i] = q[i + 1]
  OBVIOUS
<1>3. P = {i \in 1 .. n - 1 : q[i + 1] = x}
  BY <1>2 DEF Places
<1>4. Places(q, x) = {i \in 1 .. n : q[i] = x}
  BY <1>1 DEF Places
<1>5. f \in [P -> Q]
  BY <1>1, <1>3, <1>4
<1>6. \A a, b \in P : f[a] = f[b] => a = b
  BY <1>1, <1>3
<1>7. ASSUME NEW t \in Q
      PROVE  \E a \in P : f[a] = t
  <2>1. t - 1 \in P /\ (t - 1) + 1 = t
    BY <1>1, <1>3, <1>4
  <2>2. PICK u \in P : u + 1 = t
    BY <2>1
  <2> QED BY <2>2
<1>8. IsFiniteSet(P) /\ Cardinality(P) \in Nat
  BY <1>2, PlacesFinite
<1> HIDE DEF f, p
<1>9. IsFiniteSet(Q) /\ Cardinality(Q) = Cardinality(P)
  BY <1>5, <1>6, <1>7, <1>8, SameSize
<1> DEFINE R == Places(q, x)
<1> HIDE DEF P, Q, R
<1>10. CASE x = q[1]
  <2>1. R = Q \cup {1} /\ 1 \notin Q
    BY <1>1, <1>4, <1>10 DEF Q, R
  <2>2. Cardinality(R) = Cardinality(Q) + 1
    BY <1>9, <2>1, FS_AddElement
  <2> QED BY <1>8, <1>9, <1>10, <2>2 DEF p, P, R
<1>11. CASE x # q[1]
  <2>1. R = Q
    BY <1>1, <1>4, <1>11 DEF Q, R
  <2>2. Cardinality(P) = Cardinality(R) - 0
    BY <1>8, <1>9, <2>1
  <2> QED BY <1>11, <2>2 DEF p, P, R
<1> QED BY <1>10, <1>11

LEMMA KeptOrder ==
  ASSUME NEW q \in Seq(Entries), NEW K,
         NEW f \in [1 .. Cardinality(Kept(q, K)) -> Kept(q, K)],
         \A i, j \in DOMAIN f : i < j => f[i] < f[j]
  PROVE  /\ Cardinality(Kept(q, K)) \in Nat
         /\ Cardinality(Kept(q, K)) <= Len(q)
         /\ f \in Bijection(1 .. Cardinality(Kept(q, K)), Kept(q, K))
<1> DEFINE S == Kept(q, K)
           n == Cardinality(S)
<1>1. S \subseteq 1 .. Len(q) /\ Len(q) \in Nat
  BY DEF Kept
<1>2. IsFiniteSet(1 .. Len(q)) /\ Cardinality(1 .. Len(q)) = Len(q)
  BY <1>1, FS_Interval
<1>3. IsFiniteSet(S) /\ n <= Len(q)
  BY <1>1, <1>2, FS_Subset
<1>4. n \in Nat
  BY <1>3, FS_CardinalityType
<1>5. Cardinality(1 .. n) = n
  BY <1>4, FS_Interval
<1>6. DOMAIN f = 1 .. n
  OBVIOUS
<1> HIDE DEF n, S
<1>7. \A a \in 1 .. n : f[a] \in Int
  BY <1>1 DEF n, S
<1>8. \A a, b \in 1 .. n : f[a] = f[b] => a = b
  BY <1>4, <1>6, <1>7
<1>9. f \in Injection(1 .. n, S)
  BY <1>6, <1>8 DEF Injection, IsInjective, n, S
<1>10. f \in Surjection(1 .. n, S)
  BY <1>3, <1>5, <1>9, FS_Injection DEF n
<1> QED BY <1>3, <1>4, <1>9, <1>10 DEF Bijection, n, S

LEMMA CancelSorted ==
  ASSUME NEW q \in Seq(Entries), Sorted(q), NEW K, NEW p, Cancelled(p, q, K)
  PROVE  p \in Seq(Entries) /\ Len(p) <= Len(q) /\ Sorted(p)
<1> DEFINE n == Cardinality(Kept(q, K))
<1>1. PICK f \in [1 .. n -> Kept(q, K)] :
        /\ \A i, j \in DOMAIN f : i < j => f[i] < f[j]
        /\ p = [i \in DOMAIN f |-> q[f[i]]]
  BY DEF Cancelled
<1>2. n \in Nat /\ n <= Len(q)
  BY <1>1, KeptOrder
<1> HIDE DEF n
<1>3. \A i \in 1 .. n : f[i] \in DOMAIN q /\ f[i] \in Int
  BY DEF Kept
<1>4. p = [i \in 1 .. n |-> q[f[i]]]
  BY <1>1
<1>5. p \in Seq(Entries) /\ Len(p) = n /\ DOMAIN p = 1 .. n
  BY <1>2, <1>3, <1>4
<1>6. \A i, j \in 1 .. n : i <= j => f[i] <= f[j]
  BY <1>1, <1>2, <1>3, SMTT(30)
<1>7. \A i, j \in 1 .. n : i <= j => p[i].time <= p[j].time
  BY <1>3, <1>4, <1>6 DEF Sorted
<1> QED BY <1>2, <1>5, <1>7 DEF Sorted

LEMMA CancelCounts ==
  ASSUME NEW q \in Seq(Entries), NEW K, NEW p, Cancelled(p, q, K),
         NEW x \in Entries
  PROVE  Cardinality(Places(p, x)) =
           IF x.key \in K THEN 0 ELSE Cardinality(Places(q, x))
<1> DEFINE n == Cardinality(Kept(q, K))
           P == Places(p, x)
           Q == Places(q, x)
<1>1. PICK f \in [1 .. n -> Kept(q, K)] :
        /\ \A i, j \in DOMAIN f : i < j => f[i] < f[j]
        /\ p = [i \in DOMAIN f |-> q[f[i]]]
  BY DEF Cancelled
<1>2. n \in Nat /\ f \in Bijection(1 .. n, Kept(q, K))
  BY <1>1, KeptOrder
<1> HIDE DEF n
<1>6. /\ \A a, b \in 1 .. n : f[a] = f[b] => a = b
      /\ \A t \in Kept(q, K) : \E a \in 1 .. n : f[a] = t
  BY <1>2 DEF Bijection, Injection, Surjection, IsInjective
<1>3. P = {i \in 1 .. n : q[f[i]] = x}
  BY <1>1 DEF Places
<1>4. CASE x.key \in K
  <2>1. P = {}
    BY <1>3, <1>4 DEF Kept
  <2> QED BY <1>4, <2>1, FS_EmptySet
<1>5. CASE x.key \notin K
  <2> DEFINE g == [i \in P |-> f[i]]
  <2>1. g \in [P -> Q]
    BY <1>3 DEF Kept, Places
  <2>2. \A a, b \in P : g[a] = g[b] => a = b
    BY <1>6, <1>3
  <2>3. \A t \in Q : \E a \in P : g[a] = t
    BY <1>6, <1>3, <1>5 DEF Kept, Places
  <2>4. IsFiniteSet(P)
    <3>1. IsFiniteSet(1 .. n)
      BY <1>2, FS_Interval
    <3> QED BY <3>1, <1>3, FS_Subset
  <2> HIDE DEF g
  <2> QED BY <1>5, <2>1, <2>2, <2>3, <2>4, SameSize
<1> QED BY <1>4, <1>5
-----------------------------------------------------------------------------
(* The inductive invariant.                                                 *)

(* The list of timeouts is sorted; in select, its rest is what lies between *)
(* the clock, less the steps that it has made since, and the first timeout. *)
Rest == timeout[1].time + skew - now

TimesOK ==
  /\ now \in 0 .. MaxTime /\ steps \in 0 .. MaxSteps /\ skew \in Int
  /\ timeout \in Seq(Entries) /\ Len(timeout) <= MaxTimeouts
  /\ Sorted(timeout)
  /\ left \in {Forever} \cup 0 .. MaxTime
  /\ pc # "select" => skew = 0
  /\ pc = "select" /\ timeout = <<>> => left = Forever /\ skew = 0
  /\ pc = "select" /\ timeout # <<>> =>
       /\ Rest \in -MaxTime .. MaxTime
       /\ left = IF Rest > 0 THEN Rest ELSE 0

(* The handler that runs is the one of the place where eloop_run is.        *)
PlaceOK ==
  /\ signaled \in BOOLEAN /\ caught \subseteq {"SIGHUP", "SIGTERM"}
  /\ armed \in BOOLEAN /\ terminate \in BOOLEAN
  /\ pc \in {"while", "select", "signals", "deliver", "timers", "dispatch",
             "handler", "over", "killed"}
  /\ tab \in 1 .. 3
  /\ running.of \in {"none", "main", "signal", "timer", "sock"}
  /\ Handling <=> running.of # "none"
  /\ running.of = "timer" => running.entry \in Entries

(* No descriptor is twice in a table; what handlers of a dispatch register  *)
(* in its table sets the flag, which ends the dispatch.                     *)
Once(q) == \A i, j \in DOMAIN q : q[i] = q[j] => i = j

TablesOK ==
  /\ table = [t \in TableNames |-> table[t]]
  /\ \A t \in TableNames : table[t] \in Seq(Sockets[t]) /\ Once(table[t])
  /\ \A t \in TableNames : fds[t] \subseteq Sockets[t]
  /\ changed \in BOOLEAN /\ fresh \subseteq Sockets[Tables[tab]]
  /\ fresh # {} => changed
  /\ pc = "dispatch" => ~changed

IInv == TimesOK /\ PlaceOK /\ TablesOK
-----------------------------------------------------------------------------
(* The timeouts and the clock.                                              *)
LEMMA TimesKept ==
  ASSUME TimesOK, UNCHANGED <<clock, timeout, left>>,
         pc # "select", pc' # "select"
  PROVE  TimesOK'
BY DEF TimesOK, clock, Rest, Sorted

LEMMA TimesWoken ==
  ASSUME TimesOK, NEW p, p # "select", Wakes(p), UNCHANGED <<now, steps>>,
         timeout' = timeout \/ timeout' = <<>>
  PROVE  TimesOK'
<1>1. Sorted(<<>>) /\ <<>> \in Seq(Entries) /\ Len(<<>>) <= MaxTimeouts
  BY EventLoopAssumption DEF Sorted
<1>2. Sorted(timeout')
  BY <1>1 DEF TimesOK
<1>3. timeout' \in Seq(Entries) /\ Len(timeout') <= MaxTimeouts
  BY <1>1 DEF TimesOK
<1>4. 0 \in 0 .. MaxTime
  BY EventLoopAssumption
<1> QED BY <1>2, <1>3, <1>4 DEF TimesOK, Wakes, Rest

LEMMA TimesOperation ==
  ASSUME TimesOK, Operation
  PROVE  TimesOK'
<1>1. timeout \in Seq(Entries) /\ Sorted(timeout) /\ Len(timeout) \in Nat
  BY DEF TimesOK
<1>2. ASSUME RegisterTimeout
      PROVE  TimesOK'
  <2>1. PICK k \in Keys, d \in Delays :
          /\ Handling /\ Len(timeout) < MaxTimeouts /\ now + d <= MaxTime
          /\ \E j \in Place(timeout, [key |-> k, time |-> now + d]) :
               timeout' = Inserted(timeout, [key |-> k, time |-> now + d], j)
          /\ UNCHANGED <<clock, sockets, fds, left, signals, place>>
    BY <1>2 DEF RegisterTimeout
  <2> DEFINE e == [key |-> k, time |-> now + d]
  <2>2. e \in Entries
    BY <2>1, EventLoopAssumption DEF TimesOK, Entries
  <2>3. PICK j \in Place(timeout, e) : timeout' = Inserted(timeout, e, j)
    BY <2>1
  <2> HIDE DEF e
  <2>4. /\ timeout' \in Seq(Entries) /\ Len(timeout') = Len(timeout) + 1
        /\ Sorted(timeout')
    BY <1>1, <2>2, <2>3, InsertSorted
  <2>5. Len(timeout') <= MaxTimeouts
    BY <1>1, <2>1, <2>4, EventLoopAssumption
  <2> QED BY <2>1, <2>4, <2>5 DEF TimesOK, clock, place, Handling, Rest
<1>3. ASSUME CancelTimeout
      PROVE  TimesOK'
  <2>1. PICK K \in SUBSET Keys :
          /\ Handling /\ Cancelled(timeout', timeout, K)
          /\ UNCHANGED <<clock, sockets, fds, left, signals, place>>
    BY <1>3 DEF CancelTimeout, Cancelled, Kept
  <2>2. timeout' \in Seq(Entries) /\ Len(timeout') <= Len(timeout)
        /\ Sorted(timeout')
    BY <1>1, <2>1, CancelSorted
  <2>3. Len(timeout') <= MaxTimeouts
    BY <1>1, <2>2, EventLoopAssumption DEF TimesOK
  <2> QED BY <2>1, <2>2, <2>3 DEF TimesOK, clock, place, Handling, Rest
<1>4. CASE RegisterSock \/ UnregisterSock
  BY <1>4, TimesKept DEF RegisterSock, UnregisterSock, Handling, place
<1> QED BY <1>2, <1>3, <1>4 DEF Operation

LEMMA TimesClock ==
  ASSUME TimesOK, Elapse \/ Busy \/ SetClock
  PROVE  TimesOK'
<1>1. /\ now \in 0 .. MaxTime /\ MaxTime \in Nat /\ skew \in Int
      /\ steps \in 0 .. MaxSteps /\ MaxSteps \in Nat
      /\ left \in {Forever} \cup 0 .. MaxTime /\ Forever = -1
  BY EventLoopAssumption DEF TimesOK, Forever
<1>2. timeout # <<>> => timeout[1].time \in Int
  BY <1>1, FirstEntry DEF TimesOK
<1>3. timeout' = timeout /\ pc' = pc
  BY DEF Elapse, Busy, SetClock, place
<1>4. /\ timeout' \in Seq(Entries) /\ Len(timeout') <= MaxTimeouts
      /\ Sorted(timeout')
  BY <1>3 DEF TimesOK
<1> SUFFICES /\ now' \in 0 .. MaxTime /\ steps' \in 0 .. MaxSteps
             /\ skew' \in Int /\ left' \in {Forever} \cup 0 .. MaxTime
             /\ pc # "select" => skew' = 0
             /\ pc = "select" /\ timeout = <<>> => left' = Forever /\ skew' = 0
             /\ pc = "select" /\ timeout # <<>> =>
                  /\ Rest' \in -MaxTime .. MaxTime
                  /\ left' = IF Rest' > 0 THEN Rest' ELSE 0
  BY <1>3, <1>4 DEF TimesOK
<1>5. Rest' = timeout[1].time + skew' - now'
  BY <1>3 DEF Rest
<1>6. CASE Elapse
  BY <1>1, <1>2, <1>5, <1>6 DEF Elapse, TimesOK, Rest
<1>7. CASE Busy
  BY <1>1, <1>2, <1>5, <1>7 DEF Busy, Handling, TimesOK, Rest
<1>8. CASE SetClock
  BY <1>1, <1>2, <1>5, <1>8 DEF SetClock, TimesOK, Rest
<1> QED BY <1>6, <1>7, <1>8

LEMMA TimesLoop ==
  ASSUME TimesOK, Loop \/ Ready \/ SelectError \/ Signal \/ Alarm
  PROVE  TimesOK'
<1>1. CASE While
  <2>1. CASE pc' = "select"
    <3>1. /\ pc = "while" /\ UNCHANGED <<clock, timeout>> /\ skew = 0
          /\ left' = IF timeout = <<>> THEN Forever ELSE Later(timeout[1])
      BY <1>1, <2>1 DEF While, TimesOK
    <3>2. timeout # <<>> => timeout[1].time \in 0 .. MaxTime
      BY FirstEntry DEF TimesOK
    <3>3. now \in 0 .. MaxTime /\ MaxTime \in Nat
      BY EventLoopAssumption DEF TimesOK
    <3>4. timeout # <<>> =>
            /\ Rest' = timeout[1].time - now
            /\ left' = IF timeout[1].time > now THEN timeout[1].time - now
                                               ELSE 0
      BY <3>1, <3>2, <3>3 DEF Rest, Later, clock
    <3>5. timeout # <<>> =>
            /\ Rest' \in -MaxTime .. MaxTime
            /\ left' = IF Rest' > 0 THEN Rest' ELSE 0
            /\ left' \in 0 .. MaxTime
      BY <3>2, <3>3, <3>4
    <3>6. timeout' \in Seq(Entries) /\ Len(timeout') <= MaxTimeouts
          /\ Sorted(timeout')
      BY <3>1 DEF TimesOK
    <3> QED BY <2>1, <3>1, <3>5, <3>6 DEF TimesOK, clock
  <2>2. CASE pc' # "select"
    <3>1. UNCHANGED <<clock, left>> /\ timeout' = <<>> /\ pc # "select"
      BY <1>1, <2>2 DEF While
    <3>2. Sorted(<<>>) /\ <<>> \in Seq(Entries) /\ Len(<<>>) <= MaxTimeouts
      BY EventLoopAssumption DEF Sorted
    <3>3. /\ timeout' \in Seq(Entries) /\ Len(timeout') <= MaxTimeouts
          /\ Sorted(timeout')
      BY <3>1, <3>2
    <3> QED BY <2>2, <3>1, <3>3 DEF TimesOK, clock
  <2> QED BY <2>1, <2>2
<1>2. CASE Expired \/ Ready
  BY <1>2, TimesWoken DEF Expired, Ready
<1>3. CASE SelectError
  BY <1>3, TimesWoken DEF SelectError
<1>4. CASE Alarm
  BY <1>4, TimesWoken DEF Alarm
<1>5. CASE Signal
  <2>1. UNCHANGED <<now, steps, timeout>>
    BY <1>5 DEF Signal
  <2>2. CASE pc = "select"
    <3>1. Wakes("signals")
      BY <1>5, <2>2 DEF Signal
    <3> QED BY <2>1, <3>1, TimesWoken
  <2>3. CASE pc # "select"
    BY <1>5, <2>3, TimesKept DEF Signal, clock
  <2> QED BY <2>2, <2>3
<1>6. CASE ProcessSignals
  BY <1>6, TimesKept DEF ProcessSignals
<1>7. CASE Deliver
  BY <1>7, TimesKept DEF Deliver
<1>8. CASE ServeTimeout
  <2>1. /\ pc = "timers" /\ UNCHANGED <<clock, left>>
        /\ \/ timeout # <<>> /\ timeout' = Tail(timeout) /\ pc' = "handler"
           \/ timeout' = timeout /\ AfterTimers
    BY <1>8 DEF ServeTimeout
  <2>2. CASE timeout # <<>> /\ timeout' = Tail(timeout) /\ pc' = "handler"
    <3>1. /\ timeout' \in Seq(Entries) /\ Len(timeout') = Len(timeout) - 1
          /\ Sorted(timeout')
      BY <2>2, TailSorted DEF TimesOK
    <3>2. Len(timeout') <= MaxTimeouts
      BY <3>1, EventLoopAssumption DEF TimesOK
    <3> QED BY <2>1, <2>2, <3>1, <3>2 DEF TimesOK, clock
  <2>3. CASE timeout' = timeout /\ AfterTimers
    <3>1. pc' # "select"
      BY <2>3 DEF AfterTimers, Begin
    <3> QED BY <2>1, <2>3, <3>1, TimesKept
  <2> QED BY <2>1, <2>2, <2>3
<1>9. CASE Dispatch
  <2>1. pc = "dispatch" /\ UNCHANGED <<clock, timeout, left>> /\ pc' # "select"
    BY <1>9 DEF Dispatch, Begin
  <2> QED BY <2>1, TimesKept
<1>10. CASE Return
  <2>1. pc = "handler" /\ UNCHANGED <<clock, timeout, left>> /\ pc' # "select"
    BY <1>10 DEF Return, Handling, AfterTimers, AfterSock, Begin
  <2> QED BY <2>1, TimesKept
<1> QED BY <1>1, <1>2, <1>3, <1>4, <1>5, <1>6, <1>7, <1>8, <1>9, <1>10 DEF Loop
-----------------------------------------------------------------------------
(* The place of eloop_run and the handler that runs.                        *)
LEMMA PlaceKept ==
  ASSUME PlaceOK, UNCHANGED <<signals, place>>
  PROVE  PlaceOK'
BY DEF PlaceOK, signals, place, Handling

LEMMA BeginPlace ==
  ASSUME NEW t \in 1 .. 4, Begin(t)
  PROVE  pc' \in {"dispatch", "while"} /\ tab' \in 1 .. 3
<1>1. Len(Tables) = 3
  BY DEF Tables
<1> QED BY <1>1 DEF Begin

LEMMA AfterTimersPlace ==
  ASSUME AfterTimers
  PROVE  pc' \in {"dispatch", "while"} /\ tab' \in 1 .. 3
<1> DEFINE t == IF fds = NoFds THEN Len(Tables) + 1 ELSE 1
<1>3. Len(Tables) = 3
  BY DEF Tables
<1>1. t \in 1 .. 4
  BY <1>3
<1>2. Begin(t)
  BY DEF AfterTimers
<1> HIDE DEF t
<1> QED BY <1>1, <1>2, BeginPlace

LEMMA PlaceStep ==
  ASSUME PlaceOK, TimesOK, Next
  PROVE  PlaceOK'
<1> USE DEF Handling
<1>1. CASE Operation \/ Elapse \/ Busy \/ SetClock \/ Over
  BY <1>1, PlaceKept
     DEF Operation, RegisterTimeout, CancelTimeout, RegisterSock,
         UnregisterSock, Elapse, Busy, SetClock, Over, vars
<1>2. CASE While
  BY <1>2 DEF While, PlaceOK, signals
<1>3. CASE Expired \/ Ready \/ SelectError
  BY <1>3 DEF Expired, Ready, SelectError, Wakes, PlaceOK, signals
<1>4. CASE Signal
  BY <1>4, EventLoopAssumption DEF Signal, Wakes, PlaceOK
<1>5. CASE Alarm
  BY <1>5 DEF Alarm, Wakes, PlaceOK, None
<1>6. CASE ProcessSignals
  BY <1>6 DEF ProcessSignals, PlaceOK
<1>7. CASE Deliver
  <2>1. /\ pc = "deliver" /\ UNCHANGED <<signaled, armed, tab>>
        /\ caught' \subseteq caught /\ terminate' \in BOOLEAN
    BY <1>7 DEF Deliver, PlaceOK
  <2>2. \/ pc' = "handler" /\ running'.of = "signal"
        \/ pc' = "timers" /\ running' = running
    BY <1>7 DEF Deliver
  <2> QED BY <2>1, <2>2 DEF PlaceOK
<1>8. CASE ServeTimeout
  <2>1. CASE timeout # <<>> /\ timeout[1].time <= now
    <3>1. timeout[1] \in Entries
      BY <2>1, FirstEntry DEF TimesOK
    <3> QED BY <1>8, <2>1, <3>1 DEF ServeTimeout, PlaceOK, signals
  <2>2. CASE ~(timeout # <<>> /\ timeout[1].time <= now)
    <3>1. AfterTimers /\ UNCHANGED <<running, signals>> /\ pc = "timers"
      BY <1>8, <2>2 DEF ServeTimeout
    <3> QED BY <3>1, AfterTimersPlace DEF PlaceOK, signals
  <2> QED BY <2>1, <2>2
<1>9. CASE Dispatch
  <2>1. pc = "dispatch" /\ UNCHANGED signals
    BY <1>9 DEF Dispatch
  <2>2. CASE Begin(tab + 1) /\ UNCHANGED running
    <3>1. tab + 1 \in 1 .. 4
      BY DEF PlaceOK
    <3>2. pc' \in {"dispatch", "while"} /\ tab' \in 1 .. 3
      BY <2>2, <3>1, BeginPlace
    <3> QED BY <2>1, <2>2, <3>2 DEF PlaceOK, signals
  <2>3. CASE running'.of = "sock" /\ pc' = "handler" /\ UNCHANGED tab
    BY <2>1, <2>3 DEF PlaceOK, signals
  <2> QED BY <1>9, <2>2, <2>3 DEF Dispatch
<1>10. CASE Return
  <2>1. running' = None /\ UNCHANGED signals
    BY <1>10 DEF Return
  <2>2. pc' \in {"deliver", "dispatch", "while"} /\ tab' \in 1 .. 3
    <3>1. CASE Begin(Len(Tables) + 1)
      <4>1. Len(Tables) + 1 \in 1 .. 4
        BY DEF Tables
      <4> QED BY <3>1, <4>1, BeginPlace
    <3>2. CASE pc' = "deliver" /\ UNCHANGED tab
      BY <3>2 DEF PlaceOK
    <3>3. CASE AfterTimers
      BY <3>3, AfterTimersPlace
    <3>4. CASE AfterSock
      <4>1. tab + 1 \in 1 .. 4
        BY DEF PlaceOK
      <4> QED BY <3>4, <4>1, BeginPlace DEF AfterSock, PlaceOK
    <3> QED BY <1>10, <3>1, <3>2, <3>3, <3>4 DEF Return
  <2> QED BY <2>1, <2>2 DEF PlaceOK, signals, None
<1> QED BY <1>1, <1>2, <1>3, <1>4, <1>5, <1>6, <1>7, <1>8, <1>9, <1>10
        DEF Next, Loop
-----------------------------------------------------------------------------
(* The tables of sockets.                                                   *)
LEMMA AppendOnce ==
  ASSUME NEW S, NEW q \in Seq(S), Once(q), NEW s \in S,
         s \notin {q[i] : i \in DOMAIN q}
  PROVE  Append(q, s) \in Seq(S) /\ Once(Append(q, s))
BY DEF Once

LEMMA RemoveOnce ==
  ASSUME NEW S, NEW q \in Seq(S), Once(q), NEW i \in DOMAIN q
  PROVE  LET p == SubSeq(q, 1, i - 1) \o SubSeq(q, i + 1, Len(q))
         IN  p \in Seq(S) /\ Once(p)
<1> DEFINE p == SubSeq(q, 1, i - 1) \o SubSeq(q, i + 1, Len(q))
           n == Len(q)
<1>1. n \in Nat /\ i \in 1 .. n /\ DOMAIN q = 1 .. n
  OBVIOUS
<1> DEFINE a == SubSeq(q, 1, i - 1)
           b == SubSeq(q, i + 1, n)
<1>6. /\ a \in Seq(S) /\ Len(a) = i - 1
      /\ \A j \in 1 .. i - 1 : a[j] = q[j]
  BY <1>1
<1>7. /\ b \in Seq(S) /\ Len(b) = n - i
      /\ \A j \in 1 .. n - i : b[j] = q[j + i]
  <2>1. i + 1 \in 1 .. n + 1 /\ n \in Nat /\ i + 1 \in Nat
    BY <1>1
  <2>2. b \in Seq(S) /\ Len(b) = n - i
    BY <2>1, <1>1
  <2>3. \A j \in 1 .. Len(b) : b[j] = q[(i + 1) + j - 1]
    BY <2>1, <2>2
  <2>4. ASSUME NEW j \in 1 .. n - i
        PROVE  (i + 1) + j - 1 = j + i
    BY <1>1
  <2> QED BY <2>2, <2>3, <2>4
<1>8. p = a \o b
  OBVIOUS
<1> HIDE DEF a, b, p
<1>2. p \in Seq(S) /\ Len(p) = n - 1
  <2>3. a \in Seq(S) /\ b \in Seq(S)
    BY <1>6, <1>7
  <2>1. p \in Seq(S) /\ Len(p) = Len(a) + Len(b)
    BY <2>3, <1>8
  <2>2. (i - 1) + (n - i) = n - 1
    BY <1>1
  <2> QED BY <2>1, <2>2, <1>6, <1>7
<1>9. \A j \in 1 .. n - 1 : p[j] = IF j <= i - 1 THEN a[j] ELSE b[j - (i - 1)]
  BY <1>1, <1>6, <1>7, <1>8, SMTT(30)
<1>3. \A j \in 1 .. n - 1 : p[j] = IF j < i THEN q[j] ELSE q[j + 1]
  <2> SUFFICES ASSUME NEW j \in 1 .. n - 1
               PROVE  p[j] = IF j < i THEN q[j] ELSE q[j + 1]
    OBVIOUS
  <2>1. CASE j < i
    BY <2>1, <1>1, <1>6, <1>9
  <2>2. CASE ~(j < i)
    <3>1. j - (i - 1) \in 1 .. n - i /\ (j - (i - 1)) + i = j + 1
      BY <2>2, <1>1
    <3>2. b[j - (i - 1)] = q[j + 1]
      BY <3>1, <1>7
    <3> QED BY <3>2, <2>2, <1>1, <1>9
  <2> QED BY <2>1, <2>2
<1>4. DOMAIN p = 1 .. n - 1
  BY <1>1, <1>2
<1>5. Once(p)
  <2> SUFFICES ASSUME NEW x \in 1 .. n - 1, NEW y \in 1 .. n - 1, p[x] = p[y]
               PROVE  x = y
    BY <1>4 DEF Once
  <2> DEFINE u == IF x < i THEN x ELSE x + 1
             v == IF y < i THEN y ELSE y + 1
  <2>1. u \in 1 .. n /\ v \in 1 .. n
    BY <1>1
  <2>2. q[u] = q[v]
    BY <1>3
  <2>3. u = v
    BY <1>1, <2>1, <2>2 DEF Once
  <2> QED BY <2>3, <1>1
<1> HIDE DEF n
<1> QED BY <1>2, <1>5 DEF p, n

LEMMA TablesKept ==
  ASSUME TablesOK, UNCHANGED <<sockets, tab>>, pc' # "dispatch" \/ pc = "dispatch",
         \A t \in TableNames : fds'[t] \subseteq Sockets[t]
  PROVE  TablesOK'
BY DEF TablesOK, sockets, Once

LEMMA TablesDropped ==
  ASSUME TablesOK, table' = table \/ table' = NoTables, pc' # "dispatch",
         UNCHANGED <<changed, fresh, fds, tab>>
  PROVE  TablesOK'
<1>1. ASSUME NEW t \in TableNames
      PROVE  table'[t] \in Seq(Sockets[t]) /\ Once(table'[t])
  <2>1. <<>> \in Seq(Sockets[t]) /\ Once(<<>>)
    BY DEF Once
  <2> QED BY <2>1 DEF TablesOK, NoTables
<1>2. table' = [t \in TableNames |-> table'[t]]
  BY DEF TablesOK, NoTables
<1> QED BY <1>1, <1>2 DEF TablesOK

LEMMA TablesBegin ==
  ASSUME TablesOK, table' = table, NEW t, Begin(t)
  PROVE  TablesOK'
<1>1. \A u \in TableNames : fds'[u] \subseteq Sockets[u]
  BY DEF TablesOK, Begin, NoFds
<1>2. changed' = FALSE /\ fresh' = {}
  BY DEF Begin
<1> QED BY <1>1, <1>2 DEF TablesOK, Once

LEMMA TablesOperation ==
  ASSUME TablesOK, PlaceOK, Operation
  PROVE  TablesOK'
<1>1. CASE RegisterTimeout \/ CancelTimeout
  BY <1>1, TablesKept DEF RegisterTimeout, CancelTimeout, place, TablesOK
<1>2. ASSUME RegisterSock
      PROVE  TablesOK'
  <2>0. PICK t \in TableNames : \E s \in Sockets[t] \ Registered(t) :
          /\ Handling
          /\ table' = [table EXCEPT ![t] = Append(@, s)]
          /\ changed' = (changed \/ Dispatched(t))
          /\ fresh' = IF Dispatched(t) THEN fresh \cup {s} ELSE fresh
          /\ UNCHANGED <<fds, place>>
    BY <1>2 DEF RegisterSock
  <2>1. PICK s \in Sockets[t] \ Registered(t) :
          /\ Handling
          /\ table' = [table EXCEPT ![t] = Append(@, s)]
          /\ changed' = (changed \/ Dispatched(t))
          /\ fresh' = IF Dispatched(t) THEN fresh \cup {s} ELSE fresh
          /\ UNCHANGED <<fds, place>>
    BY <2>0
  <2>2. Append(table[t], s) \in Seq(Sockets[t]) /\ Once(Append(table[t], s))
    BY <2>1, AppendOnce DEF TablesOK, Registered
  <2>3. ASSUME NEW u \in TableNames
        PROVE  table'[u] \in Seq(Sockets[u]) /\ Once(table'[u])
    BY <2>1, <2>2 DEF TablesOK
  <2>4. table' = [u \in TableNames |-> table'[u]]
    BY <2>1 DEF TablesOK
  <2>5. /\ changed' \in BOOLEAN /\ fresh' \subseteq Sockets[Tables[tab]]
        /\ fresh' # {} => changed'
    BY <2>1 DEF TablesOK, Dispatched
  <2> QED BY <2>1, <2>3, <2>4, <2>5 DEF TablesOK, place, Handling
<1>3. ASSUME UnregisterSock
      PROVE  TablesOK'
  <2>0. PICK t \in TableNames : \E i \in DOMAIN table[t] :
          /\ Handling
          /\ table' = [table EXCEPT ![t] =
                         SubSeq(@, 1, i - 1) \o SubSeq(@, i + 1, Len(@))]
          /\ changed' = (changed \/ Dispatched(t))
          /\ UNCHANGED <<fresh, fds, place>>
    BY <1>3 DEF UnregisterSock
  <2>1. PICK i \in DOMAIN table[t] :
          /\ Handling
          /\ table' = [table EXCEPT ![t] =
                         SubSeq(@, 1, i - 1) \o SubSeq(@, i + 1, Len(@))]
          /\ changed' = (changed \/ Dispatched(t))
          /\ UNCHANGED <<fresh, fds, place>>
    BY <2>0
  <2> DEFINE p == SubSeq(table[t], 1, i - 1)
                    \o SubSeq(table[t], i + 1, Len(table[t]))
  <2>2. p \in Seq(Sockets[t]) /\ Once(p)
    BY RemoveOnce DEF TablesOK
  <2>3. table' = [table EXCEPT ![t] = p]
    BY <2>1
  <2> HIDE DEF p
  <2>4. ASSUME NEW u \in TableNames
        PROVE  table'[u] \in Seq(Sockets[u]) /\ Once(table'[u])
    BY <2>2, <2>3 DEF TablesOK
  <2>5. table' = [u \in TableNames |-> table'[u]]
    BY <2>3 DEF TablesOK
  <2>6. changed' \in BOOLEAN /\ (fresh' # {} => changed')
    BY <2>1 DEF TablesOK, Dispatched
  <2> QED BY <2>1, <2>4, <2>5, <2>6 DEF TablesOK, place, Handling
<1> QED BY <1>1, <1>2, <1>3 DEF Operation

LEMMA TablesStep ==
  ASSUME TablesOK, PlaceOK, Next
  PROVE  TablesOK'
<1>1. CASE Operation
  BY <1>1, TablesOperation
<1>2. CASE Elapse \/ Busy \/ SetClock \/ Over
  BY <1>2, TablesKept DEF Elapse, Busy, SetClock, Over, place, vars, TablesOK
<1>3. CASE While
  BY <1>3, TablesDropped DEF While
<1>4. CASE Expired
  BY <1>4, TablesKept DEF Expired, Wakes, TablesOK
<1>5. CASE Ready
  <2>1. PICK r \in SUBSET Registered("readers"),
             w \in SUBSET Registered("writers"),
             x \in SUBSET Registered("exceptions") :
          fds' = [readers |-> r, writers |-> w, exceptions |-> x]
    BY <1>5 DEF Ready
  <2>2. ASSUME NEW t \in TableNames
        PROVE  Registered(t) \subseteq Sockets[t]
    BY DEF TablesOK, Registered
  <2>3. \A t \in TableNames : fds'[t] \subseteq Sockets[t]
    BY <2>1, <2>2 DEF TableNames
  <2> QED BY <1>5, <2>3, TablesKept DEF Ready, Wakes
<1>6. CASE SelectError
  BY <1>6, TablesDropped DEF SelectError, Wakes
<1>7. CASE Signal
  BY <1>7, TablesKept DEF Signal, Wakes, TablesOK
<1>8. CASE Alarm
  BY <1>8, TablesKept DEF Alarm, Wakes, TablesOK
<1>9. CASE ProcessSignals
  BY <1>9, TablesKept DEF ProcessSignals, TablesOK
<1>10. CASE Deliver
  BY <1>10, TablesKept DEF Deliver, TablesOK
<1>11. CASE ServeTimeout
  <2>1. table' = table
    BY <1>11 DEF ServeTimeout
  <2>2. CASE pc' = "handler" /\ UNCHANGED <<changed, fresh, fds, tab>>
    BY <2>1, <2>2, TablesDropped
  <2>3. CASE AfterTimers
    BY <2>1, <2>3, TablesBegin DEF AfterTimers
  <2> QED BY <1>11, <2>2, <2>3 DEF ServeTimeout
<1>12. CASE Dispatch
  <2>1. table' = table
    BY <1>12 DEF Dispatch
  <2>2. CASE pc' = "handler" /\ UNCHANGED <<changed, fresh, fds, tab>>
    BY <2>1, <2>2, TablesDropped
  <2>3. CASE Begin(tab + 1)
    BY <2>1, <2>3, TablesBegin
  <2> QED BY <1>12, <2>2, <2>3 DEF Dispatch
<1>13. CASE Return
  <2>1. table' = table
    BY <1>13 DEF Return
  <2>2. CASE pc' = "deliver" /\ UNCHANGED <<changed, fresh, fds, tab>>
    BY <2>1, <2>2, TablesDropped
  <2>3. CASE Begin(Len(Tables) + 1) \/ AfterTimers
    BY <2>1, <2>3, TablesBegin DEF AfterTimers
  <2>4. CASE AfterSock
    <3>1. CASE changed
      BY <2>1, <2>4, <3>1, TablesBegin DEF AfterSock
    <3>2. CASE ~changed
      <4>1. UNCHANGED <<changed, fresh, fds, tab>>
        BY <2>4, <3>2 DEF AfterSock
      <4> QED BY <2>1, <3>2, <4>1 DEF TablesOK, Once
    <3> QED BY <3>1, <3>2
  <2> QED BY <1>13, <2>2, <2>3, <2>4 DEF Return
<1> QED BY <1>1, <1>2, <1>3, <1>4, <1>5, <1>6, <1>7, <1>8, <1>9, <1>10,
           <1>11, <1>12, <1>13 DEF Next, Loop
-----------------------------------------------------------------------------
(* The invariant holds.                                                     *)
LEMMA InitInv == Init => IInv
<1> SUFFICES ASSUME Init PROVE IInv
  OBVIOUS
<1>1. TimesOK
  <2>1. <<>> \in Seq(Entries) /\ Len(<<>>) = 0 /\ Sorted(<<>>)
    BY DEF Sorted
  <2> QED BY <2>1, EventLoopAssumption DEF Init, TimesOK
<1>2. PlaceOK
  <2>1. running.of = "main"
    BY DEF Init
  <2>2. /\ signaled = FALSE /\ caught = {} /\ armed = FALSE
        /\ terminate = FALSE /\ pc = "handler" /\ tab = 1
    BY DEF Init
  <2>3. Handling <=> running.of # "none"
    BY <2>1, <2>2 DEF Handling
  <2>4. tab \in 1 .. 3
    BY <2>2
  <2> QED BY <2>1, <2>2, <2>3, <2>4 DEF PlaceOK
<1>3. TablesOK
  <2>1. \A t \in TableNames : <<>> \in Seq(Sockets[t]) /\ Once(<<>>)
    BY DEF Once
  <2>2. \A t \in TableNames : table[t] = <<>> /\ fds[t] = {}
    BY DEF Init, NoTables, NoFds
  <2>3. table = [t \in TableNames |-> table[t]]
    BY DEF Init, NoTables
  <2> QED BY <2>1, <2>2, <2>3 DEF Init, TablesOK
<1> QED BY <1>1, <1>2, <1>3 DEF IInv

LEMMA NextInv == IInv /\ [Next]_vars => IInv'
<1> SUFFICES ASSUME IInv, [Next]_vars PROVE IInv'
  OBVIOUS
<1>1. CASE Next
  <2>1. TimesOK'
    <3>1. CASE Over
      BY <3>1 DEF Over, vars, clock, place, IInv, TimesOK, Sorted, Rest
    <3> QED BY <1>1, <3>1, TimesOperation, TimesClock, TimesLoop
            DEF Next, IInv
  <2>2. PlaceOK'
    BY <1>1, PlaceStep DEF IInv
  <2>3. TablesOK'
    BY <1>1, TablesStep DEF IInv
  <2> QED BY <2>1, <2>2, <2>3 DEF IInv
<1>2. CASE UNCHANGED vars
  <2>1. TimesOK'
    BY <1>2 DEF vars, clock, place, IInv, TimesOK, Sorted, Rest
  <2>2. PlaceOK'
    BY <1>2, PlaceKept DEF vars, IInv
  <2>3. TablesOK'
    BY <1>2 DEF vars, sockets, place, IInv, TablesOK, Once
  <2> QED BY <2>1, <2>2, <2>3 DEF IInv
<1> QED BY <1>1, <1>2

LEMMA Invariant == Spec => []IInv
BY InitInv, NextInv, PTL DEF Spec

(* Every table fits its descriptors.                                        *)
LEMMA OnceFits ==
  ASSUME NEW S, IsFiniteSet(S), NEW q \in Seq(S), Once(q)
  PROVE  q \in UNION {[1 .. n -> S] : n \in 0 .. Cardinality(S)}
<1> DEFINE n == Len(q)
<1>1. n \in Nat /\ q \in [1 .. n -> S]
  OBVIOUS
<1>2. q \in Injection(1 .. n, S)
  BY <1>1 DEF Once, Injection, IsInjective
<1>3. Cardinality(1 .. n) <= Cardinality(S)
  BY <1>2, FS_Injection
<1>4. Cardinality(1 .. n) = n
  BY <1>1, FS_Interval, SMTT(30)
<1>5. Cardinality(S) \in Nat
  BY FS_CardinalityType
<1>6. n \in 0 .. Cardinality(S)
  BY <1>1, <1>3, <1>4, <1>5
<1> QED BY <1>1, <1>6

LEMMA InvTypes == IInv => TypeOK
<1> SUFFICES ASSUME IInv PROVE TypeOK
  OBVIOUS
<1> USE DEF IInv
<1>1. skew \in -2 * MaxTime..2 * MaxTime
  <2>1. MaxTime \in Nat /\ now \in 0 .. MaxTime /\ skew \in Int
    BY EventLoopAssumption DEF TimesOK
  <2>2. CASE skew = 0
    BY <2>1, <2>2
  <2>3. CASE skew # 0
    <3>1. timeout # <<>> /\ Rest \in -MaxTime .. MaxTime
      BY <2>3 DEF TimesOK
    <3>2. timeout[1].time \in 0 .. MaxTime
      BY <3>1, FirstEntry DEF TimesOK
    <3> QED BY <2>1, <3>1, <3>2 DEF Rest
  <2> QED BY <2>2, <2>3
<1>2. timeout \in UNION {[1..n -> Entries] : n \in 0..MaxTimeouts}
  <2>1. Len(timeout) \in 0 .. MaxTimeouts
    BY EventLoopAssumption DEF TimesOK
  <2>2. timeout \in [1 .. Len(timeout) -> Entries]
    BY DEF TimesOK
  <2> QED BY <2>1, <2>2
<1>3. ASSUME NEW t \in TableNames
      PROVE  table[t] \in UNION {[1..n -> Sockets[t]] : n \in 0..Cardinality(Sockets[t])}
  <2>1. IsFiniteSet(Sockets[t])
    BY EventLoopAssumption DEF Sockets, TableNames
  <2> QED BY <2>1, OnceFits DEF TablesOK
<1>4. tab \in 1 .. Len(Tables)
  BY DEF PlaceOK, Tables
<1>5. Handling <=> running.of # "none"
  BY DEF PlaceOK
<1> QED BY <1>1, <1>2, <1>3, <1>4, <1>5 DEF TypeOK, TimesOK, PlaceOK, TablesOK

(* The state of the event loop has its types: no descriptor is twice in a   *)
(* table, no more timeouts are registered than the bound, and the steps of  *)
(* the clock never take the rest of select's timeout beyond the clock.      *)
THEOREM TypeCorrect == Spec => []TypeOK
BY Invariant, InvTypes, PTL
-----------------------------------------------------------------------------
LEMMA InvWakes == IInv => WakesInTime
<1> SUFFICES ASSUME IInv, pc = "select", timeout # <<>>
             PROVE  /\ \A i \in DOMAIN timeout :
                         left <= Later([timeout[i] EXCEPT !.time = @ + skew])
                    /\ \E i \in DOMAIN timeout :
                         left = Later([timeout[i] EXCEPT !.time = @ + skew])
  BY DEF WakesInTime
<1>1. MaxTime \in Nat /\ now \in 0 .. MaxTime /\ skew \in Int
  BY EventLoopAssumption DEF IInv, TimesOK
<1>2. timeout[1] \in Entries /\ 1 \in DOMAIN timeout
  BY FirstEntry DEF IInv, TimesOK
<1>3. left = IF Rest > 0 THEN Rest ELSE 0
  BY DEF IInv, TimesOK
<1>4. ASSUME NEW i \in DOMAIN timeout
      PROVE  /\ timeout[i].time \in Nat /\ timeout[1].time \in Nat
             /\ timeout[1].time <= timeout[i].time
             /\ Later([timeout[i] EXCEPT !.time = @ + skew]) =
                  IF timeout[i].time + skew > now
                  THEN timeout[i].time + skew - now ELSE 0
  <2>1. timeout[i] \in Entries /\ i >= 1
    BY DEF IInv, TimesOK
  <2>2. timeout[1].time <= timeout[i].time
    BY <1>2, <2>1 DEF IInv, TimesOK, Sorted
  <2>3. timeout[i].time \in Nat /\ timeout[1].time \in Nat
    BY <1>2, <2>1, EventLoopAssumption DEF Entries
  <2> DEFINE e == [timeout[i] EXCEPT !.time = @ + skew]
  <2>4. e.time = timeout[i].time + skew
    BY <2>1 DEF Entries
  <2> HIDE DEF e
  <2>5. Later(e) = IF timeout[i].time + skew > now
                   THEN timeout[i].time + skew - now ELSE 0
    BY <1>1, <2>3, <2>4 DEF Later
  <2> QED BY <2>2, <2>3, <2>5 DEF e
<1>5. \A i \in DOMAIN timeout :
        left <= Later([timeout[i] EXCEPT !.time = @ + skew])
  BY <1>1, <1>3, <1>4 DEF Rest
<1>6. left = Later([timeout[1] EXCEPT !.time = @ + skew])
  BY <1>1, <1>2, <1>3, <1>4 DEF Rest
<1> QED BY <1>2, <1>5, <1>6

(* The loop sleeps exactly until the first of all timeouts, by the clock as *)
(* it was when select was entered, whatever steps the clock makes.          *)
THEOREM SleepsUntilFirst == Spec => []WakesInTime
BY Invariant, InvWakes, PTL

(* No handler is called for a descriptor that a handler of the same         *)
(* dispatch has registered.                                                 *)
THEOREM OnlyReported == Spec => CallsReported
<1>1. IInv => (pc = "dispatch" => fresh = {})
  BY DEF IInv, TablesOK
<1>2. IInv /\ [Next]_vars =>
        [pc = "dispatch" /\ running'.of = "sock" => running'.sock \notin fresh]_vars
  BY <1>1
<1> QED BY <1>2, Invariant, PTL DEF Spec, CallsReported
-----------------------------------------------------------------------------
(* The list implements Timers.                                              *)
PendingOf(q) == [e \in Entries |-> Cardinality({i \in DOMAIN q : q[i] = e})]
ServingOf(r) == IF r.of = "timer" THEN {r.entry} ELSE {}

LEMMA PendingFacts ==
  ASSUME NEW q, NEW e \in Entries
  PROVE  PendingOf(q)[e] = Cardinality(Places(q, e))
BY DEF PendingOf, Places

LEMMA NonePending == PendingOf(<<>>) = Promise!Nothing
<1>1. \A e \in Entries : {i \in DOMAIN <<>> : <<>>[i] = e} = {}
  OBVIOUS
<1> QED BY <1>1, FS_EmptySet DEF PendingOf, Promise!Nothing, Promise!Entries, Entries

(* Steps that no caller of the timers sees.                                 *)
Unseen == now' = now /\ timeout' = timeout /\ ServingOf(running') = ServingOf(running)

LEMMA UnseenStutters == Unseen => UNCHANGED Promise!vars
BY DEF Unseen, ServingOf, Promise!vars

LEMMA Ends ==
  ASSUME timeout' = <<>>, now' = now, running'.of # "timer"
  PROVE  Promise!Next
<1>1. PendingOf(timeout') = Promise!Nothing /\ ServingOf(running') = {}
  BY NonePending DEF ServingOf
<1>2. Promise!End
  BY <1>1 DEF Promise!End, PendingOf, ServingOf
<1> QED BY <1>2 DEF Promise!Next

LEMMA Registers ==
  ASSUME IInv, RegisterTimeout
  PROVE  Promise!Next
<1>1. PICK k \in Keys, d \in Delays :
        /\ now + d <= MaxTime
        /\ \E j \in Place(timeout, [key |-> k, time |-> now + d]) :
             timeout' = Inserted(timeout, [key |-> k, time |-> now + d], j)
        /\ UNCHANGED <<clock, place>>
  BY DEF RegisterTimeout
<1> DEFINE e == [key |-> k, time |-> now + d]
<1>2. e \in Entries /\ e.time >= now
  BY <1>1, EventLoopAssumption DEF IInv, TimesOK, Entries
<1>3. PICK j \in Place(timeout, e) : timeout' = Inserted(timeout, e, j)
  BY <1>1
<1> HIDE DEF e
<1>4. timeout \in Seq(Entries) /\ j \in 1 .. Len(timeout) + 1
  BY DEF IInv, TimesOK, Place
<1>5. ASSUME NEW x \in Entries
      PROVE  PendingOf(timeout')[x] =
               IF x = e THEN PendingOf(timeout)[x] + 1 ELSE PendingOf(timeout)[x]
  <2>1. Cardinality(Places(timeout', x)) =
          Cardinality(Places(timeout, x)) + (IF x = e THEN 1 ELSE 0)
    BY <1>2, <1>3, <1>4, InsertCounts
  <2>2. Cardinality(Places(timeout, x)) \in Nat
    BY <1>4, PlacesFinite
  <2> QED BY <2>1, <2>2, PendingFacts
<1>6. PendingOf(timeout') = [PendingOf(timeout) EXCEPT ![e] = @ + 1]
  BY <1>5 DEF PendingOf
<1>7. now' = now /\ ServingOf(running') = ServingOf(running)
  BY <1>1 DEF clock, place
<1>8. Promise!Register
  BY <1>2, <1>6, <1>7
     DEF Promise!Register, Promise!Entries, Entries, PendingOf, ServingOf
<1> QED BY <1>8 DEF Promise!Next

LEMMA Cancels ==
  ASSUME IInv, CancelTimeout
  PROVE  Promise!Next
<1>1. PICK K \in SUBSET Keys :
        Cancelled(timeout', timeout, K) /\ UNCHANGED <<clock, place>>
  BY DEF CancelTimeout, Cancelled, Kept
<1>2. ASSUME NEW x \in Entries
      PROVE  PendingOf(timeout')[x] =
               IF x.key \in K THEN 0 ELSE PendingOf(timeout)[x]
  BY <1>1, CancelCounts, PendingFacts DEF IInv, TimesOK
<1>3. PendingOf(timeout') =
        [x \in Entries |-> IF x.key \in K THEN 0 ELSE PendingOf(timeout)[x]]
  BY <1>2 DEF PendingOf
<1>4. now' = now /\ ServingOf(running') = ServingOf(running)
  BY <1>1 DEF clock, place
<1>5. Promise!Cancel
  BY <1>3, <1>4
     DEF Promise!Cancel, Promise!Entries, Entries, PendingOf, ServingOf
<1> QED BY <1>5 DEF Promise!Next

LEMMA Expires ==
  ASSUME IInv, pc = "timers", timeout # <<>>, timeout[1].time <= now,
         timeout' = Tail(timeout), now' = now,
         running' = [of |-> "timer", entry |-> timeout[1]]
  PROVE  Promise!Next
<1> DEFINE e == timeout[1]
<1>1. timeout \in Seq(Entries) /\ e \in Entries /\ 1 \in DOMAIN timeout
  BY FirstEntry DEF IInv, TimesOK
<1>2. ASSUME NEW x \in Entries
      PROVE  /\ PendingOf(timeout)[x] \in Nat
             /\ PendingOf(timeout)[x] > 0 <=> Places(timeout, x) # {}
  <2>1. /\ IsFiniteSet(Places(timeout, x))
        /\ Cardinality(Places(timeout, x)) \in Nat
    BY <1>1, PlacesFinite
  <2>2. Cardinality(Places(timeout, x)) = 0 <=> Places(timeout, x) = {}
    BY <2>1, FS_EmptySet
  <2> QED BY <2>1, <2>2, PendingFacts
<1>3. PendingOf(timeout)[e] > 0
  BY <1>1, <1>2 DEF Places
<1>4. ASSUME NEW x \in Entries, PendingOf(timeout)[x] > 0
      PROVE  e.time <= x.time
  <2>1. PICK i \in DOMAIN timeout : timeout[i] = x
    BY <1>2, <1>4 DEF Places
  <2>2. 1 <= i
    BY <1>1
  <2> QED BY <1>1, <2>1, <2>2 DEF IInv, TimesOK, Sorted
<1>5. ASSUME NEW x \in Entries
      PROVE  PendingOf(timeout')[x] =
               IF x = e THEN PendingOf(timeout)[x] - 1 ELSE PendingOf(timeout)[x]
  <2>1. Cardinality(Places(timeout', x)) =
          Cardinality(Places(timeout, x)) - (IF x = e THEN 1 ELSE 0)
    BY <1>1, TailCounts
  <2>2. Cardinality(Places(timeout, x)) \in Nat
    BY <1>1, PlacesFinite
  <2> QED BY <2>1, <2>2, PendingFacts
<1>6. PendingOf(timeout') = [PendingOf(timeout) EXCEPT ![e] = @ - 1]
  BY <1>5, ZenonT(30) DEF PendingOf
<1>7. ServingOf(running) = {} /\ ServingOf(running') = {e}
  BY DEF IInv, PlaceOK, Handling, ServingOf
<1>8. e.time <= now
  OBVIOUS
<1> HIDE DEF e
<1>9. Promise!Expire
  BY <1>1, <1>3, <1>4, <1>6, <1>7, <1>8
     DEF Promise!Expire, Promise!Entries, Entries, PendingOf, ServingOf
<1> QED BY <1>9 DEF Promise!Next

LEMMA Returns ==
  ASSUME IInv, Return
  PROVE  Promise!Next \/ UNCHANGED Promise!vars
<1>1. now' = now /\ timeout' = timeout /\ ServingOf(running') = {}
  BY DEF Return, clock, None, ServingOf
<1>2. CASE ServingOf(running) = {}
  BY <1>1, <1>2, UnseenStutters DEF Unseen
<1>3. CASE ServingOf(running) # {}
  <2>1. Promise!Return
    BY <1>1, <1>3 DEF Promise!Return, ServingOf
  <2> QED BY <2>1 DEF Promise!Next
<1> QED BY <1>2, <1>3

LEMMA ClockStep ==
  ASSUME IInv, IInv', Elapse \/ Busy \/ SetClock
  PROVE  Promise!Next
<1>1. timeout' = timeout /\ running' = running
  BY DEF Elapse, Busy, SetClock, place
<1>2. Promise!ClockMoves
  BY <1>1 DEF Promise!ClockMoves, IInv, TimesOK
<1> QED BY <1>2 DEF Promise!Next

LEMMA StepRefines ==
  ASSUME IInv, IInv', [Next]_vars
  PROVE  [Promise!Next]_Promise!vars
<1>1. CASE RegisterTimeout
  BY <1>1, Registers
<1>2. CASE CancelTimeout
  BY <1>2, Cancels
<1>3. CASE RegisterSock \/ UnregisterSock \/ Ready \/ Expired \/ Signal
             \/ ProcessSignals \/ Over \/ UNCHANGED vars
  <2>1. Unseen
    BY <1>3 DEF RegisterSock, UnregisterSock, Ready, Expired, Signal,
         ProcessSignals, Over, vars, clock, place, Unseen
  <2> QED BY <2>1, UnseenStutters
<1>4. CASE Elapse \/ Busy \/ SetClock
  BY <1>4, ClockStep
<1>5. CASE Alarm \/ SelectError
  <2>1. timeout' = <<>> /\ now' = now /\ running'.of # "timer"
    BY <1>5 DEF Alarm, SelectError, None, IInv, PlaceOK, Handling
  <2> QED BY <2>1, Ends
<1>6. CASE While
  <2>1. now' = now /\ running' = running /\ running.of # "timer"
    BY <1>6 DEF While, clock, IInv, PlaceOK, Handling
  <2>2. timeout' = timeout \/ timeout' = <<>>
    BY <1>6 DEF While
  <2>3. CASE timeout' = timeout
    BY <2>1, <2>3, UnseenStutters DEF Unseen
  <2>4. CASE timeout' = <<>>
    BY <2>1, <2>4, Ends
  <2> QED BY <2>2, <2>3, <2>4
<1>7. CASE Deliver \/ Dispatch
  <2>1. now' = now /\ timeout' = timeout
    BY <1>7 DEF Deliver, Dispatch, clock
  <2>2. running.of = "none"
    BY <1>7 DEF Deliver, Dispatch, IInv, PlaceOK, Handling
  <2>3. running' = running \/ running'.of \in {"signal", "sock"}
    BY <1>7 DEF Deliver, Dispatch
  <2>4. Unseen
    BY <2>1, <2>2, <2>3 DEF Unseen, ServingOf
  <2> QED BY <2>4, UnseenStutters
<1>8. CASE ServeTimeout
  <2>1. pc = "timers" /\ now' = now
    BY <1>8 DEF ServeTimeout, clock
  <2>2. CASE timeout # <<>> /\ timeout[1].time <= now
    BY <1>8, <2>1, <2>2, Expires DEF ServeTimeout
  <2>3. CASE ~(timeout # <<>> /\ timeout[1].time <= now)
    BY <1>8, <2>1, <2>3, UnseenStutters DEF ServeTimeout, Unseen
  <2> QED BY <2>2, <2>3
<1>9. CASE Return
  BY <1>9, Returns
<1> QED BY <1>1, <1>2, <1>3, <1>4, <1>5, <1>6, <1>7, <1>8, <1>9
        DEF Next, Loop, Operation

(* Whatever handlers, sockets, signals and the clock do, a registration is  *)
(* served at most once, not before its time by the clock of that moment,    *)
(* the earliest first, and never after a cancel.                            *)
THEOREM ImplementsTimers == Spec => KeepsTimers
<1>1. Init => Promise!Init
  <2> SUFFICES ASSUME Init PROVE Promise!Init
    OBVIOUS
  <2>1. PendingOf(timeout) = Promise!Nothing /\ ServingOf(running) = {}
    BY NonePending DEF Init, ServingOf
  <2> QED BY <2>1 DEF Init, Promise!Init, PendingOf, ServingOf
<1>2. IInv /\ IInv' /\ [Next]_vars => [Promise!Next]_Promise!vars
  BY StepRefines
<1> QED BY <1>1, <1>2, Invariant, PTL DEF Spec, KeepsTimers, Promise!Spec
=============================================================================
