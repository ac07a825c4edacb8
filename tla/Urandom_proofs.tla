--------------------------- MODULE Urandom_proofs ---------------------------
(* Theorems about the random strings of the client, for every request and  *)
(* every way to cut up the reads, with their proofs.                       *)
EXTENDS Urandom, FiniteSetTheorems, FunctionTheorems, SequenceTheorems, TLAPS

-----------------------------------------------------------------------------
(* The shuffle as a function.                                              *)

\* A set of numbers has a least one: what the inductions below rest on.
LEMMA Least ==
  ASSUME NEW T \in SUBSET Nat, T # {}
  PROVE  \E m \in T : \A k \in T : m <= k
<1> DEFINE R == {s \in Nat \X Nat : s[1] < s[2]}
<1>1. IsWellFoundedOn(R, Nat)
  BY NatLessThanWellFounded DEF OpToRel
<1>2. \A k, m \in Nat : k < m => <<k, m>> \in R
  OBVIOUS
<1> HIDE DEF R
<1>3. PICK m \in T : \A k \in T : ~ (<<k, m>> \in R)
  BY <1>1, WFMin
<1>4. ASSUME NEW k \in T PROVE m <= k
  <2>1. k \in Nat /\ m \in Nat /\ ~ (k < m)
    BY <1>2, <1>3
  <2> QED
    BY <2>1
<1> QED
  BY <1>4

\* The first of the numbers up to n at which something is not so.
LEMMA LeastUpTo ==
  ASSUME NEW n \in Nat, NEW T \in SUBSET (0 .. n), T # {}
  PROVE  \E m \in T : /\ m \in Nat /\ m <= n
                      /\ \A k \in 0 .. m - 1 : k \in 0 .. n /\ k \notin T
<1>1. T \in SUBSET Nat
  OBVIOUS
<1>2. PICK m \in T : \A k \in T : m <= k
  BY <1>1, Least
<1>3. m \in 0 .. n
  OBVIOUS
<1>4. ASSUME NEW k \in 0 .. m - 1 PROVE k \in 0 .. n /\ k \notin T
  BY <1>2, <1>3
<1> QED
  BY <1>3, <1>4

\* What a bijection is,
LEMMA BijectionFacts ==
  ASSUME NEW S, NEW T, NEW f \in Bijection(S, T)
  PROVE  /\ f \in [S -> T]
         /\ \A a, b \in S : f[a] = f[b] => a = b
         /\ \A y \in T : \E x \in S : f[x] = y
BY DEF Bijection, Injection, Surjection, IsInjective

\* and what makes one.
LEMMA IsBijection ==
  ASSUME NEW S, NEW T, NEW f \in [S -> T],
         \A a, b \in S : f[a] = f[b] => a = b,
         \A y \in T : \E x \in S : f[x] = y
  PROVE  f \in Bijection(S, T)
BY DEF Bijection, Injection, Surjection, IsInjective

\* The same of an order of the numbers from 1 to n.
LEMMA OrderFacts ==
  ASSUME NEW n \in Nat, NEW s \in Bijection(1 .. n, 1 .. n)
  PROVE  /\ DOMAIN s = 1 .. n
         /\ \A x \in 1 .. n : s[x] \in 1 .. n
         /\ \A x, y \in 1 .. n : s[x] = s[y] => x = y
         /\ \A y \in 1 .. n : \E x \in 1 .. n : s[x] = y
<1> DEFINE N == 1 .. n
<1> HIDE DEF N
<1>1. s \in Bijection(N, N)
  BY DEF N
<1>2. /\ s \in [N -> N]
      /\ \A x, y \in N : s[x] = s[y] => x = y
      /\ \A y \in N : \E x \in N : s[x] = y
  BY <1>1, BijectionFacts
<1>3. DOMAIN s = N /\ \A x \in N : s[x] \in N
  BY <1>2
<1> QED
  BY <1>2, <1>3 DEF N

\* Two characters change places and the others stay.
LEMMA SwappedAt ==
  ASSUME NEW n \in Nat, NEW s, DOMAIN s = 1 .. n, NEW m \in 1 .. n, NEW j \in Indices(m)
  PROVE  /\ j + 1 \in 1 .. n /\ j + 1 <= m
         /\ DOMAIN Swapped(s, m, j) = 1 .. n
         /\ Swapped(s, m, j) = [x \in 1 .. n |-> Swapped(s, m, j)[x]]
         /\ Swapped(s, m, j)[m] = s[j + 1] /\ Swapped(s, m, j)[j + 1] = s[m]
         /\ \A x \in 1 .. n : x # m /\ x # j + 1 => Swapped(s, m, j)[x] = s[x]
<1>1. j + 1 \in 1 .. n /\ j + 1 <= m
  BY DEF Indices
<1> QED
  BY <1>1 DEF Swapped

\* A swap permutes.
LEMMA SwappedBijection ==
  ASSUME NEW n \in Nat, NEW s \in Bijection(1 .. n, 1 .. n), NEW m \in 1 .. n,
         NEW j \in Indices(m)
  PROVE  Swapped(s, m, j) \in Bijection(1 .. n, 1 .. n)
<1>1. s \in [1 .. n -> 1 .. n]
  BY BijectionFacts
<1> DEFINE N == 1 .. n
           t == Swapped(s, m, j)
           p == j + 1
<1>2. DOMAIN s = 1 .. n
  BY <1>1
<1>3. /\ p \in N /\ t = [x \in N |-> t[x]] /\ t[m] = s[p] /\ t[p] = s[m]
      /\ \A x \in N : x # m /\ x # p => t[x] = s[x]
  BY <1>2, SwappedAt
<1>4. s \in Bijection(N, N) /\ m \in N /\ s \in [N -> N]
  BY <1>1
<1> HIDE DEF N, t, p
<1>5. t \in [N -> N]
  <2>1. \A x \in N : t[x] \in N
    BY <1>3, <1>4
  <2> QED
    BY <1>3, <2>1
<1>6. /\ \A a, b \in N : s[a] = s[b] => a = b
      /\ \A y \in N : \E x \in N : s[x] = y
  BY <1>4, BijectionFacts
<1>7. ASSUME NEW a \in N, NEW b \in N, t[a] = t[b] PROVE a = b
  BY <1>3, <1>4, <1>6, <1>7
<1>8. ASSUME NEW y \in N PROVE \E x \in N : t[x] = y
  <2>1. PICK z \in N : s[z] = y
    BY <1>6
  <2> QED
    BY <1>3, <1>4, <2>1
<1>9. t \in Bijection(N, N)
  BY <1>5, <1>7, <1>8, IsBijection
<1> QED
  BY <1>9 DEF N, t

\* The recursive definition of Orders has a solution, which is then Orders.
LEMMA OrdersDefined ==
  ASSUME NEW n \in Nat, NEW d \in Seq(Nat)
  PROVE  Orders(n, d) =
            [k \in 0 .. Len(d) |->
                IF k = 0 THEN [m \in 1 .. n |-> m]
                ELSE Swapped(Orders(n, d)[k - 1], n + 1 - k, d[k])]
<1> DEFINE Id == [m \in 1 .. n |-> m]
           Turn(s, k) == Swapped(s, n + 1 - k, d[k])
           Upto(g, l) == g = [k \in 0 .. l |-> IF k = 0 THEN Id ELSE Turn(g[k - 1], k)]
           T == {l \in 0 .. Len(d) : ~ \E g : Upto(g, l)}
<1>1. Orders(n, d) = CHOOSE g : Upto(g, Len(d))
  BY DEF Orders
<1>2. Len(d) \in Nat
  OBVIOUS
<1>3. ASSUME NEW l \in T, l \in Nat, \A k \in 0 .. l - 1 : k \in 0 .. Len(d) /\ k \notin T
      PROVE  FALSE
  <2> HIDE DEF Id, Turn
  <2>1. CASE l = 0
    <3> DEFINE g == [k \in 0 .. 0 |-> Id]
    <3>1. Upto(g, 0)
      OBVIOUS
    <3> QED
      BY <2>1, <3>1
  <2>2. CASE l # 0
    <3>1. l - 1 \in 0 .. l - 1
      BY <1>3, <2>2
    <3>2. PICK g : Upto(g, l - 1)
      BY <1>3, <3>1
    <3> DEFINE h == [k \in 0 .. l |-> IF k = l THEN Turn(g[l - 1], l) ELSE g[k]]
    <3>3. \A k \in 0 .. l - 1 : g[k] = IF k = 0 THEN Id ELSE Turn(g[k - 1], k)
      BY <3>2
    <3>4. ASSUME NEW k \in 0 .. l PROVE h[k] = IF k = 0 THEN Id ELSE Turn(h[k - 1], k)
      <4>1. k = 0 \/ k - 1 \in 0 .. l - 1
        BY <1>3
      <4>2. k = l \/ k \in 0 .. l - 1
        BY <1>3
      <4>3. k # 0 => h[k - 1] = g[k - 1]
        BY <1>3, <4>1
      <4> QED
        BY <1>3, <2>2, <3>3, <4>1, <4>2, <4>3
    <3> HIDE DEF h
    <3>5. h = [k \in 0 .. l |-> h[k]]
      BY DEF h
    <3>6. Upto(h, l)
      BY <3>4, <3>5
    <3> QED
      BY <3>6
  <2> QED
    BY <2>1, <2>2
<1>4. T = {}
  <2>1. T \in SUBSET (0 .. Len(d))
    OBVIOUS
  <2> HIDE DEF T
  <2> QED
    BY <1>2, <1>3, <2>1, LeastUpTo
<1>5. \E g : Upto(g, Len(d))
  <2> HIDE DEF Upto
  <2> QED
    BY <1>2, <1>4
<1>6. Upto(Orders(n, d), Len(d))
  <2> HIDE DEF Upto
  <2> QED
    BY <1>1, <1>5
<1> QED
  BY <1>6

\* The first order is the identity, and each other comes from the one before.
LEMMA OrdersSteps ==
  ASSUME NEW n \in Nat, NEW d \in Seq(Nat)
  PROVE  /\ Orders(n, d)[0] = [m \in 1 .. n |-> m]
         /\ \A k \in 1 .. Len(d) :
               Orders(n, d)[k] = Swapped(Orders(n, d)[k - 1], n + 1 - k, d[k])
<1> DEFINE O == Orders(n, d)
           Turn(s, k) == Swapped(s, n + 1 - k, d[k])
<1>1. O = [k \in 0 .. Len(d) |-> IF k = 0 THEN [m \in 1 .. n |-> m] ELSE Turn(O[k - 1], k)]
  BY OrdersDefined
<1> HIDE DEF O, Turn
<1>2. \A k \in 0 .. Len(d) : O[k] = IF k = 0 THEN [m \in 1 .. n |-> m] ELSE Turn(O[k - 1], k)
  BY <1>1
<1>3. 0 \in 0 .. Len(d) /\ \A k \in 1 .. Len(d) : k \in 0 .. Len(d) /\ k # 0
  OBVIOUS
<1>4. O[0] = [m \in 1 .. n |-> m] /\ \A k \in 1 .. Len(d) : O[k] = Turn(O[k - 1], k)
  BY <1>2, <1>3
<1> QED
  BY <1>4 DEF O, Turn

\* d is a beginning of the indices that are drawn for n characters.
IsDraw(n, d) ==
    /\ d \in Seq(Nat) /\ Len(d) <= n
    /\ \A k \in 1 .. Len(d) : d[k] \in Indices(n + 1 - k)

\* Every order is one of all the numbers from 1 to n.
LEMMA OrdersPermute ==
  ASSUME NEW n \in Nat, NEW d, IsDraw(n, d), NEW k \in 0 .. Len(d)
  PROVE  Orders(n, d)[k] \in Bijection(1 .. n, 1 .. n)
<1> DEFINE O == Orders(n, d)
           B == Bijection(1 .. n, 1 .. n)
           T == {l \in 0 .. Len(d) : O[l] \notin B}
<1>1. /\ d \in Seq(Nat) /\ Len(d) \in Nat /\ Len(d) <= n
      /\ \A l \in 1 .. Len(d) : d[l] \in Indices(n + 1 - l)
  BY DEF IsDraw
<1>2. /\ O[0] = [m \in 1 .. n |-> m]
      /\ \A l \in 1 .. Len(d) : O[l] = Swapped(O[l - 1], n + 1 - l, d[l])
  BY <1>1, OrdersSteps
<1>3. [m \in 1 .. n |-> m] \in B
  <2> DEFINE f == [m \in 1 .. n |-> m]
  <2>1. f \in [1 .. n -> 1 .. n] /\ \A x \in 1 .. n : f[x] = x
    OBVIOUS
  <2> HIDE DEF f
  <2>2. f \in B
    BY <2>1, IsBijection
  <2> QED
    BY <2>2 DEF f
<1> HIDE DEF O
<1>4. ASSUME NEW l \in T, l \in Nat, \A x \in 0 .. l - 1 : x \in 0 .. Len(d) /\ x \notin T
      PROVE  FALSE
  <2>1. l # 0
    BY <1>2, <1>3
  <2>2. l \in 1 .. Len(d) /\ l - 1 \in 0 .. l - 1 /\ n + 1 - l \in 1 .. n
    BY <1>1, <1>4, <2>1
  <2>3. O[l - 1] \in B
    BY <1>4, <2>2
  <2>4. Swapped(O[l - 1], n + 1 - l, d[l]) \in B
    BY <1>1, <2>2, <2>3, SwappedBijection
  <2> QED
    BY <1>2, <2>2, <2>4
<1>5. T = {}
  <2>1. T \in SUBSET (0 .. Len(d))
    OBVIOUS
  <2> HIDE DEF T
  <2> QED
    BY <1>1, <1>4, <2>1, LeastUpTo
<1> QED
  BY <1>5 DEF O

\* What comes later leaves what was swapped to its place where it is.
LEMMA OrdersSettle ==
  ASSUME NEW n \in Nat, NEW d, IsDraw(n, d), NEW k \in 0 .. Len(d), NEW x \in 1 .. n, x > n - k
  PROVE  \A l \in k .. Len(d) : Orders(n, d)[l][x] = Orders(n, d)[k][x]
<1> DEFINE O == Orders(n, d)
           T == {l \in 0 .. Len(d) : l >= k /\ O[l][x] # O[k][x]}
<1>1. /\ d \in Seq(Nat) /\ Len(d) \in Nat /\ Len(d) <= n
      /\ \A l \in 1 .. Len(d) : d[l] \in Indices(n + 1 - l)
  BY DEF IsDraw
<1>2. \A l \in 1 .. Len(d) : O[l] = Swapped(O[l - 1], n + 1 - l, d[l])
  BY <1>1, OrdersSteps
<1>3. ASSUME NEW l \in 0 .. Len(d) PROVE DOMAIN O[l] = 1 .. n
  <2>1. O[l] \in Bijection(1 .. n, 1 .. n)
    BY OrdersPermute
  <2> HIDE DEF O
  <2>2. O[l] \in [1 .. n -> 1 .. n]
    BY <2>1, BijectionFacts
  <2> QED
    BY <2>2
<1> HIDE DEF O
<1>4. ASSUME NEW l \in T, l \in Nat, \A y \in 0 .. l - 1 : y \in 0 .. Len(d) /\ y \notin T
      PROVE  FALSE
  <2>1. l # k /\ l >= k /\ O[l][x] # O[k][x]
    OBVIOUS
  <2>2. /\ l \in 1 .. Len(d) /\ l - 1 \in 0 .. l - 1 /\ l - 1 >= k
        /\ n + 1 - l \in 1 .. n /\ n + 1 - l < x
    <3>1. l \in Nat /\ l <= Len(d) /\ k \in Nat /\ x \in Nat /\ x <= n /\ x > n - k
      BY <1>4
    <3> HIDE DEF T
    <3>2. l >= 1 /\ l - 1 >= k
      BY <2>1, <3>1
    <3> QED
      BY <1>1, <3>1, <3>2
  <2>3. O[l - 1][x] = O[k][x]
    BY <1>4, <2>2
  <2>4. l - 1 \in 0 .. Len(d) /\ d[l] \in Indices(n + 1 - l)
    BY <1>1, <2>2
  <2>5. DOMAIN O[l - 1] = 1 .. n
    BY <1>3, <2>4
  <2> DEFINE m == n + 1 - l
             s == O[l - 1]
             j == d[l]
  <2>6. m \in 1 .. n /\ m < x /\ j \in Indices(m) /\ DOMAIN s = 1 .. n
    BY <2>2, <2>4, <2>5
  <2>7. O[l] = Swapped(s, m, j)
    BY <1>2, <2>2
  <2> HIDE DEF m, s, j
  <2>8. j + 1 <= m /\ \A y \in 1 .. n : y # m /\ y # j + 1 => Swapped(s, m, j)[y] = s[y]
    BY <2>6, SwappedAt
  <2>9. x # m /\ x # j + 1
    BY <2>6, <2>8 DEF Indices
  <2>10. O[l][x] = s[x]
    BY <2>7, <2>8, <2>9
  <2> QED
    BY <2>1, <2>3, <2>10 DEF s
<1>5. T = {}
  <2>1. T \in SUBSET (0 .. Len(d))
    OBVIOUS
  <2> HIDE DEF T
  <2> QED
    BY <1>1, <1>4, <2>1, LeastUpTo
<1>6. ASSUME NEW l \in k .. Len(d) PROVE O[l][x] = O[k][x]
  BY <1>1, <1>5
<1> QED
  BY <1>6 DEF O

\* Orders are the same as long as the indices are.
LEMMA OrdersAgree ==
  ASSUME NEW n \in Nat, NEW d \in Seq(Nat), NEW e \in Seq(Nat), NEW h \in Nat,
         h <= Len(d), h <= Len(e), \A k \in 1 .. h : d[k] = e[k]
  PROVE  \A k \in 0 .. h : Orders(n, d)[k] = Orders(n, e)[k]
<1> DEFINE O == Orders(n, d)
           P == Orders(n, e)
           T == {l \in 0 .. h : O[l] # P[l]}
<1>1. Len(d) \in Nat /\ Len(e) \in Nat
  OBVIOUS
<1>a. /\ O[0] = [m \in 1 .. n |-> m]
      /\ \A k \in 1 .. Len(d) : O[k] = Swapped(O[k - 1], n + 1 - k, d[k])
  BY OrdersSteps
<1>b. /\ P[0] = [m \in 1 .. n |-> m]
      /\ \A k \in 1 .. Len(e) : P[k] = Swapped(P[k - 1], n + 1 - k, e[k])
  BY OrdersSteps
<1> HIDE DEF O, P
<1>2. /\ O[0] = P[0]
      /\ \A k \in 1 .. Len(d) : O[k] = Swapped(O[k - 1], n + 1 - k, d[k])
      /\ \A k \in 1 .. Len(e) : P[k] = Swapped(P[k - 1], n + 1 - k, e[k])
  BY <1>a, <1>b
<1>3. ASSUME NEW l \in T, l \in Nat, \A y \in 0 .. l - 1 : y \in 0 .. h /\ y \notin T
      PROVE  FALSE
  <2>1. l \in 1 .. h /\ l - 1 \in 0 .. l - 1
    BY <1>2, <1>3
  <2>2. O[l - 1] = P[l - 1]
    BY <1>3, <2>1
  <2>3. l \in 1 .. Len(d) /\ l \in 1 .. Len(e) /\ d[l] = e[l]
    BY <1>1, <2>1
  <2>4. O[l] = P[l]
    BY <1>2, <2>2, <2>3
  <2> QED
    BY <2>4
<1>4. T = {}
  <2>1. T \in SUBSET (0 .. h)
    OBVIOUS
  <2> HIDE DEF T
  <2> QED
    BY <1>3, <2>1, LeastUpTo
<1>5. ASSUME NEW l \in 0 .. h PROVE O[l] = P[l]
  BY <1>4
<1> QED
  BY <1>5 DEF O, P

\* Two sequences of indices that give one order are one sequence.
LEMMA ReplayInjective ==
  ASSUME NEW n \in Nat, NEW d, IsDraw(n, d), NEW e, IsDraw(n, e), Len(d) = Len(e),
         Replay(n, d) = Replay(n, e)
  PROVE  d = e
<1> DEFINE O == Orders(n, d)
           P == Orders(n, e)
           h == Len(d)
           T == {l \in 0 .. h : l >= 1 /\ d[l] # e[l]}
<1>1. /\ d \in Seq(Nat) /\ e \in Seq(Nat) /\ h \in Nat /\ h <= n
      /\ \A l \in 1 .. h : d[l] \in Indices(n + 1 - l) /\ e[l] \in Indices(n + 1 - l)
  BY DEF IsDraw
<1>2. \A l \in 1 .. h : O[l] = Swapped(O[l - 1], n + 1 - l, d[l])
  BY <1>1, OrdersSteps
<1>3. \A l \in 1 .. h : P[l] = Swapped(P[l - 1], n + 1 - l, e[l])
  BY <1>1, OrdersSteps
<1>4. O[h] = P[h]
  BY DEF Replay
<1>5. ASSUME NEW l \in 1 .. h, NEW x \in 1 .. n, x > n - l
      PROVE  O[h][x] = O[l][x] /\ P[h][x] = P[l][x]
  <2>1. l \in 0 .. h /\ h \in l .. h
    BY <1>1
  <2>2. O[h][x] = O[l][x]
    BY <1>5, <2>1, OrdersSettle
  <2>3. P[h][x] = P[l][x]
    BY <1>5, <2>1, OrdersSettle
  <2> QED
    BY <2>2, <2>3
<1>6. ASSUME NEW l \in 0 .. h PROVE O[l] \in Bijection(1 .. n, 1 .. n)
  BY OrdersPermute
<1>7. ASSUME NEW l \in 1 .. h, \A k \in 1 .. l - 1 : d[k] = e[k] PROVE O[l - 1] = P[l - 1]
  <2>1. l - 1 \in Nat /\ l - 1 <= Len(d) /\ l - 1 <= Len(e)
    BY <1>1
  <2>2. \A k \in 0 .. l - 1 : O[k] = P[k]
    BY <1>1, <1>7, <2>1, OrdersAgree
  <2>3. l - 1 \in 0 .. l - 1
    BY <2>1
  <2> QED
    BY <2>2, <2>3
<1> HIDE DEF O, P, h
<1>8. ASSUME NEW l \in T, l \in Nat, \A y \in 0 .. l - 1 : y \in 0 .. h /\ y \notin T
      PROVE  FALSE
  <2> DEFINE m == n + 1 - l
             s == O[l - 1]
  <2>1. l \in 1 .. h /\ d[l] # e[l] /\ \A k \in 1 .. l - 1 : d[k] = e[k]
    BY <1>8
  <2> HIDE DEF T
  <2>2. m \in 1 .. n /\ m > n - l /\ l - 1 \in 0 .. h
    BY <1>1, <2>1
  <2>3. s = P[l - 1] /\ s \in Bijection(1 .. n, 1 .. n)
    BY <1>6, <1>7, <2>1, <2>2
  <2>4. DOMAIN s = 1 .. n /\ \A a, b \in 1 .. n : s[a] = s[b] => a = b
    <3> HIDE DEF s
    <3> QED
      BY <2>3, OrderFacts
  <2>5. d[l] \in Indices(m) /\ e[l] \in Indices(m)
    BY <1>1, <2>1
  <2>6. O[l] = Swapped(s, m, d[l]) /\ P[l] = Swapped(s, m, e[l])
    BY <1>2, <1>3, <2>1, <2>3
  <2>7. O[l][m] = P[l][m]
    BY <1>4, <1>5, <2>1, <2>2
  <2> HIDE DEF s, m
  <2>8. d[l] + 1 \in 1 .. n /\ O[l][m] = s[d[l] + 1]
    BY <2>2, <2>4, <2>5, <2>6, SwappedAt
  <2>9. e[l] + 1 \in 1 .. n /\ P[l][m] = s[e[l] + 1]
    BY <2>2, <2>4, <2>5, <2>6, SwappedAt
  <2>10. d[l] + 1 = e[l] + 1
    BY <2>4, <2>7, <2>8, <2>9
  <2>11. d[l] \in Int /\ e[l] \in Int
    BY <2>5 DEF Indices
  <2> QED
    BY <2>1, <2>10, <2>11
<1>9. T = {}
  <2>1. T \in SUBSET (0 .. h)
    OBVIOUS
  <2> HIDE DEF T
  <2> QED
    BY <1>1, <1>8, <2>1, LeastUpTo
<1>10. ASSUME NEW l \in 1 .. h PROVE d[l] = e[l]
  <2>1. l \in 0 .. h /\ l >= 1
    BY <1>1
  <2> QED
    BY <1>9, <2>1
<1> QED
  BY <1>1, <1>10, SeqEqual DEF h

\* One more index is drawn.
LEMMA DrawAppended ==
  ASSUME NEW n \in Nat, NEW d, IsDraw(n, d), Len(d) < n, NEW j \in Indices(n - Len(d))
  PROVE  /\ IsDraw(n, Append(d, j)) /\ Len(Append(d, j)) = Len(d) + 1
         /\ \A k \in 0 .. Len(d) : Orders(n, Append(d, j))[k] = Orders(n, d)[k]
         /\ Orders(n, Append(d, j))[Len(d) + 1] = Swapped(Orders(n, d)[Len(d)], n - Len(d), j)
<1> DEFINE e == Append(d, j)
           h == Len(d)
<1>1. /\ d \in Seq(Nat) /\ h \in Nat /\ h < n
      /\ \A l \in 1 .. h : d[l] \in Indices(n + 1 - l)
  BY DEF IsDraw
<1>2. j \in Nat
  BY DEF Indices
<1>3. /\ e \in Seq(Nat) /\ Len(e) = h + 1 /\ e[h + 1] = j
      /\ \A k \in 1 .. h : e[k] = d[k]
  BY <1>1, <1>2
<1>4. IsDraw(n, e)
  <2>1. ASSUME NEW k \in 1 .. Len(e) PROVE e[k] \in Indices(n + 1 - k)
    <3>1. CASE k = h + 1
      BY <1>1, <1>3, <3>1
    <3>2. CASE k \in 1 .. h
      BY <1>1, <1>3, <3>2
    <3> HIDE DEF e, h
    <3> QED
      BY <1>1, <1>3, <3>1, <3>2
  <2> HIDE DEF e, h
  <2> QED
    BY <1>1, <1>3, <2>1 DEF IsDraw
<1>5. \A k \in 0 .. h : Orders(n, e)[k] = Orders(n, d)[k]
  <2>1. h <= Len(d) /\ h <= Len(e) /\ \A k \in 1 .. h : e[k] = d[k]
    BY <1>1, <1>3
  <2> HIDE DEF e
  <2> QED
    BY <1>1, <1>3, <2>1, OrdersAgree
<1>6. Orders(n, e)[h + 1] = Swapped(Orders(n, d)[h], n - h, j)
  <2>1. h + 1 \in 1 .. Len(e) /\ h + 1 - 1 = h /\ n + 1 - (h + 1) = n - h /\ h \in 0 .. h
    BY <1>1, <1>3
  <2> HIDE DEF e
  <2>2. \A k \in 1 .. Len(e) : Orders(n, e)[k] = Swapped(Orders(n, e)[k - 1], n + 1 - k, e[k])
    BY <1>3, OrdersSteps
  <2> HIDE DEF h
  <2>3. Orders(n, e)[h + 1] = Swapped(Orders(n, e)[h + 1 - 1], n + 1 - (h + 1), e[h + 1])
    BY <2>1, <2>2
  <2> QED
    BY <1>3, <1>5, <2>1, <2>3
<1> QED
  BY <1>3, <1>4, <1>5, <1>6

\* The number of turns that the shuffle of n characters makes.
Turns(n) == IF n = 0 THEN 0 ELSE n - 1

\* Every order has indices that give it, place by place from the last.
LEMMA ReplaySurjective ==
  ASSUME NEW n \in Nat, NEW p \in Bijection(1 .. n, 1 .. n)
  PROVE  \E d : IsDraw(n, d) /\ Len(d) = Turns(n) /\ Replay(n, d) = p
<1> DEFINE Settled(d, k) == \A x \in 1 .. n : x > n - k => Orders(n, d)[k][x] = p[x]
           Found(k) == \E d : IsDraw(n, d) /\ Len(d) = k /\ Settled(d, k)
           T == {k \in 0 .. Turns(n) : ~ Found(k)}
<1>1. /\ DOMAIN p = 1 .. n
      /\ \A x \in 1 .. n : p[x] \in 1 .. n
      /\ \A x, y \in 1 .. n : p[x] = p[y] => x = y
      /\ \A y \in 1 .. n : \E x \in 1 .. n : p[x] = y
  BY OrderFacts
<1>2. Turns(n) \in Nat
  BY DEF Turns
<1>3. Found(0)
  <2>1. IsDraw(n, <<>>) /\ Len(<<>>) = 0
    BY DEF IsDraw
  <2>2. Settled(<<>>, 0)
    OBVIOUS
  <2> QED
    BY <2>1, <2>2
<1>4. ASSUME NEW k \in Nat, k + 1 <= Turns(n), Found(k) PROVE Found(k + 1)
  <2>1. PICK d : IsDraw(n, d) /\ Len(d) = k /\ Settled(d, k)
    BY <1>4
  <2> DEFINE m == n - k
             s == Orders(n, d)[k]
  <2>2. m \in 1 .. n /\ k < n
    BY <1>4 DEF Turns
  <2>3. s \in Bijection(1 .. n, 1 .. n)
    <3>1. k \in 0 .. Len(d)
      BY <2>1
    <3> QED
      BY <2>1, <3>1, OrdersPermute
  <2>4. /\ DOMAIN s = 1 .. n
        /\ \A y \in 1 .. n : \E x \in 1 .. n : s[x] = y
    <3> HIDE DEF s
    <3> QED
      BY <2>3, OrderFacts
  <2>5. \A x \in 1 .. n : x > m => s[x] = p[x]
    BY <2>1
  <2> HIDE DEF m, s, Found, Settled
  <2>6. PICK z \in 1 .. n : s[z] = p[m]
    BY <1>1, <2>2, <2>4
  <2>7. z <= m
    <3>1. SUFFICES ASSUME z > m PROVE FALSE
      BY <2>2
    <3>2. p[z] = p[m]
      BY <2>5, <2>6, <3>1
    <3>3. z = m
      BY <1>1, <2>2, <3>2
    <3> QED
      BY <2>2, <3>1, <3>3
  <2> DEFINE j == z - 1
             e == Append(d, j)
             t == Swapped(s, m, j)
  <2>8. j \in Indices(m) /\ j + 1 = z
    BY <2>2, <2>7 DEF Indices
  <2>9. IsDraw(n, e) /\ Len(e) = k + 1 /\ Orders(n, e)[k + 1] = t
    <3>1. IsDraw(n, d) /\ Len(d) < n /\ j \in Indices(n - Len(d))
      BY <2>1, <2>2, <2>8 DEF m
    <3> HIDE DEF j
    <3>2. /\ IsDraw(n, e) /\ Len(e) = Len(d) + 1
          /\ Orders(n, e)[Len(d) + 1] = Swapped(Orders(n, d)[Len(d)], n - Len(d), j)
      BY <3>1, DrawAppended
    <3> QED
      BY <2>1, <3>2 DEF m, s
  <2> HIDE DEF e, j
  <2>10. t[m] = s[z] /\ \A x \in 1 .. n : x # m /\ x # z => t[x] = s[x]
    <3>1. DOMAIN s = 1 .. n /\ m \in 1 .. n /\ j \in Indices(m)
      BY <2>2, <2>4, <2>8
    <3>2. t[m] = s[j + 1]
      BY <3>1, SwappedAt
    <3>3. \A x \in 1 .. n : x # m /\ x # j + 1 => t[x] = s[x]
      BY <3>1, SwappedAt
    <3> QED
      BY <2>8, <3>2, <3>3
  <2> HIDE DEF t
  <2>11. ASSUME NEW x \in 1 .. n, x > n - (k + 1) PROVE Orders(n, e)[k + 1][x] = p[x]
    <3>1. x = m \/ x > m
      BY <1>4, <2>11 DEF m
    <3>2. CASE x = m
      BY <2>6, <2>9, <2>10, <3>2
    <3>3. CASE x > m
      <4>1. x # m /\ x # z
        BY <2>2, <2>7, <3>3
      <4> QED
        BY <2>5, <2>9, <2>10, <3>3, <4>1
    <3> QED
      BY <3>1, <3>2, <3>3
  <2>12. Settled(e, k + 1)
    BY <2>11 DEF Settled
  <2> QED
    BY <2>9, <2>12 DEF Found
<1>5. ASSUME NEW l \in T, l \in Nat, \A y \in 0 .. l - 1 : y \in 0 .. Turns(n) /\ y \notin T
      PROVE  FALSE
  <2> HIDE DEF Found
  <2>1. l <= Turns(n) /\ ~ Found(l)
    OBVIOUS
  <2>2. l # 0
    BY <1>3, <2>1
  <2>3. l - 1 \in 0 .. l - 1 /\ l - 1 \in Nat /\ (l - 1) + 1 = l
    BY <1>5, <2>2
  <2>4. Found(l - 1)
    BY <1>5, <2>3
  <2> HIDE DEF T
  <2>5. Found((l - 1) + 1)
    BY <1>4, <2>1, <2>3, <2>4
  <2> QED
    BY <2>1, <2>3, <2>5
<1>6. T = {}
  <2>1. T \in SUBSET (0 .. Turns(n))
    OBVIOUS
  <2> HIDE DEF T
  <2> QED
    BY <1>2, <1>5, <2>1, LeastUpTo
<1>7. Found(Turns(n))
  <2> HIDE DEF Found
  <2>1. Turns(n) \in 0 .. Turns(n)
    BY <1>2
  <2> QED
    BY <1>6, <2>1
<1>8. PICK d : IsDraw(n, d) /\ Len(d) = Turns(n) /\ Settled(d, Turns(n))
  BY <1>7
<1> DEFINE s == Orders(n, d)[Turns(n)]
<1>9. s \in Bijection(1 .. n, 1 .. n)
  <2>1. Turns(n) \in 0 .. Len(d)
    BY <1>2, <1>8
  <2> QED
    BY <1>8, <2>1, OrdersPermute
<1>10. \A x \in 1 .. n : x > n - Turns(n) => s[x] = p[x]
  BY <1>8
<1>11. s = Replay(n, d)
  BY <1>8 DEF Replay
<1> HIDE DEF s
<1>12. /\ DOMAIN s = 1 .. n
       /\ \A x \in 1 .. n : s[x] \in 1 .. n
       /\ \A x, y \in 1 .. n : s[x] = s[y] => x = y
  BY <1>9, OrderFacts
<1>13. ASSUME NEW x \in 1 .. n PROVE s[x] = p[x]
  <2>1. CASE x > 1
    BY <1>10, <2>1 DEF Turns
  <2>2. CASE x = 1
    <3>1. PICK y \in 1 .. n : p[y] = s[1]
      BY <1>1, <1>12, <2>2
    <3>2. y = 1
      <4>1. SUFFICES ASSUME y > 1 PROVE FALSE
        OBVIOUS
      <4>2. s[y] = p[y]
        BY <1>10, <4>1 DEF Turns
      <4>3. y = 1
        BY <1>12, <2>2, <3>1, <4>2
      <4> QED
        BY <4>1, <4>3
    <3> QED
      BY <2>2, <3>1, <3>2
  <2> QED
    BY <2>1, <2>2
<1>14. s = p
  <2>1. s \in [1 .. n -> 1 .. n] /\ p \in [1 .. n -> 1 .. n]
    BY <1>9 DEF Bijection, Injection
  <2> QED
    BY <1>13, <2>1
<1> QED
  BY <1>8, <1>11, <1>14

\* The indices that a whole shuffle may draw.
LEMMA AllDrawsAre ==
  ASSUME NEW n \in Nat, NEW d
  PROVE  d \in AllDraws(n) <=> IsDraw(n, d) /\ Len(d) = Turns(n)
<1> DEFINE h == Turns(n)
<1>1. h \in Nat /\ h <= n /\ 1 .. n - 1 = 1 .. h
  BY DEF Turns
<1>2. ASSUME d \in AllDraws(n) PROVE IsDraw(n, d) /\ Len(d) = h
  <2>1. /\ d \in [1 .. n - 1 -> 0 .. n - 1]
        /\ \A k \in 1 .. n - 1 : d[k] \in Indices(n + 1 - k)
    BY <1>2 DEF AllDraws
  <2> HIDE DEF h
  <2>2. d \in [1 .. h -> 0 .. n - 1] /\ \A k \in 1 .. h : d[k] \in Indices(n + 1 - k)
    BY <1>1, <2>1
  <2>3. d \in Seq(0 .. n - 1) /\ Len(d) = h
    BY <1>1, <2>2
  <2>4. d \in Seq(Nat)
    BY <2>3
  <2> QED
    BY <1>1, <2>2, <2>3, <2>4 DEF IsDraw
<1>3. ASSUME IsDraw(n, d), Len(d) = h PROVE d \in AllDraws(n)
  <2>1. d \in Seq(Nat) /\ \A k \in 1 .. h : d[k] \in Indices(n + 1 - k)
    BY <1>3 DEF IsDraw
  <2> HIDE DEF h
  <2>2. \A k \in 1 .. h : d[k] \in 0 .. n - 1
    BY <1>1, <2>1 DEF Indices
  <2>3. d = [k \in 1 .. h |-> d[k]]
    BY <1>3, <2>1
  <2>4. d \in [1 .. h -> 0 .. n - 1]
    BY <2>2, <2>3
  <2> QED
    BY <1>1, <2>1, <2>4 DEF AllDraws
<1> QED
  BY <1>2, <1>3

\* Fisher-Yates: of the sequences of indices that the shuffle of n characters may
\* draw, each order comes from one and only one.
THEOREM ReplayIsBijection ==
  ASSUME NEW n \in Nat
  PROVE  [d \in AllDraws(n) |-> Replay(n, d)]
            \in Bijection(AllDraws(n), Bijection(1 .. n, 1 .. n))
<1> DEFINE D == AllDraws(n)
           B == Bijection(1 .. n, 1 .. n)
           f == [d \in D |-> Replay(n, d)]
<1>1. \A d : d \in D <=> IsDraw(n, d) /\ Len(d) = Turns(n)
  BY AllDrawsAre
<1> HIDE DEF D
<1>2. ASSUME NEW d \in D PROVE Replay(n, d) \in B
  <2>1. IsDraw(n, d) /\ Len(d) \in 0 .. Len(d)
    BY <1>1 DEF IsDraw
  <2> QED
    BY <2>1, OrdersPermute DEF Replay
<1>3. ASSUME NEW d \in D, NEW e \in D, Replay(n, d) = Replay(n, e) PROVE d = e
  <2>1. IsDraw(n, d) /\ IsDraw(n, e) /\ Len(d) = Len(e)
    BY <1>1
  <2> QED
    BY <1>3, <2>1, ReplayInjective
<1>4. ASSUME NEW p \in B PROVE \E d \in D : Replay(n, d) = p
  <2>1. PICK d : IsDraw(n, d) /\ Len(d) = Turns(n) /\ Replay(n, d) = p
    BY ReplaySurjective
  <2> QED
    BY <1>1, <2>1
<1> HIDE DEF B
<1>5. f \in [D -> B]
  BY <1>2
<1>6. \A d \in D : f[d] = Replay(n, d)
  OBVIOUS
<1> HIDE DEF f
<1>7. \A a, b \in D : f[a] = f[b] => a = b
  BY <1>3, <1>6
<1>8. \A p \in B : \E d \in D : f[d] = p
  BY <1>4, <1>6
<1>9. f \in Bijection(D, B)
  BY <1>5, <1>7, <1>8, IsBijection
<1> QED
  BY <1>9 DEF f, D, B
-----------------------------------------------------------------------------
(* The inductive invariant.  While an alphabet is in turn, the buffer holds  *)
(* the bytes that follow those of the string made so far, as far as they are *)
(* read, and the string has each byte at its place.  From the shuffle on,    *)
(* the bytes are in the order that the drawn indices say, and each character *)
(* is still of the class for which its byte was read.                        *)

Total(asked) == asked["digits"] + asked["letters"] + asked["symbols"]

\* The bytes read for the classes before a class.
Before(asked, class) ==
    IF class = "digits" THEN 0
    ELSE IF class = "letters" THEN asked["digits"]
    ELSE asked["digits"] + asked["letters"]

\* The class that a byte was read for.
ClassOf(asked, byte) ==
    IF byte <= asked["digits"] THEN "digits"
    ELSE IF byte <= asked["digits"] + asked["letters"] THEN "letters"
    ELSE "symbols"

Starting ==
    /\ stage = "idle" => out = <<>> /\ drawn = 0 /\ draws = <<>>
    /\ stage = "string" => out = <<>> /\ drawn = 0 /\ done = 0
    /\ stage = "shuffle" => request \in Requests
    /\ stage = "string" => request \in [{"string"} -> Lengths]

Filling ==
    stage \in Classes =>
        /\ request \in Requests /\ draws = <<>>
        /\ Len(dst) = request[stage]
        /\ Len(out) = Before(request, stage) /\ drawn = Len(out) + done
        /\ \A k \in 1 .. Len(dst) : dst[k] = IF k <= done THEN Len(out) + k ELSE 0
        /\ \A k \in 1 .. Len(out) : out[k] = <<ClassOf(request, k), k>>

Shuffling ==
    stage \in {"shuffle", "returned"} /\ request \in Requests =>
        /\ Len(out) = Total(request) /\ IsDraw(Total(request), draws)
        /\ turn = Total(request) - Len(draws) /\ (turn = 0 => Total(request) = 0)
        /\ stage = "shuffle" <=> turn > 1
        /\ \A k \in 1 .. Total(request) :
              LET byte == Replay(Total(request), draws)[k] IN out[k] = <<ClassOf(request, byte), byte>>

RandomInv == RandomTypeOK /\ Starting /\ Filling /\ Shuffling /\ OwnRandomByte

\* The numbers asked for are numbers, and a length is not such a request.
LEMMA Asking ==
  /\ request \in Requests =>
        /\ request["digits"] \in Nat /\ request["letters"] \in Nat
        /\ request["symbols"] \in Nat /\ Total(request) \in Nat
  /\ request \in [{"string"} -> Lengths] => request \notin Requests
<1>1. "digits" \in Classes /\ "letters" \in Classes /\ "symbols" \in Classes
  BY DEF Classes
<1>2. ASSUME request \in Requests
      PROVE  /\ DOMAIN request = Classes
             /\ request["digits"] \in Nat /\ request["letters"] \in Nat
             /\ request["symbols"] \in Nat
  BY <1>1, <1>2, RequestsAssumption
<1>3. request \in Requests => Total(request) \in Nat
  BY <1>2 DEF Total
<1>4. ASSUME request \in [{"string"} -> Lengths], request \in Requests PROVE FALSE
  <2>1. DOMAIN request = {"string"}
    BY <1>4
  <2>2. "digits" \in {"string"}
    BY <1>1, <1>2, <1>4, <2>1
  <2> QED
    BY <2>2
<1> QED
  BY <1>2, <1>3, <1>4

\* A sequence over a set is one over any larger set.
LEMMA SeqWidens ==
  ASSUME NEW S, NEW T, S \subseteq T, NEW s \in Seq(S)
  PROVE  s \in Seq(T)
<1>1. /\ Len(s) \in Nat /\ s = [k \in 1 .. Len(s) |-> s[k]]
      /\ \A k \in 1 .. Len(s) : s[k] \in T
  BY ElementOfSeq
<1> QED
  BY <1>1

\* A fresh buffer.
LEMMA ZerosBuffer ==
  ASSUME NEW n \in Nat, NEW m \in Nat
  PROVE  /\ Zeros(n) \in Seq(0 .. m) /\ Len(Zeros(n)) = n
         /\ \A k \in 1 .. n : Zeros(n)[k] = 0
BY DEF Zeros

\* A read fills the places it asks for and leaves the others.
LEMMA ReadFills ==
  ASSUME RandomTypeOK, NEW r \in Nat, r <= Len(dst) - done, ReadStores(r)
  PROVE  /\ drawn' = drawn + r /\ drawn' \in Nat
         /\ dst' \in Seq(0 .. drawn') /\ Len(dst') = Len(dst)
         /\ \A k \in 1 .. Len(dst) :
               dst'[k] = IF k \in done + 1 .. done + r THEN drawn + k - done ELSE dst[k]
         /\ \A C : out \in Seq(C \X (0 .. drawn)) => out \in Seq(C \X (0 .. drawn'))
<1> DEFINE e == dst'
           f == drawn'
<1>1. /\ dst \in Seq(0 .. drawn) /\ done \in 0 .. Len(dst) /\ drawn \in Nat
      /\ Len(dst) \in Nat
  BY DEF RandomTypeOK
<1>2. f = drawn + r /\ f \in Nat
  BY <1>1 DEF ReadStores
<1>3. DOMAIN dst = 1 .. Len(dst) /\ \A k \in 1 .. Len(dst) : dst[k] \in 0 .. drawn
  BY <1>1
<1>4. e = [k \in 1 .. Len(dst) |->
              IF k \in done + 1 .. done + r THEN drawn + k - done ELSE dst[k]]
  BY <1>3 DEF ReadStores
<1> HIDE DEF e, f
<1>5. \A k \in 1 .. Len(dst) :
         e[k] = IF k \in done + 1 .. done + r THEN drawn + k - done ELSE dst[k]
  BY <1>4
<1>6. ASSUME NEW k \in 1 .. Len(dst) PROVE e[k] \in 0 .. f
  BY <1>1, <1>2, <1>3, <1>5
<1>7. e = [k \in 1 .. Len(dst) |-> e[k]]
  BY <1>4
<1>8. e \in Seq(0 .. f) /\ Len(e) = Len(dst)
  BY <1>1, <1>6, <1>7
<1>9. ASSUME NEW C, out \in Seq(C \X (0 .. drawn)) PROVE out \in Seq(C \X (0 .. f))
  <2>1. C \X (0 .. drawn) \subseteq C \X (0 .. f)
    BY <1>1, <1>2
  <2> QED
    BY <1>9, <2>1, SeqWidens
<1> QED
  BY <1>2, <1>5, <1>8, <1>9 DEF e, f

\* A read of read_exact keeps the invariant.
LEMMA ReadInv ==
  ASSUME RandomInv, read_exact
  PROVE  RandomInv'
<1>1. /\ stage \in Classes \cup {"shuffle"} /\ done < Len(dst)
      /\ UNCHANGED <<stage, request, out, turn, draws>>
  BY DEF read_exact
<1>2. PICK r \in 1 .. Asked : ReadStores(r) /\ done' = done + r
  BY DEF read_exact
<1>3. /\ dst \in Seq(0 .. drawn) /\ done \in 0 .. Len(dst) /\ drawn \in Nat
      /\ Len(dst) \in Nat /\ Len(out) \in Nat
  BY DEF RandomInv, RandomTypeOK
<1>4. r \in Nat /\ r >= 1 /\ r <= Len(dst) - done
  BY <1>3 DEF Asked
<1>5. /\ drawn' = drawn + r /\ drawn' \in Nat
      /\ dst' \in Seq(0 .. drawn') /\ Len(dst') = Len(dst)
      /\ \A k \in 1 .. Len(dst) :
            dst'[k] = IF k \in done + 1 .. done + r THEN drawn + k - done ELSE dst[k]
      /\ \A C : out \in Seq(C \X (0 .. drawn)) => out \in Seq(C \X (0 .. drawn'))
  <2>1. RandomTypeOK /\ ReadStores(r)
    BY <1>2 DEF RandomInv
  <2> QED
    BY <1>4, <2>1, ReadFills
<1>6. done' \in 0 .. Len(dst') /\ done' = done + r
  BY <1>2, <1>3, <1>4, <1>5
<1>7. RandomTypeOK'
  <2>1. /\ turn \in Nat /\ draws \in Seq(Nat)
        /\ stage # "idle" => request \in Requests \cup [{"string"} -> Lengths]
        /\ stage \in Classes \cup {"idle", "shuffle", "string", "returned", "thrown"}
        /\ out \in Seq((Classes \cup {"string"}) \X (0 .. drawn))
    BY DEF RandomInv, RandomTypeOK
  <2>2. out' \in Seq((Classes \cup {"string"}) \X (0 .. drawn'))
    BY <1>1, <1>5, <2>1
  <2> QED
    BY <1>1, <1>5, <1>6, <2>1, <2>2 DEF RandomTypeOK
<1>8. Starting'
  BY <1>1 DEF RandomInv, Starting, Classes
<1>9. Filling'
  <2> SUFFICES ASSUME stage \in Classes PROVE Filling'
    BY <1>1 DEF Filling
  <2>1. /\ request \in Requests /\ draws = <<>>
        /\ Len(dst) = request[stage]
        /\ Len(out) = Before(request, stage) /\ drawn = Len(out) + done
        /\ \A k \in 1 .. Len(dst) : dst[k] = IF k <= done THEN Len(out) + k ELSE 0
        /\ \A k \in 1 .. Len(out) : out[k] = <<ClassOf(request, k), k>>
    BY DEF RandomInv, Filling
  <2>2. ASSUME NEW k \in 1 .. Len(dst)
        PROVE  dst'[k] = IF k <= done + r THEN Len(out) + k ELSE 0
    <3>1. /\ dst'[k] = IF k \in done + 1 .. done + r THEN drawn + k - done ELSE dst[k]
          /\ dst[k] = IF k <= done THEN Len(out) + k ELSE 0
      BY <1>5, <2>1
    <3>2. drawn = Len(out) + done /\ k \in Int /\ done \in Int /\ k >= 1
      BY <1>3, <2>1
    <3> QED
      BY <1>3, <1>4, <3>1, <3>2
  <2>3. drawn' = Len(out) + (done + r)
    BY <1>3, <1>4, <1>5, <2>1
  <2> QED
    BY <1>1, <1>5, <1>6, <2>1, <2>2, <2>3 DEF Filling
<1>10. Shuffling'
  BY <1>1 DEF RandomInv, Shuffling
<1>11. OwnRandomByte'
  BY <1>1 DEF RandomInv, OwnRandomByte
<1> QED
  BY <1>7, <1>8, <1>9, <1>10, <1>11 DEF RandomInv

\* What a buffer chooses from an alphabet.
LEMMA CharsOfBuffer ==
  ASSUME NEW C, NEW class \in C, NEW n \in Nat, NEW b \in Seq(0 .. n)
  PROVE  /\ Chars(class, b) \in Seq(C \X (0 .. n))
         /\ Len(Chars(class, b)) = Len(b)
         /\ \A k \in 1 .. Len(b) : Chars(class, b)[k] = <<class, b[k]>>
<1>1. Len(b) \in Nat /\ DOMAIN b = 1 .. Len(b) /\ \A k \in 1 .. Len(b) : b[k] \in 0 .. n
  BY ElementOfSeq
<1> QED
  BY <1>1 DEF Chars

\* A swap keeps a sequence one, of the same length.
LEMMA SwappedSeq ==
  ASSUME NEW S, NEW s \in Seq(S), NEW m \in 1 .. Len(s), NEW j \in Indices(m)
  PROVE  Swapped(s, m, j) \in Seq(S) /\ Len(Swapped(s, m, j)) = Len(s)
<1> DEFINE t == Swapped(s, m, j)
<1>1. /\ Len(s) \in Nat /\ DOMAIN s = 1 .. Len(s)
      /\ \A k \in 1 .. Len(s) : s[k] \in S
  BY ElementOfSeq
<1>2. /\ j + 1 \in 1 .. Len(s) /\ t = [x \in 1 .. Len(s) |-> t[x]]
      /\ t[m] = s[j + 1] /\ t[j + 1] = s[m]
      /\ \A x \in 1 .. Len(s) : x # m /\ x # j + 1 => t[x] = s[x]
  BY <1>1, SwappedAt
<1> HIDE DEF t
<1>3. ASSUME NEW x \in 1 .. Len(s) PROVE t[x] \in S
  BY <1>1, <1>2
<1>4. t \in Seq(S) /\ Len(t) = Len(s)
  BY <1>1, <1>2, <1>3
<1> QED
  BY <1>4 DEF t

\* The order before the first turn.
LEMMA NothingDrawn ==
  ASSUME NEW n \in Nat
  PROVE  IsDraw(n, <<>>) /\ \A k \in 1 .. n : Replay(n, <<>>)[k] = k
<1>1. <<>> \in Seq(Nat) /\ Len(<<>>) = 0
  OBVIOUS
<1>2. IsDraw(n, <<>>)
  BY <1>1 DEF IsDraw
<1>3. Orders(n, <<>>)[0] = [m \in 1 .. n |-> m]
  BY <1>1, OrdersSteps
<1>4. Replay(n, <<>>) = [m \in 1 .. n |-> m]
  BY <1>1, <1>3 DEF Replay
<1> QED
  BY <1>2, <1>4

\* An alphabet that is done hands over to the next one or to the shuffle.
LEMMA AlphabetInv ==
  ASSUME RandomInv, random_from_alphabet
  PROVE  RandomInv'
<1> DEFINE C == Classes \cup {"string"}
           new == Chars(stage, dst)
           m == Len(out)
           l == Len(dst)
<1>1. /\ stage \in Classes /\ done = l
      /\ out' = out \o new
      /\ request' = request /\ drawn' = drawn /\ draws' = draws
  BY DEF random_from_alphabet, ReadComplete
<1>2. /\ dst \in Seq(0 .. drawn) /\ drawn \in Nat
      /\ out \in Seq(C \X (0 .. drawn)) /\ m \in Nat /\ l \in Nat
      /\ turn \in Nat /\ draws \in Seq(Nat)
  BY DEF RandomInv, RandomTypeOK
<1>3. /\ request \in Requests /\ draws = <<>>
      /\ l = request[stage]
      /\ m = Before(request, stage) /\ drawn = m + l
      /\ \A k \in 1 .. l : dst[k] = m + k
      /\ \A k \in 1 .. m : out[k] = <<ClassOf(request, k), k>>
  BY <1>1, <1>2 DEF RandomInv, Filling
<1>4. /\ request["digits"] \in Nat /\ request["letters"] \in Nat
      /\ request["symbols"] \in Nat /\ Total(request) \in Nat
  BY <1>3, Asking
<1>5. /\ new \in Seq(C \X (0 .. drawn)) /\ Len(new) = l
      /\ \A k \in 1 .. l : new[k] = <<stage, m + k>>
  <2>1. stage \in C
    BY <1>1
  <2> HIDE DEF C
  <2>2. /\ new \in Seq(C \X (0 .. drawn)) /\ Len(new) = l
        /\ \A k \in 1 .. l : new[k] = <<stage, dst[k]>>
    BY <1>2, <2>1, CharsOfBuffer
  <2> QED
    BY <1>3, <2>2
<1>6. ASSUME NEW k \in 1 .. l PROVE ClassOf(request, m + k) = stage
  <2>1. CASE stage = "digits"
    BY <1>2, <1>3, <1>4, <2>1 DEF ClassOf, Before
  <2>2. CASE stage = "letters"
    BY <1>2, <1>3, <1>4, <2>2 DEF ClassOf, Before
  <2>3. CASE stage = "symbols"
    <3>1. m = request["digits"] + request["letters"]
      BY <1>3, <2>3 DEF Before
    <3>2. ~ (m + k <= request["digits"]) /\ ~ (m + k <= request["digits"] + request["letters"])
      BY <1>2, <1>4, <3>1
    <3> QED
      BY <2>3, <3>2 DEF ClassOf
  <2> QED
    BY <1>1, <2>1, <2>2, <2>3 DEF Classes
<1> HIDE DEF new, C
<1>7. /\ out' \in Seq(C \X (0 .. drawn)) /\ Len(out') = drawn
      /\ \A k \in 1 .. m : out'[k] = out[k]
      /\ \A k \in 1 .. l : out'[m + k] = new[k]
  <2>1. out' \in Seq(C \X (0 .. drawn)) /\ Len(out') = Len(out) + Len(new)
    <3> DEFINE X == C \X (0 .. drawn)
    <3> HIDE DEF X
    <3>1. out \in Seq(X) /\ new \in Seq(X) /\ out' = out \o new
      BY <1>1, <1>2, <1>5 DEF X
    <3>2. out \o new \in Seq(X) /\ Len(out \o new) = Len(out) + Len(new)
      BY <3>1, ConcatProperties
    <3> QED
      BY <3>1, <3>2 DEF X
  <2>2. ASSUME NEW k \in 1 .. m PROVE out'[k] = out[k]
    BY <1>1, <1>2, <1>5
  <2>3. ASSUME NEW k \in 1 .. l PROVE out'[m + k] = new[k]
    BY <1>1, <1>2, <1>5
  <2> QED
    BY <1>3, <1>5, <2>1, <2>2, <2>3
<1>8. ASSUME NEW k \in 1 .. Len(out') PROVE out'[k] = <<ClassOf(request, k), k>>
  <2>1. CASE k <= m
    <3>1. k \in 1 .. m
      BY <1>2, <2>1
    <3> QED
      BY <1>3, <1>7, <3>1
  <2>2. CASE k > m
    <3>1. k - m \in 1 .. l /\ m + (k - m) = k
      BY <1>2, <1>3, <1>7, <2>2
    <3>2. out'[k] = new[k - m]
      BY <1>7, <3>1
    <3>3. new[k - m] = <<stage, k>> /\ ClassOf(request, k) = stage
      BY <1>5, <1>6, <3>1
    <3> QED
      BY <3>2, <3>3
  <2> QED
    BY <1>2, <2>1, <2>2
<1>10. OwnRandomByte'
  <2>1. DOMAIN (out') = 1 .. Len(out')
    BY <1>7
  <2>2. ASSUME NEW k \in 1 .. Len(out') PROVE out'[k][2] = k /\ k # 0
    BY <1>8
  <2> QED
    BY <2>1, <2>2 DEF OwnRandomByte
<1>11. \A n \in Nat : /\ Zeros(n) \in Seq(0 .. drawn) /\ Len(Zeros(n)) = n
                      /\ \A k \in 1 .. n : Zeros(n)[k] = 0
  BY <1>2, ZerosBuffer
<1>12. CASE stage # "symbols"
  <2> DEFINE next == Following[stage]
  <2>1. /\ stage' = next /\ dst' = Zeros(request[next]) /\ done' = 0 /\ turn' = turn
    BY <1>12 DEF random_from_alphabet, Enter
  <2>2. next \in Classes /\ Before(request, next) = drawn /\ request[next] \in Nat
    BY <1>1, <1>3, <1>4, <1>12 DEF Following, Classes, Before
  <2> HIDE DEF next
  <2>3. /\ dst' \in Seq(0 .. drawn') /\ Len(dst') = request[next]
        /\ \A k \in 1 .. Len(dst') : dst'[k] = 0
    BY <1>1, <1>11, <2>1, <2>2
  <2>4. RandomTypeOK'
    BY <1>1, <1>2, <1>3, <1>7, <2>1, <2>2, <2>3 DEF RandomTypeOK, C
  <2>5. Starting'
    BY <2>1, <2>2 DEF Starting, Classes
  <2>6. Filling'
    <3>1. ASSUME NEW k \in 1 .. Len(dst') PROVE ~ (k <= done')
      BY <2>1
    <3>2. request' \in Requests /\ draws' = <<>> /\ drawn' = Len(out') + done'
      BY <1>1, <1>2, <1>3, <1>7, <2>1
    <3>3. Len(dst') = request'[stage'] /\ Len(out') = Before(request', stage')
      BY <1>1, <1>7, <2>1, <2>2, <2>3
    <3>4. ASSUME NEW k \in 1 .. Len(out') PROVE out'[k] = <<ClassOf(request', k), k>>
      BY <1>1, <1>8
    <3> QED
      BY <2>3, <3>1, <3>2, <3>3, <3>4 DEF Filling
  <2>7. Shuffling'
    BY <2>1, <2>2 DEF Shuffling, Classes
  <2> QED
    BY <1>10, <2>4, <2>5, <2>6, <2>7 DEF RandomInv
<1>13. CASE stage = "symbols"
  <2>1. turn' = Len(out') /\ EnterShuffle
    BY <1>13 DEF random_from_alphabet
  <2>2. Len(out') = Total(request) /\ drawn = Total(request)
    BY <1>3, <1>4, <1>7, <1>13 DEF Before, Total
  <2>3. /\ stage' = IF turn' > 1 THEN "shuffle" ELSE "returned"
        /\ dst' \in Seq(0 .. drawn') /\ done' \in 0 .. Len(dst')
    <3>1. CASE turn' > 1
      BY <1>1, <1>11, <2>1, <3>1 DEF EnterShuffle, Enter, WordSize
    <3>2. CASE ~ (turn' > 1)
      <4>1. stage' = "returned" /\ dst' = dst /\ done' = done
        BY <2>1, <3>2 DEF EnterShuffle
      <4> QED
        BY <1>1, <1>2, <3>2, <4>1
    <3> QED
      BY <3>1, <3>2
  <2>4. stage' \in {"shuffle", "returned"}
    BY <2>3
  <2>5. RandomTypeOK'
    BY <1>1, <1>2, <1>3, <1>7, <2>1, <2>2, <2>3, <2>4 DEF RandomTypeOK, C
  <2>6. Starting'
    BY <1>1, <1>3, <2>4 DEF Starting
  <2>7. Filling'
    BY <2>4 DEF Filling, Classes
  <2>8. Shuffling'
    <3>1. IsDraw(Total(request), <<>>) /\ \A k \in 1 .. Total(request) : Replay(Total(request), <<>>)[k] = k
      BY <1>4, NothingDrawn
    <3>2. draws' = <<>> /\ turn' = Total(request) - Len(draws') /\ turn' = Total(request)
      BY <1>1, <1>3, <1>4, <2>1, <2>2
    <3>3. stage' = "shuffle" <=> turn' > 1
      BY <2>3
    <3>4. ASSUME NEW k \in 1 .. Total(request)
          PROVE  /\ Replay(Total(request), draws')[k] = k
                 /\ out'[k] = <<ClassOf(request, k), k>>
      BY <1>8, <2>2, <3>1, <3>2
    <3> QED
      BY <1>1, <2>2, <3>1, <3>2, <3>3, <3>4 DEF Shuffling
  <2> QED
    BY <1>10, <2>5, <2>6, <2>7, <2>8 DEF RandomInv
<1> QED
  BY <1>12, <1>13

\* A turn of the shuffle swaps the same two places of the string and of the order.
LEMMA ShuffleInv ==
  ASSUME RandomInv, Shuffle
  PROVE  RandomInv'
<1> DEFINE C == Classes \cup {"string"}
           n == Total(request)
           h == Len(draws)
           R == Replay(n, draws)
<1>1. /\ stage = "shuffle" /\ request' = request /\ drawn' = drawn
      /\ turn' = turn - 1 /\ EnterShuffle
  BY DEF Shuffle
<1>2. PICK j \in Indices(turn) : out' = Swapped(out, turn, j) /\ draws' = Append(draws, j)
  BY DEF Shuffle
<1>3. /\ request \in Requests
      /\ Len(out) = n /\ IsDraw(n, draws) /\ turn = n - h /\ turn > 1
      /\ \A k \in 1 .. n : out[k] = <<ClassOf(request, R[k]), R[k]>>
  BY <1>1 DEF RandomInv, Starting, Shuffling
<1>4. /\ dst \in Seq(0 .. drawn) /\ done \in 0 .. Len(dst) /\ drawn \in Nat
      /\ out \in Seq(C \X (0 .. drawn))
      /\ turn \in Nat /\ draws \in Seq(Nat) /\ h \in Nat
  BY DEF RandomInv, RandomTypeOK
<1>5. n \in Nat /\ h < n /\ turn \in 1 .. n /\ n - h = turn
  BY <1>3, <1>4, Asking
<1>6. R = Orders(n, draws)[h] /\ R \in Bijection(1 .. n, 1 .. n)
  <2>1. h \in 0 .. h
    BY <1>4
  <2> QED
    BY <1>3, <1>5, <2>1, OrdersPermute DEF Replay
<1> HIDE DEF n, R
<1> DEFINE d == Append(draws, j)
           P == Replay(n, d)
<1>7. IsDraw(n, d) /\ Len(d) = h + 1 /\ P = Swapped(R, turn, j)
  <2>1. j \in Indices(n - Len(draws))
    BY <1>5
  <2>2. /\ IsDraw(n, d) /\ Len(d) = h + 1
        /\ Orders(n, d)[h + 1] = Swapped(Orders(n, draws)[h], n - h, j)
    BY <1>3, <1>5, <2>1, DrawAppended
  <2> QED
    BY <1>5, <1>6, <2>2 DEF Replay
<1> HIDE DEF d, P, h
<1>8. DOMAIN R = 1 .. n
  BY <1>5, <1>6, OrderFacts
<1>9. /\ j + 1 \in 1 .. n
      /\ P[turn] = R[j + 1] /\ P[j + 1] = R[turn]
      /\ \A x \in 1 .. n : x # turn /\ x # j + 1 => P[x] = R[x]
  BY <1>5, <1>7, <1>8, SwappedAt
<1>10. DOMAIN out = 1 .. n
  BY <1>3, <1>4
<1> DEFINE o == out'
<1>11. /\ o[turn] = out[j + 1] /\ o[j + 1] = out[turn]
       /\ \A x \in 1 .. n : x # turn /\ x # j + 1 => o[x] = out[x]
  BY <1>2, <1>5, <1>10, SwappedAt
<1>12. o \in Seq(C \X (0 .. drawn)) /\ Len(o) = n
  <2> DEFINE X == C \X (0 .. drawn)
  <2> HIDE DEF X
  <2>1. out \in Seq(X) /\ turn \in 1 .. Len(out)
    BY <1>3, <1>4, <1>5 DEF X
  <2>2. Swapped(out, turn, j) \in Seq(X) /\ Len(Swapped(out, turn, j)) = Len(out)
    BY <2>1, SwappedSeq
  <2> QED
    BY <1>2, <1>3, <2>2 DEF X
<1> HIDE DEF o
<1>13. ASSUME NEW x \in 1 .. n PROVE o[x] = <<ClassOf(request, P[x]), P[x]>>
  <2>1. CASE x = turn
    BY <1>3, <1>9, <1>11, <2>1
  <2>2. CASE x = j + 1
    BY <1>3, <1>5, <1>9, <1>11, <2>2
  <2>3. CASE x # turn /\ x # j + 1
    BY <1>3, <1>9, <1>11, <2>3
  <2> QED
    BY <2>1, <2>2, <2>3
<1>14. /\ \A x \in 1 .. n : P[x] \in 1 .. n
       /\ \A x, y \in 1 .. n : P[x] = P[y] => x = y
  <2>1. P \in Bijection(1 .. n, 1 .. n)
    BY <1>5, <1>6, <1>7, SwappedBijection
  <2> QED
    BY <1>5, <2>1, OrderFacts
<1>15. OwnRandomByte'
  <2>1. DOMAIN o = 1 .. n
    BY <1>12
  <2>2. ASSUME NEW x \in 1 .. n PROVE o[x][2] = P[x] /\ P[x] # 0
    BY <1>13, <1>14
  <2>3. ASSUME NEW x \in DOMAIN o
        PROVE  /\ o[x][2] # 0
               /\ \A y \in DOMAIN o : o[x][2] = o[y][2] => x = y
    BY <1>14, <2>1, <2>2
  <2> QED
    BY <2>3 DEF OwnRandomByte, o
<1>16. /\ stage' = IF turn' > 1 THEN "shuffle" ELSE "returned"
       /\ dst' \in Seq(0 .. drawn') /\ done' \in 0 .. Len(dst')
  <2>1. CASE turn' > 1
    <3>1. /\ Zeros(WordSize) \in Seq(0 .. drawn) /\ Len(Zeros(WordSize)) = WordSize
      BY <1>4, ZerosBuffer DEF WordSize
    <3>2. stage' = "shuffle" /\ dst' = Zeros(WordSize) /\ done' = 0
      BY <1>1, <2>1 DEF EnterShuffle, Enter
    <3> QED
      BY <1>1, <2>1, <3>1, <3>2 DEF WordSize
  <2>2. CASE ~ (turn' > 1)
    <3>1. stage' = "returned" /\ dst' = dst /\ done' = done
      BY <1>1, <2>2 DEF EnterShuffle
    <3> QED
      BY <1>1, <1>4, <2>2, <3>1
  <2> QED
    BY <2>1, <2>2
<1>17. stage' \in {"shuffle", "returned"}
  BY <1>16
<1>18. RandomTypeOK'
  <2>1. draws' \in Seq(Nat)
    BY <1>2, <1>7 DEF d, IsDraw
  <2>2. turn' \in Nat /\ drawn' \in Nat
    BY <1>1, <1>3, <1>4
  <2>3. out' \in Seq(C \X (0 .. drawn'))
    BY <1>1, <1>12, Zenon DEF o
  <2> QED
    BY <1>1, <1>3, <1>16, <1>17, <2>1, <2>2, <2>3 DEF RandomTypeOK
<1>19. Starting'
  BY <1>1, <1>3, <1>17 DEF Starting
<1>20. Filling'
  BY <1>17 DEF Filling, Classes
<1>21. Shuffling'
  <2>1. draws' = d /\ Total(request') = n
    BY <1>1, <1>2 DEF d, n
  <2>2. turn' = n - Len(draws') /\ turn' # 0
    BY <1>1, <1>3, <1>4, <1>5, <1>7, <2>1
  <2>3. stage' = "shuffle" <=> turn' > 1
    BY <1>16
  <2>4. Len(out') = n /\ IsDraw(n, draws')
    BY <1>7, <1>12, <2>1 DEF o
  <2>5. ASSUME NEW x \in 1 .. n
        PROVE  LET byte == Replay(n, draws')[x] IN out'[x] = <<ClassOf(request', byte), byte>>
    BY <1>1, <1>13, <2>1 DEF P, o
  <2> QED
    BY <2>1, <2>2, <2>3, <2>4, <2>5 DEF Shuffling
<1> QED
  BY <1>15, <1>18, <1>19, <1>20, <1>21 DEF RandomInv

\* Every other step, and what is true at first.
LEMMA CallInv ==
  ASSUME RandomInv, random_password_counts
  PROVE  RandomInv'
<1>1. /\ stage = "idle" /\ request' \in Requests
      /\ stage' = "digits" /\ dst' = Zeros(request'["digits"]) /\ done' = 0
      /\ drawn' = drawn /\ out' = out /\ turn' = turn /\ draws' = draws
  BY DEF random_password_counts, Enter
<1>2. out = <<>> /\ drawn = 0 /\ draws = <<>> /\ turn \in Nat
  BY <1>1 DEF RandomInv, Starting, RandomTypeOK
<1>3. request'["digits"] \in Nat
  BY <1>1, RequestsAssumption DEF Classes
<1>4. /\ dst' \in Seq(0 .. drawn') /\ Len(dst') = request'["digits"]
      /\ \A k \in 1 .. Len(dst') : dst'[k] = 0
  BY <1>1, <1>2, <1>3, ZerosBuffer
<1>5. out' \in Seq((Classes \cup {"string"}) \X (0 .. drawn')) /\ Len(out') = 0
  BY <1>1, <1>2
<1>6. RandomTypeOK'
  BY <1>1, <1>2, <1>3, <1>4, <1>5 DEF RandomTypeOK, Classes
<1>7. Starting' /\ Shuffling' /\ OwnRandomByte'
  BY <1>1, <1>2, <1>5 DEF Starting, Shuffling, OwnRandomByte
<1>8. Filling'
  <2>1. \A k \in 1 .. Len(dst') : ~ (k <= done')
    BY <1>1
  <2> QED
    BY <1>1, <1>2, <1>4, <1>5, <2>1 DEF Filling, Before
<1> QED
  BY <1>6, <1>7, <1>8 DEF RandomInv

\* The calls of urandom_string, which has one buffer and no shuffle, keep it.
LEMMA StringInv ==
  ASSUME RandomInv, OpenString \/ urandom_string \/ urandom_stringThrows
  PROVE  RandomInv'
<1>1. /\ dst \in Seq(0 .. drawn) /\ Len(dst) \in Nat /\ done \in 0 .. Len(dst)
      /\ drawn \in Nat /\ turn \in Nat /\ draws \in Seq(Nat)
      /\ out \in Seq((Classes \cup {"string"}) \X (0 .. drawn))
  BY DEF RandomInv, RandomTypeOK
<1>2. CASE OpenString
  <2>1. /\ stage = "idle" /\ request' \in [{"string"} -> Lengths]
        /\ stage' = "string" /\ dst' = Zeros(request'["string"]) /\ done' = 0
        /\ drawn' = drawn /\ out' = out /\ turn' = turn /\ draws' = draws
    BY <1>2 DEF OpenString, Enter
  <2>2. out = <<>> /\ drawn = 0
    BY <2>1 DEF RandomInv, Starting
  <2>3. request'["string"] \in Nat
    BY <2>1, LengthsAssumption
  <2>4. dst' \in Seq(0 .. drawn') /\ Len(dst') = request'["string"]
    BY <2>1, <2>2, <2>3, ZerosBuffer
  <2>5. RandomTypeOK'
    BY <1>1, <2>1, <2>3, <2>4 DEF RandomTypeOK
  <2>6. Starting' /\ Filling' /\ Shuffling' /\ OwnRandomByte'
    BY <2>1, <2>2 DEF Starting, Filling, Shuffling, OwnRandomByte, Classes
  <2> QED
    BY <2>5, <2>6 DEF RandomInv
<1>3. CASE urandom_string
  <2>1. /\ stage = "string" /\ ReadStores(Len(dst)) /\ out' = Chars("string", dst')
        /\ stage' = "returned" /\ request' = request /\ done' = done
        /\ turn' = turn /\ draws' = draws
    BY <1>3 DEF urandom_string
  <2>2. drawn = 0 /\ done = 0 /\ request \in [{"string"} -> Lengths]
    BY <2>1 DEF RandomInv, Starting
  <2>3. Len(dst) <= Len(dst) - done
    BY <1>1, <2>2
  <2>4. /\ drawn' \in Nat /\ dst' \in Seq(0 .. drawn') /\ Len(dst') = Len(dst)
        /\ \A k \in 1 .. Len(dst) :
              dst'[k] = IF k \in done + 1 .. done + Len(dst) THEN drawn + k - done ELSE dst[k]
    BY <1>1, <2>1, <2>3, ReadFills DEF RandomInv
  <2>5. ASSUME NEW k \in 1 .. Len(dst) PROVE dst'[k] = k
    BY <1>1, <2>2, <2>4
  <2>6. /\ out' \in Seq((Classes \cup {"string"}) \X (0 .. drawn'))
        /\ Len(out') = Len(dst)
        /\ \A k \in 1 .. Len(dst) : out'[k] = <<"string", k>>
    <3> DEFINE b == dst'
               C == Classes \cup {"string"}
               m == drawn'
    <3> HIDE DEF b, C, m
    <3>1. "string" \in C /\ b \in Seq(0 .. m) /\ m \in Nat /\ Len(b) = Len(dst)
      BY <2>4 DEF b, C, m
    <3>2. /\ Chars("string", b) \in Seq(C \X (0 .. m))
          /\ Len(Chars("string", b)) = Len(dst)
          /\ \A k \in 1 .. Len(dst) : Chars("string", b)[k] = <<"string", b[k]>>
      BY <3>1, CharsOfBuffer
    <3> QED
      BY <2>1, <2>5, <3>2 DEF b, C, m
  <2>7. RandomTypeOK'
    BY <1>1, <2>1, <2>2, <2>4, <2>6 DEF RandomTypeOK
  <2>8. Starting' /\ Filling' /\ Shuffling'
    <3>1. request' \notin Requests
      BY <2>1, <2>2, Asking
    <3> QED
      BY <2>1, <3>1 DEF Starting, Filling, Shuffling, Classes
  <2>9. OwnRandomByte'
    <3>1. DOMAIN (out') = 1 .. Len(dst)
      BY <2>6
    <3>2. ASSUME NEW k \in 1 .. Len(dst) PROVE out'[k][2] = k /\ k # 0
      BY <2>6
    <3> QED
      BY <3>1, <3>2 DEF OwnRandomByte
  <2> QED
    BY <2>7, <2>8, <2>9 DEF RandomInv
<1>4. CASE urandom_stringThrows
  <2>1. /\ stage = "string" /\ stage' = "thrown" /\ request' = request /\ done' = done
        /\ out' = out /\ turn' = turn /\ draws' = draws
    BY <1>4 DEF urandom_stringThrows
  <2>2. PICK r \in 0 .. Len(dst) - 1 : ReadStores(r)
    BY <1>4 DEF urandom_stringThrows
  <2>3. done = 0 /\ request \in [{"string"} -> Lengths]
    BY <2>1 DEF RandomInv, Starting
  <2>4. r \in Nat /\ r <= Len(dst) - done
    BY <1>1, <2>3
  <2>5. /\ drawn' \in Nat /\ dst' \in Seq(0 .. drawn') /\ Len(dst') = Len(dst)
        /\ \A C : out \in Seq(C \X (0 .. drawn)) => out \in Seq(C \X (0 .. drawn'))
    BY <2>2, <2>4, ReadFills DEF RandomInv
  <2>6. out' \in Seq((Classes \cup {"string"}) \X (0 .. drawn'))
    BY <1>1, <2>1, <2>5
  <2>7. RandomTypeOK'
    BY <1>1, <2>1, <2>3, <2>5, <2>6 DEF RandomTypeOK
  <2>8. Starting' /\ Filling' /\ Shuffling'
    BY <2>1 DEF Starting, Filling, Shuffling, Classes
  <2>9. OwnRandomByte'
    BY <2>1 DEF RandomInv, OwnRandomByte
  <2> QED
    BY <2>7, <2>8, <2>9 DEF RandomInv
<1> QED
  BY <1>2, <1>3, <1>4

\* An exception of read_exact leaves everything but the stage as it was.
LEMMA FailInv ==
  ASSUME RandomInv, ReadFails
  PROVE  RandomInv'
<1>1. /\ stage' = "thrown" /\ stage # "idle"
      /\ UNCHANGED <<request, dst, done, drawn, out, turn, draws>>
  BY DEF ReadFails, Classes
<1>2. RandomTypeOK'
  BY <1>1 DEF RandomInv, RandomTypeOK
<1>3. Starting' /\ Filling' /\ Shuffling'
  BY <1>1 DEF Starting, Filling, Shuffling, Classes
<1>4. OwnRandomByte'
  BY <1>1 DEF RandomInv, OwnRandomByte
<1> QED
  BY <1>2, <1>3, <1>4 DEF RandomInv

\* The invariant: at every step of a call the bytes and the classes of the string
\* are where the requests, the reads and the drawn indices say.
THEOREM RandomInvariant == RandomSpec => []RandomInv
<1>1. RandomInit => RandomInv
  <2> SUFFICES ASSUME RandomInit PROVE RandomInv
    OBVIOUS
  <2>1. RandomTypeOK
    BY DEF RandomInit, RandomTypeOK
  <2>2. Starting /\ Filling /\ Shuffling /\ OwnRandomByte
    BY DEF RandomInit, Starting, Filling, Shuffling, OwnRandomByte, Classes
  <2> QED
    BY <2>1, <2>2 DEF RandomInv
<1>2. RandomInv /\ [RandomNext]_randomVars => RandomInv'
  <2> SUFFICES ASSUME RandomInv, [RandomNext]_randomVars PROVE RandomInv'
    OBVIOUS
  <2>1. CASE random_password_counts
    BY <2>1, CallInv
  <2>2. CASE OpenString \/ urandom_string \/ urandom_stringThrows
    BY <2>2, StringInv
  <2>3. CASE read_exact
    BY <2>3, ReadInv
  <2>4. CASE ReadFails
    BY <2>4, FailInv
  <2>5. CASE random_from_alphabet
    BY <2>5, AlphabetInv
  <2>6. CASE Shuffle
    BY <2>6, ShuffleInv
  <2>7. CASE UNCHANGED randomVars
    BY <2>7 DEF randomVars, RandomInv, RandomTypeOK, Starting, Filling, Shuffling,
                OwnRandomByte
  <2> QED
    BY <2>1, <2>2, <2>3, <2>4, <2>5, <2>6, <2>7 DEF RandomNext
<1> QED
  BY <1>1, <1>2, PTL DEF RandomSpec

-----------------------------------------------------------------------------
(* What the invariant gives.                                               *)

\* Every variable keeps its type, and a read never runs past its buffer.
THEOREM RandomTypes == RandomSpec => []RandomTypeOK
<1>1. RandomInv => RandomTypeOK
  BY DEF RandomInv
<1> QED
  BY <1>1, RandomInvariant, PTL

\* Every character of every string, whatever the reads gave and wherever the
\* shuffle stands, is chosen by a random byte that chooses no other.
THEOREM OwnRandomBytes == RandomSpec => []OwnRandomByte
<1>1. RandomInv => OwnRandomByte
  BY DEF RandomInv
<1> QED
  BY <1>1, RandomInvariant, PTL

\* An order of the bytes has as many of each class as were read for it.
LEMMA CountOfClass ==
  ASSUME request \in Requests, NEW c \in Classes,
         NEW R \in Bijection(1 .. Total(request), 1 .. Total(request))
  PROVE  Cardinality({k \in 1 .. Total(request) : ClassOf(request, R[k]) = c}) = request[c]
<1> DEFINE n == Total(request)
           first == Before(request, c) + 1
           last == Before(request, c) + request[c]
           A == {k \in 1 .. n : ClassOf(request, R[k]) = c}
           f == [k \in A |-> R[k]]
<1>1. /\ request["digits"] \in Nat /\ request["letters"] \in Nat
      /\ request["symbols"] \in Nat /\ n \in Nat
  BY Asking
<1>2. /\ \A x \in 1 .. n : R[x] \in 1 .. n
      /\ \A x, y \in 1 .. n : R[x] = R[y] => x = y
      /\ \A y \in 1 .. n : \E x \in 1 .. n : R[x] = y
  BY <1>1, OrderFacts
<1>3. first \in Nat /\ last \in Nat /\ first >= 1 /\ last <= n /\ last - first + 1 = request[c]
      /\ request[c] \in Nat
  BY <1>1 DEF Total, Before, Classes
<1>4. ASSUME NEW x \in 1 .. n PROVE ClassOf(request, x) = c <=> x \in first .. last
  <2>1. x \in Int /\ x >= 1 /\ x <= n
    BY <1>1
  <2>2. CASE c = "digits"
    BY <1>1, <2>1, <2>2 DEF ClassOf, Before, Total
  <2>3. CASE c = "letters"
    BY <1>1, <2>1, <2>3 DEF ClassOf, Before, Total
  <2>4. CASE c = "symbols"
    BY <1>1, <2>1, <2>4 DEF ClassOf, Before, Total
  <2> QED
    BY <2>2, <2>3, <2>4 DEF Classes
<1>5. ASSUME NEW x \in first .. last PROVE x \in 1 .. n
  BY <1>1, <1>3
<1>6. IsFiniteSet(first .. last) /\ Cardinality(first .. last) = request[c]
  <2>1. \A a \in Int, b \in Int :
           /\ IsFiniteSet(a .. b)
           /\ Cardinality(a .. b) = IF a > b THEN 0 ELSE b - a + 1
    BY FS_Interval, Zenon
  <2> HIDE DEF first, last
  <2>2. first \in Int /\ last \in Int
    BY <1>3
  <2>3. /\ IsFiniteSet(first .. last)
        /\ Cardinality(first .. last) = IF first > last THEN 0 ELSE last - first + 1
    BY <2>1, <2>2, Zenon
  <2>4. (IF first > last THEN 0 ELSE last - first + 1) = request[c]
    BY <1>3
  <2> QED
    BY <2>3, <2>4
<1>7a. IsFiniteSet(A)
  <2>1. \A a \in Int, b \in Int : IsFiniteSet(a .. b)
    BY FS_Interval, Zenon
  <2>2. IsFiniteSet(1 .. n)
    BY <1>1, <2>1
  <2>3. A \in SUBSET (1 .. n)
    OBVIOUS
  <2> HIDE DEF A, n
  <2> QED
    BY <2>2, <2>3, FS_Subset
<1> DEFINE I == first .. last
<1> HIDE DEF n, first, last
<1>7. /\ \A x \in A : R[x] \in I
      /\ \A x, y \in A : R[x] = R[y] => x = y
      /\ \A y \in I : \E x \in A : R[x] = y
  BY <1>2, <1>4, <1>5
<1> HIDE DEF A, I
<1>8. f \in [A -> I] /\ \A x \in A : f[x] = R[x]
  BY <1>7
<1> HIDE DEF f
<1>9. f \in Bijection(A, I)
  <2>1. /\ \A x, y \in A : f[x] = f[y] => x = y
        /\ \A y \in I : \E x \in A : f[x] = y
    BY <1>7, <1>8
  <2> QED
    BY <1>8, <2>1, IsBijection
<1>10. Cardinality(A) = Cardinality(I)
  <2>1. ExistsBijection(A, I)
    BY <1>9 DEF ExistsBijection
  <2> QED
    BY <1>7a, <2>1, FS_Bijection
<1> QED
  BY <1>6, <1>10 DEF A, I, n

\* The string of random_password_counts has the digits, letters and symbols that
\* were asked for, after any shuffle.
THEOREM CountsChosen == RandomSpec => []ChosenCounts
<1>1. ASSUME RandomInv, stage = "returned", request \in Requests, NEW c \in Classes
      PROVE  Cardinality({k \in DOMAIN out : out[k][1] = c}) = request[c]
  <2> DEFINE n == Total(request)
             R == Replay(n, draws)
  <2>1. /\ Len(out) = n /\ IsDraw(n, draws)
        /\ \A k \in 1 .. n : out[k] = <<ClassOf(request, R[k]), R[k]>>
    BY <1>1 DEF RandomInv, Shuffling
  <2>2. n \in Nat /\ DOMAIN out = 1 .. n
    BY <1>1, <2>1, Asking DEF RandomInv, RandomTypeOK
  <2>3. R \in Bijection(1 .. n, 1 .. n)
    <3>1. Len(draws) \in 0 .. Len(draws)
      BY <2>1 DEF IsDraw
    <3> QED
      BY <2>1, <2>2, <3>1, OrdersPermute DEF Replay
  <2> HIDE DEF R
  <2>4. {k \in DOMAIN out : out[k][1] = c} = {k \in 1 .. n : ClassOf(request, R[k]) = c}
    BY <2>1, <2>2
  <2>5. Cardinality({k \in 1 .. n : ClassOf(request, R[k]) = c}) = request[c]
    BY <1>1, <2>3, CountOfClass
  <2> QED
    BY <2>4, <2>5
<1>2. RandomInv => ChosenCounts
  BY <1>1 DEF ChosenCounts
<1> QED
  BY <1>2, RandomInvariant, PTL

\* Fisher-Yates: the string comes back in the order that the drawn indices say,
\* and each order of its bytes comes from one sequence of indices.
THEOREM OrdersOnce == RandomSpec => []EveryOrderOnce
<1>1. ASSUME RandomInv, stage = "returned", request \in Requests PROVE
         LET n == Len(out)
         IN /\ draws \in AllDraws(n)
            /\ [k \in 1 .. n |-> out[k][2]] = Replay(n, draws)
            /\ [d \in AllDraws(n) |-> Replay(n, d)]
                   \in Bijection(AllDraws(n), Bijection(1 .. n, 1 .. n))
  <2> DEFINE n == Total(request)
             R == Replay(n, draws)
  <2>1. /\ Len(out) = n /\ IsDraw(n, draws)
        /\ turn = n - Len(draws) /\ (turn = 0 => n = 0) /\ ~ (turn > 1)
        /\ \A k \in 1 .. n : out[k] = <<ClassOf(request, R[k]), R[k]>>
    BY <1>1 DEF RandomInv, Shuffling
  <2>2. n \in Nat /\ turn \in Nat /\ Len(draws) \in Nat
    BY <1>1, Asking DEF RandomInv, RandomTypeOK
  <2>3. R \in Bijection(1 .. n, 1 .. n)
    <3>1. Len(draws) \in 0 .. Len(draws)
      BY <2>2
    <3> QED
      BY <2>1, <2>2, <3>1, OrdersPermute DEF Replay
  <2> HIDE DEF R, n
  <2>4. Len(draws) = Turns(n)
    BY <2>1, <2>2 DEF Turns
  <2>5. draws \in AllDraws(n)
    BY <2>1, <2>2, <2>4, AllDrawsAre
  <2>6. DOMAIN R = 1 .. n /\ R = [k \in 1 .. n |-> R[k]]
    BY <2>3 DEF Bijection, Injection
  <2>7. [k \in 1 .. n |-> out[k][2]] = R
    BY <2>1, <2>6
  <2> QED
    BY <2>1, <2>2, <2>5, <2>7, ReplayIsBijection DEF R
<1>2. RandomInv => EveryOrderOnce
  BY <1>1 DEF EveryOrderOnce
<1> QED
  BY <1>2, RandomInvariant, PTL
=============================================================================
