------------------------- MODULE ControlPlaneProofs -------------------------
(***************************************************************************)
(* TLAPS proofs about ControlPlane, for any clients, requests, page sizes, *)
(* widths of an int and lengths of a month.  A loop that adds numbers up   *)
(* is a recursive function; what it computes is proved by induction in the *)
(* form of a least counterexample (LeastNumber), which is first-order.     *)
(***************************************************************************)
EXTENDS ControlPlane, FiniteSetTheorems, NaturalsInduction, SequenceTheorems, TLAPS

(* A set of naturals that is not empty has a least element. *)
LEMMA LeastNumber ==
    ASSUME NEW T \in SUBSET Nat, T # {}
    PROVE  \E x \in T : \A y \in T : x <= y
<1> DEFINE R == OpToRel(<, Nat)
<1>1. IsWellFoundedOn(R, Nat)
  BY NatLessThanWellFounded
<1>2. \A x, y \in Nat : y < x => <<y, x>> \in R
  BY DEF OpToRel
<1> HIDE DEF R
<1>3. PICK x \in T : \A y \in T : ~(<<y, x>> \in R)
  BY <1>1, WFMin
<1>4. \A y \in T : ~(y < x)
  BY <1>2, <1>3, Zenon
<1> QED BY <1>4

(* No multiple of M but 0 lies between -M and M. *)
LEMMA NoMultiple ==
    ASSUME NEW d \in Int, NEW M \in Nat \ {0}, -M < d * M, d * M < M
    PROVE  d = 0
<1>1. CASE d >= 1
  <2>1. (d - 1) * M >= 0
    BY <1>1
  <2> QED BY <2>1
<1>2. CASE d <= -1
  <2>1. (-d - 1) * M >= 0
    BY <1>2
  <2> QED BY <2>1
<1> QED BY <1>1, <1>2

(* Division with remainder is always possible, *)
LEMMA DivMod ==
    ASSUME NEW a \in Int, NEW M \in Nat \ {0}
    PROVE  /\ a % M \in 0..(M - 1) /\ a \div M \in Int
           /\ a = (a \div M) * M + (a % M)
<1>1. a % M = a - M * (a \div M)
  OBVIOUS
<1>2. a \div M \in Int /\ a % M \in 0..(M - 1)
  OBVIOUS
<1> DEFINE q == a \div M
           r == a % M
<1>3. q \in Int /\ r \in Int /\ r = a - M * q
  BY <1>1, <1>2
<1> HIDE DEF q, r
<1>4. a = q * M + r
  BY <1>3
<1> QED BY <1>2, <1>4 DEF q, r

(* and in one way. *)
LEMMA Residue ==
    ASSUME NEW a \in Int, NEW M \in Nat \ {0}, NEW q \in Int, NEW r \in 0..(M - 1), a = q * M + r
    PROVE  a % M = r /\ a \div M = q
<1> DEFINE p == a \div M
           s == a % M
<1>1. p \in Int /\ s \in 0..(M - 1) /\ a = p * M + s
  BY DivMod
<1> HIDE DEF p, s
<1>2. (p - q) * M = r - s
  BY <1>1
<1>3. -M < r - s /\ r - s < M
  BY <1>1
<1>4. p - q = 0
  <2> DEFINE d == p - q
  <2>1. d \in Int
    BY <1>1
  <2> HIDE DEF d
  <2>2. d * M = r - s
    BY <1>2 DEF d
  <2>3. d = 0
    BY <1>3, <2>1, <2>2, NoMultiple
  <2> QED BY <2>3 DEF d
<1>5. p = q
  BY <1>1, <1>4
<1>6. r = s
  BY <1>1, <1>5
<1> QED BY <1>5, <1>6 DEF p, s

-----------------------------------------------------------------------------
(* The range of an int64. *)
Ints == (-Half)..(Half - 1)

(* It is not empty. *)
LEMMA HalfPositive == Half \in Nat \ {0} /\ 2 * Half \in Nat \ {0} /\ Ints \subseteq Int /\ 0 \in Ints
  BY ControlPlaneAssumption DEF Half, Ints

(* Wrap leads into the range, *)
LEMMA WrapType == ASSUME NEW a \in Int PROVE Wrap(a) \in Ints
<1> DEFINE M == 2 * Half
           b == a + Half
<1>1. Half \in Nat \ {0} /\ M \in Nat \ {0} /\ b \in Int
  BY HalfPositive
<1>2. Wrap(a) = (b % M) - Half
  BY DEF Wrap
<1> HIDE DEF M, b
<1>3. b % M \in 0..(M - 1)
  BY <1>1, DivMod
<1> QED BY <1>1, <1>2, <1>3 DEF M, Ints

(* to the number there that is whole turns away, *)
LEMMA WrapOff ==
    ASSUME NEW a \in Int, NEW b \in Ints, NEW q \in Int, a = b + q * (2 * Half)
    PROVE  Wrap(a) = b
<1> DEFINE M == 2 * Half
           x == a + Half
           r == b + Half
<1>1. Half \in Nat \ {0} /\ M \in Nat \ {0} /\ x \in Int
  BY HalfPositive
<1>2. r \in 0..(M - 1) /\ x = q * M + r
  BY <1>1 DEF Ints
<1>3. Wrap(a) = (x % M) - Half
  BY DEF Wrap
<1> HIDE DEF M, x
<1>4. x % M = r
  <2> HIDE DEF r
  <2> QED BY <1>1, <1>2, Residue
<1> QED BY <1>1, <1>3, <1>4, HalfPositive DEF Ints

(* which it always is, *)
LEMMA WrapBy == ASSUME NEW a \in Int PROVE \E q \in Int : a = Wrap(a) + q * (2 * Half)
<1> DEFINE M == 2 * Half
           x == a + Half
           q == x \div M
<1>1. Half \in Nat \ {0} /\ M \in Nat \ {0} /\ x \in Int
  BY HalfPositive
<1>2. Wrap(a) = (x % M) - Half
  BY DEF Wrap
<1>3. q \in Int /\ x % M \in Int /\ x = q * M + (x % M)
  <2> HIDE DEF M, x
  <2> QED BY <1>1, DivMod
<1>4. a = Wrap(a) + q * M
  <2> HIDE DEF M, q
  <2> QED BY <1>1, <1>2, <1>3
<1> HIDE DEF q
<1> QED BY <1>3, <1>4

(* so numbers whole turns apart wrap to the same, *)
LEMMA WrapSame ==
    ASSUME NEW a \in Int, NEW b \in Int, NEW q \in Int, a = b + q * (2 * Half)
    PROVE  Wrap(a) = Wrap(b)
<1> DEFINE M == 2 * Half
<1>1. M \in Nat /\ Wrap(b) \in Ints /\ Wrap(b) \in Int
  BY HalfPositive, WrapType
<1>2. PICK p \in Int : b = Wrap(b) + p * M
  BY WrapBy
<1>3. a = Wrap(b) + (p + q) * M
  <2> DEFINE x == p * M
             y == q * M
             z == (p + q) * M
  <2> HIDE DEF M
  <2>1. x \in Int /\ y \in Int /\ z = x + y
    BY <1>1
  <2>2. a = b + y /\ b = Wrap(b) + x
    BY <1>2 DEF M
  <2> HIDE DEF x, y, z
  <2>3. a = Wrap(b) + z
    BY <1>1, <2>1, <2>2
  <2> QED BY <2>3 DEF z
<1> HIDE DEF M
<1>4. p + q \in Int
  OBVIOUS
<1> QED BY <1>1, <1>3, <1>4, WrapOff DEF M

(* and numbers in the range to themselves. *)
LEMMA WrapIn == ASSUME NEW b \in Ints PROVE Wrap(b) = b
<1>1. b \in Int /\ b = b + 0 * (2 * Half) /\ 0 \in Int
  BY HalfPositive
<1> QED BY <1>1, WrapOff

(* Wrapping between additions makes no difference. *)
LEMMA WrapAdd ==
    ASSUME NEW a \in Int, NEW b \in Int
    PROVE  Wrap(Wrap(a) + b) = Wrap(a + b)
<1> DEFINE M == 2 * Half
<1>1. M \in Nat /\ Wrap(a) \in Int
  BY HalfPositive, WrapType
<1>2. PICK q \in Int : a = Wrap(a) + q * M
  BY WrapBy
<1> DEFINE x == q * M
<1>3. x \in Int
  BY <1>1
<1>4. a + b = (Wrap(a) + b) + x
  <2> HIDE DEF x
  <2>1. a = Wrap(a) + x
    BY <1>2 DEF x
  <2>2. \A w, y \in Int : (w + y) + b = (w + b) + y
    OBVIOUS
  <2>3. (Wrap(a) + x) + b = (Wrap(a) + b) + x
    BY <1>1, <1>3, <2>2
  <2> QED BY <2>1, <2>3, Zenon
<1> HIDE DEF M, x
<1>5. a + b \in Int /\ Wrap(a) + b \in Int
  BY <1>1
<1> QED BY <1>4, <1>5, WrapSame DEF M, x

-----------------------------------------------------------------------------
(* The values of the loop of Total over the first n elements of d. *)
Sums(f, d, n) == f = [k \in 0..n |-> IF k = 0 THEN 0 ELSE Wrap(f[k - 1] + d[k])]

(* The loop has values, by induction on n as the least n for which it had    *)
(* none.                                                                     *)
LEMMA SumsExist ==
    ASSUME NEW d \in Seq(Int), NEW n \in 0..Len(d)
    PROVE  \E f : Sums(f, d, n)
<1> DEFINE T == {k \in 0..Len(d) : ~\E f : Sums(f, d, k)}
<1> SUFFICES ASSUME T # {} PROVE FALSE
  OBVIOUS
<1>1. T \in SUBSET Nat /\ T \subseteq 0..Len(d) /\ Len(d) \in Nat
  OBVIOUS
<1>2. PICK k \in T : \A j \in T : k <= j
  <2> HIDE DEF T
  <2> QED BY <1>1, LeastNumber
<1>3. k # 0
  <2>1. Sums([i \in 0..0 |-> 0], d, 0)
    BY DEF Sums
  <2> QED BY <1>2, <2>1
<1>4. k - 1 \in 0..Len(d) /\ k - 1 \notin T /\ k \in Nat
  BY <1>1, <1>2, <1>3
<1>5. PICK f : Sums(f, d, k - 1)
  BY <1>4
<1> DEFINE g == [i \in 0..k |-> IF i = k THEN Wrap(f[k - 1] + d[k]) ELSE f[i]]
<1>6. Sums(g, d, k)
  <2>1. \A i \in 0..(k - 1) : g[i] = f[i]
    BY <1>4
  <2>2. \A i \in 0..(k - 1) : f[i] = IF i = 0 THEN 0 ELSE Wrap(f[i - 1] + d[i])
    BY <1>5 DEF Sums
  <2>3. \A i \in 0..k : g[i] = IF i = 0 THEN 0 ELSE Wrap(g[i - 1] + d[i])
    <3>1. ASSUME NEW i \in 0..k PROVE g[i] = IF i = 0 THEN 0 ELSE Wrap(g[i - 1] + d[i])
      <4> HIDE DEF g
      <4>1. CASE i = k
        <5>1. g[k - 1] = f[k - 1]
          BY <1>3, <1>4, <2>1
        <5>2. g[k] = Wrap(f[k - 1] + d[k])
          BY <1>4 DEF g
        <5> QED BY <1>3, <4>1, <5>1, <5>2
      <4>2. CASE i # k /\ i # 0
        <5>1. i \in 0..(k - 1) /\ i - 1 \in 0..(k - 1)
          BY <1>4, <4>2
        <5> QED BY <2>1, <2>2, <4>2, <5>1
      <4>3. CASE i # k /\ i = 0
        BY <1>3, <1>4, <2>1, <2>2, <4>3
      <4> QED BY <4>1, <4>2, <4>3
    <3> QED BY <3>1
  <2>4. g = [i \in 0..k |-> g[i]]
    OBVIOUS
  <2> HIDE DEF g
  <2> QED BY <2>3, <2>4 DEF Sums
<1> HIDE DEF g
<1> QED BY <1>2, <1>6

(* What the loop has added up after k elements. *)
Sum(d) == CHOOSE f : Sums(f, d, Len(d))

(* Total is the last of them. *)
LEMMA TotalIsSum == ASSUME NEW d PROVE Total(d) = Sum(d)[Len(d)]
  BY DEF Total, Sum, Sums

(* One round of the loop. *)
LEMMA SumSteps ==
    ASSUME NEW d \in Seq(Int)
    PROVE  /\ Sum(d)[0] = 0
           /\ \A k \in 1..Len(d) : Sum(d)[k] = Wrap(Sum(d)[k - 1] + d[k])
<1>1. Len(d) \in Nat /\ Len(d) \in 0..Len(d)
  OBVIOUS
<1>2. \E f : Sums(f, d, Len(d))
  BY <1>1, SumsExist
<1>3. Sums(Sum(d), d, Len(d))
  BY <1>2 DEF Sum
<1> DEFINE f == Sum(d)
           N == Len(d)
<1>4. f = [k \in 0..N |-> IF k = 0 THEN 0 ELSE Wrap(f[k - 1] + d[k])]
  BY <1>3 DEF Sums
<1> HIDE DEF f, N
<1>5. N \in Nat
  BY <1>1 DEF N
<1>6. f[0] = 0 /\ \A k \in 1..N : f[k] = Wrap(f[k - 1] + d[k])
  BY <1>4, <1>5
<1> QED BY <1>6 DEF f, N

(* The loop never leaves the range. *)
LEMMA SumType ==
    ASSUME NEW d \in Seq(Int)
    PROVE  \A k \in 0..Len(d) : Sum(d)[k] \in Ints
<1> DEFINE f == Sum(d)
           N == Len(d)
           T == {k \in 0..N : f[k] \notin Ints}
<1>0. N \in Nat /\ \A i \in 1..N : d[i] \in Int
  OBVIOUS
<1>1. f[0] = 0 /\ \A k \in 1..N : f[k] = Wrap(f[k - 1] + d[k])
  BY SumSteps
<1> HIDE DEF f, N
<1> SUFFICES ASSUME T # {} PROVE FALSE
  BY DEF f, N
<1>2. T \in SUBSET Nat
  BY <1>0
<1>3. PICK k \in T : \A j \in T : k <= j
  <2> HIDE DEF T
  <2> QED BY <1>2, LeastNumber
<1>4. k \in 1..N /\ k - 1 \in 0..N /\ k - 1 \notin T
  BY <1>0, <1>1, <1>3, HalfPositive
<1>5. f[k - 1] \in Int /\ d[k] \in Int
  BY <1>0, <1>4, HalfPositive
<1>6. f[k - 1] + d[k] \in Int
  BY <1>5
<1>7. f[k] \in Ints
  BY <1>1, <1>4, <1>6, WrapType
<1> QED BY <1>3, <1>7

(* Equal elements, equal values. *)
LEMMA SumPrefix ==
    ASSUME NEW d \in Seq(Int), NEW e \in Seq(Int), NEW n \in Nat, n <= Len(d), n <= Len(e),
           \A i \in 1..n : e[i] = d[i]
    PROVE  \A k \in 0..n : Sum(e)[k] = Sum(d)[k]
<1> DEFINE f == Sum(d)
           g == Sum(e)
           T == {k \in 0..n : g[k] # f[k]}
<1>1. f[0] = 0 /\ g[0] = 0 /\ \A k \in 1..n : f[k] = Wrap(f[k - 1] + d[k]) /\ g[k] = Wrap(g[k - 1] + e[k])
  <2>1. n \in 0..Len(d) /\ n \in 0..Len(e) /\ Len(d) \in Nat /\ Len(e) \in Nat
    OBVIOUS
  <2> DEFINE D == Len(d)
             E == Len(e)
  <2>2. /\ f[0] = 0 /\ \A k \in 1..D : f[k] = Wrap(f[k - 1] + d[k])
        /\ g[0] = 0 /\ \A k \in 1..E : g[k] = Wrap(g[k - 1] + e[k])
    BY SumSteps
  <2> HIDE DEF f, g, D, E
  <2>3. \A k \in 1..n : k \in 1..D /\ k \in 1..E
    BY <2>1 DEF D, E
  <2> QED BY <2>2, <2>3
<1> HIDE DEF f, g
<1> SUFFICES ASSUME T # {} PROVE FALSE
  BY DEF f, g
<1>2. PICK k \in T : \A j \in T : k <= j
  <2>1. T \in SUBSET Nat
    OBVIOUS
  <2> HIDE DEF T
  <2> QED BY <2>1, LeastNumber
<1>3. k \in 1..n /\ k - 1 \in 0..n /\ k - 1 \notin T
  BY <1>1, <1>2
<1> QED BY <1>1, <1>2, <1>3

(* A total is an int64. *)
LEMMA TotalType == ASSUME NEW d \in Seq(Int) PROVE Total(d) \in Ints
<1>1. Len(d) \in 0..Len(d)
  OBVIOUS
<1> QED BY <1>1, SumType, TotalIsSum

(* A loop over one element more adds it. *)
LEMMA TotalAppend ==
    ASSUME NEW d \in Seq(Int), NEW e \in Seq(Int), Len(e) = Len(d) + 1,
           \A i \in 1..Len(d) : e[i] = d[i]
    PROVE  Total(e) = Wrap(Total(d) + e[Len(d) + 1])
<1> DEFINE n == Len(d)
<1>1. n \in Nat /\ n <= Len(d) /\ n <= Len(e) /\ Len(e) = n + 1 /\ \A i \in 1..n : e[i] = d[i]
  OBVIOUS
<1> HIDE DEF n
<1>2. \A k \in 0..n : Sum(e)[k] = Sum(d)[k]
  BY <1>1, SumPrefix
<1>3. Sum(e)[n + 1] = Wrap(Sum(e)[n] + e[n + 1])
  <2>1. n + 1 \in 1..Len(e) /\ (n + 1) - 1 = n
    BY <1>1
  <2> QED BY <2>1, SumSteps
<1>4. Sum(e)[n] = Sum(d)[n]
  BY <1>1, <1>2
<1> QED BY <1>1, <1>3, <1>4, TotalIsSum DEF n

(* Nothing adds up to nothing. *)
LEMMA TotalZero ==
    ASSUME NEW d \in Seq(Int), \A i \in 1..Len(d) : d[i] = 0
    PROVE  Total(d) = 0
<1> DEFINE f == Sum(d)
           N == Len(d)
           T == {k \in 0..N : f[k] # 0}
<1>0. N \in Nat /\ \A i \in 1..N : d[i] = 0
  OBVIOUS
<1>1. f[0] = 0 /\ \A k \in 1..N : f[k] = Wrap(f[k - 1] + d[k])
  BY SumSteps
<1> HIDE DEF f, N
<1> SUFFICES ASSUME T # {} PROVE FALSE
  BY <1>0, TotalIsSum DEF f, N
<1>3. PICK k \in T : \A j \in T : k <= j
  <2>1. T \in SUBSET Nat
    BY <1>0
  <2> HIDE DEF T
  <2> QED BY <2>1, LeastNumber
<1>4. k \in 1..N /\ k - 1 \in 0..N /\ k - 1 \notin T
  BY <1>0, <1>1, <1>3
<1>5. f[k] = Wrap(0 + 0)
  BY <1>0, <1>1, <1>4
<1>6. Wrap(0) = 0
  BY WrapIn, HalfPositive
<1> QED BY <1>3, <1>5, <1>6

(* One element more by x makes the total more by x. *)
LEMMA TotalShift ==
    ASSUME NEW d \in Seq(Int), NEW e \in Seq(Int), Len(e) = Len(d), NEW x \in Int,
           NEW j \in 1..Len(d), Wrap(e[j]) = Wrap(d[j] + x),
           \A i \in 1..Len(d) : i # j => e[i] = d[i]
    PROVE  Total(e) = Wrap(Total(d) + x)
<1> DEFINE f == Sum(d)
           g == Sum(e)
           N == Len(d)
           T == {k \in j..N : g[k] # Wrap(f[k] + x)}
<1>0. /\ N \in Nat /\ j \in 1..N
      /\ \A i \in 1..N : d[i] \in Int /\ e[i] \in Int /\ (i # j => e[i] = d[i])
  OBVIOUS
<1>1. /\ \A k \in 1..N : f[k] = Wrap(f[k - 1] + d[k])
      /\ \A k \in 1..N : g[k] = Wrap(g[k - 1] + e[k])
  BY SumSteps
<1>2. \A k \in 0..N : f[k] \in Int /\ g[k] \in Int
  BY SumType, HalfPositive
<1>3. g[j - 1] = f[j - 1]
  <2>1. /\ j - 1 \in Nat /\ j - 1 <= Len(d) /\ j - 1 <= Len(e) /\ j - 1 \in 0..(j - 1)
        /\ \A i \in 1..(j - 1) : e[i] = d[i]
    OBVIOUS
  <2> QED BY <2>1, SumPrefix
<1> HIDE DEF f, g, N
<1> SUFFICES ASSUME T # {} PROVE FALSE
  <2>1. N \in j..N
    BY <1>0
  <2> QED BY <2>1, TotalIsSum DEF f, g, N
<1>4. PICK k \in T : \A i \in T : k <= i
  <2>1. T \in SUBSET Nat
    BY <1>0
  <2> HIDE DEF T
  <2> QED BY <2>1, LeastNumber
<1>5. k \in 1..N /\ k - 1 \in 0..N /\ d[k] \in Int /\ e[k] \in Int /\ k \in j..N
  BY <1>0, <1>4
<1> DEFINE a == f[k - 1]
           b == d[k]
           c == e[k]
           p == g[k - 1]
<1>6. a \in Int /\ b \in Int /\ c \in Int /\ p \in Int
  BY <1>2, <1>5
<1>7. f[k] = Wrap(a + b) /\ g[k] = Wrap(p + c)
  BY <1>1, <1>5
<1>8. k = j => p = a /\ Wrap(c) = Wrap(b + x)
  BY <1>3 
<1>9. k # j => p = Wrap(a + x) /\ c = b
  <2>1. k # j => k - 1 \in j..N /\ k - 1 \notin T
    BY <1>0, <1>4, <1>5
  <2> QED BY <1>0, <1>5, <2>1
<1>t. g[k] # Wrap(f[k] + x)
  BY <1>4
<1> HIDE DEF a, b, c, p, T
<1>10. a + b \in Int /\ b + x \in Int /\ a + x \in Int /\ (a + b) + x = (b + x) + a /\ (a + x) + b = (a + b) + x
       /\ p + c = c + p
  BY <1>6
<1>11. Wrap(f[k] + x) = Wrap((a + b) + x)
  BY <1>7, <1>10, WrapAdd
<1>12. CASE k = j
  <2>1. Wrap((b + x) + a) = Wrap(Wrap(b + x) + a)
    BY <1>6, <1>10, WrapAdd
  <2>2. Wrap(c + a) = Wrap(Wrap(c) + a)
    BY <1>6, WrapAdd
  <2> QED BY <1>7, <1>8, <1>10, <1>11, <1>12, <1>t, <2>1, <2>2
<1>13. CASE k # j
  <2>1. Wrap((a + x) + b) = Wrap(Wrap(a + x) + b)
    BY <1>6, <1>10, WrapAdd
  <2> QED BY <1>7, <1>9, <1>10, <1>11, <1>13, <1>t, <2>1
<1> QED BY <1>12, <1>13

-----------------------------------------------------------------------------
(* The IDs a tenant can have, *)
TenantIDs == 1..MaxTenant

(* the usage events, *)
Events == [tenant : TenantIDs, n : Int, at : 0..MaxClock]

(* and the walks. *)
Walks == [list : {"none", "tenants", "usage"}, page : Nat, size : Nat,
          seen : SUBSET TenantIDs, before : SUBSET TenantIDs]

(* The types, and that a request in the handler is one of those sent. *)
Typed ==
    /\ tenants \subseteq TenantIDs
    /\ DOMAIN usage \subseteq tenants /\ usage = [t \in DOMAIN usage |-> usage[t]]
    /\ \A t \in DOMAIN usage : usage[t] \in Ints
    /\ usageEvent \in Seq(Events)
    /\ rate \in Nat
    /\ clock \in 0..MaxClock
    /\ pc \in [Clients -> {"idle", "serve", "stamped", "walk", "walked"}]
    /\ req \in [Clients -> Requests \cup {NoRequest}]
    /\ at \in [Clients -> 0..MaxClock]
    /\ walk \in [Clients -> Walks]
    /\ \A c \in Clients : /\ pc[c] \in {"serve", "stamped"} => req[c] \in Requests
                          /\ pc[c] = "stamped" => req[c].op = "usage"

(* The service starts so, *)
LEMMA InitTyped == Init => Typed
<1> SUFFICES ASSUME Init PROVE Typed
  OBVIOUS
<1>1. NoWalk \in Walks
  BY DEF NoWalk, Walks
<1>2. /\ usage = << >> /\ usageEvent = << >> /\ DOMAIN usage = {} /\ usageEvent \in Seq(Events)
      /\ usage = [t \in DOMAIN usage |-> usage[t]]
  BY DEF Init
<1>3. 0 \in 0..MaxClock
  BY ControlPlaneAssumption
<1> QED BY <1>1, <1>2, <1>3 DEF Init, Typed

(* A metered request that is not refused, and what it adds. *)
LEMMA UsageAccepted ==
    ASSUME Typed, NEW c \in Clients, pc[c] = "stamped", ~UsageRefused(req[c])
    PROVE  /\ req[c].tenant \in tenants /\ req[c].tenant \in TenantIDs /\ req[c].n \in Nat \ {0}
           /\ Usage(req[c].tenant) \in Ints
           /\ Wrap(Usage(req[c].tenant) + req[c].n) \in Ints
           /\ [tenant |-> req[c].tenant, n |-> req[c].n, at |-> at[c]] \in Events
<1>1. /\ req[c] \in Requests /\ req[c].op = "usage"
  BY DEF Typed
<1>2. req[c].n \in Int
  BY <1>1, RequestsAssumption
<1>3. req[c].tenant \in tenants /\ req[c].tenant \in TenantIDs /\ req[c].n \in Nat \ {0}
  BY <1>2 DEF UsageRefused, Typed
<1>4. Usage(req[c].tenant) \in Ints
  BY HalfPositive DEF Usage, Typed
<1>5. Usage(req[c].tenant) + req[c].n \in Int
  <2> DEFINE u == Usage(req[c].tenant)
             n == req[c].n
  <2>1. u \in Int /\ n \in Int
    BY <1>2, <1>4, HalfPositive
  <2> HIDE DEF u, n
  <2>2. u + n \in Int
    BY <2>1
  <2> QED BY <2>2 DEF u, n
<1>6. Wrap(Usage(req[c].tenant) + req[c].n) \in Ints
  BY <1>5, WrapType
<1>7. [tenant |-> req[c].tenant, n |-> req[c].n, at |-> at[c]] \in Events
  BY <1>2, <1>3 DEF Typed, Events
<1> QED BY <1>3, <1>4, <1>6, <1>7

(* and every request keeps it so. *)
LEMMA TypedStep == Typed /\ [Next]_vars => Typed'
<1> SUFFICES ASSUME Typed, [Next]_vars PROVE Typed'
  OBVIOUS
<1> USE DEF service, Done
<1>1. ASSUME NEW c \in Clients, NEW r \in Requests, Send(c, r) PROVE Typed'
  BY <1>1 DEF Typed, Send
<1>2. ASSUME NEW c \in Clients, Deny(c) PROVE Typed'
  BY <1>2 DEF Typed, Deny
<1>3. ASSUME NEW c \in Clients, AddTenant(c) PROVE Typed'
  <2>1. req[c].tenant \in 0..MaxTenant
    BY <1>3, RequestsAssumption DEF Typed, AddTenant, Serving
  <2>2. tenants' \subseteq TenantIDs /\ tenants \subseteq tenants'
    BY <1>3, <2>1, ControlPlaneAssumption DEF Typed, AddTenant, TenantIDs
  <2> QED BY <1>3, <2>2 DEF Typed, AddTenant, Serving
<1>4. ASSUME NEW c \in Clients, SetRate(c) PROVE Typed'
  <2>1. rate' \in Nat
    BY <1>4, RequestsAssumption DEF Typed, SetRate, Serving
  <2> QED BY <1>4, <2>1 DEF Typed, SetRate, Serving
<1>5. ASSUME NEW c \in Clients, StampUsage(c) PROVE Typed'
  BY <1>5 DEF Typed, StampUsage, Serving
<1>6. ASSUME NEW c \in Clients, AddUsageAt(c) PROVE Typed'
  <2>1. /\ pc' \in [Clients -> {"idle", "serve", "stamped", "walk", "walked"}]
        /\ req' \in [Clients -> Requests \cup {NoRequest}]
        /\ at' \in [Clients -> 0..MaxClock]
        /\ \A d \in Clients : /\ pc'[d] \in {"serve", "stamped"} => req'[d] \in Requests
                              /\ pc'[d] = "stamped" => req'[d].op = "usage"
        /\ UNCHANGED <<tenants, rate, clock, walk>>
    BY <1>6, ControlPlaneAssumption DEF Typed, AddUsageAt
  <2>2. CASE UNCHANGED <<usage, usageEvent>>
    BY <2>1, <2>2 DEF Typed
  <2>3. CASE ~(UNCHANGED <<usage, usageEvent>>)
    <3> DEFINE t == req[c].tenant
               v == Wrap(Usage(t) + req[c].n)
               ev == [tenant |-> req[c].tenant, n |-> req[c].n, at |-> at[c]]
    <3>1. /\ pc[c] = "stamped" /\ ~UsageRefused(req[c])
          /\ usage' = UsageAfter(req[c]) /\ usageEvent' = Append(usageEvent, ev)
      BY <1>6, <2>3 DEF AddUsageAt
    <3>2. t \in tenants /\ v \in Ints /\ ev \in Events
      BY <3>1, UsageAccepted
    <3>3. usage' = [s \in DOMAIN usage \cup {t} |-> IF s = t THEN v ELSE usage[s]]
      BY <3>1 DEF UsageAfter
    <3> HIDE DEF t, v, ev
    <3>4. usageEvent' \in Seq(Events)
      BY <3>1, <3>2 DEF Typed
    <3>5. /\ DOMAIN usage' \subseteq tenants' /\ usage' = [s \in DOMAIN usage' |-> usage'[s]]
          /\ \A s \in DOMAIN usage' : usage'[s] \in Ints
      BY <2>1, <3>2, <3>3 DEF Typed
    <3> QED BY <2>1, <3>4, <3>5 DEF Typed
  <2> QED BY <2>2, <2>3
<1>7. ASSUME NEW c \in Clients, NEW list \in {"tenants", "usage"}, NEW s \in AskedSizes, StartWalk(c, list, s)
      PROVE  Typed'
  <2>1. PageSizeOf(s) \in Nat /\ Listed(list) \subseteq TenantIDs
    BY ControlPlaneAssumption DEF PageSizeOf, Listed, Typed
  <2>2. [list |-> list, page |-> 1, size |-> PageSizeOf(s), seen |-> {}, before |-> Listed(list)] \in Walks
    BY <2>1 DEF Walks
  <2> QED BY <1>7, <2>2 DEF Typed, StartWalk
<1>8. ASSUME NEW c \in Clients, WalkPage(c) PROVE Typed'
  <2> DEFINE w == walk[c]
             pg == Page(w.list, w.page, w.size)
  <2>1. w \in Walks /\ pg \subseteq TenantIDs
    BY DEF Page, Listed, Typed
  <2>2. walk' = [walk EXCEPT ![c] = [w EXCEPT !.seen = @ \cup pg, !.page = @ + 1]]
    BY <1>8, <2>1 DEF WalkPage, Typed
  <2> HIDE DEF pg, w
  <2>3. [w EXCEPT !.seen = @ \cup pg, !.page = @ + 1] \in Walks
    <3>1. /\ w.list \in {"none", "tenants", "usage"} /\ w.page + 1 \in Nat /\ w.size \in Nat
          /\ w.seen \cup pg \subseteq TenantIDs /\ w.before \subseteq TenantIDs
      BY <2>1 DEF Walks
    <3> DEFINE v == [w EXCEPT !.seen = @ \cup pg, !.page = @ + 1]
    <3>2. w = [list |-> w.list, page |-> w.page, size |-> w.size, seen |-> w.seen, before |-> w.before]
      BY <2>1 DEF Walks
    <3>3. /\ DOMAIN v = {"list", "page", "size", "seen", "before"} /\ v = [f \in DOMAIN v |-> v[f]]
          /\ v["list"] = w.list /\ v["page"] = w.page + 1 /\ v["size"] = w.size
          /\ v["seen"] = w.seen \cup pg /\ v["before"] = w.before
      BY <3>2
    <3> HIDE DEF v
    <3>4. v \in Walks
      BY <3>1, <3>3 DEF Walks
    <3> QED BY <3>4 DEF v
  <2>4. walk' \in [Clients -> Walks]
    BY <2>2, <2>3 DEF Typed
  <2> QED BY <1>8, <2>4 DEF Typed, WalkPage
<1>9. ASSUME NEW c \in Clients, EndWalk(c) PROVE Typed'
  <2>1. NoWalk \in Walks
    BY DEF NoWalk, Walks
  <2> QED BY <1>9, <2>1 DEF Typed, EndWalk
<1>10. CASE Tick
  BY <1>10, ControlPlaneAssumption DEF Typed, Tick
<1>11. CASE UNCHANGED vars
  BY <1>11 DEF Typed, vars
<1> QED BY <1>1, <1>2, <1>3, <1>4, <1>5, <1>6, <1>7, <1>8, <1>9, <1>10, <1>11 DEF Next

(* The types are an invariant. *)
LEMMA TypeInvariance == Spec => []Typed
  BY InitTyped, TypedStep, PTL DEF Spec

(* The service is well typed whatever its clients send: usage is metered for *)
(* known tenants only and stays an int64, and a rate is never negative       *)
(* (AddTenant, AddUsageAt and SetRate of service.go).                        *)
THEOREM ServiceTypeCorrect == Spec => []TypeOK
<1>1. Typed => TypeOK
  BY DEF Typed, TypeOK, TenantIDs, Ints
<1> QED BY <1>1, TypeInvariance, PTL

-----------------------------------------------------------------------------
(* The lists that are paged through. *)
Lists == {"tenants", "usage"}

(* Rows are only added. *)
LEMMA ListsGrow ==
    ASSUME Typed, [Next]_vars, NEW l \in Lists
    PROVE  Listed(l) \subseteq Listed(l)'
<1> USE DEF service, Listed
<1>1. tenants \subseteq tenants' /\ DOMAIN usage \subseteq DOMAIN usage'
  <2>1. ASSUME NEW c \in Clients, AddTenant(c) PROVE tenants \subseteq tenants' /\ usage' = usage
    BY <2>1 DEF AddTenant
  <2>2. ASSUME NEW c \in Clients, AddUsageAt(c) PROVE tenants' = tenants /\ DOMAIN usage \subseteq DOMAIN usage'
    BY <2>2 DEF AddUsageAt, UsageAfter
  <2>3. ASSUME NEW c \in Clients,
               \/ \E r \in Requests : Send(c, r)
               \/ Deny(c) \/ SetRate(c) \/ StampUsage(c)
               \/ \E list \in {"tenants", "usage"}, s \in AskedSizes : StartWalk(c, list, s)
               \/ WalkPage(c) \/ EndWalk(c)
        PROVE  tenants' = tenants /\ usage' = usage
    BY <2>3 DEF Send, Deny, SetRate, StampUsage, StartWalk, WalkPage, EndWalk
  <2>4. Tick \/ UNCHANGED vars => tenants' = tenants /\ usage' = usage
    BY DEF Tick, vars
  <2> QED BY <2>1, <2>2, <2>3, <2>4, Zenon DEF Next
<1> QED BY <1>1

(* A row has an index below the number of rows, *)
LEMMA Ranks ==
    ASSUME Typed, NEW l \in Lists, NEW t \in TenantIDs
    PROVE  /\ IsFiniteSet(Listed(l)) /\ IsFiniteSet({u \in Listed(l) : u < t})
           /\ Rank(l, t) \in Nat /\ Cardinality(Listed(l)) \in Nat
           /\ t \in Listed(l) => Rank(l, t) < Cardinality(Listed(l))
<1> DEFINE S == Listed(l)
           B == {u \in S : u < t}
<1>0. MaxTenant \in Int
  BY ControlPlaneAssumption
<1>1. IsFiniteSet(TenantIDs)
  BY <1>0, FS_Interval DEF TenantIDs
<1>2. S \subseteq TenantIDs
  BY DEF Listed, Typed
<1>3. IsFiniteSet(S)
  BY <1>1, <1>2, FS_Subset
<1>4. B \subseteq S /\ t \notin B
  BY <1>2 DEF TenantIDs
<1> HIDE DEF S, B
<1>5. IsFiniteSet(B) /\ Cardinality(B) \in Nat /\ Cardinality(S) \in Nat
  BY <1>3, <1>4, FS_Subset, FS_CardinalityType
<1>6. t \in S => Cardinality(B) < Cardinality(S)
  <2>1. ASSUME t \in S PROVE Cardinality(B) < Cardinality(S)
    <3>1. Cardinality(B) <= Cardinality(S) /\ (Cardinality(B) = Cardinality(S) => B = S)
      BY <1>3, <1>4, FS_Subset
    <3> QED BY <1>4, <1>5, <2>1, <3>1
  <2> QED BY <2>1
<1> QED BY <1>3, <1>5, <1>6 DEF S, B, Rank

(* and no row moves to an earlier page. *)
LEMMA RanksGrow ==
    ASSUME Typed, Typed', [Next]_vars, NEW l \in Lists, NEW t \in TenantIDs
    PROVE  Rank(l, t) \in Nat /\ Rank(l, t)' \in Nat /\ Rank(l, t) <= Rank(l, t)'
<1> DEFINE B == {u \in Listed(l) : u < t}
           C == {u \in Listed(l)' : u < t}
<1>1. B \subseteq C
  BY ListsGrow
<1>2. IsFiniteSet(C)
  <2>1. MaxTenant \in Int
    BY ControlPlaneAssumption
  <2>2. IsFiniteSet(TenantIDs)
    BY <2>1, FS_Interval DEF TenantIDs
  <2>3. C \subseteq TenantIDs
    BY DEF Listed, Typed
  <2> HIDE DEF C
  <2> QED BY <2>2, <2>3, FS_Subset
<1> HIDE DEF B, C
<1>3. /\ Cardinality(B) \in Nat /\ Cardinality(C) \in Nat /\ Cardinality(B) <= Cardinality(C)
  BY <1>1, <1>2, FS_Subset, FS_CardinalityType
<1> QED BY <1>3 DEF B, C, Rank

(* A row that a walk owes its client is still ahead of it. *)
Ahead ==
    \A c \in Clients : \A l \in Lists : walk[c].list = l =>
        /\ pc[c] = "walk" =>
             /\ walk[c].page \in Nat \ {0} /\ walk[c].size \in Nat \ {0}
             /\ walk[c].before \subseteq Listed(l)
             /\ \A t \in walk[c].before :
                   t \in walk[c].seen \/ (walk[c].page - 1) * walk[c].size <= Rank(l, t)
        /\ pc[c] = "walked" => walk[c].before \subseteq walk[c].seen

(* A walk is through one of the lists. *)
Walking == \A c \in Clients : pc[c] \in {"walk", "walked"} => walk[c].list \in Lists

(* No walk is under way at first. *)
LEMMA InitAhead == Init => Ahead /\ Walking
  BY DEF Init, Ahead, Walking

(* The offsets of two pages are a page apart. *)
LEMMA NextOffset ==
    ASSUME NEW p \in Nat \ {0}, NEW s \in Nat \ {0}
    PROVE  /\ (p - 1) * s \in Nat /\ p * s = (p - 1) * s + s /\ ((p + 1) - 1) * s = p * s
           /\ p * s \in Nat
  OBVIOUS

(* parsePagination never returns an empty page size. *)
LEMMA PageSizePositive == ASSUME NEW s \in AskedSizes PROVE PageSizeOf(s) \in Nat \ {0}
  BY ControlPlaneAssumption DEF PageSizeOf

(* Whatever is added while the client is between two pages, a row it was     *)
(* promised is either seen or still ahead.                                   *)
LEMMA AheadStep == Typed /\ Typed' /\ Ahead /\ Walking /\ [Next]_vars => Ahead' /\ Walking'
<1> SUFFICES ASSUME Typed, Typed', Ahead, Walking, [Next]_vars PROVE Ahead' /\ Walking'
  OBVIOUS
(* Clients whose walk is not touched. *)
<1>1. ASSUME NEW c \in Clients, NEW l \in Lists, walk'[c] = walk[c],
             pc'[c] \in {"walk", "walked"} => pc'[c] = pc[c], walk'[c].list = l
      PROVE  /\ pc'[c] = "walk" =>
                  /\ walk'[c].page \in Nat \ {0} /\ walk'[c].size \in Nat \ {0}
                  /\ walk'[c].before \subseteq Listed(l)'
                  /\ \A t \in walk'[c].before :
                        t \in walk'[c].seen \/ (walk'[c].page - 1) * walk'[c].size <= Rank(l, t)'
             /\ pc'[c] = "walked" => walk'[c].before \subseteq walk'[c].seen
  <2>1. CASE pc'[c] = "walk"
    <3> DEFINE x == (walk[c].page - 1) * walk[c].size
    <3>1. /\ pc[c] = "walk" /\ walk[c].list = l /\ walk[c].before \subseteq TenantIDs
          /\ walk[c].page \in Nat \ {0} /\ walk[c].size \in Nat \ {0} /\ walk[c].before \subseteq Listed(l)
      BY <1>1, <2>1 DEF Ahead, Typed, Walks
    <3>2. \A t \in walk[c].before : t \in walk[c].seen \/ x <= Rank(l, t)
      BY <1>1, <3>1 DEF Ahead
    <3>3. x \in Nat
      BY <3>1, NextOffset
    <3> HIDE DEF x
    <3>4. \A t \in walk[c].before : Rank(l, t) \in Nat /\ Rank(l, t)' \in Nat /\ Rank(l, t) <= Rank(l, t)'
      BY <3>1, RanksGrow
    <3>5. \A t \in walk[c].before : t \in walk[c].seen \/ x <= Rank(l, t)'
      BY <3>2, <3>3, <3>4
    <3>6. Listed(l) \subseteq Listed(l)'
      BY ListsGrow
    <3> QED BY <1>1, <2>1, <3>1, <3>5, <3>6 DEF x
  <2>2. CASE pc'[c] = "walked"
    BY <1>1, <2>2 DEF Ahead
  <2> QED BY <2>1, <2>2
<1>2. ASSUME \A c \in Clients : /\ walk'[c] = walk[c]
                                /\ pc'[c] \in {"walk", "walked"} => pc'[c] = pc[c]
      PROVE  Ahead' /\ Walking'
  BY <1>1, <1>2 DEF Ahead, Walking
<1> USE DEF service, Done
<1>3. ASSUME NEW c \in Clients, NEW list \in {"tenants", "usage"}, NEW s \in AskedSizes, StartWalk(c, list, s)
      PROVE  Ahead' /\ Walking'
  <2>1. /\ pc'[c] = "walk" /\ walk'[c].list = list /\ walk'[c].page = 1 /\ walk'[c].size = PageSizeOf(s)
        /\ walk'[c].seen = {} /\ walk'[c].before = Listed(list)
        /\ \A d \in Clients \ {c} : walk'[d] = walk[d] /\ pc'[d] = pc[d]
        /\ tenants' = tenants /\ usage' = usage
    BY <1>3 DEF StartWalk, Typed
  <2>2. PageSizeOf(s) \in Nat \ {0} /\ (1 - 1) * PageSizeOf(s) = 0
    <3>1. PageSizeOf(s) \in Nat \ {0}
      BY PageSizePositive
    <3> DEFINE z == PageSizeOf(s)
    <3> HIDE DEF z
    <3>2. z \in Nat => (1 - 1) * z = 0
      OBVIOUS
    <3> QED BY <3>1, <3>2 DEF z
  <2>3. \A t \in Listed(list) : 0 <= Rank(list, t)'
    <3>1. Listed(list) \subseteq TenantIDs
      BY DEF Listed, Typed
    <3> QED BY <3>1, RanksGrow DEF Lists
  <2>4. Listed(list)' = Listed(list)
    BY <2>1 DEF Listed
  <2>5. Ahead'
    <3> SUFFICES ASSUME NEW d \in Clients, NEW l \in Lists, walk'[d].list = l
                 PROVE  /\ pc'[d] = "walk" =>
                             /\ walk'[d].page \in Nat \ {0} /\ walk'[d].size \in Nat \ {0}
                             /\ walk'[d].before \subseteq Listed(l)'
                             /\ \A t \in walk'[d].before :
                                   t \in walk'[d].seen \/ (walk'[d].page - 1) * walk'[d].size <= Rank(l, t)'
                        /\ pc'[d] = "walked" => walk'[d].before \subseteq walk'[d].seen
      BY DEF Ahead
    <3>1. CASE d # c
      BY <1>1, <2>1, <3>1
    <3>2. CASE d = c
      <4>1. l = list
        BY <2>1, <3>2
      <4> QED BY <2>1, <2>2, <2>3, <2>4, <3>2, <4>1
    <3> QED BY <3>1, <3>2
  <2>6. Walking'
    BY <2>1 DEF Walking, Lists
  <2> QED BY <2>5, <2>6
<1>4. ASSUME NEW c \in Clients, WalkPage(c) PROVE Ahead' /\ Walking'
  <2> DEFINE w == walk[c]
             p == walk[c].page
             s == walk[c].size
  <2>1. /\ pc[c] = "walk" /\ w.list \in Lists /\ w \in Walks
        /\ \A d \in Clients \ {c} : walk'[d] = walk[d] /\ pc'[d] = pc[d]
        /\ tenants' = tenants /\ usage' = usage
    BY <1>4 DEF WalkPage, Typed, Walking
  <2>2. /\ walk'[c].list = w.list /\ walk'[c].page = p + 1 /\ walk'[c].size = s
        /\ walk'[c].before = w.before
        /\ \A l \in Lists : w.list = l => walk'[c].seen = w.seen \cup Page(l, p, s)
    BY <1>4, <2>1 DEF WalkPage, Typed, Walks
  <2>3. /\ p \in Nat \ {0} /\ s \in Nat \ {0}
        /\ \A l \in Lists : w.list = l =>
              /\ w.before \subseteq Listed(l) /\ w.before \subseteq TenantIDs
              /\ \A t \in w.before : t \in w.seen \/ (p - 1) * s <= Rank(l, t)
    BY <2>1 DEF Ahead, Typed, Walks
  <2>4. \A l \in Lists : w.list = l =>
           pc'[c] = IF p * s >= Cardinality(Listed(l)) THEN "walked" ELSE "walk"
    BY <1>4, <2>1 DEF WalkPage, Typed
  <2> DEFINE x == (p - 1) * s
             y == p * s
  <2>5. x \in Nat /\ y \in Nat /\ y = x + s /\ ((p + 1) - 1) * s = y
    BY <2>3, NextOffset
  <2> HIDE DEF w, x, y, p, s
  <2>6. \A l \in Lists : w.list = l => \A t \in w.before : t \in walk'[c].seen \/ y <= Rank(l, t)
    <3> SUFFICES ASSUME NEW l \in Lists, w.list = l, NEW t \in w.before, t \notin walk'[c].seen
                 PROVE  y <= Rank(l, t)
      OBVIOUS
    <3>1. t \notin w.seen /\ t \notin Page(l, p, s) /\ t \in TenantIDs /\ t \in Listed(l)
      BY <2>2, <2>3
    <3>2. x <= Rank(l, t) /\ Rank(l, t) \in Nat
      BY <2>3, <3>1, Ranks DEF x
    <3>3. ~(Rank(l, t) < x + s)
      BY <3>1, <3>2 DEF Page, PageStart, x
    <3> QED BY <2>3, <2>5, <3>2, <3>3
  <2>7. \A l \in Lists : w.list = l =>
           /\ Listed(l)' = Listed(l)
           /\ \A t : Rank(l, t)' = Rank(l, t)
           /\ pc'[c] = "walked" => w.before \subseteq walk'[c].seen
    <3>1. \A l \in Lists : Listed(l)' = Listed(l)
      BY <2>1 DEF Listed
    <3>2. \A l \in Lists : \A t : Rank(l, t)' = Rank(l, t)
      BY <3>1 DEF Rank
    <3>3. ASSUME NEW l \in Lists, w.list = l, pc'[c] = "walked", NEW t \in w.before PROVE t \in walk'[c].seen
      <4>1. y >= Cardinality(Listed(l))
        BY <2>4, <3>3 DEF y
      <4>2. /\ t \in TenantIDs /\ t \in Listed(l) 
        BY <2>3, <3>3
      <4>3. Rank(l, t) < Cardinality(Listed(l)) /\ Rank(l, t) \in Nat /\ Cardinality(Listed(l)) \in Nat
        BY <4>2, Ranks
      <4> QED BY <2>5, <2>6, <3>3, <4>1, <4>3
    <3> QED BY <3>1, <3>2, <3>3
  <2>8. Ahead'
    <3> SUFFICES ASSUME NEW d \in Clients, NEW l \in Lists, walk'[d].list = l
                 PROVE  /\ pc'[d] = "walk" =>
                             /\ walk'[d].page \in Nat \ {0} /\ walk'[d].size \in Nat \ {0}
                             /\ walk'[d].before \subseteq Listed(l)'
                             /\ \A t \in walk'[d].before :
                                   t \in walk'[d].seen \/ (walk'[d].page - 1) * walk'[d].size <= Rank(l, t)'
                        /\ pc'[d] = "walked" => walk'[d].before \subseteq walk'[d].seen
      BY DEF Ahead
    <3>1. CASE d # c
      BY <1>1, <2>1, <3>1
    <3>2. CASE d = c
      <4>1. w.list = l
        BY <2>2, <3>2
      <4>2. p + 1 \in Nat \ {0} /\ walk'[c].page - 1 = (p + 1) - 1
        BY <2>2, <2>3
      <4>3. (walk'[c].page - 1) * walk'[c].size = y
        BY <2>2, <2>5
      <4> QED BY <2>2, <2>3, <2>6, <2>7, <3>2, <4>1, <4>2, <4>3
    <3> QED BY <3>1, <3>2
  <2>9. Walking'
    BY <2>1, <2>2 DEF Walking
  <2> QED BY <2>8, <2>9
<1>5. ASSUME NEW c \in Clients, EndWalk(c) PROVE Ahead' /\ Walking'
  <2>1. /\ pc'[c] = "idle" /\ walk'[c].list = "none"
        /\ \A d \in Clients \ {c} : walk'[d] = walk[d] /\ pc'[d] = pc[d]
    BY <1>5 DEF EndWalk, Typed, NoWalk
  <2>2. Ahead'
    BY <1>1, <2>1 DEF Ahead, Lists
  <2>3. Walking'
    BY <2>1 DEF Walking
  <2> QED BY <2>2, <2>3
<1>6. ASSUME NEW c \in Clients,
             \/ \E r \in Requests : Send(c, r)
             \/ Deny(c) \/ AddTenant(c) \/ SetRate(c) \/ StampUsage(c) \/ AddUsageAt(c)
      PROVE  Ahead' /\ Walking'
  <2>1. \A d \in Clients : walk'[d] = walk[d] /\ (pc'[d] \in {"walk", "walked"} => pc'[d] = pc[d])
    BY <1>6 DEF Send, Deny, AddTenant, SetRate, StampUsage, AddUsageAt, Typed
  <2> QED BY <1>2, <2>1
<1>7. CASE Tick \/ UNCHANGED vars
  BY <1>2, <1>7 DEF Tick, vars
<1> QED BY <1>3, <1>4, <1>5, <1>6, <1>7 DEF Next

(* A walk through GET /tenants or GET /usage misses no row that was there    *)
(* when it began, for any page size, any number of rows and any additions in *)
(* between (sort and paginate of service.go, page by page under separate     *)
(* locks).                                                                   *)
THEOREM WalksComplete == Spec => []WalkMissesNobody
<1>1. Typed /\ Ahead /\ Walking => WalkMissesNobody
  BY DEF Ahead, Walking, WalkMissesNobody
<1>2. Spec => [](Typed /\ Ahead /\ Walking)
  BY TypeInvariance, InitAhead, AheadStep, PTL DEF Spec
<1> QED BY <1>1, <1>2, PTL

-----------------------------------------------------------------------------
(* A time lies in one month. *)
LEMMA MonthOf ==
    ASSUME NEW m \in Nat, NEW x \in Nat
    PROVE  InMonth(m, x) <=> m = x \div MonthLength
<1> DEFINE L == MonthLength
           q == x \div L
           r == x % L
           y == m * L
           z == q * L
<1>1. L \in Nat \ {0}
  BY ControlPlaneAssumption
<1>2. q \in Int /\ r \in 0..(L - 1) /\ x = z + r
  <2> HIDE DEF L
  <2> QED BY <1>1, DivMod
<1>3. y \in Int /\ z \in Int /\ (m + 1) * L = y + L
  <2> HIDE DEF L, q
  <2> QED BY <1>1, <1>2
<1>4. InMonth(m, x) <=> y <= x /\ x < y + L
  <2>1. InMonth(m, x) <=> y <= x /\ x < (m + 1) * L
    BY DEF InMonth
  <2> QED BY <1>3, <2>1
<1>5. m = q => InMonth(m, x)
  <2>1. m = q => y = z
    OBVIOUS
  <2> HIDE DEF L, q, r, y, z
  <2> QED BY <1>1, <1>2, <1>3, <1>4, <2>1
<1>6. InMonth(m, x) => m = q
  <2> SUFFICES ASSUME InMonth(m, x) PROVE m = q
    OBVIOUS
  <2> DEFINE u == x - y
  <2>1. u \in 0..(L - 1) /\ x = y + u
    <3> HIDE DEF y, L
    <3> QED BY <1>1, <1>3, <1>4
  <2>2. x = m * L + u
    BY <2>1
  <2> HIDE DEF u, L
  <2>3. x \div L = m
    BY <1>1, <2>1, <2>2, Residue
  <2> QED BY <2>3
<1> QED BY <1>5, <1>6

(* What the loop of MonthlyUsageRows adds to the row of t. *)
Entries(m, t) ==
    [i \in 1..Len(usageEvent) |->
        IF usageEvent[i].tenant = t /\ InMonth(m, usageEvent[i].at)
        THEN usageEvent[i].n ELSE 0]

(* MonthlyUsage adds them up. *)
LEMMA MonthlyEntries == ASSUME NEW m, NEW t PROVE MonthlyUsage(m, t) = Total(Entries(m, t))
  BY DEF MonthlyUsage, Entries

(* They are numbers, one for each event. *)
LEMMA EntriesType ==
    ASSUME Typed, NEW m, NEW t
    PROVE  Entries(m, t) \in Seq(Int) /\ Len(Entries(m, t)) = Len(usageEvent)
<1> DEFINE N == Len(usageEvent)
<1>1. N \in Nat /\ \A i \in 1..N : usageEvent[i] \in Events
  BY DEF Typed
<1>2. \A i \in 1..N : usageEvent[i].n \in Int
  BY <1>1 DEF Events
<1> HIDE DEF N
<1>3. Entries(m, t) = [i \in 1..N |-> IF usageEvent[i].tenant = t /\ InMonth(m, usageEvent[i].at)
                                     THEN usageEvent[i].n ELSE 0]
  BY DEF Entries, N
<1>4. Entries(m, t) \in [1..N -> Int]
  BY <1>2, <1>3
<1>5. Entries(m, t) \in Seq(Int) /\ Len(Entries(m, t)) = N
  <2> DEFINE e == Entries(m, t)
  <2> HIDE DEF e
  <2>1. e \in [1..N -> Int] => e \in Seq(Int) /\ Len(e) = N
    BY <1>1
  <2> QED BY <1>4, <2>1 DEF e
<1> QED BY <1>5 DEF N

(* A row of the summary is an int64. *)
LEMMA MonthlyType == ASSUME Typed, NEW m, NEW t PROVE MonthlyUsage(m, t) \in Ints
  BY EntriesType, MonthlyEntries, TotalType

(* An event counts in its own month, for its own tenant. *)
LEMMA MonthAppend ==
    ASSUME Typed, Typed', NEW ev \in Events, usageEvent' = Append(usageEvent, ev),
           NEW m \in Nat, NEW t \in TenantIDs
    PROVE  MonthlyUsage(m, t)' = IF ev.tenant = t /\ m = ev.at \div MonthLength
                                 THEN Wrap(MonthlyUsage(m, t) + ev.n) ELSE MonthlyUsage(m, t)
<1> DEFINE N == Len(usageEvent)
           d == Entries(m, t)
           e == Entries(m, t)'
<1>1. d \in Seq(Int) /\ Len(d) = N /\ e \in Seq(Int) /\ Len(e) = Len(usageEvent')
  <2>1. d \in Seq(Int) /\ Len(d) = N
    BY EntriesType
  <2>2. (Entries(m, t) \in Seq(Int) /\ Len(Entries(m, t)) = Len(usageEvent))'
    BY EntriesType, PTL
  <2> QED BY <2>1, <2>2
<1>2. /\ N \in Nat /\ Len(usageEvent') = N + 1 /\ usageEvent'[N + 1] = ev
      /\ \A i \in 1..N : usageEvent'[i] = usageEvent[i]
  BY DEF Typed
<1>3. InMonth(m, ev.at) <=> m = ev.at \div MonthLength
  <2>1. ev.at \in Nat
    BY DEF Events
  <2> QED BY <2>1, MonthOf
<1> HIDE DEF N
<1>4. \A i \in 1..N : e[i] = d[i]
  BY <1>2 DEF Entries, InMonth, N
<1>5. e[N + 1] = IF ev.tenant = t /\ InMonth(m, ev.at) THEN ev.n ELSE 0
  BY <1>2 DEF Entries, InMonth
<1> HIDE DEF d, e
<1>6. Total(e) = Wrap(Total(d) + e[N + 1])
  BY <1>1, <1>2, <1>4, TotalAppend
<1>7. Total(d) \in Ints /\ Total(d) \in Int
  BY <1>1, TotalType, HalfPositive
<1>8. Wrap(Total(d) + 0) = Total(d)
  BY <1>7, WrapIn
<1>9. MonthlyUsage(m, t) = Total(d) /\ MonthlyUsage(m, t)' = Total(e)
  BY MonthlyEntries DEF d, e, MonthlyUsage, Entries
<1> QED BY <1>3, <1>5, <1>6, <1>8, <1>9

(* The event the request of c adds. *)
Event(c) == [tenant |-> req[c].tenant, n |-> req[c].n, at |-> at[c]]

(* The step in which the request of c is added to the usage. *)
Meters(c) ==
    /\ pc[c] = "stamped" /\ ~UsageRefused(req[c])
    /\ usage' = UsageAfter(req[c]) /\ usageEvent' = Append(usageEvent, Event(c))

(* No other step changes the usage or its events. *)
LEMMA EventsStep ==
    ASSUME Typed, [Next]_vars
    PROVE  (usage' = usage /\ usageEvent' = usageEvent) \/ \E c \in Clients : Meters(c)
<1> USE DEF service
<1>1. ASSUME NEW c \in Clients, AddUsageAt(c) PROVE (usage' = usage /\ usageEvent' = usageEvent) \/ Meters(c)
  BY <1>1 DEF AddUsageAt, Meters, Event
<1>2. ASSUME NEW c \in Clients,
             \/ \E r \in Requests : Send(c, r)
             \/ Deny(c) \/ AddTenant(c) \/ SetRate(c) \/ StampUsage(c)
             \/ \E list \in {"tenants", "usage"}, s \in AskedSizes : StartWalk(c, list, s)
             \/ WalkPage(c) \/ EndWalk(c)
      PROVE  usage' = usage /\ usageEvent' = usageEvent
  BY <1>2 DEF Send, Deny, AddTenant, SetRate, StampUsage, StartWalk, WalkPage, EndWalk
<1>3. Tick \/ UNCHANGED vars => usage' = usage /\ usageEvent' = usageEvent
  BY DEF Tick, vars
<1> QED BY <1>1, <1>2, <1>3, Zenon DEF Next

(* Only the clock that is past the month is read. *)
LEMMA FinalStays ==
    ASSUME Typed, [Next]_vars, NEW m \in Months, Final(m)
    PROVE  Final(m)'
<1> DEFINE x == (m + 1) * MonthLength
<1>0. MonthLength \in Nat \ {0} /\ m \in Nat /\ x \in Nat /\ clock \in Nat /\ MaxClock \in Nat
  <2>1. MonthLength \in Nat \ {0} /\ m \in Nat /\ clock \in Nat /\ MaxClock \in Nat
    BY ControlPlaneAssumption DEF Months, LastMonth, Typed
  <2> QED BY <2>1
<1>1. x <= clock /\ \A c \in Clients : ~(pc[c] = "stamped" /\ at[c] \div MonthLength = m)
  BY DEF Final
<1>2. clock \div MonthLength # m
  <2>1. ~InMonth(m, clock)
    <3> HIDE DEF x
    <3>1. ~(clock < x)
      BY <1>0, <1>1
    <3> QED BY <3>1 DEF InMonth, x
  <2> QED BY <1>0, <2>1, MonthOf
<1> HIDE DEF x
<1>3. clock' = clock \/ clock' = clock + 1
  <2> USE DEF service
  <2>1. ASSUME NEW c \in Clients,
             \/ \E r \in Requests : Send(c, r)
             \/ Deny(c) \/ AddTenant(c) \/ SetRate(c) \/ StampUsage(c) \/ AddUsageAt(c)
             \/ \E list \in {"tenants", "usage"}, s \in AskedSizes : StartWalk(c, list, s)
             \/ WalkPage(c) \/ EndWalk(c)
        PROVE  clock' = clock
    BY <2>1 DEF Send, Deny, AddTenant, SetRate, StampUsage, AddUsageAt, StartWalk, WalkPage, EndWalk
  <2>2. Tick => clock' = clock + 1
    BY DEF Tick
  <2>3. UNCHANGED vars => clock' = clock
    BY DEF vars
  <2> QED BY <2>1, <2>2, <2>3, Zenon DEF Next
<1>4. x <= clock'
  BY <1>0, <1>1, <1>3
<1>5. \A c \in Clients : pc'[c] = "stamped" => \/ pc[c] = "stamped" /\ at'[c] = at[c]
                                               \/ at'[c] = clock
  <2> SUFFICES ASSUME NEW c \in Clients, pc'[c] = "stamped"
               PROVE  (pc[c] = "stamped" /\ at'[c] = at[c]) \/ at'[c] = clock
    OBVIOUS
  <2> USE DEF service, Done
  <2>0. pc = [d \in Clients |-> pc[d]] /\ at = [d \in Clients |-> at[d]]
    BY DEF Typed
  <2>1. ASSUME NEW d \in Clients, at' = at, NEW v, v # "stamped", pc' = [pc EXCEPT ![d] = v]
        PROVE  pc[c] = "stamped" /\ at'[c] = at[c]
    BY <2>0, <2>1
  <2>2. ASSUME NEW d \in Clients, NEW r \in Requests, Send(d, r) PROVE pc[c] = "stamped" /\ at'[c] = at[c]
    BY <2>1, <2>2 DEF Send
  <2>3. ASSUME NEW d \in Clients, Deny(d) \/ AddTenant(d) \/ SetRate(d) PROVE pc[c] = "stamped" /\ at'[c] = at[c]
    BY <2>1, <2>3 DEF Deny, AddTenant, SetRate
  <2>4. ASSUME NEW d \in Clients, StampUsage(d)
        PROVE  (pc[c] = "stamped" /\ at'[c] = at[c]) \/ at'[c] = clock
    BY <2>0, <2>4 DEF StampUsage
  <2>5. ASSUME NEW d \in Clients, AddUsageAt(d) PROVE pc[c] = "stamped" /\ at'[c] = at[c]
    <3>1. at' = [at EXCEPT ![d] = 0] /\ pc' = [pc EXCEPT ![d] = "idle"]
      BY <2>5 DEF AddUsageAt
    <3> QED BY <2>0, <3>1
  <2>6. ASSUME NEW d \in Clients, NEW list \in {"tenants", "usage"}, NEW s \in AskedSizes, StartWalk(d, list, s)
        PROVE  pc[c] = "stamped" /\ at'[c] = at[c]
    BY <2>1, <2>6 DEF StartWalk
  <2>7. ASSUME NEW d \in Clients, WalkPage(d) PROVE pc[c] = "stamped" /\ at'[c] = at[c]
    <3>1. at' = at /\ \E v \in {"walk", "walked"} : pc' = [pc EXCEPT ![d] = v]
      BY <2>7 DEF WalkPage
    <3> QED BY <2>1, <3>1
  <2>8. ASSUME NEW d \in Clients, EndWalk(d) PROVE pc[c] = "stamped" /\ at'[c] = at[c]
    BY <2>1, <2>8 DEF EndWalk
  <2>9. CASE Tick \/ UNCHANGED vars
    BY <2>9 DEF Tick, vars
  <2> QED BY <2>2, <2>3, <2>4, <2>5, <2>6, <2>7, <2>8, <2>9 DEF Next
<1> QED BY <1>1, <1>2, <1>4, <1>5 DEF Final, x

(* A month that has ended and has no request left between its clock reading  *)
(* and its lock is final: it stays so, and no later step changes its summary *)
(* for any tenant (AddUsage of service.go reads the clock before AddUsageAt  *)
(* takes the lock).                                                          *)
THEOREM MonthsClose == Spec => ClosedMonthFinal
<1>1. Typed /\ Typed' /\ [Next]_vars =>
        \A m \in Months, t \in tenants :
           Final(m) => Final(m)' /\ MonthlyUsage(m, t)' = MonthlyUsage(m, t)
  <2> SUFFICES ASSUME Typed, Typed', [Next]_vars, NEW m \in Months, NEW t \in tenants, Final(m)
               PROVE  Final(m)' /\ MonthlyUsage(m, t)' = MonthlyUsage(m, t)
    OBVIOUS
  <2>1. Final(m)'
    BY FinalStays
  <2>2. CASE usageEvent' = usageEvent
    BY <2>1, <2>2 DEF MonthlyUsage, InMonth
  <2>3. ASSUME NEW c \in Clients, Meters(c) PROVE MonthlyUsage(m, t)' = MonthlyUsage(m, t)
    <3>1. Event(c) \in Events /\ t \in TenantIDs /\ m \in Nat
      BY <2>3, UsageAccepted, ControlPlaneAssumption DEF Meters, Event, Typed, Months
    <3>2. m # Event(c).at \div MonthLength
      BY <2>3 DEF Meters, Event, Final
    <3>3. usageEvent' = Append(usageEvent, Event(c))
      BY <2>3 DEF Meters
    <3> QED BY <3>1, <3>2, <3>3, MonthAppend
  <2> QED BY <2>1, <2>2, <2>3, EventsStep
<1> QED BY <1>1, TypeInvariance, PTL DEF Spec, ClosedMonthFinal

-----------------------------------------------------------------------------
(* The columns that are added up: the months of one tenant, *)
ByMonth(t) == [i \in 1..(LastMonth + 1) |-> MonthlyUsage(i - 1, t)]

(* the running totals of all tenants, *)
ByTenant == [t \in 1..MaxTenant |-> Usage(t)]

(* the rows of one month, *)
InMonthByTenant(m) == [t \in 1..MaxTenant |-> MonthlyUsage(m, t)]

(* and the grand totals of the months. *)
AllByMonth == [i \in 1..(LastMonth + 1) |-> GrandTotal(i - 1)]

(* MonthsAddUpToUsage, for every ID. *)
Balanced ==
    /\ \A t \in TenantIDs : Usage(t) = Total(ByMonth(t))
    /\ Total(ByTenant) = Total(AllByMonth)

(* A column is a sequence of numbers. *)
LEMMA Sequence ==
    ASSUME NEW n \in Nat, NEW d \in [1..n -> Int]
    PROVE  d \in Seq(Int) /\ Len(d) = n /\ \A i \in 1..n : d[i] \in Int
  OBVIOUS

(* There is a last month, *)
LEMMA LastMonthType == LastMonth \in Nat /\ LastMonth + 1 \in Nat
<1> DEFINE q == MaxClock \div MonthLength
           x == q * MonthLength
           r == MaxClock % MonthLength
<1>1. MaxClock \in Nat /\ MonthLength \in Nat \ {0}
  BY ControlPlaneAssumption
<1>2. q \in Int /\ MaxClock = x + r /\ r \in 0..(MonthLength - 1)
  BY <1>1, DivMod
<1> HIDE DEF q, r
<1>3. q >= 0
  <2> SUFFICES ASSUME q <= -1 PROVE FALSE
    BY <1>2
  <2>1. (-q - 1) * MonthLength >= 0
    BY <1>1, <1>2
  <2>2. x = -((-q - 1) * MonthLength) - MonthLength
    BY <1>1, <1>2
  <2>3. x \in Int /\ x <= -MonthLength
    BY <1>1, <1>2, <2>1, <2>2
  <2> HIDE DEF x
  <2> QED BY <1>1, <1>2, <2>3
<1> QED BY <1>2, <1>3 DEF LastMonth, q

(* and no event is stamped after it. *)
LEMMA EventMonth ==
    ASSUME NEW x \in 0..MaxClock
    PROVE  x \div MonthLength \in Months
<1> DEFINE L == MonthLength
           q == x \div L
           Q == LastMonth
<1>1. L \in Nat \ {0} /\ MaxClock \in Nat /\ x \in Nat /\ Q \in Nat
  BY ControlPlaneAssumption, LastMonthType
<1>2. Q = MaxClock \div L
  BY DEF LastMonth
<1> HIDE DEF L, Q
<1>3. q \in Int /\ x % L \in 0..(L - 1) /\ x = q * L + (x % L)
  BY <1>1, DivMod
<1>4. MaxClock % L \in 0..(L - 1) /\ MaxClock = Q * L + (MaxClock % L)
  BY <1>1, <1>2, DivMod
<1> DEFINE r == x % L
           R == MaxClock % L
           d == q - Q
           y == q * L
           z == Q * L
<1>5. y \in Int /\ z \in Int /\ d \in Int /\ d * L = y - z
  BY <1>1, <1>3
<1>6. r \in 0..(L - 1) /\ R \in 0..(L - 1) /\ x = y + r /\ MaxClock = z + R /\ x <= MaxClock
  BY <1>3, <1>4
<1> HIDE DEF r, R, q, y, z
<1>7. q <= Q
  <2> SUFFICES ASSUME d >= 1 PROVE FALSE
    BY <1>1, <1>3
  <2>1. (d - 1) * L >= 0 /\ d * L = (d - 1) * L + L
    BY <1>1, <1>5
  <2>2. y - z >= L
    <3> DEFINE u == (d - 1) * L
    <3>1. u \in Int
      BY <1>1, <1>5
    <3> HIDE DEF u, d
    <3> QED BY <1>1, <1>5, <2>1, <3>1 DEF u
  <2> QED BY <1>1, <1>5, <1>6, <2>2
<1>8. q >= 0
  <2> SUFFICES ASSUME q <= -1 PROVE FALSE
    BY <1>3
  <2>1. (-q - 1) * L >= 0 /\ y = -((-q - 1) * L) - L
    BY <1>1, <1>3 DEF y
  <2>2. y <= -L
    <3> DEFINE u == (-q - 1) * L
    <3>1. u \in Int
      BY <1>1, <1>3
    <3> HIDE DEF u
    <3> QED BY <1>1, <1>5, <2>1, <3>1 DEF u
  <2> QED BY <1>1, <1>5, <1>6, <2>2
<1> QED BY <1>1, <1>3, <1>7, <1>8 DEF Months, q, L, Q

(* The columns are numbers. *)
LEMMA Columns ==
    ASSUME Typed
    PROVE  /\ \A t : ByMonth(t) \in [1..(LastMonth + 1) -> Int]
           /\ ByTenant \in [1..MaxTenant -> Int]
           /\ \A m : InMonthByTenant(m) \in [1..MaxTenant -> Int] /\ GrandTotal(m) \in Int
           /\ AllByMonth \in [1..(LastMonth + 1) -> Int]
<1>0. MaxTenant \in Nat
  BY ControlPlaneAssumption
<1>1. \A m, t : MonthlyUsage(m, t) \in Int
  BY MonthlyType, HalfPositive
<1>2. \A t : Usage(t) \in Int
  BY HalfPositive DEF Usage, Typed
<1>3. \A m : InMonthByTenant(m) \in [1..MaxTenant -> Int]
  BY <1>1 DEF InMonthByTenant
<1>4. \A m : GrandTotal(m) \in Int
  <2>1. ASSUME NEW m PROVE GrandTotal(m) \in Int
    <3>1. InMonthByTenant(m) \in Seq(Int)
      BY <1>0, <1>3, Sequence
    <3>2. Total(InMonthByTenant(m)) \in Int
      BY <3>1, TotalType, HalfPositive
    <3> QED BY <3>2 DEF GrandTotal, InMonthByTenant
  <2> QED BY <2>1
<1> QED BY <1>1, <1>2, <1>3, <1>4 DEF ByMonth, ByTenant, AllByMonth

(* Without usage all is 0. *)
LEMMA InitBalanced == Init => Balanced
<1> SUFFICES ASSUME Init PROVE Balanced
  OBVIOUS
<1>0. MaxTenant \in Nat /\ LastMonth + 1 \in Nat /\ Typed
  BY ControlPlaneAssumption, LastMonthType, InitTyped
<1>1. ASSUME NEW m, NEW t PROVE MonthlyUsage(m, t) = 0
  <2>1. Len(usageEvent) = 0
    BY DEF Init
  <2>2. Entries(m, t) \in Seq(Int) /\ Len(Entries(m, t)) = 0
    BY <1>0, <2>1, EntriesType
  <2> DEFINE d == Entries(m, t)
  <2> HIDE DEF d
  <2>3. \A i \in 1..Len(d) : d[i] = 0
    BY <2>2 DEF d
  <2>4. Total(d) = 0
    BY <2>2, <2>3, TotalZero DEF d
  <2> QED BY <2>4, MonthlyEntries DEF d
<1>2. ASSUME NEW n \in Nat, NEW d \in [1..n -> Int], \A i \in 1..n : d[i] = 0 PROVE Total(d) = 0
  BY <1>2, Sequence, TotalZero
<1>3. \A t : Usage(t) = 0
  BY DEF Init, Usage
<1>4. \A t : Total(ByMonth(t)) = 0
  BY <1>0, <1>1, <1>2, Columns DEF ByMonth
<1>5. Total(ByTenant) = 0
  BY <1>0, <1>2, <1>3, Columns DEF ByTenant
<1>6. \A m : GrandTotal(m) = 0
  <2>1. ASSUME NEW m PROVE Total(InMonthByTenant(m)) = 0
    BY <1>0, <1>1, <1>2, Columns DEF InMonthByTenant
  <2> QED BY <2>1 DEF GrandTotal, InMonthByTenant
<1>7. Total(AllByMonth) = 0
  BY <1>0, <1>2, <1>6, Columns DEF AllByMonth
<1> QED BY <1>3, <1>4, <1>5, <1>7 DEF Balanced

(* TotalShift for functions on an interval. *)
LEMMA ColumnShift ==
    ASSUME NEW n \in Nat, NEW d \in [1..n -> Int], NEW e \in [1..n -> Int], NEW x \in Int,
           NEW j \in 1..n, e[j] = Wrap(d[j] + x), \A i \in 1..n : i # j => e[i] = d[i]
    PROVE  Total(e) = Wrap(Total(d) + x)
<1>1. /\ d \in Seq(Int) /\ Len(d) = n /\ e \in Seq(Int) /\ Len(e) = n /\ d[j] \in Int
  BY Sequence
<1>2. Wrap(e[j]) = Wrap(d[j] + x)
  <2>1. Wrap(d[j] + x) \in Ints
    <3>1. d[j] + x \in Int
      BY <1>1
    <3> QED BY <3>1, WrapType
  <2> QED BY <2>1, WrapIn
<1> QED BY <1>1, <1>2, TotalShift

(* Columns are equal when their entries are. *)
LEMMA ColumnsSame ==
    ASSUME NEW n \in Nat, NEW d \in [1..n -> Int], NEW e \in [1..n -> Int], \A i \in 1..n : e[i] = d[i]
    PROVE  e = d
  OBVIOUS

(* An event changes one month of one tenant, and each of the four totals by  *)
(* the same amount, wrapped or not.                                          *)
LEMMA MeteredBalance ==
    ASSUME Typed, Typed', Balanced, NEW c \in Clients, Meters(c)
    PROVE  Balanced'
<1>i. PICK q \in Months : q = at[c] \div MonthLength
  <2>1. at[c] \in 0..MaxClock
    BY DEF Typed
  <2> QED BY <2>1, EventMonth
<1>j. PICK s \in TenantIDs, k \in Int : s = req[c].tenant /\ k = req[c].n
  <2>1. req[c].tenant \in TenantIDs /\ req[c].n \in Nat
    BY UsageAccepted DEF Meters
  <2>2. req[c].n \in Int
    BY <2>1
  <2> QED BY <2>1, <2>2
<1> DEFINE ev == Event(c)
<1>0. /\ MaxTenant \in Nat /\ LastMonth + 1 \in Nat /\ LastMonth \in Nat
      /\ s \in 1..MaxTenant /\ ev \in Events
      /\ ev.tenant = s /\ ev.n = k /\ ev.at = at[c] /\ q \in 0..LastMonth
  BY <1>i, <1>j, UsageAccepted, ControlPlaneAssumption, LastMonthType DEF Meters, Event, Months, TenantIDs
<1>1. usageEvent' = Append(usageEvent, ev) /\ usage' = UsageAfter(req[c])
  BY DEF Meters
<1>2. ASSUME NEW m \in Nat, NEW t \in TenantIDs
      PROVE  MonthlyUsage(m, t)' = IF s = t /\ m = q THEN Wrap(MonthlyUsage(m, t) + k) ELSE MonthlyUsage(m, t)
  <2> HIDE DEF ev
  <2>1. MonthlyUsage(m, t)' = IF ev.tenant = t /\ m = ev.at \div MonthLength
                              THEN Wrap(MonthlyUsage(m, t) + ev.n) ELSE MonthlyUsage(m, t)
    BY <1>0, <1>1, MonthAppend
  <2> QED BY <1>0, <1>i, <2>1
<1>3. \A t \in TenantIDs : Usage(t)' = IF t = s THEN Wrap(Usage(t) + k) ELSE Usage(t)
  BY <1>1, <1>j DEF Usage, UsageAfter
<1>4. /\ \A t : ByMonth(t) \in [1..(LastMonth + 1) -> Int]
      /\ ByTenant \in [1..MaxTenant -> Int]
      /\ \A m : InMonthByTenant(m) \in [1..MaxTenant -> Int] /\ GrandTotal(m) \in Int
      /\ AllByMonth \in [1..(LastMonth + 1) -> Int]
  BY Columns
<1>5. /\ \A t : ByMonth(t)' \in [1..(LastMonth + 1) -> Int]
      /\ ByTenant' \in [1..MaxTenant -> Int]
      /\ \A m : InMonthByTenant(m)' \in [1..MaxTenant -> Int] /\ GrandTotal(m)' \in Int
      /\ AllByMonth' \in [1..(LastMonth + 1) -> Int]
  <2>1. (/\ \A t : ByMonth(t) \in [1..(LastMonth + 1) -> Int]
         /\ ByTenant \in [1..MaxTenant -> Int]
         /\ \A m : InMonthByTenant(m) \in [1..MaxTenant -> Int] /\ GrandTotal(m) \in Int
         /\ AllByMonth \in [1..(LastMonth + 1) -> Int])'
    BY Columns, PTL
  <2>2. LastMonth' = LastMonth
    BY DEF LastMonth
  <2> QED BY <2>1, <2>2
<1> HIDE DEF ev
<1> DEFINE n == LastMonth + 1
<1>6. q + 1 \in 1..n /\ (q + 1) - 1 = q /\ \A i \in 1..n : i - 1 \in Nat /\ (i # q + 1 => i - 1 # q)
  BY <1>0
<1>n. n \in Nat
  BY <1>0
<1>7. \A t \in TenantIDs : Usage(t)' = Total(ByMonth(t)')
  <2> SUFFICES ASSUME NEW t \in TenantIDs PROVE Usage(t)' = Total(ByMonth(t)')
    OBVIOUS
  <2> DEFINE d == ByMonth(t)
             e == ByMonth(t)'
  <2>1. \A i \in 1..n : d[i] = MonthlyUsage(i - 1, t) /\ e[i] = MonthlyUsage(i - 1, t)'
    BY DEF ByMonth
  <2>2. d \in [1..n -> Int] /\ e \in [1..n -> Int] /\ Usage(t) = Total(d)
    BY <1>4, <1>5 DEF Balanced
  <2>3. CASE t # s
    <3>1. \A i \in 1..n : e[i] = d[i]
      BY <1>2, <1>6, <2>1, <2>3
    <3> HIDE DEF d, e, n
    <3>2. e = d
      BY <1>n, <2>2, <3>1, ColumnsSame
    <3>3. Usage(t)' = Usage(t)
      BY <1>3, <2>3
    <3> QED BY <2>2, <3>2, <3>3 DEF e
  <2>4. CASE t = s
    <3>1. e[q + 1] = Wrap(d[q + 1] + k) /\ \A i \in 1..n : i # q + 1 => e[i] = d[i]
      <4>1. q \in Nat
        BY <1>0
      <4> QED BY <1>2, <1>6, <2>1, <2>4, <4>1
    <3> HIDE DEF d, e, n
    <3>2. Total(e) = Wrap(Total(d) + k)
      BY <1>0, <1>6, <1>n, <2>2, <3>1, ColumnShift
    <3>3. Usage(t)' = Wrap(Usage(t) + k)
      BY <1>3, <2>4
    <3> QED BY <2>2, <3>2, <3>3 DEF e
  <2> QED BY <2>3, <2>4
<1>8. Total(ByTenant') = Wrap(Total(ByTenant) + k)
  <2> DEFINE d == ByTenant
             e == ByTenant'
  <2>1. \A i \in 1..MaxTenant : d[i] = Usage(i) /\ e[i] = Usage(i)'
    BY DEF ByTenant
  <2>2. e[s] = Wrap(d[s] + k) /\ \A i \in 1..MaxTenant : i # s => e[i] = d[i]
    BY <1>0, <1>3, <2>1 DEF TenantIDs
  <2>3. d \in [1..MaxTenant -> Int] /\ e \in [1..MaxTenant -> Int]
    BY <1>4, <1>5
  <2> HIDE DEF d, e
  <2>4. Total(e) = Wrap(Total(d) + k)
    BY <1>0, <2>2, <2>3, ColumnShift
  <2> QED BY <2>4 DEF d, e
<1>9. /\ GrandTotal(q)' = Wrap(GrandTotal(q) + k)
      /\ \A m \in Nat : m # q => GrandTotal(m)' = GrandTotal(m)
  <2>1. \A m : GrandTotal(m) = Total(InMonthByTenant(m)) /\ GrandTotal(m)' = Total(InMonthByTenant(m)')
    BY DEF GrandTotal, InMonthByTenant, Total, Wrap, Half
  <2>2. ASSUME NEW m \in Nat, m # q PROVE GrandTotal(m)' = GrandTotal(m)
    <3>1. \A t \in TenantIDs : MonthlyUsage(m, t)' = MonthlyUsage(m, t)
      BY <1>2, <2>2
    <3>2. InMonthByTenant(m)' = InMonthByTenant(m)
      BY <3>1 DEF InMonthByTenant, TenantIDs
    <3> QED BY <2>1, <3>2
  <2>3. GrandTotal(q)' = Wrap(GrandTotal(q) + k)
    <3> DEFINE d == InMonthByTenant(q)
               e == InMonthByTenant(q)'
    <3>1. \A i \in 1..MaxTenant : d[i] = MonthlyUsage(q, i) /\ e[i] = MonthlyUsage(q, i)'
      BY DEF InMonthByTenant
    <3>2. e[s] = Wrap(d[s] + k) /\ \A i \in 1..MaxTenant : i # s => e[i] = d[i]
      <4>1. q \in Nat
        BY <1>0
      <4>2. \A t \in TenantIDs : MonthlyUsage(q, t)' = IF s = t THEN Wrap(MonthlyUsage(q, t) + k)
                                                      ELSE MonthlyUsage(q, t)
        BY <1>2, <4>1
      <4> HIDE DEF d, e
      <4> QED BY <1>0, <3>1, <4>2 DEF TenantIDs
    <3>3. d \in [1..MaxTenant -> Int] /\ e \in [1..MaxTenant -> Int]
      BY <1>4, <1>5
    <3> HIDE DEF d, e
    <3>4. Total(e) = Wrap(Total(d) + k)
      BY <1>0, <3>2, <3>3, ColumnShift
    <3> QED BY <2>1, <3>4 DEF d, e
  <2> QED BY <2>2, <2>3
<1>10. Total(AllByMonth') = Wrap(Total(AllByMonth) + k)
  <2> DEFINE d == AllByMonth
             e == AllByMonth'
  <2>1. \A i \in 1..n : d[i] = GrandTotal(i - 1) /\ e[i] = GrandTotal(i - 1)'
    BY DEF AllByMonth
  <2>2. e[q + 1] = Wrap(d[q + 1] + k) /\ \A i \in 1..n : i # q + 1 => e[i] = d[i]
    <3>1. d[q + 1] = GrandTotal(q) /\ e[q + 1] = GrandTotal(q)'
      BY <1>6, <2>1
    <3>2. \A i \in 1..n : i # q + 1 => GrandTotal(i - 1)' = GrandTotal(i - 1)
      BY <1>6, <1>9
    <3> HIDE DEF d, e, n
    <3> QED BY <1>9, <2>1, <3>1, <3>2
  <2>3. d \in [1..n -> Int] /\ e \in [1..n -> Int]
    BY <1>4, <1>5
  <2> HIDE DEF d, e, n
  <2>4. Total(e) = Wrap(Total(d) + k)
    BY <1>0, <1>6, <1>n, <2>2, <2>3, ColumnShift
  <2> QED BY <2>4 DEF d, e
<1>11. Total(ByTenant') = Total(AllByMonth')
  BY <1>8, <1>10 DEF Balanced
<1> QED BY <1>7, <1>11 DEF Balanced, Total, Wrap, Half

(* No other step changes a total. *)
LEMMA BalancedStep == Typed /\ Typed' /\ Balanced /\ [Next]_vars => Balanced'
<1> SUFFICES ASSUME Typed, Typed', Balanced, [Next]_vars PROVE Balanced'
  OBVIOUS
<1>1. CASE usage' = usage /\ usageEvent' = usageEvent
  <2>1. \A m, t : MonthlyUsage(m, t)' = MonthlyUsage(m, t)
    BY <1>1 DEF MonthlyUsage, InMonth, Total, Wrap, Half
  <2>2. \A t : Usage(t)' = Usage(t)
    BY <1>1 DEF Usage
  <2>3. \A t : ByMonth(t)' = ByMonth(t)
    BY <2>1 DEF ByMonth, LastMonth
  <2>4. ByTenant' = ByTenant
    BY <2>2 DEF ByTenant
  <2>5. \A m : GrandTotal(m)' = GrandTotal(m)
    BY <2>1 DEF GrandTotal, Total, Wrap, Half
  <2>6. AllByMonth' = AllByMonth
    BY <2>5 DEF AllByMonth, LastMonth
  <2> QED BY <2>2, <2>3, <2>4, <2>6 DEF Balanced, Total, Wrap, Half
<1> QED BY <1>1, EventsStep, MeteredBalance

(* The running total of a tenant is the sum of its months, and the usage of  *)
(* all tenants the sum of the months' grand totals, in int64 arithmetic also *)
(* after wrapping, for any number of events in any order of stamping and     *)
(* storing (AddUsageAt, MonthlyUsageRows and GET /billing/summary of         *)
(* service.go).                                                              *)
THEOREM UsageBalances == Spec => []MonthsAddUpToUsage
<1>1. Typed /\ Balanced => MonthsAddUpToUsage
  BY DEF Typed, Balanced, MonthsAddUpToUsage, ByMonth, ByTenant, AllByMonth
<1>2. Spec => [](Typed /\ Balanced)
  BY TypeInvariance, InitBalanced, BalancedStep, PTL DEF Spec
<1> QED BY <1>1, <1>2, PTL
=============================================================================
