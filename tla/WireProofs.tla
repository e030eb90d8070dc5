----------------------------- MODULE WireProofs -----------------------------
(***************************************************************************)
(* What is encoded is decoded, for every number, text and header length,   *)
(* and a stream of frames is cut where the frames begin: proofs for        *)
(* modules Codec and Wire.                                                 *)
(***************************************************************************)
EXTENDS Wire, FiniteSetTheorems, SequenceTheorems, WellFoundedInduction, TLAPS

-----------------------------------------------------------------------------
(* Induction.  The library states it for a predicate, which no prover here  *)
(* instantiates; for a set it follows from the well-foundedness of strict   *)
(* inclusion among finite sets.                                             *)

(* Every non-empty set of naturals has a least element.                     *)
LEMMA LeastElement ==
  ASSUME NEW T \in SUBSET Nat, T # {}
  PROVE  \E m \in T : \A y \in T : m <= y
<1>1. IsWellFoundedOn(StrictSubsetOrdering(Nat), FiniteSubsetsOf(Nat))
  BY FS_StrictSubsetOrderingWellFounded
<1>2. ASSUME NEW U, U = {0..m : m \in T}
      PROVE  \E m \in T : \A y \in T : m <= y
  <2>1. \A m \in T : 0..m \in SUBSET Nat /\ IsFiniteSet(0..m)
    BY FS_Interval
  <2>2. U \subseteq FiniteSubsetsOf(Nat) /\ U # {}
    BY <1>2, <2>1 DEF FiniteSubsetsOf
  <2>3. PICK x \in U : \A y \in U : <<y, x>> \notin StrictSubsetOrdering(Nat)
    BY <1>1, <2>2, WFMin
  <2>4. PICK m \in T : x = 0..m
    BY <1>2
  <2>5. ASSUME NEW y \in T, y < m PROVE FALSE
    <3>1. m \in 0..m /\ m \notin 0..y /\ 0..y \subseteq 0..m
      BY <2>5
    <3>2. <<0..y, 0..m>> \in StrictSubsetOrdering(Nat)
      BY <3>1 DEF StrictSubsetOrdering
    <3>3. 0..y \in U
      BY <1>2
    <3> QED BY <3>2, <3>3, <2>3, <2>4
  <2> QED BY <2>5
<1> QED BY <1>2

(* A set that holds 0 and the successor of each of its elements holds every *)
(* natural number.                                                          *)
LEMMA NatSetInduction ==
  ASSUME NEW S, 0 \in S, \A n \in Nat : n \in S => n + 1 \in S
  PROVE  \A n \in Nat : n \in S
<1>1. ASSUME NEW T, T = Nat \ S, T # {} PROVE FALSE
  <2>1. PICK m \in T : \A y \in T : m <= y
    BY <1>1, LeastElement
  <2>2. m \in Nat /\ m \notin S /\ m # 0
    BY <1>1
  <2>3. m - 1 \in Nat /\ m - 1 \notin T
    BY <2>1, <2>2
  <2> QED BY <1>1, <2>2, <2>3
<1> QED BY <1>1

(* The same, when an element may need all the smaller ones.                 *)
LEMMA NatStrongInduction ==
  ASSUME NEW S, \A n \in Nat : (\A m \in Nat : m < n => m \in S) => n \in S
  PROVE  \A n \in Nat : n \in S
<1>1. ASSUME NEW T, T = Nat \ S, T # {} PROVE FALSE
  <2>1. PICK n \in T : \A m \in T : n <= m
    BY <1>1, LeastElement
  <2>2. \A m \in Nat : m < n => m \in S
    BY <1>1, <2>1
  <2> QED BY <1>1, <2>2
<1>2. Nat \ S = {}
  BY <1>1
<1> QED BY <1>2

-----------------------------------------------------------------------------
(* Recursive functions.  A recursive definition chooses a function that     *)
(* satisfies an equation; that there is one is to be shown.                 *)

(* f satisfies on 0..n the recursion that has base case b on Z and goes     *)
(* from x to the smaller d[x], with h giving the value at x from that at    *)
(* d[x].                                                                    *)
Recurses(f, n, Z, b, d, h) ==
  \A x \in 0..n : f[x] = IF x \in Z THEN b[x] ELSE h[<<x, f[d[x]]>>]

(* The recursion goes down, and its values are in T.                        *)
WellDefined(T, Z, b, d, h) ==
  /\ Z \subseteq Nat /\ 0 \in Z
  /\ \A x \in Z : b[x] \in T
  /\ \A x \in Nat \ Z : d[x] \in Nat /\ d[x] < x
  /\ \A x \in Nat \ Z, t \in T : h[<<x, t>>] \in T

(* Two functions that satisfy the same recursion agree where both do.       *)
LEMMA RecursionUnique ==
  ASSUME NEW Z, NEW b, NEW d, NEW h,
         \A x \in Nat \ Z : d[x] \in Nat /\ d[x] < x,
         NEW k \in Nat, NEW l \in Nat, NEW f, NEW g,
         Recurses(f, k, Z, b, d, h), Recurses(g, l, Z, b, d, h)
  PROVE  \A x \in Nat : x <= k /\ x <= l => f[x] = g[x]
<1>1. ASSUME NEW S,
             S = {x \in Nat : x <= k /\ x <= l => f[x] = g[x]}
      PROVE  \A x \in Nat : x <= k /\ x <= l => f[x] = g[x]
  <2>1. ASSUME NEW x \in Nat, x <= k, x <= l,
               \A y \in Nat : y < x => f[y] = g[y]
        PROVE  f[x] = g[x]
    <3>1. f[x] = IF x \in Z THEN b[x] ELSE h[<<x, f[d[x]]>>]
      BY <2>1 DEF Recurses
    <3>2. g[x] = IF x \in Z THEN b[x] ELSE h[<<x, g[d[x]]>>]
      BY <2>1 DEF Recurses
    <3>3. x \notin Z => f[d[x]] = g[d[x]]
      BY <2>1
    <3> QED BY <3>1, <3>2, <3>3
  <2>2. ASSUME NEW n \in Nat, \A m \in Nat : m < n => m \in S PROVE n \in S
    <3>1. n <= k /\ n <= l => \A y \in Nat : y < n => f[y] = g[y]
      BY <1>1, <2>2
    <3> QED BY <1>1, <2>1, <3>1
  <2>3. \A n \in Nat : n \in S
    BY <2>2, NatStrongInduction
  <2> QED BY <1>1, <2>3
<1> QED BY <1>1

(* Up to any n there is a function that satisfies the recursion.            *)
LEMMA RecursionUpTo ==
  ASSUME NEW T, NEW Z, NEW b, NEW d, NEW h, WellDefined(T, Z, b, d, h),
         NEW n \in Nat
  PROVE  \E f \in [0..n -> T] : Recurses(f, n, Z, b, d, h)
<1> USE DEF WellDefined
<1>1. ASSUME NEW S,
             S = {k \in Nat : \E f \in [0..k -> T] : Recurses(f, k, Z, b, d, h)}
      PROVE  \E f \in [0..n -> T] : Recurses(f, n, Z, b, d, h)
  <2>1. 0 \in S
    <3>1. ASSUME NEW f, f = [x \in 0..0 |-> b[x]]
          PROVE  f \in [0..0 -> T] /\ Recurses(f, 0, Z, b, d, h)
      BY <3>1 DEF Recurses
    <3> QED BY <1>1, <3>1
  <2>2. ASSUME NEW k \in Nat, k \in S PROVE k + 1 \in S
    <3>1. PICK f \in [0..k -> T] : Recurses(f, k, Z, b, d, h)
      BY <1>1, <2>2
    <3>2. ASSUME NEW v, v = IF k + 1 \in Z THEN b[k + 1]
                            ELSE h[<<k + 1, f[d[k + 1]]>>],
                 NEW g, g = [x \in 0..(k + 1) |-> IF x <= k THEN f[x] ELSE v]
          PROVE  g \in [0..(k + 1) -> T] /\ Recurses(g, k + 1, Z, b, d, h)
      <4>1. k + 1 \notin Z => d[k + 1] \in 0..k
        OBVIOUS
      <4>2. v \in T
        BY <3>2, <4>1
      <4>3. \A x \in 0..k : g[x] = f[x] /\ f[x] \in T
        BY <3>2
      <4>4. g \in [0..(k + 1) -> T]
        BY <3>2, <4>2, <4>3
      <4>5. ASSUME NEW x \in 0..k
            PROVE  g[x] = IF x \in Z THEN b[x] ELSE h[<<x, g[d[x]]>>]
        <5>1. f[x] = IF x \in Z THEN b[x] ELSE h[<<x, f[d[x]]>>]
          BY <3>1 DEF Recurses
        <5>2. x \notin Z => d[x] \in 0..k
          OBVIOUS
        <5> QED BY <4>3, <5>1, <5>2
      <4>6. g[k + 1] = IF k + 1 \in Z THEN b[k + 1]
                       ELSE h[<<k + 1, g[d[k + 1]]>>]
        <5>1. g[k + 1] = v
          BY <3>2
        <5>2. k + 1 \notin Z => g[d[k + 1]] = f[d[k + 1]]
          BY <4>1, <4>3
        <5> QED BY <3>2, <5>1, <5>2
      <4>7. \A x \in 0..(k + 1) : x \in 0..k \/ x = k + 1
        OBVIOUS
      <4> QED BY <4>4, <4>5, <4>6, <4>7 DEF Recurses
    <3>3. \E g \in [0..(k + 1) -> T] : Recurses(g, k + 1, Z, b, d, h)
      BY <3>2
    <3> QED BY <1>1, <3>3
  <2>3. \A k \in Nat : k \in S
    BY <2>1, <2>2, NatSetInduction
  <2> QED BY <1>1, <2>3
<1> QED BY <1>1

(* There is a function on the naturals that satisfies the recursion.        *)
LEMMA RecursionExists ==
  ASSUME NEW T, NEW Z, NEW b, NEW d, NEW h, WellDefined(T, Z, b, d, h)
  PROVE  \E f \in [Nat -> T] :
           \A x \in Nat : f[x] = IF x \in Z THEN b[x] ELSE h[<<x, f[d[x]]>>]
<1>0. \A x \in Nat \ Z : d[x] \in Nat /\ d[x] < x
  BY DEF WellDefined
<1>1. ASSUME NEW upto,
             upto = [n \in Nat |-> {f \in [0..n -> T] : Recurses(f, n, Z, b, d, h)}],
             NEW app, app = [n \in Nat |-> CHOOSE f : f \in upto[n]],
             NEW f, f = [n \in Nat |-> app[n][n]]
      PROVE  /\ f \in [Nat -> T]
             /\ \A x \in Nat : f[x] = IF x \in Z THEN b[x]
                                      ELSE h[<<x, f[d[x]]>>]
  <2>1. \A n \in Nat : \E g : g \in upto[n]
    <3>1. \A n \in Nat : \E g \in [0..n -> T] : Recurses(g, n, Z, b, d, h)
      BY RecursionUpTo
    <3> QED BY <1>1, <3>1
  <2>2. \A n \in Nat : app[n] \in [0..n -> T] /\ Recurses(app[n], n, Z, b, d, h)
    <3>1. \A n \in Nat : (CHOOSE g : g \in upto[n]) \in upto[n]
      BY <2>1, Zenon
    <3>2. \A n \in Nat : app[n] \in upto[n]
      BY <1>1, <3>1
    <3> QED BY <1>1, <3>2
  <2>3. f \in [Nat -> T]
    <3>1. \A n \in Nat : app[n][n] \in T
      BY <2>2
    <3> QED BY <1>1, <3>1
  <2>4. ASSUME NEW x \in Nat
        PROVE  f[x] = IF x \in Z THEN b[x] ELSE h[<<x, f[d[x]]>>]
    <3>1. f[x] = IF x \in Z THEN b[x] ELSE h[<<x, app[x][d[x]]>>]
      <4>1. \A y \in 0..x : app[x][y] = IF y \in Z THEN b[y]
                                       ELSE h[<<y, app[x][d[y]]>>]
        BY <2>2 DEF Recurses
      <4>2. f[x] = app[x][x] /\ x \in 0..x
        BY <1>1
      <4> QED BY <4>1, <4>2
    <3>2. ASSUME x \notin Z, NEW y, y = d[x] PROVE app[x][y] = f[y]
      <4>1. y \in Nat /\ y <= x
        BY <1>0, <3>2
      <4>2. ASSUME NEW u, u = app[x], NEW w, w = app[y] PROVE u[y] = w[y]
        <5>1. Recurses(u, x, Z, b, d, h) /\ Recurses(w, y, Z, b, d, h)
          BY <2>2, <4>1, <4>2
        <5>2. \A z \in Nat : z <= x /\ z <= y => u[z] = w[z]
          BY <1>0, <4>1, <5>1, RecursionUnique
        <5> QED BY <4>1, <5>2
      <4> QED BY <1>1, <4>1, <4>2
    <3> QED BY <3>1, <3>2
  <2> QED BY <2>3, <2>4
<1> QED BY <1>1
-----------------------------------------------------------------------------
(* The numbers.                                                             *)

\* Every place is worth something, and Base times the one below it.
LEMMA PlaceDef ==
  /\ Place \in [Nat -> Nat \ {0}]
  /\ Place[0] = 1
  /\ \A i \in Nat : Place[i + 1] = Base * Place[i]
<1>1. ASSUME NEW Z, Z = {0}, NEW T, T = Nat \ {0},
             NEW b, b = [x \in Z |-> 1], NEW d, d = [x \in Nat |-> x - 1],
             NEW h, h = [p \in Nat \X Nat |-> Base * p[2]]
      PROVE  \E f \in [Nat -> Nat \ {0}] :
               \A x \in Nat : f[x] = IF x = 0 THEN 1 ELSE Base * f[x - 1]
  <2>1. \A x \in Nat \ Z : d[x] \in Nat /\ d[x] < x
    BY <1>1
  <2>2. /\ \A x \in Nat \ Z, t \in T : h[<<x, t>>] \in T
        /\ \A x \in Nat \ Z, t \in T : h[<<x, t>>] = Base * t
    BY <1>1, CodecAssumption
  <2>3. WellDefined(T, Z, b, d, h)
    BY <1>1, <2>1, <2>2 DEF WellDefined
  <2>4. PICK f \in [Nat -> T] :
          \A x \in Nat : f[x] = IF x \in Z THEN b[x] ELSE h[<<x, f[d[x]]>>]
    BY <2>3, RecursionExists
  <2>5. ASSUME NEW x \in Nat, x # 0 PROVE f[x] = Base * f[x - 1]
    <3>1. f[x] = h[<<x, f[x - 1]>>]
      BY <2>4, <2>5, <1>1
    <3>2. f[x - 1] \in T /\ x \in Nat \ Z
      BY <1>1, <2>5
    <3> QED BY <2>2, <3>1, <3>2
  <2>6. f[0] = 1
    BY <2>4, <1>1
  <2> QED BY <1>1, <2>5, <2>6
<1>2. PICK f \in [Nat -> Nat \ {0}] :
        \A x \in Nat : f[x] = IF x = 0 THEN 1 ELSE Base * f[x - 1]
  BY <1>1
<1>3. f = [i \in Nat |-> IF i = 0 THEN 1 ELSE Base * f[i - 1]]
  BY <1>2
<1>4. Place = [i \in Nat |-> IF i = 0 THEN 1 ELSE Base * Place[i - 1]]
  BY <1>3, Zenon DEF Place
<1>5. \A i \in Nat : Place[i] = IF i = 0 THEN 1 ELSE Base * Place[i - 1]
  BY <1>4
<1>6. ASSUME NEW S, S = {i \in Nat : Place[i] \in Nat \ {0}}
      PROVE  \A i \in Nat : Place[i] \in Nat \ {0}
  <2>1. 0 \in S
    BY <1>5, <1>6
  <2>2. ASSUME NEW i \in Nat, i \in S PROVE i + 1 \in S
    <3>1. Place[i + 1] = Base * Place[i]
      BY <1>5
    <3>2. Place[i] \in Nat \ {0}
      BY <1>6, <2>2
    <3>3. Base * Place[i] \in Nat \ {0}
      BY <3>2, CodecAssumption
    <3> QED BY <1>6, <3>1, <3>3
  <2>3. \A i \in Nat : i \in S
    BY <2>1, <2>2, NatSetInduction
  <2> QED BY <1>6, <2>3
<1>7. Place \in [Nat -> Nat \ {0}]
  BY <1>4, <1>6
<1> QED BY <1>5, <1>7

\* A number below Base is one byte; another is its last digit with the
\* continuation bit, and the bytes of the rest.
LEMMA PutUvarintDef ==
  /\ PutUvarint \in [Nat -> Seq(Octet)]
  /\ \A x \in Nat : x < Base => PutUvarint[x] = <<x>>
  /\ \A x \in Nat : x >= Base =>
       PutUvarint[x] = <<Base + (x % Base)>> \o PutUvarint[x \div Base]
<1>1. /\ Base \in Nat /\ Base > 0
      /\ \A x \in Nat : x < Base => x \in Octet
      /\ \A x \in Nat : x >= Base <=> ~ (x < Base)
  BY CodecAssumption DEF Octet
<1>2. \A x \in Nat : Base + (x % Base) \in Octet
  BY CodecAssumption DEF Octet
<1>3. \A x \in Nat : x >= Base => x \div Base \in Nat /\ x \div Base < x
  BY CodecAssumption
<1>4. ASSUME NEW Z, Z = {x \in Nat : x < Base}, NEW T, T = Seq(Octet),
             NEW b, b = [x \in Z |-> <<x>>],
             NEW d, d = [x \in Nat |-> x \div Base],
             NEW r, r = [x \in Nat |-> Base + (x % Base)],
             NEW h, h = [p \in Nat \X T |-> <<r[p[1]]>> \o p[2]]
      PROVE  \E f \in [Nat -> T] :
               \A x \in Nat : f[x] = IF x < Base THEN <<x>>
                              ELSE <<Base + (x % Base)>> \o f[x \div Base]
  <2>1. /\ \A x \in Nat \ Z : d[x] \in Nat /\ d[x] < x
        /\ \A x \in Nat : r[x] \in Octet
    BY <1>1, <1>2, <1>3, <1>4
  <2>2. \A x \in Nat \ Z, t \in T : h[<<x, t>>] = <<r[x]>> \o t
    BY <1>4
  <2>3. \A x \in Nat \ Z, t \in T : h[<<x, t>>] \in T
    <3>1. \A x \in Nat \ Z, t \in T : <<r[x]>> \o t \in T
      BY <1>4, <2>1
    <3> QED BY <2>2, <3>1
  <2>4. Z \subseteq Nat /\ 0 \in Z /\ \A x \in Z : b[x] = <<x>> /\ b[x] \in T
    BY <1>1, <1>4
  <2>5. WellDefined(T, Z, b, d, h)
    BY <2>1, <2>3, <2>4 DEF WellDefined
  <2>6. PICK f \in [Nat -> T] :
          \A x \in Nat : f[x] = IF x \in Z THEN b[x] ELSE h[<<x, f[d[x]]>>]
    BY <2>5, RecursionExists
  <2>7. \A x \in Nat : f[x] = IF x \in Z THEN <<x>> ELSE <<r[x]>> \o f[d[x]]
    <3>1. \A x \in Nat \ Z : f[d[x]] \in T
      BY <2>1
    <3> QED BY <2>2, <2>4, <2>6, <3>1
  <2> QED BY <1>4, <2>7
<1>5. \E f \in [Nat -> Seq(Octet)] :
        \A x \in Nat : f[x] = IF x < Base THEN <<x>>
                              ELSE <<Base + (x % Base)>> \o f[x \div Base]
  BY <1>4
<1>6. PICK f \in [Nat -> Seq(Octet)] :
        \A x \in Nat : f[x] = IF x < Base THEN <<x>>
                              ELSE <<Base + (x % Base)>> \o f[x \div Base]
  BY <1>5
<1>7. f = [x \in Nat |-> IF x < Base THEN <<x>>
                         ELSE <<Base + (x % Base)>> \o f[x \div Base]]
  BY <1>6
<1>8. PutUvarint = [x \in Nat |-> IF x < Base THEN <<x>>
                      ELSE <<Base + (x % Base)>> \o PutUvarint[x \div Base]]
  BY <1>7, Zenon DEF PutUvarint
<1>9. /\ \A x \in Nat : x < Base => PutUvarint[x] = <<x>>
      /\ \A x \in Nat : ~ (x < Base) =>
           PutUvarint[x] = <<Base + (x % Base)>> \o PutUvarint[x \div Base]
  BY <1>8, Zenon
<1>10. ASSUME NEW S, S = {x \in Nat : PutUvarint[x] \in Seq(Octet)}
       PROVE  \A x \in Nat : PutUvarint[x] \in Seq(Octet)
  <2>1. ASSUME NEW x \in Nat, \A y \in Nat : y < x => y \in S PROVE x \in S
    <3>1. CASE x < Base
      <4>1. x \in Octet /\ PutUvarint[x] = <<x>>
        BY <1>1, <1>9, <3>1
      <4>2. <<x>> \in Seq(Octet)
        BY <4>1
      <4> QED BY <1>10, <4>1, <4>2
    <3>2. CASE x >= Base
      <4>1. PutUvarint[x] = <<Base + (x % Base)>> \o PutUvarint[x \div Base]
        BY <1>1, <1>9, <3>2, Zenon
      <4>2. PutUvarint[x \div Base] \in Seq(Octet)
        BY <1>3, <1>10, <2>1, <3>2
      <4>3. Base + (x % Base) \in Octet
        BY <1>2
      <4>4. PutUvarint[x] \in Seq(Octet)
        BY <4>1, <4>2, <4>3, ConcatProperties
      <4> QED BY <1>10, <4>4
    <3> QED BY <1>1, <3>1, <3>2
  <2>2. \A x \in Nat : x \in S
    BY <2>1, NatStrongInduction
  <2> QED BY <1>10, <2>2
<1>11. PutUvarint \in [Nat -> Seq(Octet)]
  BY <1>8, <1>10
<1> QED BY <1>1, <1>9, <1>11, Zenon

\* Uvarint reads up to the first byte without the continuation bit, and adds
\* up what the digits are worth.
LEMMA UvarintDef ==
  ASSUME NEW s \in Seq(Octet), NEW n \in 1..Len(s),
         s[n] < Base, \A i \in 1..(n - 1) : ~ (s[i] < Base),
         NEW v, v[0] = 0,
         \A i \in 1..n : v[i] = v[i-1] + (s[i] % Base) * Place[i-1]
  PROVE  Uvarint(s) = [value |-> v[n], size |-> n]
<1> DEFINE ends == {i \in DOMAIN s : s[i] < Base}
           last == IF ends = {} THEN 0 ELSE Min(ends)
           Sum(f) == [i \in 0..last |->
                        IF i = 0 THEN 0 ELSE f[i-1] + (s[i] % Base) * Place[i-1]]
           value == CHOOSE f : f = Sum(f)
<1>1. last = n
  <2>1. DOMAIN s = 1..Len(s)
    OBVIOUS
  <2>2. n \in ends /\ \A i \in ends : n <= i
    BY <2>1
  <2>3. \A i \in Int : i \in ends /\ (\A j \in ends : i <= j) => i = n
    BY <2>2
  <2>4. ends \subseteq Int
    BY <2>1
  <2>5. ASSUME NEW e, e = ends PROVE Min(e) = n
    <3>1. n \in e /\ \A i \in e : n <= i
      BY <2>2, <2>5
    <3>2. Min(e) \in e /\ \A i \in e : Min(e) <= i
      BY <3>1, Zenon DEF Min
    <3> QED BY <3>2, <2>3, <2>4, <2>5
  <2> QED BY <2>2, <2>5
<1>2. Uvarint(s) = [value |-> value[last], size |-> last]
  BY Zenon DEF Uvarint
<1>3. \E f : f = Sum(f)
  <2>1. ASSUME NEW f, f = [i \in 0..n |-> v[i]] PROVE f = Sum(f)
    <3>1. \A i \in 0..n : f[i] = v[i]
      BY <2>1
    <3>2. \A i \in 0..n : v[i] = IF i = 0 THEN 0
                                 ELSE f[i-1] + (s[i] % Base) * Place[i-1]
      BY <3>1
    <3> QED BY <1>1, <2>1, <3>2
  <2> QED BY <2>1
<1>4. value = Sum(value)
  BY <1>3, Zenon
<1>5. \E w : /\ w = [i \in 0..n |-> IF i = 0 THEN 0
                                    ELSE w[i-1] + (s[i] % Base) * Place[i-1]]
             /\ Uvarint(s) = [value |-> w[n], size |-> n]
  BY <1>1, <1>2, <1>4, Zenon
<1>6. PICK w : /\ w = [i \in 0..n |-> IF i = 0 THEN 0
                                      ELSE w[i-1] + (s[i] % Base) * Place[i-1]]
               /\ Uvarint(s) = [value |-> w[n], size |-> n]
  BY <1>5
<1>7. \A i \in 0..n : w[i] = IF i = 0 THEN 0
                             ELSE w[i-1] + (s[i] % Base) * Place[i-1]
  BY <1>6, Zenon
<1>8. ASSUME NEW S, S = {i \in Nat : i <= n => w[i] = v[i]} PROVE w[n] = v[n]
  <2>1. 0 \in S
    BY <1>7, <1>8
  <2>2. ASSUME NEW i \in Nat, i \in S PROVE i + 1 \in S
    <3>1. CASE i + 1 <= n
      <4>1. w[i] = v[i] /\ i + 1 \in 0..n /\ i + 1 \in 1..n /\ (i + 1) - 1 = i /\ i + 1 # 0
        BY <1>8, <2>2, <3>1
      <4>2. w[i + 1] = w[i] + (s[i + 1] % Base) * Place[i]
        BY <1>7, <4>1
      <4>3. v[i + 1] = v[i] + (s[i + 1] % Base) * Place[i]
        BY <4>1
      <4> QED BY <1>8, <4>1, <4>2, <4>3
    <3> QED BY <1>8, <3>1
  <2>3. \A i \in Nat : i \in S
    BY <2>1, <2>2, NatSetInduction
  <2> QED BY <1>8, <2>3
<1> QED BY <1>6, <1>8

\* The sequence p ends where its first byte without the continuation bit is,
\* and its digits add up to x.
Reads(p, x) ==
  /\ Len(p) >= 1 /\ p[Len(p)] < Base
  /\ \A i \in 1..(Len(p) - 1) : ~ (p[i] < Base)
  /\ \E v \in [0..Len(p) -> Nat] :
       /\ v[0] = 0 /\ v[Len(p)] = x
       /\ \A i \in 1..Len(p) : v[i] = v[i-1] + (p[i] % Base) * Place[i-1]

LEMMA DigitShift ==
  ASSUME NEW r \in Nat, NEW a \in Nat, NEW c \in Nat, NEW x \in Nat, NEW B \in Nat
  PROVE  r + B * (a + c * x) = (r + B * a) + c * (B * x)
<1>1. B * (a + c * x) = B * a + B * (c * x)
  OBVIOUS
<1>2. B * (c * x) = c * (B * x)
  OBVIOUS
<1>3. B * a \in Nat /\ c * (B * x) \in Nat
  OBVIOUS
<1> QED BY <1>1, <1>2, <1>3

\* A digit in front is worth one, and what follows Base times as much.
LEMMA ReadsCons ==
  ASSUME NEW q \in Nat, NEW t \in Seq(Octet), Reads(t, q), NEW r \in 0..(Base - 1),
         NEW p, p = <<Base + r>> \o t
  PROVE  Reads(p, r + Base * q)
<1>1. /\ Base \in Nat /\ Base > 0 /\ r \in Nat
      /\ Base + r \in Octet /\ (Base + r) % Base = r /\ ~ (Base + r < Base)
  <2>1. Base \in Nat /\ Base > 0 /\ r \in Nat /\ r < Base
    BY CodecAssumption
  <2>2. (Base + r) % Base = r
    BY CodecAssumption
  <2>3. Base + r \in Octet /\ ~ (Base + r < Base)
    BY <2>1 DEF Octet
  <2> QED BY <2>1, <2>2, <2>3
<1>2. /\ Len(p) = Len(t) + 1 /\ Len(t) \in Nat
      /\ p[1] = Base + r /\ \A i \in 1..Len(t) : p[i + 1] = t[i]
  BY <1>1, ConcatProperties
<1>3. /\ Len(t) >= 1 /\ t[Len(t)] < Base
      /\ \A i \in 1..(Len(t) - 1) : ~ (t[i] < Base)
  BY DEF Reads
<1>4. PICK v \in [0..Len(t) -> Nat] :
        /\ v[0] = 0 /\ v[Len(t)] = q
        /\ \A i \in 1..Len(t) : v[i] = v[i-1] + (t[i] % Base) * Place[i-1]
  BY DEF Reads
<1>5. Len(p) >= 1 /\ p[Len(p)] < Base
  BY <1>2, <1>3
<1>6. ASSUME NEW i \in 1..(Len(p) - 1) PROVE ~ (p[i] < Base)
  <2>1. CASE i = 1
    BY <1>1, <1>2, <2>1
  <2>2. CASE i # 1
    <3>1. i - 1 \in 1..(Len(t) - 1) /\ i - 1 \in 1..Len(t) /\ (i - 1) + 1 = i
      BY <1>2, <2>2
    <3>2. p[i] = t[i - 1]
      BY <1>2, <3>1
    <3> QED BY <1>3, <3>1, <3>2
  <2> QED BY <2>1, <2>2
<1>7. ASSUME NEW w, w = [i \in 0..Len(p) |-> IF i = 0 THEN 0 ELSE r + Base * v[i-1]]
      PROVE  /\ w \in [0..Len(p) -> Nat]
             /\ w[0] = 0 /\ w[Len(p)] = r + Base * q
             /\ \A i \in 1..Len(p) : w[i] = w[i-1] + (p[i] % Base) * Place[i-1]
  <2>1. \A i \in 1..Len(p) : i - 1 \in 0..Len(t) /\ w[i] = r + Base * v[i-1]
    BY <1>2, <1>7
  <2>2. \A i \in 1..Len(p) : v[i-1] \in Nat
    BY <2>1
  <2>3. \A i \in 1..Len(p) : Base * v[i-1] \in Nat
    BY <1>1, <2>2
  <2>4. w \in [0..Len(p) -> Nat] /\ w[0] = 0
    BY <1>1, <1>2, <1>7, <2>3
  <2>5. w[Len(p)] = r + Base * q
    BY <1>2, <1>4, <2>1
  <2>6. ASSUME NEW i \in 1..Len(p)
        PROVE  w[i] = w[i-1] + (p[i] % Base) * Place[i-1]
    <3>1. CASE i = 1
      <4>1. w[1] = r + Base * 0 /\ w[0] = 0
        BY <1>4, <2>1, <2>4, <3>1
      <4>2. (p[1] % Base) * Place[0] = r
        BY <1>1, <1>2, PlaceDef
      <4> QED BY <1>1, <3>1, <4>1, <4>2
    <3>2. CASE i # 1
      <4>1. /\ i - 1 \in 1..Len(t) /\ i - 1 \in 1..Len(p) /\ (i - 1) + 1 = i
            /\ i - 2 \in Nat /\ (i - 2) + 1 = i - 1 /\ (i - 1) - 1 = i - 2
        BY <1>2, <3>2
      <4>2. v[i-1] = v[i-2] + (t[i-1] % Base) * Place[i-2]
        BY <1>4, <4>1
      <4>3. w[i] = r + Base * v[i-1] /\ w[i-1] = r + Base * v[i-2]
        BY <2>1, <4>1
      <4>4. p[i] = t[i-1] /\ Place[i-1] = Base * Place[i-2]
        BY <1>2, <4>1, PlaceDef
      <4>5. /\ v[i-2] \in Nat /\ v[i-1] \in Nat /\ Place[i-2] \in Nat
            /\ t[i-1] % Base \in Nat
        <5>1. t[i-1] \in Nat
          <6>1. t[i-1] \in Octet
            BY <4>1, ElementOfSeq
          <6> QED BY <1>1, <6>1 DEF Octet
        <5>2. t[i-1] % Base \in Nat
          BY <1>1, <5>1
        <5> QED BY <2>2, <4>1, <5>2, PlaceDef
      <4>6. ASSUME NEW c, c = t[i-1] % Base, NEW a, a = v[i-2], NEW x, x = Place[i-2]
            PROVE  w[i] = w[i-1] + c * Place[i-1]
        <5>1. r + Base * (a + c * x) = (r + Base * a) + c * (Base * x)
          <6>1. r \in Nat /\ a \in Nat /\ c \in Nat /\ x \in Nat /\ Base \in Nat
            BY <1>1, <4>5, <4>6
          <6> QED BY <6>1, DigitShift
        <5>2. w[i] = r + Base * (a + c * x)
          BY <4>2, <4>3, <4>6
        <5> QED BY <4>3, <4>4, <4>6, <5>1, <5>2
      <4> QED BY <4>4, <4>6
    <3> QED BY <3>1, <3>2
  <2> QED BY <2>4, <2>5, <2>6
<1>8. \E w \in [0..Len(p) -> Nat] :
        /\ w[0] = 0 /\ w[Len(p)] = r + Base * q
        /\ \A i \in 1..Len(p) : w[i] = w[i-1] + (p[i] % Base) * Place[i-1]
  BY <1>7
<1> QED BY <1>5, <1>6, <1>8 DEF Reads

\* What PutUvarint writes adds up to the number.
LEMMA PutUvarintReads == \A x \in Nat : Reads(PutUvarint[x], x)
<1>1. ASSUME NEW S, S = {x \in Nat : Reads(PutUvarint[x], x)}
      PROVE  \A x \in Nat : Reads(PutUvarint[x], x)
  <2>1. ASSUME NEW x \in Nat, \A y \in Nat : y < x => y \in S PROVE x \in S
    <3>1. CASE x < Base
      <4>1. ASSUME NEW p, p = PutUvarint[x] PROVE Reads(p, x)
        <5>1. p = <<x>> /\ Len(p) = 1 /\ p[1] = x
          <6>1. p = <<x>>
            BY <3>1, <4>1, PutUvarintDef
          <6> QED BY <6>1
        <5>2. x % Base = x /\ Place[0] = 1
          <6>1. \A y \in 0..(Base - 1) : y % Base = y
            BY CodecAssumption
          <6>2. x \in 0..(Base - 1)
            BY <3>1, CodecAssumption
          <6>3. Place[0] = 1
            BY PlaceDef
          <6> QED BY <6>1, <6>2, <6>3
        <5>3. ASSUME NEW v, v = [i \in 0..1 |-> IF i = 0 THEN 0 ELSE x]
              PROVE  /\ v \in [0..Len(p) -> Nat]
                     /\ v[0] = 0 /\ v[Len(p)] = x
                     /\ \A i \in 1..Len(p) : v[i] = v[i-1] + (p[i] % Base) * Place[i-1]
          <6>1. v \in [0..1 -> Nat] /\ v[0] = 0 /\ v[1] = x
            BY <5>3
          <6>2. v[1] = v[1-1] + (p[1] % Base) * Place[1-1]
            BY <5>1, <5>2, <6>1
          <6> QED BY <5>1, <6>1, <6>2
        <5>4. \E v \in [0..Len(p) -> Nat] :
                /\ v[0] = 0 /\ v[Len(p)] = x
                /\ \A i \in 1..Len(p) : v[i] = v[i-1] + (p[i] % Base) * Place[i-1]
          BY <5>3
        <5> QED BY <3>1, <5>1, <5>4 DEF Reads
      <4> QED BY <1>1, <4>1
    <3>2. CASE ~ (x < Base)
      <4>1. ASSUME NEW q, q = x \div Base, NEW r, r = x % Base,
                   NEW p, p = PutUvarint[x], NEW t, t = PutUvarint[q]
            PROVE  Reads(p, x)
        <5>1. /\ q \in Nat /\ q < x /\ r \in 0..(Base - 1) /\ x = r + Base * q
              /\ x >= Base
          BY <3>2, <4>1, CodecAssumption
        <5>2. t \in Seq(Octet) /\ p = <<Base + r>> \o t
          BY <4>1, <5>1, PutUvarintDef
        <5>3. Reads(t, q)
          BY <1>1, <2>1, <4>1, <5>1
        <5> QED BY <5>1, <5>2, <5>3, ReadsCons
      <4>2. Reads(PutUvarint[x], x)
        BY <4>1
      <4> QED BY <1>1, <4>2
    <3> QED BY <3>1, <3>2
  <2>2. \A x \in Nat : x \in S
    BY <2>1, NatStrongInduction
  <2> QED BY <1>1, <2>2
<1> QED BY <1>1

\* Reading back: Uvarint of a sequence that begins with the bytes of x is x,
\* whatever follows.
THEOREM UvarintOfPutUvarint ==
  ASSUME NEW x \in Nat, NEW s \in Seq(Octet), Len(PutUvarint[x]) <= Len(s),
         \A i \in 1..Len(PutUvarint[x]) : s[i] = PutUvarint[x][i]
  PROVE  Uvarint(s) = [value |-> x, size |-> Len(PutUvarint[x])]
<1>1. ASSUME NEW p, p = PutUvarint[x], NEW n, n = Len(p)
      PROVE  Uvarint(s) = [value |-> x, size |-> n]
  <2>1. Reads(p, x) /\ p \in Seq(Octet)
    BY <1>1, PutUvarintReads, PutUvarintDef
  <2>2. n \in 1..Len(s) /\ \A i \in 1..n : s[i] = p[i]
    BY <1>1, <2>1, LenProperties DEF Reads
  <2>3. s[n] < Base /\ \A i \in 1..(n - 1) : ~ (s[i] < Base)
    <3>1. p[n] < Base /\ \A i \in 1..(n - 1) : ~ (p[i] < Base)
      BY <1>1, <2>1 DEF Reads
    <3>2. n \in 1..n /\ \A i \in 1..(n - 1) : i \in 1..n
      BY <2>2
    <3> QED BY <2>2, <3>1, <3>2
  <2>4. PICK v \in [0..n -> Nat] :
          /\ v[0] = 0 /\ v[n] = x
          /\ \A i \in 1..n : v[i] = v[i-1] + (p[i] % Base) * Place[i-1]
    BY <1>1, <2>1 DEF Reads
  <2>5. \A i \in 1..n : v[i] = v[i-1] + (s[i] % Base) * Place[i-1]
    BY <2>2, <2>4
  <2> QED BY <2>2, <2>3, <2>4, <2>5, UvarintDef
<1> QED BY <1>1

\* A number below the k-th place takes at most k bytes.
LEMMA PutUvarintLen ==
  \A k \in Nat : \A x \in Nat : x < Place[k + 1] => Len(PutUvarint[x]) <= k + 1
<1>1. ASSUME NEW S, S = {k \in Nat : \A x \in Nat : x < Place[k + 1] =>
                                       Len(PutUvarint[x]) <= k + 1}
      PROVE  \A k \in Nat : \A x \in Nat : x < Place[k + 1] =>
                                       Len(PutUvarint[x]) <= k + 1
  <2>1. ASSUME NEW x \in Nat, x < Base PROVE Len(PutUvarint[x]) = 1
    <3>1. PutUvarint[x] = <<x>>
      BY <2>1, PutUvarintDef
    <3> QED BY <3>1
  <2>2. 0 \in S
    <3>1. Place[0 + 1] = Base
      BY PlaceDef, CodecAssumption
    <3>2. \A x \in Nat : x < Place[0 + 1] => Len(PutUvarint[x]) <= 0 + 1
      <4>1. ASSUME NEW x \in Nat, x < Place[0 + 1] PROVE Len(PutUvarint[x]) <= 0 + 1
        <5>1. Len(PutUvarint[x]) = 1
          BY <2>1, <3>1, <4>1
        <5> QED BY <5>1
      <4> QED BY <4>1
    <3> QED BY <1>1, <3>2
  <2>3. ASSUME NEW k \in Nat, k \in S PROVE k + 1 \in S
    <3>1. ASSUME NEW x \in Nat, x < Place[(k + 1) + 1]
          PROVE  Len(PutUvarint[x]) <= (k + 1) + 1
      <4>1. CASE x < Base
        <5>1. Len(PutUvarint[x]) = 1
          BY <2>1, <4>1
        <5> QED BY <5>1
      <4>2. CASE ~ (x < Base)
        <5>1. ASSUME NEW q, q = x \div Base, NEW t, t = PutUvarint[q],
                     NEW r, r = x % Base, NEW p, p = PutUvarint[x]
              PROVE  Len(p) <= (k + 1) + 1
          <6>1. q \in Nat /\ x >= Base /\ Base + r \in Octet
            BY <4>2, <5>1, CodecAssumption DEF Octet
          <6>2. t \in Seq(Octet) /\ p = <<Base + r>> \o t
            BY <5>1, <6>1, PutUvarintDef
          <6>3. Len(p) = 1 + Len(t) /\ Len(t) \in Nat
            BY <6>1, <6>2, ConcatProperties
          <6>4. Place[(k + 1) + 1] = Base * Place[k + 1] /\ Place[k + 1] \in Nat
            BY PlaceDef
          <6>5. \A y \in Nat : x < Base * y => x \div Base < y
            BY CodecAssumption
          <6>6. q < Place[k + 1]
            BY <3>1, <5>1, <6>4, <6>5
          <6>7. Len(t) <= k + 1
            BY <1>1, <2>3, <5>1, <6>1, <6>6
          <6> QED BY <6>3, <6>7
        <5> QED BY <5>1
      <4> QED BY <4>1, <4>2
    <3> QED BY <1>1, <3>1
  <2>4. \A k \in Nat : k \in S
    BY <2>2, <2>3, NatSetInduction
  <2> QED BY <1>1, <2>4
<1> QED BY <1>1

\* The signed numbers are the naturals in another order.
LEMMA ZigZagInverse ==
  ASSUME NEW x \in Int
  PROVE  ZigZag(x) \in Nat /\ UnZigZag(ZigZag(x)) = x
<1>1. CASE x >= 0
  <2>1. ZigZag(x) = 2 * x /\ (2 * x) % 2 = 0 /\ (2 * x) \div 2 = x
    BY <1>1 DEF ZigZag
  <2> QED BY <1>1, <2>1 DEF UnZigZag
<1>2. CASE x < 0
  <2>1. /\ ZigZag(x) = -(2 * x) - 1
        /\ (-(2 * x) - 1) % 2 = 1 /\ ((-(2 * x) - 1) + 1) \div 2 = -x
    BY <1>2 DEF ZigZag
  <2> QED BY <1>2, <2>1 DEF UnZigZag
<1> QED BY <1>1, <1>2

-----------------------------------------------------------------------------
(* The frame.                                                               *)

TypeNames == {"REGISTER", "ACK", "START", "STOP", "QUERY", "HEARTBEAT", "QUERYDETAIL"}

\* A type is the type of its byte.
LEMMA TypeOfTypeByte ==
  ASSUME NEW t \in TypeNames
  PROVE  TypeByte(t) \in Octet /\ TypeOf(TypeByte(t)) = t
<1>1. DOMAIN Types = 1..7
  BY DEF Types
<1>2. \E i \in DOMAIN Types : Types[i] = t
  <2>1. /\ Types[1] = "REGISTER" /\ Types[2] = "ACK" /\ Types[3] = "START"
        /\ Types[4] = "STOP" /\ Types[5] = "QUERY" /\ Types[6] = "HEARTBEAT"
        /\ Types[7] = "QUERYDETAIL"
    BY DEF Types
  <2> QED BY <1>1, <2>1 DEF TypeNames
<1>3. ASSUME NEW c, c = (CHOOSE i \in DOMAIN Types : Types[i] = t)
      PROVE  c \in 1..7 /\ Types[c] = t
  BY <1>1, <1>2, <1>3, Zenon
<1>4. ASSUME NEW c, c = (CHOOSE i \in DOMAIN Types : Types[i] = t)
      PROVE  TypeByte(t) \in Octet /\ TypeOf(TypeByte(t)) = t
  <2>1. c \in 1..7 /\ Types[c] = t
    BY <1>3, <1>4
  <2>2. TypeByte(t) = c - 1
    BY <1>4 DEF TypeByte
  <2>3. TypeByte(t) + 1 = c /\ TypeByte(t) \in 0..6
    BY <2>1, <2>2
  <2>4. TypeOf(TypeByte(t)) = t
    BY <2>1, <2>3 DEF TypeOf
  <2>5. \A b \in 0..6 : b \in Octet
    BY CodecAssumption DEF Octet
  <2> QED BY <2>3, <2>4, <2>5
<1> QED BY <1>4

LEMMA ZerosSeq ==
  ASSUME NEW n \in Nat
  PROVE  Zeros(n) \in Seq(Octet) /\ Len(Zeros(n)) = n
<1>1. 0 \in Octet
  BY CodecAssumption DEF Octet
<1>2. Zeros(n) \in [1..n -> Octet]
  BY <1>1 DEF Zeros
<1> QED BY <1>2, LenProperties, IsASeq

\* The body is bytes, and their number has a varint that fits the header.
Fits(body) == body \in Seq(Octet) /\ Len(body) < Place[HdrLen - 1]

LEMMA VarintOfLen ==
  ASSUME NEW body, Fits(body), NEW v, v = PutUvarint[Len(body)]
  PROVE  v \in Seq(Octet) /\ Len(v) \in 1..(HdrLen - 1)
<1>1. Len(body) \in Nat /\ HdrLen - 2 \in Nat /\ (HdrLen - 2) + 1 = HdrLen - 1
  BY CodecAssumption DEF Fits
<1>2. v \in Seq(Octet)
  BY <1>1, PutUvarintDef
<1>3. Len(v) <= HdrLen - 1
  BY <1>1, PutUvarintLen DEF Fits
<1>4. Len(v) >= 1
  BY <1>1, PutUvarintReads DEF Reads
<1> QED BY <1>1, <1>2, <1>3, <1>4, LenProperties

\* The frame e begins with the byte t, then come the bytes of v and of body,
\* and as many more as pad has.
Laid(e, t, v, body, pad) ==
  /\ e \in Seq(Octet) /\ Len(e) = 1 + Len(v) + Len(body) + Len(pad)
  /\ e[1] = t
  /\ \A i \in 1..Len(v) : e[i + 1] = v[i]
  /\ \A i \in 1..Len(body) : e[i + 1 + Len(v)] = body[i]

\* x is a and then b.
JoinOf(x, a, b, S) ==
  /\ x \in Seq(S) /\ Len(x) = Len(a) + Len(b)
  /\ \A i \in 1..(Len(a) + Len(b)) :
       x[i] = IF i <= Len(a) THEN a[i] ELSE b[i - Len(a)]

LEMMA ConcatIs ==
  ASSUME NEW S, NEW a \in Seq(S), NEW b \in Seq(S), NEW x, x = a \o b
  PROVE  JoinOf(x, a, b, S)
BY ConcatProperties DEF JoinOf

\* Where the parts of a concatenation are, the first of which is one element.
LEMMA FourParts ==
  ASSUME NEW a \in Seq(Octet), NEW b \in Seq(Octet),
         NEW c \in Seq(Octet), NEW d \in Seq(Octet),
         Len(a) = 1, NEW e, e = a \o b \o c \o d
  PROVE  Laid(e, a[1], b, c, d)
<1>1. Len(b) \in Nat /\ Len(c) \in Nat /\ Len(d) \in Nat
  OBVIOUS
<1>2. ASSUME NEW ab, ab = a \o b
      PROVE  /\ ab \in Seq(Octet) /\ Len(ab) = 1 + Len(b)
             /\ ab[1] = a[1] /\ \A i \in 1..Len(b) : ab[i + 1] = b[i]
  <2>1. /\ ab \in Seq(Octet) /\ Len(ab) = Len(a) + Len(b)
        /\ \A i \in 1..(Len(a) + Len(b)) :
             ab[i] = IF i <= Len(a) THEN a[i] ELSE b[i - Len(a)]
    <3>1. JoinOf(ab, a, b, Octet)
      BY <1>2, ConcatIs
    <3> QED BY <3>1 DEF JoinOf
  <2>2. ab[1] = a[1]
    BY <1>1, <2>1
  <2>3. ASSUME NEW i \in 1..Len(b) PROVE ab[i + 1] = b[i]
    <3>1. i + 1 \in 1..(1 + Len(b)) /\ ~ (i + 1 <= 1) /\ (i + 1) - 1 = i
      BY <1>1
    <3> QED BY <2>1, <3>1
  <2> QED BY <2>1, <2>2, <2>3
<1>3. ASSUME NEW ab, ab = a \o b, NEW abc, abc = ab \o c
      PROVE  /\ abc \in Seq(Octet) /\ Len(abc) = 1 + Len(b) + Len(c)
             /\ abc[1] = a[1] /\ \A i \in 1..Len(b) : abc[i + 1] = b[i]
             /\ \A i \in 1..Len(c) : abc[i + 1 + Len(b)] = c[i]
  <2>1. /\ ab \in Seq(Octet) /\ Len(ab) = 1 + Len(b)
        /\ ab[1] = a[1] /\ \A i \in 1..Len(b) : ab[i + 1] = b[i]
    BY <1>2, <1>3
  <2>2. /\ abc \in Seq(Octet) /\ Len(abc) = Len(ab) + Len(c)
        /\ \A i \in 1..(Len(ab) + Len(c)) :
             abc[i] = IF i <= Len(ab) THEN ab[i] ELSE c[i - Len(ab)]
    <3>1. JoinOf(abc, ab, c, Octet)
      BY <1>3, <2>1, ConcatIs
    <3> QED BY <3>1 DEF JoinOf
  <2>3. abc[1] = a[1]
    BY <1>1, <2>1, <2>2
  <2>4. ASSUME NEW i \in 1..Len(b) PROVE abc[i + 1] = b[i]
    <3>1. i + 1 \in 1..(1 + Len(b) + Len(c)) /\ i + 1 <= 1 + Len(b)
      BY <1>1
    <3> QED BY <2>1, <2>2, <3>1
  <2>5. ASSUME NEW i \in 1..Len(c) PROVE abc[i + 1 + Len(b)] = c[i]
    <3>1. /\ i + 1 + Len(b) \in 1..(1 + Len(b) + Len(c))
          /\ ~ (i + 1 + Len(b) <= 1 + Len(b)) /\ (i + 1 + Len(b)) - (1 + Len(b)) = i
      BY <1>1
    <3> QED BY <2>1, <2>2, <3>1
  <2> QED BY <2>1, <2>2, <2>3, <2>4, <2>5
<1>4. ASSUME NEW abc, abc = (a \o b) \o c
      PROVE  /\ e \in Seq(Octet) /\ Len(e) = 1 + Len(b) + Len(c) + Len(d)
             /\ e[1] = a[1]
             /\ \A i \in 1..Len(b) : e[i + 1] = b[i]
             /\ \A i \in 1..Len(c) : e[i + 1 + Len(b)] = c[i]
  <2>1. /\ abc \in Seq(Octet) /\ Len(abc) = 1 + Len(b) + Len(c)
        /\ abc[1] = a[1] /\ \A i \in 1..Len(b) : abc[i + 1] = b[i]
        /\ \A i \in 1..Len(c) : abc[i + 1 + Len(b)] = c[i]
    BY <1>3, <1>4
  <2>2. /\ e \in Seq(Octet) /\ Len(e) = Len(abc) + Len(d)
        /\ \A i \in 1..(Len(abc) + Len(d)) :
             e[i] = IF i <= Len(abc) THEN abc[i] ELSE d[i - Len(abc)]
    <3>1. e = abc \o d /\ abc \in Seq(Octet)
      BY <1>4, <2>1
    <3>2. JoinOf(e, abc, d, Octet)
      BY <3>1, ConcatIs
    <3> QED BY <3>2 DEF JoinOf
  <2>3. \A i \in 1..(1 + Len(b) + Len(c)) : e[i] = abc[i]
    <3>1. \A i \in 1..(1 + Len(b) + Len(c)) :
            i \in 1..(1 + Len(b) + Len(c) + Len(d)) /\ i <= 1 + Len(b) + Len(c)
      BY <1>1
    <3> QED BY <2>1, <2>2, <3>1
  <2>4. /\ 1 \in 1..(1 + Len(b) + Len(c))
        /\ \A i \in 1..Len(b) : i + 1 \in 1..(1 + Len(b) + Len(c))
        /\ \A i \in 1..Len(c) : i + 1 + Len(b) \in 1..(1 + Len(b) + Len(c))
    BY <1>1
  <2> QED BY <2>1, <2>2, <2>3, <2>4
<1> QED BY <1>4 DEF Laid

\* The padding makes up for a short varint.
Padded(l, k, h, n) == n \in Nat /\ 1 + l + k + n = h + k

LEMMA PaddingLen ==
  ASSUME NEW l \in Nat, NEW k \in Nat, NEW h \in Nat, l \in 1..(h - 1),
         NEW n, n = h - 1 - l
  PROVE  Padded(l, k, h, n)
BY DEF Padded

\* Where Encode puts the type, the varint and the body, and how long it makes
\* the frame.
LEMMA EncodeShape ==
  ASSUME NEW m, m.type \in TypeNames, NEW body, body = Payload(m), Fits(body),
         NEW v, v = PutUvarint[Len(body)], NEW e, e = Encode(m)
  PROVE  /\ \E pad : Laid(e, TypeByte(m.type), v, body, pad)
         /\ Len(e) = HdrLen + Len(body)
<1>1. /\ v \in Seq(Octet) /\ body \in Seq(Octet)
      /\ Len(v) \in 1..(HdrLen - 1) /\ Len(body) \in Nat /\ HdrLen \in Nat
  BY VarintOfLen, LenProperties, CodecAssumption DEF Fits
<1>2. ASSUME NEW n, n = HdrLen - 1 - Len(v), NEW pad, pad = Zeros(n),
             NEW t, t = <<TypeByte(m.type)>>
      PROVE  Laid(e, TypeByte(m.type), v, body, pad) /\ Len(e) = HdrLen + Len(body)
  <2>1. n \in Nat /\ 1 + Len(v) + Len(body) + n = HdrLen + Len(body)
    <3>1. Len(v) \in Nat /\ Len(body) \in Nat /\ HdrLen \in Nat
      BY <1>1
    <3>2. Len(v) \in 1..(HdrLen - 1)
      BY <1>1
    <3>3. n = HdrLen - 1 - Len(v)
      BY <1>2
    <3>4. Padded(Len(v), Len(body), HdrLen, n)
      BY <3>1, <3>2, <3>3, PaddingLen
    <3> QED BY <3>4 DEF Padded
  <2>2. pad \in Seq(Octet) /\ Len(pad) = n
    BY <1>2, <2>1, ZerosSeq
  <2>3. t \in Seq(Octet) /\ Len(t) = 1 /\ t[1] = TypeByte(m.type)
    BY <1>2, TypeOfTypeByte
  <2>4. e = t \o v \o body \o pad
    BY <1>2 DEF Encode, Padding
  <2>5. Laid(e, t[1], v, body, pad)
    <3>1. v \in Seq(Octet) /\ body \in Seq(Octet) /\ pad \in Seq(Octet)
      BY <1>1, <2>2
    <3>2. t \in Seq(Octet) /\ Len(t) = 1
      BY <2>3
    <3> QED BY <2>4, <3>1, <3>2, FourParts, Zenon
  <2>6. Len(e) = HdrLen + Len(body)
    BY <2>1, <2>2, <2>5 DEF Laid
  <2> QED BY <2>3, <2>5, <2>6
<1> QED BY <1>2

\* A reader that has the first HdrLen bytes of a frame knows its length.
THEOREM FrameLenOfEncode ==
  ASSUME NEW m, m.type \in TypeNames, Fits(Payload(m)),
         NEW s \in Seq(Octet), Len(s) >= HdrLen,
         \A i \in 1..HdrLen : s[i] = Encode(m)[i]
  PROVE  FrameLen(SubSeq(s, 1, HdrLen)) = Len(Encode(m))
<1>1. ASSUME NEW body, body = Payload(m), NEW v, v = PutUvarint[Len(body)],
             NEW e, e = Encode(m), NEW head, head = SubSeq(s, 1, HdrLen)
      PROVE  FrameLen(head) = Len(e)
  <2>1. /\ v \in Seq(Octet) /\ Len(v) \in 1..(HdrLen - 1) /\ Len(body) \in Nat
        /\ HdrLen \in Nat /\ HdrLen >= 2
    BY <1>1, VarintOfLen, LenProperties, CodecAssumption DEF Fits
  <2>2. Len(e) = HdrLen + Len(body) /\ \A i \in 1..Len(v) : e[i + 1] = v[i]
    <3>1. /\ \E pad : Laid(e, TypeByte(m.type), v, body, pad)
          /\ Len(e) = HdrLen + Len(body)
      BY <1>1, EncodeShape
    <3> QED BY <3>1 DEF Laid
  <2>3. /\ head \in Seq(Octet) /\ Len(head) = HdrLen
        /\ \A i \in 1..HdrLen : head[i] = s[i]
    <3>1. \A i \in 1..HdrLen : s[i] \in Octet
      BY <2>1, ElementOfSeq
    <3> QED BY <1>1, <2>1, <3>1, SubSeqProperties
  <2>4. /\ Tail(head) \in Seq(Octet) /\ Len(Tail(head)) = HdrLen - 1
        /\ \A i \in 1..(HdrLen - 1) : Tail(head)[i] = head[i + 1]
    <3>1. head # <<>>
      BY <2>1, <2>3
    <3> QED BY <2>3, <3>1, HeadTailProperties
  <2>5. \A i \in 1..Len(v) : Tail(head)[i] = v[i]
    <3>1. \A i \in 1..Len(v) : i \in 1..(HdrLen - 1) /\ i + 1 \in 1..HdrLen
      BY <2>1
    <3>2. \A i \in 1..Len(v) : s[i + 1] = e[i + 1]
      BY <1>1, <3>1
    <3> QED BY <2>2, <2>3, <2>4, <3>1, <3>2
  <2>6. Uvarint(Tail(head)) = [value |-> Len(body), size |-> Len(v)]
    <3>1. Len(v) <= Len(Tail(head))
      BY <2>1, <2>4
    <3> QED BY <1>1, <2>1, <2>4, <2>5, <3>1, UvarintOfPutUvarint
  <2>7. FrameLen(head) = Len(body) + HdrLen
    BY <2>6 DEF FrameLen
  <2> QED BY <2>1, <2>2, <2>7
<1> QED BY <1>1

\* The body of an encoded message is its payload.
LEMMA BodyOfEncode ==
  ASSUME NEW m, m.type \in TypeNames, Fits(Payload(m))
  PROVE  Body(Encode(m)) = Payload(m)
<1>1. ASSUME NEW body, body = Payload(m), NEW v, v = PutUvarint[Len(body)],
             NEW e, e = Encode(m)
      PROVE  Body(e) = body
  <2>1. /\ v \in Seq(Octet) /\ Len(v) \in 1..(HdrLen - 1) /\ Len(body) \in Nat
        /\ HdrLen \in Nat /\ HdrLen >= 2 /\ body \in Seq(Octet)
    BY <1>1, VarintOfLen, LenProperties, CodecAssumption DEF Fits
  <2>2. /\ e \in Seq(Octet) /\ Len(e) = HdrLen + Len(body)
        /\ \A i \in 1..Len(v) : e[i + 1] = v[i]
        /\ \A i \in 1..Len(body) : e[i + 1 + Len(v)] = body[i]
    <3>1. /\ \E pad : Laid(e, TypeByte(m.type), v, body, pad)
          /\ Len(e) = HdrLen + Len(body)
      BY <1>1, EncodeShape
    <3> QED BY <3>1 DEF Laid
  <2>3. /\ Tail(e) \in Seq(Octet) /\ Len(Tail(e)) = Len(e) - 1
        /\ \A i \in 1..(Len(e) - 1) : Tail(e)[i] = e[i + 1]
    <3>1. e # <<>>
      BY <2>1, <2>2
    <3> QED BY <2>2, <3>1, HeadTailProperties
  <2>4. Len(v) <= Len(Tail(e)) /\ \A i \in 1..Len(v) : Tail(e)[i] = v[i]
    BY <2>1, <2>2, <2>3
  <2>5. Uvarint(Tail(e)) = [value |-> Len(body), size |-> Len(v)]
    BY <1>1, <2>1, <2>3, <2>4, UvarintOfPutUvarint
  <2>6. ASSUME NEW a, a = 2 + Len(v), NEW z, z = 1 + Len(v) + Len(body)
        PROVE  SubSeq(e, a, z) = body
    <3>1. /\ a \in Int /\ z \in Int /\ \A i \in a..z : i \in 1..Len(e)
          /\ z - a + 1 = Len(body) /\ (a <= z <=> Len(body) > 0)
      BY <2>1, <2>2, <2>6
    <3>2. \A i \in a..z : e[i] \in Octet
      BY <2>2, <3>1, ElementOfSeq
    <3>3. /\ SubSeq(e, a, z) \in Seq(Octet)
          /\ Len(SubSeq(e, a, z)) = IF a <= z THEN z - a + 1 ELSE 0
          /\ \A i \in 1..(z - a + 1) : SubSeq(e, a, z)[i] = e[a + i - 1]
      BY <3>1, <3>2, SubSeqProperties
    <3>4. Len(SubSeq(e, a, z)) = Len(body)
      BY <2>1, <3>1, <3>3
    <3>5. ASSUME NEW i \in 1..Len(body) PROVE SubSeq(e, a, z)[i] = body[i]
      <4>1. a + i - 1 = i + 1 + Len(v)
        BY <2>1, <2>6
      <4> QED BY <2>2, <3>1, <3>3, <4>1
    <3> QED BY <2>1, <3>3, <3>4, <3>5, SeqEqual
  <2>7. Body(e) = SubSeq(e, 2 + Len(v), 1 + Len(v) + Len(body))
    <3>1. Uvarint(Tail(e)).size = Len(v) /\ Uvarint(Tail(e)).value = Len(body)
      BY <2>5
    <3> QED BY <3>1 DEF Body
  <2> QED BY <2>6, <2>7
<1> QED BY <1>1

-----------------------------------------------------------------------------
(* The messages.                                                            *)

LEMMA TextsAreBytes ==
  ASSUME NEW x \in Texts
  PROVE  x \in Seq(Octet) /\ Len(x) \in TextLens
<1>1. PICK n \in TextLens : x \in [1..n -> Bytes]
  BY DEF Texts
<1>2. n \in Nat /\ Bytes \subseteq Octet
  BY WireAssumption
<1>3. x \in [1..n -> Octet]
  BY <1>1, <1>2
<1>4. x \in Seq(Octet) /\ Len(x) = n
  BY <1>2, <1>3, LenProperties
<1> QED BY <1>4

\* A text fits, and so does one with two bytes in front.
LEMMA TextFits ==
  ASSUME NEW x \in Texts
  PROVE  /\ Fits(x) /\ Len(x) \in Nat
         /\ Place[HdrLen - 1] \in Nat /\ Len(x) + 2 < Place[HdrLen - 1]
<1>1. x \in Seq(Octet) /\ Len(x) \in TextLens
  BY TextsAreBytes
<1>2. Len(x) \in Nat /\ Len(x) + 2 < Place[HdrLen - 1]
  BY <1>1, BodiesFitHeader, LenProperties
<1>3. Place[HdrLen - 1] \in Nat
  <2>1. HdrLen - 1 \in Nat
    BY CodecAssumption
  <2> QED BY <2>1, PlaceDef
<1> QED BY <1>1, <1>2, <1>3 DEF Fits

\* What is to be shown of each kind of message: its body fits, and the
\* argument is read back from it.
Carried(m) ==
  /\ m.type \in TypeNames /\ Fits(Payload(m))
  /\ Argument(m.type, Payload(m)) = m.arg
  /\ m = [type |-> m.type, arg |-> m.arg]

LEMMA TextCarried ==
  ASSUME NEW m, m.type \in {"START", "QUERYDETAIL"}, m.arg \in Texts,
         m = [type |-> m.type, arg |-> m.arg]
  PROVE  Carried(m)
<1>1. Payload(m) = m.arg
  BY DEF Payload
<1>2. Argument(m.type, m.arg) = m.arg
  BY DEF Argument
<1> QED BY <1>1, <1>2, TextFits DEF Carried, TypeNames

LEMMA QueryCarried ==
  ASSUME NEW m, m = [type |-> "QUERY", arg |-> <<>>]
  PROVE  Carried(m)
<1>1. m.type = "QUERY" /\ m.arg = <<>> /\ Payload(m) = <<>>
  BY DEF Payload
<1>2. Argument(m.type, <<>>) = <<>>
  BY <1>1 DEF Argument
<1>3. Fits(<<>>)
  <2>1. Place[HdrLen - 1] \in Nat \ {0}
    <3>1. HdrLen - 1 \in Nat
      BY CodecAssumption
    <3> QED BY <3>1, PlaceDef
  <2> QED BY <2>1 DEF Fits
<1> QED BY <1>1, <1>2, <1>3 DEF Carried, TypeNames

LEMMA AckCarried ==
  ASSUME NEW m, m.type = "ACK", m.arg \in Codes,
         m = [type |-> m.type, arg |-> m.arg]
  PROVE  Carried(m)
<1>1. Payload(m) = <<m.arg>>
  BY DEF Payload
<1>2. Argument(m.type, <<m.arg>>) = m.arg
  BY DEF Argument
<1>3. Fits(<<m.arg>>)
  <2>1. /\ Place[HdrLen - 1] = Base * Place[HdrLen - 2]
        /\ Place[HdrLen - 2] \in Nat \ {0}
    <3>1. HdrLen - 2 \in Nat /\ (HdrLen - 2) + 1 = HdrLen - 1
      BY CodecAssumption
    <3>2. Place[(HdrLen - 2) + 1] = Base * Place[HdrLen - 2]
      BY <3>1, PlaceDef
    <3> QED BY <3>1, <3>2, PlaceDef
  <2>2. 1 < Place[HdrLen - 1]
    <3>1. \A b \in Nat, p \in Nat \ {0} : b >= 4 => b * p > 1
      OBVIOUS
    <3> QED BY <2>1, <3>1, CodecAssumption
  <2>3. m.arg \in Octet
    BY WireAssumption
  <2>4. <<m.arg>> \in Seq(Octet) /\ Len(<<m.arg>>) = 1
    BY <2>3
  <2> QED BY <2>2, <2>4 DEF Fits
<1> QED BY <1>1, <1>2, <1>3 DEF Carried, TypeNames

\* The pid's varint, and zeros behind it up to PidBytes.
LEMMA StopCarried ==
  ASSUME NEW m, m.type = "STOP", m.arg \in Pids, Encodable(m),
         m = [type |-> m.type, arg |-> m.arg]
  PROVE  Carried(m)
<1>1. ASSUME NEW u, u = ZigZag(m.arg), NEW digits, digits = PutUvarint[u],
             NEW n, n = PidBytes - Len(digits), NEW body, body = PidPayload(m.arg)
      PROVE  Fits(body) /\ Uvarint(body).value = u
  <2>1. u \in Nat
    <3>1. m.arg \in Int
      BY WireAssumption DEF Pids
    <3> QED BY <1>1, <3>1, ZigZagInverse
  <2>2. digits \in Seq(Octet) /\ Len(digits) \in Nat
    BY <1>1, <2>1, PutUvarintDef, LenProperties
  <2>3. Len(digits) <= PidBytes
    <3>1. PidBytes - 1 \in Nat /\ (PidBytes - 1) + 1 = PidBytes
      BY CodecAssumption
    <3>2. u < Place[PidBytes]
      BY <1>1 DEF Encodable, PidFits
    <3> QED BY <1>1, <2>1, <3>1, <3>2, PutUvarintLen
  <2>4. n \in Nat /\ Len(digits) + n = PidBytes
    BY <1>1, <2>2, <2>3, CodecAssumption
  <2>5. body = digits \o Zeros(n)
    BY <1>1 DEF PidPayload
  <2>6. ASSUME NEW zeros, zeros = Zeros(n)
        PROVE  /\ body \in Seq(Octet) /\ Len(body) = PidBytes
               /\ \A i \in 1..Len(digits) : body[i] = digits[i]
    <3>1. zeros \in Seq(Octet) /\ Len(zeros) = n
      BY <2>4, <2>6, ZerosSeq
    <3>2. /\ body \in Seq(Octet) /\ Len(body) = Len(digits) + Len(zeros)
          /\ \A i \in 1..(Len(digits) + Len(zeros)) :
               body[i] = IF i <= Len(digits) THEN digits[i]
                         ELSE zeros[i - Len(digits)]
      <4>1. body = digits \o zeros
        BY <2>5, <2>6
      <4> QED BY <2>2, <3>1, <4>1, ConcatProperties
    <3> QED BY <2>2, <2>4, <3>1, <3>2
  <2>7. Uvarint(body) = [value |-> u, size |-> Len(digits)]
    BY <1>1, <2>1, <2>3, <2>6, UvarintOfPutUvarint
  <2>8. Fits(body)
    BY <2>6, BodiesFitHeader DEF Fits
  <2> QED BY <2>7, <2>8
<1>2. Payload(m) = PidPayload(m.arg)
  BY DEF Payload
<1>3. Argument(m.type, PidPayload(m.arg)) = UnZigZag(Uvarint(PidPayload(m.arg)).value)
  BY DEF Argument
<1>4. UnZigZag(ZigZag(m.arg)) = m.arg
  <2>1. m.arg \in Int
    BY WireAssumption DEF Pids
  <2> QED BY <2>1, ZigZagInverse
<1>5. Fits(PidPayload(m.arg)) /\ Uvarint(PidPayload(m.arg)).value = ZigZag(m.arg)
  BY <1>1
<1> QED BY <1>2, <1>3, <1>4, <1>5 DEF Carried, TypeNames

\* Two bytes of keep-alive time, high byte first, and the name.
LEMMA RegisterCarried ==
  ASSUME NEW m, m.type = "REGISTER",
         m.arg \in [keepAlive : KeepAlives, name : Texts],
         m = [type |-> m.type, arg |-> m.arg]
  PROVE  Carried(m)
<1>1. ASSUME NEW k, k = m.arg.keepAlive, NEW name, name = m.arg.name,
             NEW hi, hi = k \div (2 * Base), NEW lo, lo = k % (2 * Base),
             NEW body, body = RegisterPayload(m.arg)
      PROVE  /\ Fits(body) /\ body[1] * 2 * Base + body[2] = m.arg.keepAlive
             /\ SubSeq(body, 3, Len(body)) = m.arg.name
  <2>0. body = <<hi, lo>> \o name
    BY <1>1 DEF RegisterPayload
  <2>1. k \in 0..(4 * Base * Base - 1) /\ name \in Texts
    BY <1>1, WireAssumption
  <2>2. hi \in Octet /\ lo \in Octet /\ hi * 2 * Base + lo = k
    <3>1. ASSUME NEW B, B = 2 * Base
          PROVE  hi \in 0..(B - 1) /\ lo \in 0..(B - 1) /\ hi * B + lo = k
      <4>1. B \in Nat /\ B > 0 /\ k \in Nat /\ k < B * B
        <5>1. B * B = 4 * Base * Base
          BY <3>1, CodecAssumption
        <5>2. 4 * Base * Base \in Nat
          BY CodecAssumption
        <5> QED BY <2>1, <3>1, <5>1, <5>2, CodecAssumption
      <4>2. hi \in Nat /\ lo \in 0..(B - 1) /\ k = B * hi + lo
        <5>1. hi = k \div B /\ lo = k % B
          BY <1>1, <3>1
        <5>2. k \div B \in Nat /\ k % B \in 0..(B - 1)
          BY <4>1
        <5>3. k = B * (k \div B) + (k % B)
          BY <4>1
        <5> QED BY <5>1, <5>2, <5>3
      <4>3. hi < B
        <5>1. ~ (hi >= B)
          <6>1. hi >= B => B * hi >= B * B
            BY <4>1, <4>2
          <6>2. B * hi \in Nat /\ B * B \in Nat
            BY <4>1, <4>2
          <6> QED BY <4>1, <4>2, <6>1, <6>2
        <5> QED BY <4>1, <4>2, <5>1
      <4> QED BY <4>1, <4>2, <4>3
    <3>2. hi * 2 * Base = hi * (2 * Base) /\ hi \in Int
      <4>1. hi \in Int
        BY <3>1, CodecAssumption
      <4> QED BY <4>1, CodecAssumption
    <3> QED BY <3>1, <3>2 DEF Octet
  <2>3. ASSUME NEW front, front = <<hi, lo>>
        PROVE  /\ body \in Seq(Octet) /\ Len(body) = 2 + Len(name)
               /\ body[1] = hi /\ body[2] = lo
               /\ \A i \in 1..Len(name) : body[i + 2] = name[i]
    <3>1. front \in Seq(Octet) /\ Len(front) = 2 /\ front[1] = hi /\ front[2] = lo
      BY <2>2, <2>3
    <3>2. name \in Seq(Octet) /\ Len(name) \in Nat
      BY <2>1, TextsAreBytes, TextFits
    <3>3. /\ body \in Seq(Octet) /\ Len(body) = Len(front) + Len(name)
          /\ \A i \in 1..(Len(front) + Len(name)) :
               body[i] = IF i <= Len(front) THEN front[i] ELSE name[i - Len(front)]
      <4>1. body = front \o name
        BY <2>0, <2>3
      <4>2. front \in Seq(Octet) /\ name \in Seq(Octet)
        BY <3>1, <3>2
      <4> QED BY <4>1, <4>2, ConcatProperties
    <3>4. body[1] = hi /\ body[2] = lo
      BY <3>1, <3>2, <3>3
    <3>5. ASSUME NEW i \in 1..Len(name) PROVE body[i + 2] = name[i]
      <4>1. i + 2 \in 1..(2 + Len(name)) /\ ~ (i + 2 <= 2) /\ (i + 2) - 2 = i
        BY <3>2
      <4> QED BY <3>1, <3>3, <4>1
    <3> QED BY <3>1, <3>3, <3>4, <3>5
  <2>4. Fits(body)
    <3>1. /\ Len(name) \in Nat /\ Place[HdrLen - 1] \in Nat
          /\ Len(name) + 2 < Place[HdrLen - 1]
      BY <2>1, TextFits
    <3>2. Len(body) < Place[HdrLen - 1]
      <4>1. Len(body) = 2 + Len(name)
        BY <2>3
      <4> QED BY <3>1, <4>1
    <3>3. body \in Seq(Octet)
      BY <2>3
    <3> QED BY <3>2, <3>3 DEF Fits
  <2>5. SubSeq(body, 3, Len(body)) = name
    <3>1. ASSUME NEW z, z = Len(body) PROVE SubSeq(body, 3, z) = name
      <4>1. name \in Seq(Octet) /\ Len(name) \in Nat /\ z = 2 + Len(name)
        BY <2>1, <2>3, <3>1, TextsAreBytes, TextFits
      <4>2. \A i \in 3..z : i \in 1..Len(body)
        BY <3>1
      <4>3. \A i \in 3..z : body[i] \in Octet
        BY <2>3, <4>2, ElementOfSeq
      <4>4. /\ SubSeq(body, 3, z) \in Seq(Octet)
            /\ Len(SubSeq(body, 3, z)) = IF 3 <= z THEN z - 3 + 1 ELSE 0
            /\ \A i \in 1..(z - 3 + 1) : SubSeq(body, 3, z)[i] = body[3 + i - 1]
        <5>1. 3 \in Int /\ z \in Int
          BY <4>1
        <5> QED BY <4>3, <5>1, SubSeqProperties
      <4>5. Len(SubSeq(body, 3, z)) = Len(name)
        BY <4>1, <4>4
      <4>6. ASSUME NEW i \in 1..Len(name) PROVE SubSeq(body, 3, z)[i] = name[i]
        <5>1. i \in 1..(z - 3 + 1) /\ 3 + i - 1 = i + 2
          BY <4>1
        <5> QED BY <2>3, <4>4, <5>1
      <4> QED BY <4>1, <4>4, <4>5, <4>6, SeqEqual
    <3> QED BY <3>1
  <2> QED BY <1>1, <2>2, <2>3, <2>4, <2>5
<1>2. Payload(m) = RegisterPayload(m.arg)
  BY DEF Payload
<1>3. ASSUME NEW body, body = RegisterPayload(m.arg)
      PROVE  /\ Fits(body) /\ body[1] * 2 * Base + body[2] = m.arg.keepAlive
             /\ SubSeq(body, 3, Len(body)) = m.arg.name
  BY <1>1, <1>3
<1>4. ASSUME NEW body, body = RegisterPayload(m.arg)
      PROVE  Argument(m.type, body) = m.arg
  <2>1. Argument(m.type, body) = [keepAlive |-> body[1] * 2 * Base + body[2],
                                  name |-> SubSeq(body, 3, Len(body))]
    BY DEF Argument
  <2>2. Argument(m.type, body) = [keepAlive |-> m.arg.keepAlive, name |-> m.arg.name]
    BY <1>3, <1>4, <2>1
  <2> QED BY <2>2
<1> QED BY <1>2, <1>3, <1>4 DEF Carried, TypeNames

LEMMA MessagesCarried ==
  ASSUME NEW e \in {"agent", "master"}, NEW m \in Messages(e), Encodable(m)
  PROVE  Carried(m)
<1>1. CASE e = "agent"
  <2>1. \/ m \in [type : {"START"}, arg : Texts]
        \/ m \in [type : {"STOP"}, arg : Pids]
        \/ m = [type |-> "QUERY", arg |-> <<>>]
    BY <1>1 DEF Messages
  <2>2. CASE m \in [type : {"START"}, arg : Texts]
    BY <2>2, TextCarried
  <2>3. CASE m \in [type : {"STOP"}, arg : Pids]
    BY <2>3, StopCarried
  <2>4. CASE m = [type |-> "QUERY", arg |-> <<>>]
    BY <2>4, QueryCarried
  <2> QED BY <2>1, <2>2, <2>3, <2>4
<1>2. CASE e # "agent"
  <2>1. \/ m \in [type : {"REGISTER"}, arg : [keepAlive : KeepAlives, name : Texts]]
        \/ m \in [type : {"ACK"}, arg : Codes]
        \/ m \in [type : {"QUERYDETAIL"}, arg : Texts]
    BY <1>2 DEF Messages
  <2>2. CASE m \in [type : {"REGISTER"}, arg : [keepAlive : KeepAlives, name : Texts]]
    BY <2>2, RegisterCarried
  <2>3. CASE m \in [type : {"ACK"}, arg : Codes]
    BY <2>3, AckCarried
  <2>4. CASE m \in [type : {"QUERYDETAIL"}, arg : Texts]
    BY <2>4, TextCarried
  <2> QED BY <2>1, <2>2, <2>3, <2>4
<1> QED BY <1>1, <1>2

\* Every message that either end is sent, and that is encoded without a
\* panic, is decoded to what it was.
THEOREM DecodeOfEncode ==
  ASSUME NEW e \in {"agent", "master"}, NEW m \in Messages(e), Encodable(m)
  PROVE  Decode(Encode(m)) = m
<1>1. Carried(m)
  BY MessagesCarried
<1>2. Encode(m)[1] = TypeByte(m.type)
  <2>1. ASSUME NEW body, body = Payload(m), NEW v, v = PutUvarint[Len(body)],
               NEW f, f = Encode(m)
        PROVE  f[1] = TypeByte(m.type)
    <3>1. \E pad : Laid(f, TypeByte(m.type), v, body, pad)
      BY <1>1, <2>1, EncodeShape DEF Carried
    <3> QED BY <3>1 DEF Laid
  <2> QED BY <2>1
<1>3. TypeOf(Encode(m)[1]) = m.type
  BY <1>1, <1>2, TypeOfTypeByte DEF Carried
<1>4. Body(Encode(m)) = Payload(m)
  BY <1>1, BodyOfEncode DEF Carried
<1> QED BY <1>1, <1>3, <1>4 DEF Decode, Carried

-----------------------------------------------------------------------------
(* Concatenations.                                                          *)

\* f[i] is the concatenation of the first i pieces of ss.
Joins(f, ss, n, S) ==
  /\ f[0] = <<>>
  /\ \A i \in 1..n : f[i] = f[i-1] \o ss[i]
  /\ \A i \in 0..n : f[i] \in Seq(S)

LEMMA ConcatenationsExist ==
  ASSUME NEW S, NEW n \in Nat, NEW ss \in [1..n -> Seq(S)]
  PROVE  \E f : Joins(f, ss, n, S)
<1>1. ASSUME NEW Z, Z = {0}, NEW T, T = Seq(S), NEW b, b = [x \in Z |-> <<>>],
             NEW d, d = [x \in Nat |-> x - 1],
             NEW h, h = [p \in Nat \X T |-> IF p[1] <= n THEN p[2] \o ss[p[1]]
                                            ELSE <<>>]
      PROVE  \E f : Joins(f, ss, n, S)
  <2>1. \A x \in Nat \ Z : d[x] \in Nat /\ d[x] < x
    BY <1>1
  <2>2. \A x \in Nat \ Z, t \in T :
          h[<<x, t>>] = IF x <= n THEN t \o ss[x] ELSE <<>>
    BY <1>1
  <2>3. \A x \in Nat \ Z, t \in T : h[<<x, t>>] \in T
    <3>1. ASSUME NEW x \in Nat \ Z, NEW t \in T, x <= n PROVE t \o ss[x] \in T
      <4>1. ss[x] \in Seq(S) /\ t \in Seq(S)
        BY <1>1, <3>1
      <4> QED BY <1>1, <4>1, ConcatProperties
    <3>2. <<>> \in T
      BY <1>1
    <3> QED BY <2>2, <3>1, <3>2
  <2>4. WellDefined(T, Z, b, d, h)
    <3>1. Z \subseteq Nat /\ 0 \in Z
      BY <1>1
    <3>2. \A x \in Z : b[x] \in T
      BY <1>1
    <3> QED BY <3>1, <3>2, <2>1, <2>3, Zenon DEF WellDefined
  <2>5. PICK f \in [Nat -> T] :
          \A x \in Nat : f[x] = IF x \in Z THEN b[x] ELSE h[<<x, f[d[x]]>>]
    BY <2>4, RecursionExists
  <2>6. f[0] = <<>>
    BY <1>1, <2>5
  <2>7. ASSUME NEW i \in 1..n PROVE f[i] = f[i-1] \o ss[i]
    <3>1. i \in Nat \ Z /\ i - 1 \in Nat /\ d[i] = i - 1 /\ i <= n
      BY <1>1
    <3>2. f[i] = h[<<i, f[i-1]>>] /\ f[i-1] \in T
      BY <2>5, <3>1
    <3> QED BY <2>2, <3>1, <3>2
  <2>8. \A i \in 0..n : f[i] \in Seq(S)
    BY <1>1
  <2> QED BY <2>6, <2>7, <2>8, Zenon DEF Joins
<1> QED BY <1>1

\* FlattenSeq is the last of them.
LEMMA FlattenSeqDef ==
  ASSUME NEW S, NEW n \in Nat, NEW ss \in [1..n -> Seq(S)], NEW f,
         Joins(f, ss, n, S)
  PROVE  FlattenSeq(ss) = f[n]
<1>1. ss \in Seq(Seq(S)) /\ Len(ss) = n
  BY LenProperties
<1>2. CASE n = 0
  <2>1. ss = <<>>
    BY <1>1, <1>2
  <2>2. FlattenSeq(ss) = ss
    BY <1>1, <1>2 DEF FlattenSeq
  <2> QED BY <1>2, <2>1, <2>2 DEF Joins
<1>3. CASE n # 0
  <2> DEFINE Step(g) == [i \in 1..Len(ss) |-> IF i = 1 THEN ss[i] ELSE g[i-1] \o ss[i]]
             flatten == CHOOSE g : g = Step(g)
  <2>1. FlattenSeq(ss) = flatten[Len(ss)]
    BY <1>1, <1>3, Zenon DEF FlattenSeq
  <2>2. f[1] = ss[1]
    <3>1. 1 \in 1..n /\ 1 - 1 = 0
      BY <1>3
    <3>2. f[1] = f[0] \o ss[1] /\ f[0] = <<>> /\ ss[1] \in Seq(S)
      BY <3>1 DEF Joins
    <3> QED BY <3>2, ConcatEmptySeq
  <2>3. \E g : g = Step(g)
    <3>1. ASSUME NEW g, g = [i \in 1..n |-> f[i]] PROVE g = Step(g)
      <4>1. \A i \in 1..n : f[i] = IF i = 1 THEN ss[i] ELSE g[i-1] \o ss[i]
        <5>1. \A i \in 1..n : i # 1 => g[i-1] = f[i-1]
          BY <3>1
        <5> QED BY <2>2, <5>1 DEF Joins
      <4> QED BY <1>1, <3>1, <4>1
    <3> QED BY <3>1
  <2>4. flatten = Step(flatten)
    BY <2>3, Zenon
  <2>5. \E w : /\ w = [i \in 1..n |-> IF i = 1 THEN ss[i] ELSE w[i-1] \o ss[i]]
               /\ FlattenSeq(ss) = w[n]
    BY <1>1, <2>1, <2>4, Zenon
  <2>6. PICK w : /\ w = [i \in 1..n |-> IF i = 1 THEN ss[i] ELSE w[i-1] \o ss[i]]
                 /\ FlattenSeq(ss) = w[n]
    BY <2>5
  <2>7. \A i \in 1..n : w[i] = IF i = 1 THEN ss[i] ELSE w[i-1] \o ss[i]
    BY <2>6, Zenon
  <2>8. ASSUME NEW I, I = {i \in Nat : i + 1 <= n => w[i + 1] = f[i + 1]}
        PROVE  w[n] = f[n]
    <3>1. 0 \in I
      <4>1. 1 \in 1..n /\ 0 + 1 = 1
        BY <1>3
      <4>2. w[1] = f[1]
        BY <2>2, <2>7, <4>1
      <4> QED BY <2>8, <4>1, <4>2
    <3>2. ASSUME NEW i \in Nat, i \in I PROVE i + 1 \in I
      <4>1. ASSUME NEW j, j = i + 1, NEW k, k = j + 1, k <= n PROVE w[k] = f[k]
        <5>1. w[j] = f[j] /\ k \in 1..n /\ k # 1 /\ k - 1 = j
          BY <2>8, <3>2, <4>1
        <5>2. w[k] = w[j] \o ss[k]
          BY <2>7, <5>1
        <5>3. f[k] = f[j] \o ss[k]
          BY <5>1 DEF Joins
        <5> QED BY <5>1, <5>2, <5>3
      <4>2. i + 1 \in Nat
        OBVIOUS
      <4> QED BY <2>8, <4>1, <4>2
    <3>3. \A i \in Nat : i \in I
      BY <3>1, <3>2, NatSetInduction
    <3>4. n - 1 \in Nat /\ (n - 1) + 1 = n
      BY <1>3
    <3>5. n - 1 \in I
      BY <3>3, <3>4
    <3> QED BY <2>8, <3>4, <3>5
  <2> QED BY <2>6, <2>8
<1> QED BY <1>2, <1>3

\* The pieces of fr from the one after lo to hi, joined.
Span(fr, lo, hi) == FlattenSeq([i \in 1..(hi - lo) |-> fr[lo + i]])

Grows(fr, lo, hi, next, S) ==
  /\ Span(fr, lo, hi) \in Seq(S)
  /\ Span(fr, lo, next) = Span(fr, lo, hi) \o fr[next]

Splits(fr, lo, l, hi, S) ==
  /\ Span(fr, l, hi) \in Seq(S)
  /\ Span(fr, lo, hi) = fr[l] \o Span(fr, l, hi)

LEMMA SpanEmpty ==
  ASSUME NEW fr, NEW lo \in Nat
  PROVE  Span(fr, lo, lo) = <<>>
<1>1. [i \in 1..(lo - lo) |-> fr[lo + i]] = <<>>
  OBVIOUS
<1> QED BY <1>1 DEF Span, FlattenSeq

\* One more piece at the end.
LEMMA SpanAppend ==
  ASSUME NEW S, NEW n \in Nat, NEW fr \in [1..n -> Seq(S)],
         NEW lo \in Nat, NEW hi \in Nat, NEW next, next = hi + 1, lo <= hi, next <= n
  PROVE  Grows(fr, lo, hi, next, S)
<1>1. ASSUME NEW k, k = hi - lo, NEW k1, k1 = next - lo,
             NEW ss, ss = [i \in 1..k |-> fr[lo + i]],
             NEW ss1, ss1 = [i \in 1..k1 |-> fr[lo + i]]
      PROVE  Grows(fr, lo, hi, next, S)
  <2>1. /\ k \in Nat /\ k1 \in Nat /\ k1 = k + 1 /\ lo + k1 = next
        /\ \A i \in 1..k1 : lo + i \in 1..n
        /\ \A i \in 1..k : i \in 1..k1
        /\ \A i \in 0..k : i \in 0..k1
    BY <1>1
  <2>2. ss \in [1..k -> Seq(S)] /\ ss1 \in [1..k1 -> Seq(S)]
    BY <1>1, <2>1
  <2>3. PICK f : Joins(f, ss1, k1, S)
    BY <2>1, <2>2, ConcatenationsExist
  <2>4. FlattenSeq(ss1) = f[k1]
    <3>1. k1 \in Nat /\ ss1 \in [1..k1 -> Seq(S)]
      BY <2>1, <2>2
    <3> QED BY <2>3, <3>1, FlattenSeqDef
  <2>5. FlattenSeq(ss) = f[k]
    <3>1. \A i \in 1..k : ss[i] = ss1[i]
      BY <1>1, <2>1
    <3>2. \A i \in 1..k : f[i] = f[i-1] \o ss[i]
      BY <2>1, <2>3, <3>1 DEF Joins
    <3>3. Joins(f, ss, k, S)
      BY <2>1, <2>3, <3>2 DEF Joins
    <3>4. k \in Nat /\ ss \in [1..k -> Seq(S)]
      BY <2>1, <2>2
    <3> QED BY <3>3, <3>4, FlattenSeqDef
  <2>6. f[k1] = f[k] \o fr[next]
    <3>1. k1 \in 1..k1 /\ k1 - 1 = k
      BY <1>1, <2>1
    <3>2. ss1[k1] = fr[next]
      BY <1>1, <2>1, <3>1
    <3> QED BY <2>3, <3>1, <3>2 DEF Joins
  <2>7. f[k] \in Seq(S)
    <3>1. k \in 0..k1
      BY <1>1, <2>1
    <3> QED BY <2>3, <3>1 DEF Joins
  <2>8. Span(fr, lo, hi) = FlattenSeq(ss) /\ Span(fr, lo, next) = FlattenSeq(ss1)
    BY <1>1, Zenon DEF Span
  <2> QED BY <2>4, <2>5, <2>6, <2>7, <2>8, Zenon DEF Grows
<1> QED BY <1>1

\* The first piece, and the others.
LEMMA SpanHead ==
  ASSUME NEW S, NEW n \in Nat, NEW fr \in [1..n -> Seq(S)],
         NEW lo \in Nat, NEW l, l = lo + 1
  PROVE  \A hi \in l..n : Splits(fr, lo, l, hi, S)
<1>1. ASSUME NEW I, I = {k \in Nat : k \in l..n => Splits(fr, lo, l, k, S)}
      PROVE  \A hi \in l..n : Splits(fr, lo, l, hi, S)
  <2>1. ASSUME l <= n PROVE Splits(fr, lo, l, l, S)
    <3>1. l \in Nat /\ l <= n /\ lo <= lo /\ l \in 1..n
      BY <2>1
    <3>2. Span(fr, l, l) = <<>> /\ Span(fr, lo, lo) = <<>>
      BY <3>1, SpanEmpty
    <3>3. Grows(fr, lo, lo, l, S)
      BY <3>1, SpanAppend
    <3>4. fr[l] \in Seq(S)
      BY <3>1
    <3>5. <<>> \o fr[l] = fr[l] /\ fr[l] \o <<>> = fr[l]
      BY <3>4, ConcatEmptySeq
    <3>6. <<>> \in Seq(S)
      OBVIOUS
    <3>7. Span(fr, lo, l) = fr[l] \o <<>>
      BY <3>2, <3>3, <3>5, Zenon DEF Grows
    <3> QED BY <3>2, <3>6, <3>7, Zenon DEF Splits
  <2>2. ASSUME NEW hi \in l..n, Splits(fr, lo, l, hi, S),
               NEW next, next = hi + 1, next <= n
        PROVE  Splits(fr, lo, l, next, S)
    <3>1. /\ hi \in Nat /\ l \in Nat /\ lo <= hi /\ l <= hi
          /\ l \in 1..n /\ next \in 1..n
      BY <2>2
    <3>2. ASSUME NEW p, p = Span(fr, l, hi), NEW q, q = fr[l], NEW r, r = fr[next]
          PROVE  Splits(fr, lo, l, next, S)
      <4>1. p \in Seq(S) /\ q \in Seq(S) /\ r \in Seq(S)
        BY <2>2, <3>1, <3>2 DEF Splits
      <4>2. Grows(fr, lo, hi, next, S)
        BY <2>2, <3>1, SpanAppend
      <4>3. Grows(fr, l, hi, next, S)
        BY <2>2, <3>1, SpanAppend
      <4>4. (q \o p) \o r = q \o (p \o r) /\ p \o r \in Seq(S)
        BY <4>1, ConcatAssociative, ConcatProperties
      <4>5. Span(fr, l, next) = p \o r
        BY <3>2, <4>3, Zenon DEF Grows
      <4>6. Span(fr, lo, next) = (q \o p) \o r
        BY <2>2, <3>2, <4>2, Zenon DEF Grows, Splits
      <4> QED BY <3>2, <4>4, <4>5, <4>6, Zenon DEF Splits
    <3> QED BY <3>2
  <2>3. 0 \in I
    <3>1. 0 \notin l..n
      OBVIOUS
    <3> QED BY <1>1, <3>1
  <2>4. ASSUME NEW k \in Nat, k \in I PROVE k + 1 \in I
    <3>1. ASSUME NEW next, next = k + 1, next \in l..n
          PROVE  Splits(fr, lo, l, next, S)
      <4>1. CASE next = l
        <5>1. l <= n
          BY <3>1
        <5> QED BY <2>1, <4>1, <5>1
      <4>2. CASE next # l
        <5>1. k \in l..n /\ next <= n
          BY <3>1, <4>2
        <5>2. Splits(fr, lo, l, k, S)
          BY <1>1, <2>4, <5>1
        <5> QED BY <2>2, <3>1, <5>1, <5>2
      <4> QED BY <4>1, <4>2
    <3>2. k + 1 \in Nat
      OBVIOUS
    <3> QED BY <1>1, <3>1, <3>2
  <2>5. \A k \in Nat : k \in I
    BY <2>3, <2>4, NatSetInduction
  <2>6. \A hi \in l..n : hi \in Nat
    OBVIOUS
  <2> QED BY <1>1, <2>5, <2>6
<1> QED BY <1>1

-----------------------------------------------------------------------------
(* Streams of bytes.                                                        *)

\* Two ways to cut a sequence at the same place.
LEMMA SameCut ==
  ASSUME NEW S, NEW a \in Seq(S), NEW b \in Seq(S), NEW c \in Seq(S), NEW d \in Seq(S),
         a \o b = c \o d, Len(a) = Len(c)
  PROVE  a = c /\ b = d
<1>1. /\ Len(a) \in Nat /\ Len(b) \in Nat /\ Len(c) \in Nat /\ Len(d) \in Nat
  OBVIOUS
<1>2. /\ Len(a \o b) = Len(a) + Len(b) /\ Len(c \o d) = Len(c) + Len(d)
      /\ \A i \in 1..(Len(a) + Len(b)) :
           (a \o b)[i] = IF i <= Len(a) THEN a[i] ELSE b[i - Len(a)]
      /\ \A i \in 1..(Len(c) + Len(d)) :
           (c \o d)[i] = IF i <= Len(c) THEN c[i] ELSE d[i - Len(c)]
  BY ConcatProperties
<1>3. Len(b) = Len(d)
  BY <1>1, <1>2
<1>4. \A i \in 1..Len(a) : a[i] = c[i]
  BY <1>1, <1>2, <1>3
<1>5. ASSUME NEW i \in 1..Len(b) PROVE b[i] = d[i]
  <2>1. ASSUME NEW j, j = i + Len(a) PROVE b[i] = d[i]
    <3>1. j \in 1..(Len(a) + Len(b)) /\ ~ (j <= Len(a)) /\ j - Len(a) = i
      BY <1>1, <2>1
    <3> QED BY <1>2, <1>3, <3>1
  <2> QED BY <2>1
<1>6. a = c
  BY <1>4, SeqEqual
<1>7. b = d
  BY <1>3, <1>5, SeqEqual
<1> QED BY <1>6, <1>7

\* Two ways to begin a sequence.
Alike(a, b, c, d) ==
  /\ Len(a) + Len(b) = Len(c) + Len(d)
  /\ \A i \in 1..Len(a) : i <= Len(c) => a[i] = c[i]

LEMMA SameHead ==
  ASSUME NEW S, NEW a \in Seq(S), NEW b \in Seq(S), NEW c \in Seq(S), NEW d \in Seq(S),
         a \o b = c \o d
  PROVE  Alike(a, b, c, d)
<1>1. /\ Len(a) \in Nat /\ Len(b) \in Nat /\ Len(c) \in Nat /\ Len(d) \in Nat
  OBVIOUS
<1>2. /\ Len(a \o b) = Len(a) + Len(b) /\ Len(c \o d) = Len(c) + Len(d)
      /\ \A i \in 1..(Len(a) + Len(b)) :
           (a \o b)[i] = IF i <= Len(a) THEN a[i] ELSE b[i - Len(a)]
      /\ \A i \in 1..(Len(c) + Len(d)) :
           (c \o d)[i] = IF i <= Len(c) THEN c[i] ELSE d[i - Len(c)]
  BY ConcatProperties
<1> QED BY <1>1, <1>2 DEF Alike

\* a are the first n bytes of w, z the others.
CutAt(w, n, a, z, S) == a \in Seq(S) /\ z \in Seq(S) /\ Len(a) = n /\ w = a \o z

LEMMA Cut ==
  ASSUME NEW S, NEW w \in Seq(S), NEW n \in 0..Len(w),
         NEW a, a = SubSeq(w, 1, n), NEW z, z = SubSeq(w, n + 1, Len(w))
  PROVE  CutAt(w, n, a, z, S)
<1>1. Len(w) \in Nat /\ n \in Nat /\ n <= Len(w) /\ n + 1 \in Nat
  OBVIOUS
<1>2. \A i \in 1..Len(w) : w[i] \in S
  BY ElementOfSeq
<1>3. a \in Seq(S) /\ Len(a) = n /\ \A i \in 1..n : a[i] = w[i]
  <2>1. \A i \in 1..n : w[i] \in S
    BY <1>1, <1>2
  <2> QED BY <1>1, <2>1, SubSeqProperties
<1>4. /\ z \in Seq(S) /\ Len(z) = Len(w) - n
      /\ \A i \in 1..(Len(w) - n) : z[i] = w[n + i]
  <2>1. \A i \in (n + 1)..Len(w) : w[i] \in S
    BY <1>1, <1>2
  <2>2. ASSUME NEW k, k = n + 1, NEW l, l = Len(w),
               NEW s, s = SubSeq(w, k, l)
        PROVE  /\ s \in Seq(S) /\ Len(s) = IF k <= l THEN l - k + 1 ELSE 0
               /\ \A i \in 1..(l - k + 1) : s[i] = w[k + i - 1]
    <3>1. k \in Int /\ l \in Int /\ \A i \in k..l : w[i] \in S
      BY <1>1, <2>1, <2>2
    <3> QED BY <2>2, <3>1, SubSeqProperties
  <2>3. /\ z \in Seq(S)
        /\ Len(z) = IF n + 1 <= Len(w) THEN Len(w) - (n + 1) + 1 ELSE 0
        /\ \A i \in 1..(Len(w) - (n + 1) + 1) : z[i] = w[(n + 1) + i - 1]
    BY <2>2
  <2>4. Len(z) = Len(w) - n /\ Len(w) - (n + 1) + 1 = Len(w) - n
    BY <1>1, <2>3
  <2>5. \A i \in 1..(Len(w) - n) : (n + 1) + i - 1 = n + i
    BY <1>1
  <2> QED BY <2>3, <2>4, <2>5
<1>5. ASSUME NEW x, x = a \o z PROVE w = x
  <2>1. /\ x \in Seq(S) /\ Len(x) = n + (Len(w) - n)
        /\ \A i \in 1..(n + (Len(w) - n)) :
             x[i] = IF i <= n THEN a[i] ELSE z[i - n]
    <3>1. /\ x \in Seq(S) /\ Len(x) = Len(a) + Len(z)
          /\ \A i \in 1..(Len(a) + Len(z)) :
               x[i] = IF i <= Len(a) THEN a[i] ELSE z[i - Len(a)]
      <4>1. a \in Seq(S) /\ z \in Seq(S)
        BY <1>3, <1>4
      <4>2. JoinOf(x, a, z, S)
        BY <1>5, <4>1, ConcatIs
      <4> QED BY <4>2 DEF JoinOf
    <3> QED BY <1>3, <1>4, <3>1, Zenon
  <2>2. n + (Len(w) - n) = Len(w)
    BY <1>1
  <2>3. ASSUME NEW i \in 1..Len(w) PROVE x[i] = w[i]
    <3>1. CASE i <= n
      BY <1>1, <1>3, <2>1, <2>2, <3>1
    <3>2. CASE ~ (i <= n)
      <4>1. ASSUME NEW j, j = i - n PROVE z[j] = w[i]
        <5>1. j \in 1..(Len(w) - n) /\ n + j = i
          BY <1>1, <3>2, <4>1
        <5> QED BY <1>4, <5>1
      <4> QED BY <1>1, <2>1, <2>2, <3>2, <4>1
    <3> QED BY <3>1, <3>2
  <2> QED BY <2>1, <2>2, <2>3, SeqEqual
<1> QED BY <1>3, <1>4, <1>5 DEF CutAt

\* Only the pieces in the span matter.
LEMMA SpanSame ==
  ASSUME NEW lo \in Nat, NEW hi \in Nat, NEW f, NEW g,
         \A i \in (lo + 1)..hi : f[i] = g[i]
  PROVE  Span(f, lo, hi) = Span(g, lo, hi)
<1>1. \A i \in 1..(hi - lo) : f[lo + i] = g[lo + i]
  <2>1. \A i \in 1..(hi - lo) : lo + i \in (lo + 1)..hi
    OBVIOUS
  <2> QED BY <2>1
<1>2. [i \in 1..(hi - lo) |-> f[lo + i]] = [i \in 1..(hi - lo) |-> g[lo + i]]
  BY <1>1
<1> QED BY <1>2 DEF Span

-----------------------------------------------------------------------------
(* The inductive invariant.                                                 *)

Returned == Messages(end) \cup {ErrType}

WireTypes ==
  /\ end \in {"agent", "master"} /\ up \in BOOLEAN
  /\ sent \in Seq(Messages(end)) /\ \A i \in 1..Len(sent) : Encodable(sent[i])
  /\ wire \in Seq(Octet) /\ got \in Seq(Octet)
  /\ rpc \in {"idle", "head", "rest", "closed"}
  /\ expect \in {"none", "REGISTER", "ACK", "QUERYDETAIL"}
  /\ received \in Seq(Returned) /\ Len(received) <= Len(sent)

\* The frames that were written, and the bytes of those that were not returned.
Frames == [i \in 1..Len(sent) |-> Encode(sent[i])]
Pending == Span(Frames, Len(received), Len(sent))

\* What the reader holds is within the first frame that was not returned.
ReaderState ==
  /\ rpc \in {"idle", "closed"} => got = <<>>
  /\ rpc = "head" => Len(got) < HdrLen
  /\ rpc = "rest" => /\ Len(received) < Len(sent) /\ HdrLen <= Len(got)
                     /\ Len(got) <= Len(Encode(sent[Len(received) + 1]))
  /\ end = "agent" => rpc \in {"idle", "closed"} /\ (rpc = "closed" => ~up)

\* While the reader reads, its bytes and the wire's begin what is pending, and
\* only a broken connection has lost the rest.
Begins(g, w, p, u) ==
  \E lost \in Seq(Octet) : g \o (w \o lost) = p /\ (u => lost = <<>>)
StreamInv == rpc # "closed" => Begins(got, wire, Pending, up)

IInv == WireTypes /\ ReaderState /\ StreamInv /\ ReceivedAsSent

\* f is the frame of m, of which a reader can tell where it ends.
FrameOf(f, m) ==
  /\ f = Encode(m) /\ f \in Seq(Octet) /\ HdrLen <= Len(f) /\ Decode(f) = m
  /\ \A s \in Seq(Octet) :
       Len(s) >= HdrLen /\ (\A i \in 1..HdrLen : s[i] = f[i])
         => FrameLen(SubSeq(s, 1, HdrLen)) = Len(f)

LEMMA FramesOfMessages ==
  ASSUME NEW e \in {"agent", "master"}, NEW m \in Messages(e), Encodable(m)
  PROVE  FrameOf(Encode(m), m)
<1>1. Carried(m)
  BY MessagesCarried
<1>2. m.type \in TypeNames /\ Fits(Payload(m))
  BY <1>1 DEF Carried
<1>3. ASSUME NEW body, body = Payload(m), NEW v, v = PutUvarint[Len(body)],
             NEW f, f = Encode(m)
      PROVE  f \in Seq(Octet) /\ HdrLen <= Len(f)
  <2>1. (\E pad : Laid(f, TypeByte(m.type), v, body, pad)) /\ Len(f) = HdrLen + Len(body)
    BY <1>2, <1>3, EncodeShape
  <2>2. Len(body) \in Nat /\ HdrLen \in Nat
    BY <1>2, <1>3, CodecAssumption, LenProperties DEF Fits
  <2>3. f \in Seq(Octet)
    BY <2>1 DEF Laid
  <2> QED BY <2>1, <2>2, <2>3
<1>4. Encode(m) \in Seq(Octet) /\ HdrLen <= Len(Encode(m))
  BY <1>3
<1>5. Decode(Encode(m)) = m
  BY DecodeOfEncode
<1>6. ASSUME NEW s \in Seq(Octet), Len(s) >= HdrLen,
             \A i \in 1..HdrLen : s[i] = Encode(m)[i]
      PROVE  FrameLen(SubSeq(s, 1, HdrLen)) = Len(Encode(m))
  BY <1>2, <1>6, FrameLenOfEncode
<1> QED BY <1>4, <1>5, <1>6, Zenon DEF FrameOf

LEMMA FramesType ==
  ASSUME WireTypes
  PROVE  /\ Len(sent) \in Nat /\ Frames \in [1..Len(sent) -> Seq(Octet)]
         /\ Len(received) \in Nat
         /\ \A i \in 1..Len(sent) : FrameOf(Frames[i], sent[i])
<1>1. Len(sent) \in Nat /\ Len(received) \in Nat
  BY LenProperties DEF WireTypes
<1>2. ASSUME NEW i \in 1..Len(sent) PROVE FrameOf(Encode(sent[i]), sent[i])
  <2>1. sent[i] \in Messages(end) /\ Encodable(sent[i])
    BY ElementOfSeq DEF WireTypes
  <2> QED BY <2>1, FramesOfMessages DEF WireTypes
<1>3. \A i \in 1..Len(sent) : Encode(sent[i]) \in Seq(Octet)
  BY <1>2 DEF FrameOf
<1>4. Frames \in [1..Len(sent) -> Seq(Octet)]
  BY <1>3 DEF Frames
<1>5. \A i \in 1..Len(sent) : FrameOf(Frames[i], sent[i])
  BY <1>2 DEF Frames
<1> QED BY <1>1, <1>4, <1>5

LEMMA PendingType ==
  ASSUME WireTypes
  PROVE  Pending \in Seq(Octet)
<1>1. CASE Len(received) = Len(sent)
  <2>1. Pending = <<>>
    BY <1>1, FramesType, SpanEmpty DEF Pending
  <2> QED BY <2>1
<1>2. CASE Len(received) # Len(sent)
  <2>1. ASSUME NEW r, r = Len(received), NEW n, n = Len(sent), NEW l, l = r + 1
        PROVE  Pending \in Seq(Octet)
    <3>1. r \in Nat /\ n \in Nat /\ n \in l..n /\ l \in 1..n
      BY <1>2, <2>1, FramesType DEF WireTypes
    <3>2. Frames \in [1..n -> Seq(Octet)]
      BY <2>1, FramesType
    <3>3. Splits(Frames, r, l, n, Octet)
      BY <2>1, <3>1, <3>2, SpanHead
    <3>4. Frames[l] \in Seq(Octet)
      BY <3>1, <3>2
    <3>5. Span(Frames, r, n) \in Seq(Octet)
      BY <3>3, <3>4, ConcatProperties DEF Splits
    <3> QED BY <2>1, <3>5 DEF Pending
  <2> QED BY <2>1
<1> QED BY <1>1, <1>2

\* The first frame that was not returned, and what comes after it.
LEMMA PendingHead ==
  ASSUME WireTypes, Len(received) < Len(sent), NEW l, l = Len(received) + 1
  PROVE  /\ l \in 1..Len(sent) /\ FrameOf(Encode(sent[l]), sent[l])
         /\ Span(Frames, l, Len(sent)) \in Seq(Octet)
         /\ Pending = Encode(sent[l]) \o Span(Frames, l, Len(sent))
<1>1. ASSUME NEW r, r = Len(received), NEW n, n = Len(sent)
      PROVE  /\ l \in 1..n /\ FrameOf(Encode(sent[l]), sent[l])
             /\ Span(Frames, l, n) \in Seq(Octet)
             /\ Pending = Encode(sent[l]) \o Span(Frames, l, n)
  <2>1. r \in Nat /\ n \in Nat /\ n \in l..n /\ l \in 1..n
    BY <1>1, FramesType
  <2>2. Frames \in [1..n -> Seq(Octet)]
    BY <1>1, FramesType
  <2>3. Splits(Frames, r, l, n, Octet)
    BY <1>1, <2>1, <2>2, SpanHead
  <2>4. Frames[l] = Encode(sent[l]) /\ FrameOf(Frames[l], sent[l])
    BY <1>1, <2>1, FramesType DEF Frames
  <2> QED BY <1>1, <2>1, <2>3, <2>4 DEF Splits, Pending
<1> QED BY <1>1

\* A reader that has something of what is pending has it of the first frame.
\* It is told the frame's length when it has the header, and has the frame
\* when it has that many bytes.
LEMMA FirstFrame ==
  ASSUME WireTypes, StreamInv, rpc # "closed", Len(received) < Len(sent),
         NEW l, l = Len(received) + 1, NEW f, f = Encode(sent[l])
  PROVE  /\ FrameOf(f, sent[l])
         /\ up => Len(f) <= Len(got) + Len(wire)
         /\ \A i \in 1..Len(got) : i <= Len(f) => got[i] = f[i]
         /\ got = <<>> => \A i \in 1..Len(wire) : i <= Len(f) => wire[i] = f[i]
<1>1. ASSUME NEW p, p = Span(Frames, l, Len(sent))
      PROVE  /\ FrameOf(f, sent[l])
             /\ up => Len(f) <= Len(got) + Len(wire)
             /\ \A i \in 1..Len(got) : i <= Len(f) => got[i] = f[i]
             /\ got = <<>> => \A i \in 1..Len(wire) : i <= Len(f) => wire[i] = f[i]
  <2>1. FrameOf(f, sent[l]) /\ p \in Seq(Octet) /\ Pending = f \o p
    BY <1>1, PendingHead
  <2>2. PICK lost \in Seq(Octet) :
          got \o (wire \o lost) = Pending /\ (up => lost = <<>>)
    BY DEF StreamInv, Begins
  <2>3. f \in Seq(Octet) /\ got \in Seq(Octet) /\ wire \in Seq(Octet)
    BY <2>1 DEF FrameOf, WireTypes
  <2>4. ASSUME NEW w, w = wire \o lost
        PROVE  /\ Len(got) + (Len(wire) + Len(lost)) = Len(f) + Len(p)
               /\ \A i \in 1..Len(got) : i <= Len(f) => got[i] = f[i]
               /\ got = <<>> => w = f \o p
    <3>1. w \in Seq(Octet) /\ Len(w) = Len(wire) + Len(lost)
      BY <2>2, <2>3, <2>4, ConcatProperties
    <3>2. got \o w = f \o p
      BY <2>1, <2>2, <2>4
    <3>3. /\ Len(got) + Len(w) = Len(f) + Len(p)
          /\ \A i \in 1..Len(got) : i <= Len(f) => got[i] = f[i]
      <4>1. p \in Seq(Octet) /\ w \in Seq(Octet) /\ f \in Seq(Octet) /\ got \in Seq(Octet)
        BY <2>1, <2>3, <3>1
      <4>2. Alike(got, w, f, p)
        BY <3>2, <4>1, SameHead
      <4> QED BY <4>2 DEF Alike
    <3>4. got = <<>> => w = f \o p
      BY <3>1, <3>2, ConcatEmptySeq
    <3> QED BY <3>1, <3>3, <3>4
  <2>5. got = <<>> => \A i \in 1..Len(wire) : i <= Len(f) => wire[i] = f[i]
    <3>1. ASSUME got = <<>> PROVE Alike(wire, lost, f, p)
      BY <2>1, <2>2, <2>3, <2>4, <3>1, SameHead
    <3> QED BY <3>1 DEF Alike
  <2>6. up => Len(f) <= Len(got) + Len(wire)
    <3>1. Len(f) \in Nat /\ Len(p) \in Nat /\ Len(got) \in Nat /\ Len(wire) \in Nat
      BY <2>1, <2>3, LenProperties
    <3>2. up => Len(lost) = 0
      BY <2>2
    <3>3. Len(got) + (Len(wire) + Len(lost)) = Len(f) + Len(p)
      BY <2>4
    <3> QED BY <3>1, <3>2, <3>3
  <2> QED BY <2>1, <2>4, <2>5, <2>6
<1> QED BY <1>1

\* There is something to read only of a frame that was not returned.
LEMMA NothingElse ==
  ASSUME WireTypes, StreamInv, rpc # "closed", Len(got) + Len(wire) > 0
  PROVE  Len(received) < Len(sent)
<1>1. SUFFICES ASSUME ~ (Len(received) < Len(sent)) PROVE FALSE
  OBVIOUS
<1>2. Len(received) = Len(sent) /\ Len(sent) \in Nat
  BY <1>1, FramesType DEF WireTypes
<1>3. Pending = <<>>
  BY <1>2, SpanEmpty DEF Pending
<1>4. PICK lost \in Seq(Octet) : got \o (wire \o lost) = Pending
  BY DEF StreamInv, Begins
<1>5. Len(got \o (wire \o lost)) = Len(got) + (Len(wire) + Len(lost))
  BY <1>4, ConcatProperties DEF WireTypes
<1>6. Len(got) \in Nat /\ Len(wire) \in Nat /\ Len(lost) \in Nat
  BY <1>4, LenProperties DEF WireTypes
<1>7. Len(Pending) = 0
  BY <1>3
<1> QED BY <1>4, <1>5, <1>6, <1>7

-----------------------------------------------------------------------------
(* Every step preserves it.                                                 *)

LEMMA InitInv == Init => IInv
<1>1. SUFFICES ASSUME Init PROVE IInv
  OBVIOUS
<1>2. /\ sent = <<>> /\ wire = <<>> /\ got = <<>> /\ received = <<>> /\ up = TRUE
      /\ rpc = "idle" /\ expect = "none" /\ end \in {"agent", "master"}
  BY <1>1 DEF Init
<1>3. WireTypes
  BY <1>2 DEF WireTypes
<1>4. ReaderState
  BY <1>2 DEF ReaderState
<1>5. Pending = <<>>
  BY <1>2, SpanEmpty DEF Pending
<1>6. <<>> \o (<<>> \o <<>>) = <<>> /\ <<>> \in Seq(Octet)
  OBVIOUS
<1>7. StreamInv
  BY <1>2, <1>5, <1>6 DEF StreamInv, Begins
<1>8. ReceivedAsSent
  BY <1>2 DEF ReceivedAsSent
<1> QED BY <1>3, <1>4, <1>7, <1>8 DEF IInv

\* One more element.
LEMMA Appended ==
  ASSUME NEW S, NEW s \in Seq(S), NEW x \in S, NEW t, t = Append(s, x),
         NEW l, l = Len(s) + 1
  PROVE  /\ t \in Seq(S) /\ Len(t) = l /\ Len(s) \in Nat /\ l \in 1..l
         /\ t[l] = x /\ \A i \in 1..Len(s) : i \in 1..l /\ i # l /\ t[i] = s[i]
         /\ \A i \in 1..l : i # l => i \in 1..Len(s)
<1>1. Len(s) \in Nat
  OBVIOUS
<1>2. t \in Seq(S) /\ Len(t) = l /\ t[l] = x /\ \A i \in 1..Len(s) : t[i] = s[i]
  BY AppendProperties
<1> QED BY <1>1, <1>2

LEMMA WriteInv ==
  ASSUME IInv, NEW m \in Messages(end), WriteMessage(m)
  PROVE  IInv'
<1>1. /\ WireTypes /\ ReaderState /\ StreamInv /\ ReceivedAsSent
  BY DEF IInv
<1>2. /\ up /\ Encodable(m) /\ sent' = Append(sent, m) /\ wire' = wire \o Encode(m)
      /\ UNCHANGED <<end, up, rpc, expect, got, received>>
  BY DEF WriteMessage
<1>3. ASSUME NEW n, n = Len(sent), NEW k, k = n + 1, NEW r, r = Len(received),
             NEW e, e = Encode(m)
      PROVE  IInv'
  <2>1. FrameOf(e, m) /\ e \in Seq(Octet)
    <3>1. end \in {"agent", "master"}
      BY <1>1 DEF WireTypes
    <3> QED BY <1>2, <1>3, <3>1, FramesOfMessages DEF FrameOf
  <2>2. /\ n \in Nat /\ k \in Nat /\ r \in Nat /\ r <= n /\ r <= k /\ k <= k
    BY <1>1, <1>3, FramesType DEF WireTypes
  <2>3. /\ sent' \in Seq(Messages(end)) /\ Len(sent') = k /\ sent'[k] = m
        /\ \A i \in 1..n : i \in 1..k /\ i # k /\ sent'[i] = sent[i]
        /\ \A i \in 1..k : i # k => i \in 1..n
    <3>1. sent \in Seq(Messages(end))
      BY <1>1 DEF WireTypes
    <3> QED BY <1>2, <1>3, <3>1, Appended
  <2>4. \A i \in 1..Len(sent') : Encodable(sent'[i])
    BY <1>1, <1>2, <1>3, <2>3 DEF WireTypes
  <2>5. wire' \in Seq(Octet)
    <3>1. wire \in Seq(Octet)
      BY <1>1 DEF WireTypes
    <3> QED BY <1>2, <1>3, <2>1, <3>1, ConcatProperties
  <2>6. WireTypes'
    <3>1. Len(received') <= Len(sent') /\ received' \in Seq(Returned)
      BY <1>1, <1>2, <1>3, <2>2, <2>3 DEF WireTypes
    <3>2. Returned' = Returned
      BY <1>2 DEF Returned
    <3> QED BY <1>1, <1>2, <2>3, <2>4, <2>5, <3>1, <3>2 DEF WireTypes
  <2>7. ReaderState'
    <3>1. Len(received) < Len(sent) =>
            /\ Len(received') < Len(sent')
            /\ sent'[Len(received) + 1] = sent[Len(received) + 1]
      <4>1. r < n => r < k /\ r + 1 \in 1..n
        BY <1>3, <2>2
      <4> QED BY <1>2, <1>3, <2>3, <4>1
    <3> QED BY <1>1, <1>2, <3>1 DEF ReaderState
  <2>8. StreamInv'
    <3>1. SUFFICES ASSUME rpc # "closed" PROVE Begins(got', wire', Pending', up')
      BY <1>2 DEF StreamInv
    <3>2. PICK lost \in Seq(Octet) :
            got \o (wire \o lost) = Pending /\ (up => lost = <<>>)
      BY <1>1, <3>1 DEF StreamInv, Begins
    <3>3. lost = <<>> /\ got \in Seq(Octet) /\ wire \in Seq(Octet)
      BY <1>1, <1>2, <3>2 DEF WireTypes
    <3>4. got \o wire = Pending
      BY <3>2, <3>3, ConcatEmptySeq
    <3>5. Pending' = Pending \o e
      <4>1. ASSUME NEW F, F = [i \in 1..k |-> Encode(sent'[i])]
            PROVE  Span(F, r, k) = Pending \o e
        <5>1. \A i \in 1..n : F[i] = Frames[i]
          BY <1>3, <2>3, <4>1 DEF Frames
        <5>2. F[k] = e
          <6>1. k \in 1..k
            BY <1>3, <2>2
          <6> QED BY <1>3, <2>3, <4>1, <6>1
        <5>3. F \in [1..k -> Seq(Octet)]
          <6>1. \A i \in 1..n : Frames[i] \in Seq(Octet)
            BY <1>1, <1>3, FramesType
          <6>2. \A i \in 1..k : F[i] \in Seq(Octet)
            BY <2>1, <2>3, <5>1, <5>2, <6>1
          <6> QED BY <4>1, <6>2
        <5>4. Grows(F, r, n, k, Octet)
          BY <1>3, <2>2, <5>3, SpanAppend
        <5>5. Span(F, r, n) = Span(Frames, r, n)
          <6>1. \A i \in (r + 1)..n : i \in 1..n
            BY <2>2
          <6> QED BY <2>2, <5>1, <6>1, SpanSame
        <5> QED BY <1>3, <5>2, <5>4, <5>5, Zenon DEF Grows, Pending
      <4>2. Pending' = Span([i \in 1..k |-> Encode(sent'[i])], r, k)
        BY <1>2, <1>3, <2>3 DEF Pending, Frames
      <4> QED BY <4>1, <4>2
    <3>6. got \o (wire \o e) = (got \o wire) \o e
      BY <2>1, <3>3, ConcatAssociative
    <3>7. wire' \o <<>> = wire'
      BY <2>5, ConcatEmptySeq
    <3>8. got' \o (wire' \o <<>>) = Pending' /\ <<>> \in Seq(Octet)
      <4>1. got' = got /\ wire' = wire \o e
        BY <1>2, <1>3
      <4>2. got \o wire' = Pending'
        BY <3>4, <3>5, <3>6, <4>1, Zenon
      <4> QED BY <3>7, <4>1, <4>2
    <3> QED BY <3>8 DEF Begins
  <2>9. ReceivedAsSent'
    <3>1. \A i \in DOMAIN received : i \in 1..n
      BY <1>1, <1>3, <2>2, LenProperties DEF WireTypes
    <3> QED BY <1>1, <1>2, <2>3, <3>1 DEF ReceivedAsSent
  <2> QED BY <2>6, <2>7, <2>8, <2>9 DEF IInv
<1> QED BY <1>3

LEMMA BreakInv ==
  ASSUME IInv, ConnBreaks
  PROVE  IInv'
<1>1. /\ WireTypes /\ ReaderState /\ StreamInv /\ ReceivedAsSent
  BY DEF IInv
<1>2. up' = FALSE /\ UNCHANGED <<end, sent, rpc, expect, got, received>>
  BY DEF ConnBreaks
<1>3. PICK k \in 0..Len(wire) : wire' = SubSeq(wire, 1, k)
  BY DEF ConnBreaks
<1>4. ASSUME NEW z, z = SubSeq(wire, k + 1, Len(wire))
      PROVE  IInv'
  <2>1. wire \in Seq(Octet) /\ got \in Seq(Octet)
    BY <1>1 DEF WireTypes
  <2>2. wire' \in Seq(Octet) /\ z \in Seq(Octet) /\ wire = wire' \o z
    <3>1. CutAt(wire, k, wire', z, Octet)
      BY <1>3, <1>4, <2>1, Cut
    <3> QED BY <3>1 DEF CutAt
  <2>3. WireTypes'
    <3>1. Returned' = Returned
      BY <1>2 DEF Returned
    <3> QED BY <1>1, <1>2, <2>2, <3>1 DEF WireTypes
  <2>4. ReaderState'
    BY <1>1, <1>2 DEF ReaderState
  <2>5. StreamInv'
    <3>1. SUFFICES ASSUME rpc # "closed" PROVE Begins(got', wire', Pending', up')
      BY <1>2 DEF StreamInv
    <3>2. PICK lost \in Seq(Octet) : got \o (wire \o lost) = Pending
      BY <1>1, <3>1 DEF StreamInv, Begins
    <3>3. (wire' \o z) \o lost = wire' \o (z \o lost) /\ z \o lost \in Seq(Octet)
      BY <2>2, ConcatAssociative, ConcatProperties
    <3>4. Pending' = Pending
      BY <1>2 DEF Pending, Frames
    <3>5. got' \o (wire' \o (z \o lost)) = Pending'
      BY <1>2, <2>2, <3>2, <3>3, <3>4
    <3> QED BY <1>2, <3>3, <3>5 DEF Begins
  <2>6. ReceivedAsSent'
    BY <1>1, <1>2 DEF ReceivedAsSent
  <2> QED BY <2>3, <2>4, <2>5, <2>6 DEF IInv
<1> QED BY <1>4

\* A call to read begins with nothing.
LEMMA ReadInv ==
  ASSUME IInv, NEW t \in {"REGISTER", "ACK", "QUERYDETAIL"}, ReadMessage(t)
  PROVE  IInv'
<1>1. /\ WireTypes /\ ReaderState /\ StreamInv /\ ReceivedAsSent
  BY DEF IInv
<1>2. /\ end = "master" /\ rpc = "idle" /\ rpc' = "head" /\ expect' = t /\ got' = <<>>
      /\ UNCHANGED <<end, sent, wire, up, received>>
  BY DEF ReadMessage
<1>3. got = <<>>
  BY <1>1, <1>2 DEF ReaderState
<1>4. WireTypes'
  <2>1. Returned' = Returned
    BY <1>2 DEF Returned
  <2> QED BY <1>1, <1>2, <1>3, <2>1 DEF WireTypes
<1>5. ReaderState'
  <2>1. Len(got') < HdrLen
    BY <1>2, CodecAssumption
  <2> QED BY <1>2, <2>1 DEF ReaderState
<1>6. StreamInv'
  <2>1. Pending' = Pending
    BY <1>2 DEF Pending, Frames
  <2> QED BY <1>1, <1>2, <1>3, <2>1 DEF StreamInv, Begins
<1>7. ReceivedAsSent'
  BY <1>1, <1>2 DEF ReceivedAsSent
<1> QED BY <1>4, <1>5, <1>6, <1>7 DEF IInv

\* conn.Read moves bytes from the wire to the reader.
LEMMA SomeRead ==
  ASSUME IInv, rpc # "closed", NEW n \in Nat, ConnRead(n),
         UNCHANGED <<end, sent, up, expect, received>>,
         rpc' \in {"head", "rest"}
  PROVE  /\ WireTypes' /\ StreamInv' /\ ReceivedAsSent'
         /\ Len(got') = Len(got) + n /\ n <= Len(wire)
<1>1. /\ WireTypes /\ ReaderState /\ StreamInv /\ ReceivedAsSent
  BY DEF IInv
<1>2. ASSUME NEW a, a = SubSeq(wire, 1, n)
      PROVE  /\ WireTypes' /\ StreamInv' /\ ReceivedAsSent'
             /\ Len(got') = Len(got) + n /\ n <= Len(wire)
  <2>1. wire \in Seq(Octet) /\ got \in Seq(Octet)
    BY <1>1 DEF WireTypes
  <2>2. /\ n <= Len(wire) /\ got' = got \o a
        /\ wire' = SubSeq(wire, n + 1, Len(wire))
    BY <1>2 DEF ConnRead
  <2>3. n \in 0..Len(wire)
    BY <2>1, <2>2, LenProperties
  <2>4. CutAt(wire, n, a, wire', Octet)
    BY <1>2, <2>1, <2>2, <2>3, Cut
  <2>5. a \in Seq(Octet) /\ wire' \in Seq(Octet) /\ Len(a) = n /\ wire = a \o wire'
    BY <2>4 DEF CutAt
  <2>6. got' \in Seq(Octet) /\ Len(got') = Len(got) + n
    <3>1. JoinOf(got', got, a, Octet)
      BY <2>1, <2>2, <2>5, ConcatIs
    <3> QED BY <2>5, <3>1 DEF JoinOf
  <2>7. WireTypes'
    <3>1. Returned' = Returned
      BY DEF Returned
    <3> QED BY <1>1, <2>5, <2>6, <3>1 DEF WireTypes
  <2>8. StreamInv'
    <3>1. PICK lost \in Seq(Octet) :
            got \o (wire \o lost) = Pending /\ (up => lost = <<>>)
      BY <1>1 DEF StreamInv, Begins
    <3>2. ASSUME NEW w, w = wire' \o lost
          PROVE  got' \o w = Pending
      <4>1. w \in Seq(Octet)
        BY <2>5, <3>1, <3>2, ConcatProperties
      <4>2. (a \o wire') \o lost = a \o (wire' \o lost)
        BY <2>5, <3>1, ConcatAssociative
      <4>3. wire \o lost = a \o w
        BY <2>5, <3>2, <4>2, Zenon
      <4>4. (got \o a) \o w = got \o (a \o w)
        <5>1. got \in Seq(Octet) /\ a \in Seq(Octet) /\ w \in Seq(Octet)
          BY <2>1, <2>5, <4>1
        <5> QED BY <5>1, ConcatAssociative
      <4> QED BY <2>2, <3>1, <4>3, <4>4, Zenon
    <3>3. Pending' = Pending
      BY DEF Pending, Frames
    <3> QED BY <3>1, <3>2, <3>3 DEF StreamInv, Begins
  <2>9. ReceivedAsSent'
    BY <1>1 DEF ReceivedAsSent
  <2> QED BY <2>2, <2>6, <2>7, <2>8, <2>9
<1> QED BY <1>2

\* Only the master's reader holds bytes between its steps.
LEMMA MasterReads ==
  ASSUME IInv, rpc \in {"head", "rest"}
  PROVE  end = "master"
BY DEF IInv, WireTypes, ReaderState

LEMMA HeadByteInv ==
  ASSUME IInv, ReadHeadByte
  PROVE  IInv'
<1>1. /\ WireTypes /\ ReaderState /\ StreamInv
  BY DEF IInv
<1>2. /\ rpc = "head" /\ ConnRead(1) /\ UNCHANGED <<end, sent, up, expect, received>>
      /\ rpc' = IF Len(got') >= HdrLen THEN "rest" ELSE "head"
  BY DEF ReadHeadByte
<1>3. /\ WireTypes' /\ StreamInv' /\ ReceivedAsSent'
      /\ Len(got') = Len(got) + 1 /\ 1 <= Len(wire)
  <2>1. rpc # "closed" /\ rpc' \in {"head", "rest"} /\ 1 \in Nat
    BY <1>2
  <2> QED BY <1>2, <2>1, SomeRead
<1>4. Len(got) \in Nat /\ Len(wire) \in Nat /\ HdrLen \in Nat /\ Len(got) < HdrLen
  BY <1>1, <1>2, LenProperties, CodecAssumption DEF WireTypes, ReaderState
<1>5. Len(received) < Len(sent)
  <2>1. Len(got) + Len(wire) > 0
    BY <1>3, <1>4
  <2> QED BY <1>1, <1>2, <2>1, NothingElse
<1>6. ASSUME NEW l, l = Len(received) + 1
      PROVE  HdrLen <= Len(Encode(sent[l]))
  <2>1. FrameOf(Encode(sent[l]), sent[l])
    BY <1>1, <1>5, <1>6, PendingHead
  <2> QED BY <2>1 DEF FrameOf
<1>7. ReaderState'
  <2>1. end = "master"
    BY <1>2, MasterReads
  <2>2. CASE Len(got') >= HdrLen
    <3>1. Len(got') = HdrLen
      BY <1>3, <1>4, <2>2
    <3>2. HdrLen <= Len(Encode(sent'[Len(received') + 1]))
      BY <1>2, <1>6
    <3>3. Len(received') < Len(sent') /\ rpc' = "rest" /\ HdrLen <= Len(got')
      BY <1>2, <1>5, <2>2, <3>1, <1>4
    <3> QED BY <1>2, <2>1, <3>1, <3>2, <3>3 DEF ReaderState
  <2>3. CASE ~ (Len(got') >= HdrLen)
    <3>1. rpc' = "head" /\ Len(got') < HdrLen
      BY <1>2, <1>3, <1>4, <2>3
    <3> QED BY <1>2, <2>1, <3>1 DEF ReaderState
  <2> QED BY <2>2, <2>3
<1> QED BY <1>3, <1>7 DEF IInv

\* What the header says is missing is missing.
LEMMA MissingIs ==
  ASSUME WireTypes, ReaderState, StreamInv, rpc = "rest",
         NEW l, l = Len(received) + 1, NEW f, f = Encode(sent[l])
  PROVE  /\ Missing = Len(f) - Len(got) /\ Len(got) <= Len(f)
         /\ Len(got) \in Nat /\ Len(f) \in Nat
         /\ FrameOf(f, sent[l])
<1>1. /\ Len(received) < Len(sent) /\ HdrLen <= Len(got) /\ Len(got) <= Len(f)
  BY DEF ReaderState
<1>2. /\ FrameOf(f, sent[l])
      /\ \A i \in 1..Len(got) : i <= Len(f) => got[i] = f[i]
  BY <1>1, FirstFrame
<1>3. Len(got) \in Nat /\ Len(f) \in Nat /\ HdrLen \in Nat
  BY <1>2, LenProperties, CodecAssumption DEF WireTypes, FrameOf
<1>4. \A i \in 1..HdrLen : got[i] = f[i]
  BY <1>1, <1>2, <1>3
<1>5. FrameLen(SubSeq(got, 1, HdrLen)) = Len(f)
  <2>1. got \in Seq(Octet) /\ Len(got) >= HdrLen
    BY <1>1, <1>3 DEF WireTypes
  <2> QED BY <1>2, <1>4, <2>1 DEF FrameOf
<1> QED BY <1>1, <1>2, <1>3, <1>5 DEF Missing

LEMMA RestInv ==
  ASSUME IInv, ReadRest
  PROVE  IInv'
<1>1. /\ WireTypes /\ ReaderState /\ StreamInv
  BY DEF IInv
<1>2. rpc = "rest" /\ UNCHANGED <<end, sent, up, rpc, expect, received>>
  BY DEF ReadRest
<1>3. PICK n \in 1..Missing : ConnRead(n)
  BY DEF ReadRest
<1>4. ASSUME NEW l, l = Len(received) + 1, NEW f, f = Encode(sent[l])
      PROVE  IInv'
  <2>1. /\ Missing = Len(f) - Len(got) /\ Len(got) <= Len(f)
        /\ Len(got) \in Nat /\ Len(f) \in Nat
    BY <1>1, <1>2, <1>4, MissingIs
  <2>2. n \in Nat /\ n <= Len(f) - Len(got)
    BY <1>3, <2>1
  <2>3. /\ WireTypes' /\ StreamInv' /\ ReceivedAsSent' /\ Len(got') = Len(got) + n
    <3>1. rpc # "closed" /\ rpc' \in {"head", "rest"}
      BY <1>2
    <3> QED BY <1>2, <1>3, <2>2, <3>1, SomeRead
  <2>4. ReaderState'
    <3>1. Len(received) < Len(sent) /\ HdrLen <= Len(got) /\ end = "master"
      BY <1>1, <1>2, MasterReads DEF ReaderState
    <3>2. HdrLen <= Len(got') /\ Len(got') <= Len(f)
      BY <2>1, <2>2, <2>3, <3>1, CodecAssumption
    <3> QED BY <1>2, <1>4, <3>1, <3>2 DEF ReaderState
  <2> QED BY <2>3, <2>4 DEF IInv
<1> QED BY <1>4

\* A message is returned, and the reader holds nothing of the next.
LEMMA Returns ==
  ASSUME IInv, rpc # "closed", Len(received) < Len(sent),
         NEW l, l = Len(received) + 1, NEW x,
         x = sent[l] \/ (x = ErrType /\ end = "master"),
         received' = Append(received, x), got' = <<>>, wire' \in Seq(Octet),
         UNCHANGED <<end, sent, up, expect>>, rpc' \in {"idle", "closed"},
         rpc' = "closed" => end = "master",
         Begins(<<>>, wire', Span(Frames, l, Len(sent)), up)
  PROVE  IInv'
<1>1. /\ WireTypes /\ ReaderState /\ StreamInv /\ ReceivedAsSent
  BY DEF IInv
<1>2. l \in 1..Len(sent) /\ l \in Nat /\ l <= Len(sent)
  BY <1>1, FramesType
<1>3. x \in Returned
  <2>1. sent[l] \in Messages(end)
    BY <1>1, <1>2, ElementOfSeq DEF WireTypes
  <2> QED BY <2>1 DEF Returned
<1>4. /\ received' \in Seq(Returned) /\ Len(received') = l /\ received'[l] = x
      /\ \A i \in 1..Len(received) : received'[i] = received[i]
      /\ \A i \in 1..l : i # l => i \in 1..Len(received)
  <2>1. received \in Seq(Returned)
    BY <1>1 DEF WireTypes
  <2> QED BY <1>3, <2>1, Appended
<1>5. WireTypes'
  <2>1. Returned' = Returned
    BY DEF Returned
  <2>2. got' \in Seq(Octet)
    OBVIOUS
  <2> QED BY <1>1, <1>2, <1>4, <2>1, <2>2 DEF WireTypes
<1>6. ReaderState'
  BY DEF ReaderState
<1>7. StreamInv'
  <2>1. Pending' = Span(Frames, l, Len(sent))
    BY <1>4 DEF Pending, Frames
  <2> QED BY <2>1 DEF StreamInv, Begins
<1>8. ReceivedAsSent'
  <2>1. DOMAIN received' = 1..l /\ DOMAIN received = 1..Len(received)
    BY <1>1, <1>4, LenProperties DEF WireTypes
  <2> QED BY <1>1, <1>4, <2>1 DEF ReceivedAsSent
<1> QED BY <1>5, <1>6, <1>7, <1>8 DEF IInv

LEMMA DecodeInv ==
  ASSUME IInv, DecodeMessage
  PROVE  IInv'
<1>1. /\ WireTypes /\ ReaderState /\ StreamInv
  BY DEF IInv
<1>2. /\ rpc = "rest" /\ Missing = 0 /\ got' = <<>>
      /\ UNCHANGED <<end, sent, wire, up, expect>>
  BY DEF DecodeMessage
<1>3. PICK x : /\ x = Decode(got) \/ x = ErrType
               /\ received' = Append(received, x) /\ rpc' \in {"idle", "closed"}
  BY DEF DecodeMessage
<1>4. ASSUME NEW l, l = Len(received) + 1, NEW f, f = Encode(sent[l]),
             NEW p, p = Span(Frames, l, Len(sent))
      PROVE  IInv'
  <2>1. end = "master" /\ Len(received) < Len(sent)
    BY <1>1, <1>2, MasterReads DEF ReaderState
  <2>2. f \in Seq(Octet) /\ p \in Seq(Octet) /\ Pending = f \o p
    BY <1>1, <1>4, <2>1, PendingHead DEF FrameOf
  <2>3. Len(got) = Len(f) /\ Decode(f) = sent[l]
    <3>1. /\ Missing = Len(f) - Len(got) /\ Len(got) \in Nat /\ Len(f) \in Nat
          /\ FrameOf(f, sent[l])
      BY <1>1, <1>2, <1>4, MissingIs
    <3> QED BY <1>2, <3>1 DEF FrameOf
  <2>4. PICK lost \in Seq(Octet) :
          got \o (wire \o lost) = Pending /\ (up => lost = <<>>)
    BY <1>1, <1>2 DEF StreamInv, Begins
  <2>5. got \in Seq(Octet) /\ wire \in Seq(Octet)
    BY <1>1 DEF WireTypes
  <2>6. ASSUME NEW w, w = wire \o lost PROVE got = f /\ w = p /\ <<>> \o w = w
    <3>1. w \in Seq(Octet)
      BY <2>4, <2>5, <2>6, ConcatProperties
    <3>2. got \o w = f \o p
      BY <2>2, <2>4, <2>6
    <3>3. got = f /\ w = p
      BY <2>2, <2>3, <2>5, <3>1, <3>2, SameCut
    <3> QED BY <3>1, <3>3, ConcatEmptySeq
  <2>7. Begins(<<>>, wire', p, up)
    BY <1>2, <2>4, <2>6 DEF Begins
  <2>8. x = sent[l] \/ (x = ErrType /\ end = "master")
    BY <1>3, <2>1, <2>3, <2>6
  <2>9. wire' \in Seq(Octet)
    BY <1>2, <2>5
  <2> QED BY <1>2, <1>3, <1>4, <2>1, <2>7, <2>8, <2>9, Returns
<1> QED BY <1>4

LEMMA ReadFailsInv ==
  ASSUME IInv, ReadFails
  PROVE  IInv'
<1>1. /\ WireTypes /\ ReaderState /\ ReceivedAsSent
  BY DEF IInv
<1>2. /\ rpc \in {"head", "rest"} /\ rpc' = "closed" /\ got' = <<>>
      /\ UNCHANGED <<end, sent, wire, up, expect, received>>
  BY DEF ReadFails
<1>3. WireTypes'
  <2>1. Returned' = Returned
    BY <1>2 DEF Returned
  <2> QED BY <1>1, <1>2, <2>1 DEF WireTypes
<1>4. ReaderState'
  <2>1. end = "master"
    BY <1>2, MasterReads
  <2> QED BY <1>2, <2>1 DEF ReaderState
<1>5. StreamInv' /\ ReceivedAsSent'
  BY <1>1, <1>2 DEF StreamInv, ReceivedAsSent
<1> QED BY <1>3, <1>4, <1>5 DEF IInv

\* What the agent peeks at is the first frame that was not returned.
LEMMA FrameHereIs ==
  ASSUME WireTypes, ReaderState, StreamInv, rpc = "idle",
         Len(received) < Len(sent), Len(wire) >= HdrLen,
         NEW l, l = Len(received) + 1, NEW f, f = Encode(sent[l])
  PROVE  /\ FrameLen(SubSeq(wire, 1, HdrLen)) = Len(f)
         /\ FrameOf(f, sent[l])
<1>1. got = <<>> /\ wire \in Seq(Octet)
  BY DEF ReaderState, WireTypes
<1>2. /\ FrameOf(f, sent[l])
      /\ \A i \in 1..Len(wire) : i <= Len(f) => wire[i] = f[i]
  BY <1>1, FirstFrame
<1>3. Len(wire) \in Nat /\ Len(f) \in Nat /\ HdrLen \in Nat /\ HdrLen <= Len(f)
  BY <1>1, <1>2, LenProperties, CodecAssumption DEF FrameOf
<1>4. \A i \in 1..HdrLen : wire[i] = f[i]
  BY <1>2, <1>3
<1> QED BY <1>1, <1>2, <1>4 DEF FrameOf

LEMMA PeekInv ==
  ASSUME IInv, PeekMessage
  PROVE  IInv'
<1>1. /\ WireTypes /\ ReaderState /\ StreamInv
  BY DEF IInv
<1>2. /\ end = "agent" /\ rpc = "idle" /\ FrameHere
      /\ UNCHANGED <<end, sent, up, rpc, expect, got>>
  BY DEF PeekMessage
<1>3. ASSUME NEW total, total = FrameLen(SubSeq(wire, 1, HdrLen)),
             NEW a, a = SubSeq(wire, 1, total),
             NEW l, l = Len(received) + 1, NEW f, f = Encode(sent[l]),
             NEW p, p = Span(Frames, l, Len(sent))
      PROVE  IInv'
  <2>1. /\ received' = Append(received, Decode(a))
        /\ wire' = SubSeq(wire, total + 1, Len(wire))
    BY <1>3 DEF PeekMessage
  <2>2. got = <<>> /\ wire \in Seq(Octet) /\ Len(wire) \in Nat
    BY <1>1, <1>2, LenProperties DEF ReaderState, WireTypes
  <2>3. Len(wire) >= HdrLen /\ Len(wire) >= total
    BY <1>2, <1>3 DEF FrameHere
  <2>4. Len(received) < Len(sent)
    <3>1. Len(got) + Len(wire) > 0
      BY <2>2, <2>3, CodecAssumption
    <3> QED BY <1>1, <1>2, <3>1, NothingElse
  <2>5. total = Len(f) /\ FrameOf(f, sent[l])
    BY <1>1, <1>2, <1>3, <2>3, <2>4, FrameHereIs
  <2>6. f \in Seq(Octet) /\ p \in Seq(Octet) /\ Pending = f \o p
    BY <1>1, <1>3, <2>4, PendingHead DEF FrameOf
  <2>7. total \in 0..Len(wire)
    BY <2>2, <2>3, <2>5, <2>6, LenProperties
  <2>8. CutAt(wire, total, a, wire', Octet)
    BY <1>3, <2>1, <2>2, <2>7, Cut
  <2>9. /\ a \in Seq(Octet) /\ wire' \in Seq(Octet) /\ Len(a) = Len(f)
        /\ wire = a \o wire'
    BY <2>5, <2>8 DEF CutAt
  <2>10. PICK lost \in Seq(Octet) :
           got \o (wire \o lost) = Pending /\ (up => lost = <<>>)
    BY <1>1, <1>2 DEF StreamInv, Begins
  <2>11. ASSUME NEW w, w = wire' \o lost PROVE a = f /\ w = p /\ <<>> \o w = w
    <3>1. w \in Seq(Octet)
      BY <2>9, <2>10, <2>11, ConcatProperties
    <3>2. (a \o wire') \o lost = a \o (wire' \o lost)
      BY <2>9, <2>10, ConcatAssociative
    <3>3. <<>> \o (wire \o lost) = wire \o lost
      <4>1. wire \o lost \in Seq(Octet)
        BY <2>2, <2>10, ConcatProperties
      <4> QED BY <4>1, ConcatEmptySeq
    <3>4. a \o w = f \o p
      BY <2>2, <2>6, <2>9, <2>10, <2>11, <3>2, <3>3, Zenon
    <3>5. a = f /\ w = p
      BY <2>6, <2>9, <3>1, <3>4, SameCut
    <3> QED BY <3>1, <3>5, ConcatEmptySeq
  <2>12. Begins(<<>>, wire', p, up)
    BY <2>10, <2>11 DEF Begins
  <2>13. Decode(a) = sent[l]
    BY <2>5, <2>11 DEF FrameOf
  <2>14. got' = <<>> /\ rpc' = "idle"
    BY <1>2, <2>2
  <2> QED BY <1>2, <1>3, <2>1, <2>4, <2>9, <2>12, <2>13, <2>14, Returns
<1> QED BY <1>3

LEMMA PeekFailsInv ==
  ASSUME IInv, PeekFails
  PROVE  IInv'
<1>1. /\ WireTypes /\ ReaderState /\ ReceivedAsSent
  BY DEF IInv
<1>2. /\ end = "agent" /\ rpc = "idle" /\ ~up /\ rpc' = "closed"
      /\ UNCHANGED <<end, sent, wire, up, expect, got, received>>
  BY DEF PeekFails
<1>3. WireTypes'
  <2>1. Returned' = Returned
    BY <1>2 DEF Returned
  <2> QED BY <1>1, <1>2, <2>1 DEF WireTypes
<1>4. ReaderState' /\ StreamInv' /\ ReceivedAsSent'
  BY <1>1, <1>2 DEF ReaderState, StreamInv, ReceivedAsSent
<1> QED BY <1>3, <1>4 DEF IInv

LEMMA StutterInv ==
  ASSUME IInv, UNCHANGED vars
  PROVE  IInv'
<1>1. UNCHANGED <<end, sent, wire, up, rpc, expect, got, received>>
  BY DEF vars
<1>2. WireTypes'
  <2>1. Returned' = Returned
    BY <1>1 DEF Returned
  <2> QED BY <1>1, <2>1 DEF WireTypes, IInv
<1>3. Pending' = Pending
  BY <1>1 DEF Pending, Frames
<1>4. ReaderState' /\ StreamInv' /\ ReceivedAsSent'
  BY <1>1, <1>3 DEF ReaderState, StreamInv, ReceivedAsSent, IInv, Begins
<1> QED BY <1>2, <1>4 DEF IInv

LEMMA NextInv ==
  ASSUME IInv, [Next]_vars
  PROVE  IInv'
<1>1. ASSUME NEW m \in Messages(end), WriteMessage(m) PROVE IInv'
  BY <1>1, WriteInv
<1>2. ASSUME NEW t \in {"REGISTER", "ACK", "QUERYDETAIL"}, ReadMessage(t) PROVE IInv'
  BY <1>2, ReadInv
<1>3. CASE ConnBreaks
  BY <1>3, BreakInv
<1>4. CASE ReadHeadByte
  BY <1>4, HeadByteInv
<1>5. CASE ReadRest
  BY <1>5, RestInv
<1>6. CASE DecodeMessage
  BY <1>6, DecodeInv
<1>7. CASE ReadFails
  BY <1>7, ReadFailsInv
<1>8. CASE PeekMessage
  BY <1>8, PeekInv
<1>9. CASE PeekFails
  BY <1>9, PeekFailsInv
<1>10. CASE UNCHANGED vars
  BY <1>10, StutterInv
<1> QED
  BY <1>1, <1>2, <1>3, <1>4, <1>5, <1>6, <1>7, <1>8, <1>9, <1>10 DEF Next, Reader

LEMMA Invariant == Spec => []IInv
<1>1. Init => IInv
  BY InitInv
<1>2. IInv /\ [Next]_vars => IInv'
  BY NextInv
<1> QED BY <1>1, <1>2, PTL DEF Spec

-----------------------------------------------------------------------------
(* What it says.                                                            *)

\* The types: what either end of the connection has sent, read and returned,
\* for any number of messages and texts of any length.
THEOREM TypeCorrect == Spec => []TypeOK
<1>1. IInv => TypeOK
  <2>1. SUFFICES ASSUME WireTypes PROVE TypeOK
    BY DEF IInv
  <2>2. /\ \A i \in DOMAIN sent : sent[i] \in Messages(end)
        /\ \A i \in DOMAIN wire : wire[i] \in Octet
        /\ \A i \in DOMAIN got : got[i] \in Octet
    BY <2>1, ElementOfSeq, LenProperties DEF WireTypes
  <2> QED BY <2>1, <2>2 DEF WireTypes, TypeOK
<1> QED BY <1>1, Invariant, PTL

\* Both readers, the master's getMessageBuffer and the agent's processor, return
\* what Encode was given at the other end, in order, however the bytes arrive.
THEOREM ReturnedAsSent == Spec => []ReceivedAsSent
<1>1. IInv => ReceivedAsSent
  BY DEF IInv
<1> QED BY <1>1, Invariant, PTL

\* No reader takes a byte of the next frame or leaves one of the last: between
\* two messages what is on the wire is the frames that were not returned.
THEOREM StreamAligned == Spec => []Aligned
<1>1. IInv => Aligned
  <2>1. SUFFICES ASSUME IInv, up, rpc # "closed" PROVE got \o wire = Pending
    <3>1. ASSUME IInv PROVE Pending = FlattenSeq([i \in 1..(Len(sent) - Len(received)) |->
                                             Encode(sent[Len(received) + i])])
      <4>1. ASSUME NEW r, r = Len(received), NEW n, n = Len(sent)
            PROVE  [i \in 1..(n - r) |-> Frames[r + i]]
                     = [i \in 1..(n - r) |-> Encode(sent[r + i])]
        <5>1. r \in Nat /\ n \in Nat
          BY <3>1, <4>1, FramesType DEF IInv
        <5>2. \A i \in 1..(n - r) : r + i \in 1..n
          BY <5>1
        <5> QED BY <4>1, <5>2 DEF Frames
      <4> QED BY <4>1 DEF Pending, Span
    <3> QED BY <3>1 DEF Aligned
  <2>2. PICK lost \in Seq(Octet) : got \o (wire \o lost) = Pending /\ lost = <<>>
    BY <2>1 DEF IInv, StreamInv, Begins
  <2>3. wire \o <<>> = wire
    BY <2>1, ConcatEmptySeq DEF IInv, WireTypes
  <2> QED BY <2>2, <2>3
<1> QED BY <1>1, Invariant, PTL

\* While the connection is up, getMessageBuffer never blocks in the middle of a
\* frame for bytes that nobody has written, and peekMessage has a whole one.
THEOREM AsksForNoMore == Spec => []NeverAsksForMore
<1>1. IInv => NeverAsksForMore
  <2>1. SUFFICES ASSUME IInv, up
                 PROVE  /\ rpc = "rest" => Missing \in 0..Len(wire)
                        /\ end = "agent" /\ wire # <<>> => FrameHere
    BY DEF NeverAsksForMore
  <2>2. WireTypes /\ ReaderState /\ StreamInv
    BY <2>1 DEF IInv
  <2>3. ASSUME NEW l, l = Len(received) + 1, NEW f, f = Encode(sent[l]), rpc = "rest"
        PROVE  Missing \in 0..Len(wire)
    <3>1. /\ Missing = Len(f) - Len(got) /\ Len(got) <= Len(f)
          /\ Len(got) \in Nat /\ Len(f) \in Nat
      BY <2>2, <2>3, MissingIs
    <3>2. Len(f) <= Len(got) + Len(wire)
      <4>1. Len(received) < Len(sent) /\ rpc # "closed"
        BY <2>2, <2>3 DEF ReaderState
      <4> QED BY <2>1, <2>2, <2>3, <4>1, FirstFrame
    <3>3. Len(wire) \in Nat
      BY <2>2, LenProperties DEF WireTypes
    <3> QED BY <3>1, <3>2, <3>3
  <2>4. ASSUME NEW l, l = Len(received) + 1, NEW f, f = Encode(sent[l]),
               end = "agent", wire # <<>>
        PROVE  FrameHere
    <3>1. rpc = "idle" /\ rpc # "closed" /\ got = <<>>
      BY <2>1, <2>2, <2>4 DEF ReaderState, WireTypes
    <3>2. wire \in Seq(Octet) /\ Len(wire) \in Nat /\ Len(wire) # 0
      BY <2>2, <2>4, LenProperties, EmptySeq DEF WireTypes
    <3>3. Len(received) < Len(sent)
      <4>1. Len(got) + Len(wire) > 0
        BY <3>1, <3>2
      <4> QED BY <2>2, <3>1, <4>1, NothingElse
    <3>4. FrameOf(f, sent[l]) /\ Len(f) <= Len(got) + Len(wire)
      BY <2>1, <2>2, <2>4, <3>1, <3>3, FirstFrame
    <3>5. HdrLen \in Nat /\ HdrLen <= Len(f) /\ Len(f) \in Nat /\ Len(f) <= Len(wire)
      BY <3>1, <3>2, <3>4, LenProperties, CodecAssumption DEF FrameOf
    <3>6. Len(wire) >= HdrLen
      BY <3>2, <3>5
    <3>7. FrameLen(SubSeq(wire, 1, HdrLen)) = Len(f)
      BY <2>2, <2>4, <3>1, <3>3, <3>6, FrameHereIs
    <3> QED BY <3>2, <3>5, <3>6, <3>7 DEF FrameHere
  <2> QED BY <2>3, <2>4
<1> QED BY <1>1, Invariant, PTL
=============================================================================
