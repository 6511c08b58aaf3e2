------------------------------ MODULE UnitSums ------------------------------
(***************************************************************************)
(* Sums for the proofs: what the x of a set S weigh together, w[x] each, is *)
(* the cardinality of a set of units.  It is finite when all but finitely   *)
(* many weigh nothing, whether S is or not.                                 *)
(***************************************************************************)
EXTENDS Integers, FiniteSetTheorems, FunctionTheorems, TLAPS

\* Of an x that weighs n, the pairs of x and 1 up to n.
Units(S, w) == {x \in S \X Nat : x[2] # 0 /\ x[2] <= w[x[1]]}
UnitsOf(l, n) == {l} \X (1..n)

LEMMA UnitsOfOne ==
    ASSUME NEW l, NEW n \in Nat
    PROVE  IsFiniteSet(UnitsOf(l, n)) /\ Cardinality(UnitsOf(l, n)) = n
<1> DEFINE f == [i \in 1..n |-> <<l, i>>]
<1>1. f \in Bijection(1..n, UnitsOf(l, n))
  <2>1. f \in [1..n -> UnitsOf(l, n)]
    BY DEF UnitsOf
  <2>2. \A i, j \in 1..n : f[i] = f[j] => i = j
    OBVIOUS
  <2>3. \A y \in UnitsOf(l, n) : \E i \in 1..n : f[i] = y
    BY DEF UnitsOf
  <2> HIDE DEF f
  <2> QED BY <2>1, <2>2, <2>3, Fun_IsBij
<1>2. ExistsBijection(1..n, UnitsOf(l, n))
  BY <1>1, Zenon DEF ExistsBijection
<1>3. IsFiniteSet(1..n) /\ Cardinality(1..n) = n
  <2>1. 1 \in Int /\ n \in Int
    OBVIOUS
  <2>2. IsFiniteSet(1..n) /\ Cardinality(1..n) = IF 1 > n THEN 0 ELSE n - 1 + 1
    BY <2>1, FS_Interval
  <2> QED BY <2>2
<1> QED BY <1>2, <1>3, FS_Bijection

\* The sum follows the weight of one x.
LEMMA UnitsChange ==
    ASSUME NEW S, NEW w \in [S -> Nat], NEW v \in [S -> Nat], NEW l \in S,
           \A k \in S : k # l => v[k] = w[k], IsFiniteSet(Units(S, w))
    PROVE  /\ IsFiniteSet(Units(S, v))
           /\ Cardinality(Units(S, v)) = Cardinality(Units(S, w)) - w[l] + v[l]
           /\ w[l] <= Cardinality(Units(S, w))
           /\ Cardinality(Units(S, w)) \in Nat
<1> DEFINE own == UnitsOf(l, w[l])
           new == UnitsOf(l, v[l])
           rest == Units(S, w) \ own
<1>0. w[l] \in Nat /\ v[l] \in Nat
  OBVIOUS
<1>1. /\ IsFiniteSet(own) /\ Cardinality(own) = w[l]
      /\ IsFiniteSet(new) /\ Cardinality(new) = v[l]
  BY <1>0, UnitsOfOne
<1>2. own \subseteq Units(S, w)
  BY <1>0 DEF Units, UnitsOf
<1>3. Units(S, v) = rest \cup new
  <2>1. ASSUME NEW x \in Units(S, v) PROVE x \in rest \cup new
    <3>1. CASE x[1] = l
      BY <2>1, <3>1 DEF Units, UnitsOf
    <3>2. CASE x[1] # l
      BY <2>1, <3>2 DEF Units, UnitsOf
    <3> QED BY <3>1, <3>2
  <2>2. ASSUME NEW x \in rest PROVE x \in Units(S, v)
    <3>1. x \in S \X Nat /\ x[2] # 0 /\ x[2] <= w[x[1]] /\ x \notin own
      BY DEF Units
    <3>2. x[1] # l
      BY <1>0, <3>1 DEF UnitsOf
    <3> QED BY <3>1, <3>2 DEF Units
  <2>3. ASSUME NEW x \in new PROVE x \in Units(S, v)
    BY <1>0 DEF Units, UnitsOf
  <2> QED BY <2>1, <2>2, <2>3
<1>4. rest \cap new = {}
  <2> SUFFICES ASSUME NEW x \in rest, x \in new PROVE FALSE
    OBVIOUS
  <2>1. x \in Units(S, w) /\ x \notin own /\ x[1] = l
    BY DEF UnitsOf
  <2> QED BY <1>0, <2>1 DEF Units, UnitsOf
<1> HIDE DEF own, new
<1>5. Units(S, w) \cap own = own
  BY <1>2
<1>6. /\ IsFiniteSet(rest)
      /\ Cardinality(rest) = Cardinality(Units(S, w)) - Cardinality(Units(S, w) \cap own)
  BY FS_Difference
<1>7. /\ Cardinality(Units(S, w)) \in Nat /\ Cardinality(own) <= Cardinality(Units(S, w))
  <2>1. own \in SUBSET Units(S, w)
    BY <1>2
  <2>2. Cardinality(own) <= Cardinality(Units(S, w))
    BY <2>1, FS_Subset
  <2> QED BY <2>2, FS_CardinalityType
<1> HIDE DEF rest
<1>8. /\ IsFiniteSet(rest \cup new)
      /\ Cardinality(rest \cup new)
             = Cardinality(rest) + Cardinality(new) - Cardinality(rest \cap new)
  BY <1>1, <1>6, FS_Union
<1>9. Cardinality(rest \cap new) = 0
  BY <1>4, FS_EmptySet
<1>10. Cardinality(rest) = Cardinality(Units(S, w)) - w[l]
  BY <1>1, <1>5, <1>6
<1>11. Cardinality(rest \cup new) = Cardinality(Units(S, w)) - w[l] + v[l]
  BY <1>0, <1>1, <1>7, <1>8, <1>9, <1>10
<1>12. IsFiniteSet(Units(S, v)) /\ Cardinality(Units(S, v)) = Cardinality(rest \cup new)
  BY <1>3, <1>8
<1>13. w[l] <= Cardinality(Units(S, w))
  BY <1>1, <1>7
<1> QED BY <1>7, <1>11, <1>12, <1>13

\* Nothing weighs nothing.
LEMMA NothingWeighs ==
    ASSUME NEW S, NEW w \in [S -> Nat], \A l \in S : w[l] = 0
    PROVE  Units(S, w) = {} /\ IsFiniteSet(Units(S, w)) /\ Cardinality(Units(S, w)) = 0
<1>1. Units(S, w) = {}
  BY DEF Units
<1> QED BY <1>1, FS_EmptySet

\* The same units, enumerated.
LEMMA UnitsByElement ==
    ASSUME NEW S, NEW w \in [S -> Nat]
    PROVE  UNION {{x} \X (1..w[x]) : x \in S} = Units(S, w)
<1> DEFINE all == UNION {{x} \X (1..w[x]) : x \in S}
<1>1. ASSUME NEW y \in all PROVE y \in Units(S, w)
  BY DEF Units
<1>2. ASSUME NEW y \in Units(S, w) PROVE y \in all
  <2>1. y = <<y[1], y[2]>> /\ y[1] \in S /\ y[2] \in 1..w[y[1]]
    BY DEF Units
  <2>2. y \in {y[1]} \X (1..w[y[1]])
    BY <2>1
  <2> QED BY <2>1, <2>2
<1> QED BY <1>1, <1>2

\* Whatever weighs less has fewer units.
LEMMA LighterUnits ==
    ASSUME NEW S, NEW v \in [S -> Nat], NEW w \in [S -> Nat],
           \A x \in S : v[x] <= w[x], IsFiniteSet(Units(S, w))
    PROVE  /\ IsFiniteSet(Units(S, v))
           /\ Cardinality(Units(S, v)) <= Cardinality(Units(S, w))
<1>1. Units(S, v) \subseteq Units(S, w)
  <2> SUFFICES ASSUME NEW y \in Units(S, v) PROVE y \in Units(S, w)
    OBVIOUS
  <2>1. y \in S \X Nat /\ y[2] # 0 /\ y[2] <= v[y[1]] /\ y[1] \in S /\ y[2] \in Nat
    BY DEF Units
  <2>2. v[y[1]] \in Nat /\ w[y[1]] \in Nat /\ v[y[1]] <= w[y[1]]
    BY <2>1
  <2> QED BY <2>1, <2>2 DEF Units
<1> QED BY <1>1, FS_Subset

\* Weights may be added element by element.
LEMMA AddedUnits ==
    ASSUME NEW S, NEW v \in [S -> Nat], NEW w \in [S -> Nat],
           IsFiniteSet(Units(S, v)), IsFiniteSet(Units(S, w))
    PROVE  LET both == [x \in S |-> v[x] + w[x]] IN
           /\ IsFiniteSet(Units(S, both))
           /\ Cardinality(Units(S, both))
                  = Cardinality(Units(S, v)) + Cardinality(Units(S, w))
<1> DEFINE both == [x \in S |-> v[x] + w[x]]
           above == {y \in S \X Nat : v[y[1]] < y[2] /\ y[2] <= v[y[1]] + w[y[1]]}
           up == [y \in Units(S, w) |-> <<y[1], v[y[1]] + y[2]>>]
<1>0. \A x \in S : v[x] \in Nat /\ w[x] \in Nat /\ both[x] = v[x] + w[x]
  OBVIOUS
<1>1. \A y \in Units(S, w) : /\ y = <<y[1], y[2]>> /\ y[1] \in S /\ y[2] \in Nat
                             /\ y[2] # 0 /\ y[2] <= w[y[1]]
  BY DEF Units
<1>2. up \in Bijection(Units(S, w), above)
  <2>1. up \in [Units(S, w) -> above]
    <3> SUFFICES ASSUME NEW y \in Units(S, w) PROVE <<y[1], v[y[1]] + y[2]>> \in above
      OBVIOUS
    <3>1. v[y[1]] \in Nat /\ w[y[1]] \in Nat
      BY <1>0, <1>1
    <3> QED BY <1>1, <3>1
  <2>2. ASSUME NEW y \in Units(S, w), NEW z \in Units(S, w), up[y] = up[z] PROVE y = z
    <3>1. y[1] = z[1] /\ v[y[1]] + y[2] = v[z[1]] + z[2]
      BY <2>2
    <3>2. y[2] = z[2]
      BY <1>0, <1>1, <3>1
    <3> QED BY <1>1, <3>1, <3>2
  <2>3. ASSUME NEW z \in above PROVE \E y \in Units(S, w) : up[y] = z
    <3>1. /\ z = <<z[1], z[2]>> /\ z[1] \in S /\ z[2] \in Nat
          /\ v[z[1]] < z[2] /\ z[2] <= v[z[1]] + w[z[1]]
      OBVIOUS
    <3>2. z[2] - v[z[1]] \in Nat /\ z[2] - v[z[1]] # 0 /\ z[2] - v[z[1]] <= w[z[1]]
      BY <1>0, <3>1
    <3>3. <<z[1], z[2] - v[z[1]]>> \in Units(S, w)
      BY <3>1, <3>2 DEF Units
    <3>4. up[<<z[1], z[2] - v[z[1]]>>] = <<z[1], v[z[1]] + (z[2] - v[z[1]])>>
      BY <3>3
    <3> QED BY <1>0, <3>1, <3>3, <3>4
  <2> HIDE DEF up, above
  <2> QED BY <2>1, <2>2, <2>3, Fun_IsBij
<1>3. ExistsBijection(Units(S, w), above)
  BY <1>2, Zenon DEF ExistsBijection
<1>4. IsFiniteSet(above) /\ Cardinality(above) = Cardinality(Units(S, w))
  BY <1>3, FS_Bijection
<1>5. Units(S, both) = Units(S, v) \cup above
  <2>1. ASSUME NEW y \in S \X Nat PROVE y \in Units(S, both) <=> y \in Units(S, v) \cup above
    <3>1. y[1] \in S /\ y[2] \in Nat
      OBVIOUS
    <3>2. v[y[1]] \in Nat /\ w[y[1]] \in Nat /\ both[y[1]] = v[y[1]] + w[y[1]]
      BY <1>0, <3>1
    <3> HIDE DEF both
    <3> QED BY <3>1, <3>2 DEF Units
  <2>2. Units(S, both) \subseteq S \X Nat /\ Units(S, v) \subseteq S \X Nat
        /\ above \subseteq S \X Nat
    BY DEF Units
  <2> HIDE DEF both, above
  <2> QED BY <2>1, <2>2
<1>6. Units(S, v) \cap above = {}
  <2> SUFFICES ASSUME NEW y \in Units(S, v), y \in above PROVE FALSE
    OBVIOUS
  <2>1. y[2] \in Nat /\ y[1] \in S /\ y[2] <= v[y[1]] /\ v[y[1]] < y[2]
    BY DEF Units
  <2> QED BY <1>0, <2>1
<1>7. /\ Cardinality(Units(S, v)) \in Nat /\ Cardinality(above) \in Nat
      /\ Cardinality(Units(S, v) \cap above) = 0
  BY <1>4, <1>6, FS_CardinalityType, FS_EmptySet
<1> HIDE DEF both, above
<1>8. /\ IsFiniteSet(Units(S, v) \cup above)
      /\ Cardinality(Units(S, v) \cup above)
             = Cardinality(Units(S, v)) + Cardinality(above)
                   - Cardinality(Units(S, v) \cap above)
  BY <1>4, FS_Union
<1>9. /\ IsFiniteSet(Units(S, both))
      /\ Cardinality(Units(S, both)) = Cardinality(Units(S, v)) + Cardinality(Units(S, w))
  BY <1>4, <1>5, <1>7, <1>8
<1> QED BY <1>9 DEF both

\* Counting in blocks of k: every number has a block and a place in it.
LEMMA Blocks ==
    ASSUME NEW k \in Nat \ {0}, NEW n \in Nat
    PROVE  /\ n \div k \in Nat /\ n % k \in 0..(k - 1)
           /\ n = k * (n \div k) + (n % k)
<1>1. n \div k \in Nat
  OBVIOUS
<1>2. n % k \in 0..(k - 1)
  OBVIOUS
<1>3. n = k * (n \div k) + (n % k)
  OBVIOUS
<1> QED BY <1>1, <1>2, <1>3

\* They are its own.
LEMMA BlocksApart ==
    ASSUME NEW k \in Nat \ {0}, NEW a \in Nat, NEW b \in Nat,
           NEW i \in 0..(k - 1), NEW j \in 0..(k - 1), k * a + i = k * b + j
    PROVE  a = b /\ i = j
<1>1. CASE a = b
  BY <1>1
<1>2. CASE a < b
  <2>1. a + 1 <= b
    BY <1>2
  <2>2. k * (a + 1) <= k * b
    BY <2>1
  <2>3. k * (a + 1) = k * a + k
    OBVIOUS
  <2> QED BY <2>2, <2>3
<1>3. CASE b < a
  <2>1. b + 1 <= a
    BY <1>3
  <2>2. k * (b + 1) <= k * a
    BY <2>1
  <2>3. k * (b + 1) = k * b + k
    OBVIOUS
  <2> QED BY <2>2, <2>3
<1> QED BY <1>1, <1>2, <1>3

\* Weights may be multiplied.
LEMMA ScaledUnits ==
    ASSUME NEW S, NEW w \in [S -> Nat], NEW k \in Nat, IsFiniteSet(Units(S, w))
    PROVE  LET times == [x \in S |-> k * w[x]] IN
           /\ IsFiniteSet(Units(S, times))
           /\ Cardinality(Units(S, times)) = k * Cardinality(Units(S, w))
<1> DEFINE times == [x \in S |-> k * w[x]]
           pairs == Units(S, w) \X (0..(k - 1))
           place == [y \in pairs |-> <<y[1][1], k * (y[1][2] - 1) + y[2] + 1>>]
<1>0. Cardinality(Units(S, w)) \in Nat
  BY FS_CardinalityType
<1>1. CASE k = 0
  <2>1. times \in [S -> Nat] /\ \A x \in S : times[x] = 0
    BY <1>1
  <2> HIDE DEF times
  <2>2. IsFiniteSet(Units(S, times)) /\ Cardinality(Units(S, times)) = 0
    BY <2>1, NothingWeighs
  <2>3. k * Cardinality(Units(S, w)) = 0
    BY <1>0, <1>1
  <2> QED BY <2>2, <2>3 DEF times
<1>2. CASE k \in Nat \ {0}
  <2>1. \A x \in S : w[x] \in Nat /\ k * w[x] \in Nat /\ times[x] = k * w[x]
    BY <1>2
  <2>2. \A y \in pairs : /\ y = <<y[1], y[2]>> /\ y[1] \in Units(S, w) /\ y[2] \in 0..(k - 1)
                         /\ y[1] = <<y[1][1], y[1][2]>> /\ y[1][1] \in S
                         /\ y[1][2] - 1 \in Nat /\ y[1][2] \in Nat
                         /\ y[1][2] <= w[y[1][1]]
    BY DEF Units
  <2>3. place \in [pairs -> Units(S, times)]
    <3> SUFFICES ASSUME NEW y \in pairs PROVE place[y] \in Units(S, times)
      OBVIOUS
    <3> DEFINE x == y[1][1]
               a == y[1][2] - 1
               i == y[2]
               n == k * a + i + 1
    <3>1. x \in S /\ a \in Nat /\ i \in 0..(k - 1) /\ a + 1 <= w[x] /\ w[x] \in Nat
      BY <2>1, <2>2
    <3>2. place[y] = <<x, n>>
      OBVIOUS
    <3>3. times[x] = k * w[x] /\ times[x] \in Nat
      BY <2>1, <3>1
    <3> HIDE DEF x, a, i, place, times
    <3>4. k * (a + 1) <= k * w[x] /\ k * (a + 1) = k * a + k /\ k * a \in Nat
      BY <1>2, <3>1
    <3>5. n \in Nat /\ n # 0 /\ n <= times[x]
      BY <1>2, <3>1, <3>3, <3>4
    <3> HIDE DEF n
    <3>6. <<x, n>> \in S \X Nat /\ <<x, n>>[1] = x /\ <<x, n>>[2] = n
      BY <3>1, <3>5
    <3>7. <<x, n>> \in Units(S, times)
      BY <3>5, <3>6 DEF Units
    <3> QED BY <3>2, <3>7
  <2>4. ASSUME NEW y \in pairs, NEW z \in pairs, place[y] = place[z] PROVE y = z
    <3> DEFINE a == y[1][2] - 1
               b == z[1][2] - 1
               i == y[2]
               j == z[2]
    <3>1. y[1][1] = z[1][1] /\ k * a + i + 1 = k * b + j + 1
      BY <2>4
    <3>2. a \in Nat /\ b \in Nat /\ i \in 0..(k - 1) /\ j \in 0..(k - 1)
      BY <2>2
    <3>3. y = <<<<y[1][1], y[1][2]>>, i>> /\ z = <<<<z[1][1], z[1][2]>>, j>>
          /\ y[1][2] \in Nat /\ z[1][2] \in Nat /\ y[1][2] = a + 1 /\ z[1][2] = b + 1
      BY <2>2
    <3> HIDE DEF a, b, i, j
    <3>4. k * a + i = k * b + j
      <4>1. k * a \in Nat /\ k * b \in Nat
        BY <1>2, <3>2
      <4> QED BY <3>1, <3>2, <4>1
    <3>5. a = b /\ i = j
      BY <1>2, <3>2, <3>4, BlocksApart
    <3> QED BY <3>1, <3>3, <3>5
  <2>5. ASSUME NEW z \in Units(S, times) PROVE \E y \in pairs : place[y] = z
    <3> DEFINE x == z[1]
               n == z[2] - 1
               a == n \div k
               i == n % k
               y == <<<<x, a + 1>>, i>>
    <3>1. z = <<x, z[2]>> /\ x \in S /\ z[2] \in Nat /\ n \in Nat /\ z[2] = n + 1
          /\ z[2] <= times[x]
      BY DEF Units
    <3>2. w[x] \in Nat /\ times[x] = k * w[x]
      BY <2>1, <3>1
    <3> HIDE DEF x, n, times
    <3>3. a \in Nat /\ i \in 0..(k - 1) /\ n = k * a + i
      BY <1>2, <3>1, Blocks
    <3> HIDE DEF a, i
    <3>4. k * a \in Nat /\ k * a < k * w[x]
      BY <1>2, <3>1, <3>2, <3>3
    <3>5. a < w[x]
      <4> SUFFICES ASSUME w[x] <= a PROVE FALSE
        BY <3>2, <3>3
      <4>1. k * w[x] <= k * a /\ k * w[x] \in Nat
        BY <1>2, <3>2, <3>3
      <4> QED BY <3>4, <4>1
    <3>6. <<x, a + 1>> \in Units(S, w)
      BY <3>1, <3>2, <3>3, <3>5 DEF Units
    <3>7. y \in pairs
      BY <3>3, <3>6
    <3>8. place[y] = <<x, k * ((a + 1) - 1) + i + 1>>
      BY <3>7
    <3>9. k * ((a + 1) - 1) + i + 1 = z[2]
      <4>1. (a + 1) - 1 = a
        BY <3>3
      <4> QED BY <3>1, <3>3, <3>4, <4>1
    <3> QED BY <3>1, <3>7, <3>8, <3>9
  <2>6. place \in Bijection(pairs, Units(S, times))
    <3> HIDE DEF place, pairs, times
    <3> QED BY <2>3, <2>4, <2>5, Fun_IsBij
  <2>7. ExistsBijection(pairs, Units(S, times))
    BY <2>6, Zenon DEF ExistsBijection
  <2>8. IsFiniteSet(0..(k - 1)) /\ Cardinality(0..(k - 1)) = k
    <3>1. 0 \in Int /\ k - 1 \in Int
      BY <1>2
    <3>2. /\ IsFiniteSet(0..(k - 1))
          /\ Cardinality(0..(k - 1)) = IF 0 > k - 1 THEN 0 ELSE (k - 1) - 0 + 1
      BY <3>1, FS_Interval
    <3> QED BY <1>2, <3>2
  <2>9. /\ IsFiniteSet(pairs)
        /\ Cardinality(pairs) = Cardinality(Units(S, w)) * Cardinality(0..(k - 1))
    BY <2>8, FS_Product
  <2>10. /\ IsFiniteSet(Units(S, times))
         /\ Cardinality(Units(S, times)) = Cardinality(pairs)
    <3> HIDE DEF pairs, times
    <3> QED BY <2>7, <2>9, FS_Bijection
  <2>11. Cardinality(Units(S, w)) * k = k * Cardinality(Units(S, w))
    BY <1>0, <1>2
  <2> QED BY <2>8, <2>9, <2>10, <2>11
<1> QED BY <1>1, <1>2
=============================================================================
