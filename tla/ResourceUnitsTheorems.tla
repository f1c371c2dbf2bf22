----------------------- MODULE ResourceUnitsTheorems -----------------------
(***************************************************************************)
(* How the use of a resource changes when a user comes or goes.            *)
(***************************************************************************)
EXTENDS ResourceUnits, Integers, FiniteSetTheorems, TLAPS

\* Finitely many users take finitely many units.
LEMMA UnitsFinite ==
  ASSUME NEW X, NEW users \in SUBSET X, IsFiniteSet(users), NEW R, NEW r \in R,
         NEW req \in [X -> [R -> Nat]]
  PROVE  IsFiniteSet(Units(req, users, r))
<1> DEFINE part == [x \in users |-> {x} \X (1..req[x][r])]
           parts == {{x} \X (1..req[x][r]) : x \in users}
<1>1. part \in Surjection(users, parts)
  BY DEF Surjection
<1>2. IsFiniteSet(parts)
  BY <1>1, FS_Surjection
<1>3. ASSUME NEW x \in users PROVE IsFiniteSet({x} \X (1..req[x][r]))
  <2>1. IsFiniteSet(1..req[x][r])
    BY FS_Interval
  <2> QED
    BY <2>1, FS_Singleton, FS_Product
<1>4. \A p \in parts : IsFiniteSet(p)
  BY <1>3
<1> HIDE DEF parts
<1>5. IsFiniteSet(UNION parts)
  BY <1>2, <1>4, FS_UNION
<1> QED
  BY <1>5 DEF Units, parts

\* A user with a requirement of n takes n units.
LEMMA UseOne ==
  ASSUME NEW x, NEW n \in Nat
  PROVE  IsFiniteSet({x} \X (1..n)) /\ Cardinality({x} \X (1..n)) = n
<1> DEFINE one == {x}
           numbers == 1..n
<1>1. IsFiniteSet(numbers) /\ Cardinality(numbers) = n
  BY FS_Interval
<1>2. IsFiniteSet(one) /\ Cardinality(one) = 1
  BY FS_Singleton
<1> HIDE DEF one, numbers
<1>3. IsFiniteSet(one \X numbers)
      /\ Cardinality(one \X numbers) = Cardinality(one) * Cardinality(numbers)
  BY <1>1, <1>2, FS_Product
<1>4. Cardinality(one \X numbers) = n
  BY <1>1, <1>2, <1>3
<1> QED
  BY <1>3, <1>4 DEF one, numbers

\* The use of a resource is a natural number.
LEMMA UseType ==
  ASSUME NEW X, NEW users \in SUBSET X, IsFiniteSet(users), NEW R, NEW r \in R,
         NEW req \in [X -> [R -> Nat]]
  PROVE  Use(req, users, r) \in Nat
BY UnitsFinite, FS_CardinalityType DEF Use

\* Nobody uses nothing.
LEMMA UseNobody ==
  ASSUME NEW req, NEW r
  PROVE  Use(req, {}, r) = 0
BY FS_EmptySet DEF Use, Units

\* A new user adds its requirement.
LEMMA UseAdd ==
  ASSUME NEW X, NEW users \in SUBSET X, IsFiniteSet(users), NEW R, NEW r \in R,
         NEW req \in [X -> [R -> Nat]], NEW x \in X, x \notin users
  PROVE  Use(req, users \cup {x}, r) = Use(req, users, r) + req[x][r]
<1> DEFINE new == {x} \X (1..req[x][r])
<1>1. Units(req, users \cup {x}, r) = Units(req, users, r) \cup new
  BY DEF Units
<1>2. Units(req, users, r) \cap new = {}
  BY DEF Units
<1>3. IsFiniteSet(new) /\ Cardinality(new) = req[x][r]
  <2>1. req[x][r] \in Nat
    OBVIOUS
  <2> QED
    BY <2>1, UseOne, Zenon
<1>4. IsFiniteSet(Units(req, users, r))
  BY UnitsFinite
<1>5. Cardinality(Units(req, users, r)) \in Nat /\ req[x][r] \in Nat
  BY <1>4, FS_CardinalityType
<1> HIDE DEF new
<1>6. Cardinality(Units(req, users, r) \cup new) =
        Cardinality(Units(req, users, r)) + Cardinality(new) - Cardinality({})
  BY <1>2, <1>3, <1>4, FS_Union
<1>7. Cardinality(Units(req, users, r) \cup new) =
        Cardinality(Units(req, users, r)) + req[x][r]
  <2>1. Cardinality({}) = 0
    BY FS_EmptySet
  <2> QED
    BY <1>3, <1>5, <1>6, <2>1
<1> QED
  BY <1>1, <1>7 DEF Use

\* A user that leaves takes its requirement away.
LEMMA UseRemove ==
  ASSUME NEW X, NEW users \in SUBSET X, IsFiniteSet(users), NEW R, NEW r \in R,
         NEW req \in [X -> [R -> Nat]], NEW x \in X, x \in users
  PROVE  Use(req, users \ {x}, r) = Use(req, users, r) - req[x][r]
<1>1. users \ {x} \in SUBSET X /\ IsFiniteSet(users \ {x})
  BY FS_RemoveElement
<1>2. (users \ {x}) \cup {x} = users
  OBVIOUS
<1>3. Use(req, (users \ {x}) \cup {x}, r) = Use(req, users \ {x}, r) + req[x][r]
  BY <1>1, UseAdd
<1>4. Use(req, users \ {x}, r) \in Nat /\ req[x][r] \in Nat
  BY <1>1, UseType
<1> DEFINE before == Use(req, users, r)
           after == Use(req, users \ {x}, r)
           amount == req[x][r]
<1>5. before = after + amount
  BY <1>2, <1>3, Zenon
<1>6. after \in Nat /\ amount \in Nat
  BY <1>4
<1> HIDE DEF before, after, amount
<1>7. after = before - amount
  BY <1>5, <1>6
<1> QED
  BY <1>7 DEF before, after, amount

\* Fewer users use no more.
LEMMA UseMonotonic ==
  ASSUME NEW X, NEW users \in SUBSET X, IsFiniteSet(users), NEW R, NEW r \in R,
         NEW req \in [X -> [R -> Nat]], NEW fewer \in SUBSET users
  PROVE  Use(req, fewer, r) <= Use(req, users, r)
<1>1. Units(req, fewer, r) \in SUBSET Units(req, users, r)
  BY DEF Units
<1>2. IsFiniteSet(Units(req, users, r))
  BY UnitsFinite
<1> QED
  BY <1>1, <1>2, FS_Subset DEF Use
-----------------------------------------------------------------------------
\* An account of the resources R holds exactly what its users take.
Balanced(account, req, users, R) ==
    \A r \in R : account[r] = Use(req, users, r)

\* An account that charges a new user with its requirement stays balanced.
LEMMA BalancedTake ==
  ASSUME NEW X, NEW users \in SUBSET X, IsFiniteSet(users), NEW R,
         NEW req \in [X -> [R -> Nat]], NEW account \in [R -> Int],
         Balanced(account, req, users, R), NEW x \in X, x \notin users
  PROVE  Balanced([r \in R |-> account[r] + req[x][r]], req, users \cup {x}, R)
<1>1. ASSUME NEW r \in R
      PROVE  account[r] + req[x][r] = Use(req, users \cup {x}, r)
  <2>1. account[r] = Use(req, users, r)
    BY DEF Balanced
  <2>2. Use(req, users \cup {x}, r) = Use(req, users, r) + req[x][r]
    BY UseAdd
  <2> QED
    BY <2>1, <2>2
<1> QED
  BY <1>1 DEF Balanced

\* An account that gives a user its requirement back stays balanced.
LEMMA BalancedGive ==
  ASSUME NEW X, NEW users \in SUBSET X, IsFiniteSet(users), NEW R,
         NEW req \in [X -> [R -> Nat]], NEW account \in [R -> Int],
         Balanced(account, req, users, R), NEW x \in X, x \in users
  PROVE  Balanced([r \in R |-> account[r] - req[x][r]], req, users \ {x}, R)
<1>1. ASSUME NEW r \in R
      PROVE  account[r] - req[x][r] = Use(req, users \ {x}, r)
  <2>1. account[r] = Use(req, users, r)
    BY DEF Balanced
  <2>2. Use(req, users \ {x}, r) = Use(req, users, r) - req[x][r]
    BY UseRemove
  <2> QED
    BY <2>1, <2>2
<1> QED
  BY <1>1 DEF Balanced

\* A balanced account never goes below zero.
LEMMA BalancedType ==
  ASSUME NEW X, NEW users \in SUBSET X, IsFiniteSet(users), NEW R,
         NEW req \in [X -> [R -> Nat]], NEW account \in [R -> Int],
         Balanced(account, req, users, R)
  PROVE  account \in [R -> Nat]
<1>1. ASSUME NEW r \in R PROVE account[r] \in Nat
  <2>1. Use(req, users, r) \in Nat
    BY UseType
  <2> QED
    BY <2>1 DEF Balanced
<1> QED
  BY <1>1
=============================================================================
