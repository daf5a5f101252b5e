------------------------ MODULE WalletAndListProofs ------------------------
(***************************************************************************)
(* What is added up: the Transaction rows of a wallet, and the prices and  *)
(* payouts of a shopping list, for any number of handlers, payments, items *)
(* and crashes.                                                            *)
(*                                                                         *)
(* Deposits.  IInv is inductive: a handler is on a path of its kind        *)
(* (Fits), a webhook delivery that has recorded its event and not applied  *)
(* it is the only one of its charge (Counted), the ledger of an order and  *)
(* of a bank transfer follows the one handler that works on it (Ordered,   *)
(* Decided), and the date of a vendor has a boost that nobody is about to  *)
(* move, or a handler on its way to make one (Lockstep).  Balanced counts  *)
(* the handlers that are between the two writes of a credit or a debit.    *)
(*                                                                         *)
(* The list.  ListInv is inductive: a total is owed to the list by         *)
(* somebody at work, or in doubt, or right (TotalFollows); the price and   *)
(* the budget that an approval has read are still good, unless a mishap    *)
(* says why not (ShownPrices, BudgetFits); no total, and nothing the       *)
(* sellers have or are about to get, is above what the customer once       *)
(* agreed to (TotalAgreed, PayoutsFit).                                    *)
(***************************************************************************)
EXTENDS WalletDeposits, ShopList, FiniteSetTheorems, WellFoundedInduction, TLAPS

-----------------------------------------------------------------------------
(* Induction over numbers, and over the elements of a finite set, for a    *)
(* set T in place of a predicate: the least number outside of T is neither *)
(* 0 nor one more than a number in T.                                      *)

LEMMA LessWellFounded == IsWellFoundedOn({ss \in Nat \X Nat : ss[1] < ss[2]}, Nat)
BY NatLessThanWellFounded DEF OpToRel

LEMMA Least ==
  ASSUME NEW S \in SUBSET Nat, S # {}
  PROVE  \E m \in S : \A k \in S : m <= k
<1> DEFINE R == {ss \in Nat \X Nat : ss[1] < ss[2]}
<1>1. IsWellFoundedOn(R, Nat)
  BY LessWellFounded
<1>2. \A a, b \in Nat : a < b => <<a, b>> \in R
  OBVIOUS
<1> HIDE DEF R
<1>3. PICK m \in S : \A k \in S : ~(<<k, m>> \in R)
  BY <1>1, WFMin
<1>4. \A k \in S : m <= k
  <2> TAKE k \in S
  <2>1. m \in Nat /\ k \in Nat /\ ~(k < m)
    BY <1>2, <1>3
  <2> QED BY <2>1
<1> QED BY <1>4

LEMMA UpFromZero ==
  ASSUME NEW T, 0 \in T, \A n \in Nat : n \in T => n + 1 \in T
  PROVE  \A n \in Nat : n \in T
<1> DEFINE U == {n \in Nat : n \notin T}
<1>1. CASE U # {}
  <2>1. PICK m \in U : \A k \in U : m <= k
    BY <1>1, Least
  <2>2. m \in Nat /\ m # 0 /\ m \notin T
    OBVIOUS
  <2>3. m - 1 \in Nat /\ m - 1 \notin U
    <3>1. m - 1 \in Nat /\ ~(m <= m - 1)
      BY <2>2
    <3> QED BY <2>1, <3>1
  <2>4. (m - 1) + 1 \in T
    BY <2>3
  <2>5. (m - 1) + 1 = m
    BY <2>2
  <2> QED BY <2>2, <2>4, <2>5
<1> QED BY <1>1

-----------------------------------------------------------------------------
(* The sum of the values of f at the elements of S.  The fold adds up in   *)
(* the order in which CHOOSE takes elements out, by a table that it builds *)
(* over all subsets; the table is unique, so that sums over different sets *)
(* agree where these do, and no order matters in the end (SumGrows).       *)

One(s) == CHOOSE x \in s : TRUE
Body(f, g, s) == IF s = {} THEN 0 ELSE f[One(s)] + g[s \ {One(s)}]
Tabled(f, g, D) == g = [s \in D |-> Body(f, g, s)]
Table(f, S) == CHOOSE g : Tabled(f, g, SUBSET S)

LEMMA SumIs == ASSUME NEW f, NEW S PROVE Sum(f, S) = Table(f, S)[S]
BY DEF Sum, MapThenSumSet, MapThenFoldSet, Table, Tabled, One, Body

LEMMA OneIn == ASSUME NEW s, s # {} PROVE One(s) \in s
BY DEF One

Small(S, n) == {s \in SUBSET S : Cardinality(s) <= n}

LEMMA SmallerBy ==
  ASSUME NEW S, IsFiniteSet(S), NEW s \in SUBSET S, s # {}
  PROVE  /\ IsFiniteSet(s) /\ Cardinality(s) \in Nat
         /\ s \ {One(s)} \in SUBSET S
         /\ Cardinality(s \ {One(s)}) = Cardinality(s) - 1
BY OneIn, FS_Subset, FS_RemoveElement, FS_CardinalityType

LEMMA TableUpTo ==
  ASSUME NEW f, NEW S, IsFiniteSet(S)
  PROVE  \A n \in Nat : \E g : Tabled(f, g, Small(S, n))
<1> DEFINE T == {n \in Nat : \E g : Tabled(f, g, Small(S, n))}
<1>1. 0 \in T
  <2>1. Small(S, 0) = {{}}
    BY FS_EmptySet, FS_Subset, FS_CardinalityType DEF Small
  <2> DEFINE g == [s \in Small(S, 0) |-> 0]
  <2>2. Tabled(f, g, Small(S, 0))
    BY <2>1 DEF Tabled, Body
  <2> QED BY <2>2
<1>2. ASSUME NEW n \in Nat, n \in T PROVE n + 1 \in T
  <2>1. PICK g : g = [s \in Small(S, n) |-> Body(f, g, s)]
    BY <1>2 DEF Tabled
  <2> DEFINE h == [s \in Small(S, n + 1) |-> IF s \in Small(S, n) THEN g[s] ELSE Body(f, g, s)]
  <2>2. ASSUME NEW s \in Small(S, n + 1) PROVE h[s] = Body(f, h, s)
    <3>1. CASE s = {}
      <4>1. s \in Small(S, n)
        BY <3>1, FS_EmptySet DEF Small
      <4> QED BY <2>1, <3>1, <4>1 DEF Body
    <3>2. CASE s # {}
      <4> DEFINE t == s \ {One(s)}
      <4>1. t \in Small(S, n) /\ t \in Small(S, n + 1)
        <5>1. s \in SUBSET S /\ Cardinality(s) <= n + 1
          BY DEF Small
        <5>2. t \in SUBSET S /\ Cardinality(t) = Cardinality(s) - 1 /\ Cardinality(s) \in Nat
          BY <3>2, <5>1, SmallerBy
        <5> HIDE DEF t
        <5>3. Cardinality(t) <= n /\ Cardinality(t) <= n + 1
          BY <5>1, <5>2
        <5> QED BY <5>2, <5>3 DEF Small
      <4>2. h[t] = g[t]
        BY <4>1
      <4>3. Body(f, h, s) = Body(f, g, s)
        BY <3>2, <4>2 DEF Body
      <4>4. h[s] = Body(f, g, s)
        BY <2>1
      <4> QED BY <4>3, <4>4
    <3> QED BY <3>1, <3>2
  <2>3. h = [s \in Small(S, n + 1) |-> Body(f, h, s)]
    BY <2>2
  <2>4. \E k : Tabled(f, k, Small(S, n + 1))
    <3> HIDE DEF h
    <3> QED BY <2>3 DEF Tabled
  <2> QED BY <2>4
<1> HIDE DEF T
<1>3. \A n \in Nat : n \in T
  BY <1>1, <1>2, UpFromZero
<1> QED BY <1>3 DEF T

LEMMA TableIs ==
  ASSUME NEW f, NEW S, IsFiniteSet(S), NEW s \in SUBSET S
  PROVE  Table(f, S)[s] = Body(f, Table(f, S), s)
<1>1. Cardinality(S) \in Nat /\ Small(S, Cardinality(S)) = SUBSET S
  BY FS_CardinalityType, FS_Subset DEF Small
<1>2. \E g : Tabled(f, g, SUBSET S)
  <2>1. \A n \in Nat : \E g : Tabled(f, g, Small(S, n))
    BY TableUpTo
  <2>2. \E g : Tabled(f, g, Small(S, Cardinality(S)))
    BY <1>1, <2>1
  <2> QED BY <1>1, <2>2
<1>3. Tabled(f, Table(f, S), SUBSET S)
  BY <1>2 DEF Table
<1> QED BY <1>3 DEF Tabled

LEMMA TablesAgree ==
  ASSUME NEW f, NEW g, NEW S, IsFiniteSet(S), NEW D \in SUBSET S,
         \A i \in D : f[i] = g[i]
  PROVE  \A s \in SUBSET D : Table(f, S)[s] = Table(g, D)[s]
<1> DEFINE T == {n \in Nat : \A s \in SUBSET D :
                   Cardinality(s) <= n => Table(f, S)[s] = Table(g, D)[s]}
<1>1. IsFiniteSet(D) /\ \A s \in SUBSET D : IsFiniteSet(s) /\ Cardinality(s) \in Nat
  BY FS_Subset, FS_CardinalityType
<1>2. \A s \in SUBSET D : /\ Table(f, S)[s] = Body(f, Table(f, S), s)
                          /\ Table(g, D)[s] = Body(g, Table(g, D), s)
  BY <1>1, TableIs
<1>3. 0 \in T
  <2> SUFFICES ASSUME NEW s \in SUBSET D, Cardinality(s) <= 0
               PROVE  Table(f, S)[s] = Table(g, D)[s]
    OBVIOUS
  <2>1. s = {}
    BY <1>1, FS_EmptySet
  <2> QED BY <1>2, <2>1 DEF Body
<1>4. ASSUME NEW n \in Nat, n \in T PROVE n + 1 \in T
  <2> SUFFICES ASSUME NEW s \in SUBSET D, Cardinality(s) <= n + 1
               PROVE  Table(f, S)[s] = Table(g, D)[s]
    OBVIOUS
  <2>1. CASE s = {}
    BY <1>2, <2>1 DEF Body
  <2>2. CASE s # {}
    <3> DEFINE t == s \ {One(s)}
    <3>1. t \in SUBSET D /\ Cardinality(t) = Cardinality(s) - 1 /\ Cardinality(s) \in Nat
      BY <1>1, <2>2, SmallerBy
    <3>2. One(s) \in D
      BY <2>2, OneIn
    <3>3. Cardinality(t) <= n
      BY <3>1
    <3>4. Table(f, S)[t] = Table(g, D)[t]
      BY <1>4, <3>1, <3>3
    <3> QED BY <1>2, <2>2, <3>2, <3>4 DEF Body
  <2> QED BY <2>1, <2>2
<1> HIDE DEF T
<1>5. \A n \in Nat : n \in T
  BY <1>3, <1>4, UpFromZero
<1>6. ASSUME NEW s \in SUBSET D PROVE Table(f, S)[s] = Table(g, D)[s]
  <2> DEFINE n == Cardinality(s)
  <2>1. n \in Nat /\ n <= n
    BY <1>1
  <2>2. n \in T
    BY <1>5, <2>1
  <2> QED BY <2>1, <2>2 DEF T
<1> QED BY <1>6

\* Only the values at the elements count.
LEMMA SumSame ==
  ASSUME NEW f, NEW g, NEW S, IsFiniteSet(S), \A i \in S : f[i] = g[i]
  PROVE  Sum(f, S) = Sum(g, S)
BY TablesAgree, SumIs

LEMMA SumEmpty == ASSUME NEW f PROVE Sum(f, {}) = 0
BY TableIs, SumIs, FS_EmptySet DEF Body

LEMMA SumOne ==
  ASSUME NEW f, NEW S, IsFiniteSet(S), S # {}
  PROVE  Sum(f, S) = f[One(S)] + Sum(f, S \ {One(S)})
<1> DEFINE D == S \ {One(S)}
<1>1. Table(f, S)[D] = Table(f, D)[D]
  BY TablesAgree
<1>2. Table(f, S)[S] = f[One(S)] + Table(f, S)[D]
  BY TableIs DEF Body
<1> QED BY <1>1, <1>2, SumIs

\* A sum is an integer, and one more element adds its value.
LEMMA SumGrows ==
  ASSUME NEW f, NEW D, IsFiniteSet(D), \A i \in D : f[i] \in Int
  PROVE  \A s \in SUBSET D : /\ Sum(f, s) \in Int
                             /\ \A y \in D \ s : Sum(f, s \cup {y}) = Sum(f, s) + f[y]
<1> DEFINE Good(s) == /\ Sum(f, s) \in Int
                      /\ \A y \in D \ s : Sum(f, s \cup {y}) = Sum(f, s) + f[y]
           T == {n \in Nat : \A s \in SUBSET D : Cardinality(s) = n => Good(s)}
<1>1. \A s \in SUBSET D : IsFiniteSet(s) /\ Cardinality(s) \in Nat
  BY FS_Subset, FS_CardinalityType
<1>2. 0 \in T
  <2> SUFFICES ASSUME NEW s \in SUBSET D, Cardinality(s) = 0 PROVE Good(s)
    OBVIOUS
  <2>1. s = {} /\ Sum(f, s) = 0
    BY <1>1, FS_EmptySet, SumEmpty
  <2>2. ASSUME NEW y \in D \ s PROVE Sum(f, s \cup {y}) = Sum(f, s) + f[y]
    <3>1. IsFiniteSet({y}) /\ {y} # {} /\ One({y}) = y /\ {y} \ {One({y})} = {}
      <4>1. {y} # {}
        OBVIOUS
      <4>2. One({y}) \in {y}
        BY <4>1, OneIn
      <4> QED BY <4>2, FS_Singleton
    <3>2. Sum(f, {y}) = f[y] + Sum(f, {})
      BY <3>1, SumOne
    <3>3. s \cup {y} = {y} /\ f[y] \in Int
      BY <2>1
    <3> QED BY <2>1, <3>2, <3>3
  <2> QED BY <2>1, <2>2
<1>3. ASSUME NEW n \in Nat, n \in T PROVE n + 1 \in T
  <2> SUFFICES ASSUME NEW s \in SUBSET D, Cardinality(s) = n + 1 PROVE Good(s)
    OBVIOUS
  <2>1. ASSUME NEW x \in s
        PROVE  /\ s \ {x} \in SUBSET D /\ Good(s \ {x}) /\ (s \ {x}) \cup {x} = s
               /\ Sum(f, s) = Sum(f, s \ {x}) + f[x] /\ x \in D
    <3>1. /\ s \ {x} \in SUBSET D /\ Cardinality(s \ {x}) = n /\ (s \ {x}) \cup {x} = s
          /\ x \in D \ (s \ {x})
      <4>1. Cardinality(s \ {x}) = Cardinality(s) - 1
        BY <1>1, <2>1, FS_RemoveElement
      <4> QED BY <2>1, <4>1
    <3>2. Good(s \ {x})
      BY <1>3, <3>1
    <3> QED BY <3>1, <3>2
  <2>2. Sum(f, s) \in Int
    <3>1. s # {}
      BY FS_EmptySet
    <3>2. PICK x \in s : TRUE
      BY <3>1
    <3>3. Sum(f, s) = Sum(f, s \ {x}) + f[x] /\ Sum(f, s \ {x}) \in Int /\ x \in D
      BY <2>1
    <3> QED BY <3>3
  <2>3. ASSUME NEW y \in D \ s PROVE Sum(f, s \cup {y}) = Sum(f, s) + f[y]
    <3> DEFINE u == s \cup {y}
               p == One(u)
    <3>1. u # {} /\ IsFiniteSet(u) /\ u \in SUBSET D /\ p \in u
      BY <1>1, OneIn
    <3>2. Sum(f, u) = f[p] + Sum(f, u \ {p})
      BY <3>1, SumOne
    <3>3. f[y] \in Int /\ f[p] \in Int
      BY <3>1
    <3> HIDE DEF p
    <3>4. CASE p = y
      <4>1. u \ {p} = s
        <5>1. y \notin s
          OBVIOUS
        <5> QED BY <3>4, <5>1
      <4> HIDE DEF u
      <4>2. Sum(f, u) = f[y] + Sum(f, s)
        BY <3>2, <3>4, <4>1
      <4>3. Sum(f, u) = Sum(f, s) + f[y]
        BY <2>2, <3>3, <4>2
      <4> QED BY <4>3 DEF u
    <3>5. CASE p # y
      <4>1. p \in s /\ u \ {p} = (s \ {p}) \cup {y} /\ y \in D \ (s \ {p})
        BY <3>1, <3>5
      <4>2. /\ Sum(f, (s \ {p}) \cup {y}) = Sum(f, s \ {p}) + f[y]
            /\ Sum(f, s) = Sum(f, s \ {p}) + f[p]
            /\ Sum(f, s \ {p}) \in Int
        BY <2>1, <4>1
      <4>3. Sum(f, u) = f[p] + (Sum(f, s \ {p}) + f[y])
        BY <3>2, <4>1, <4>2
      <4> HIDE DEF u
      <4>4. Sum(f, u) = Sum(f, s) + f[y]
        BY <3>3, <4>2, <4>3
      <4> QED BY <4>4 DEF u
    <3> QED BY <3>4, <3>5
  <2> QED BY <2>2, <2>3
<1> HIDE DEF T
<1>4. \A n \in Nat : n \in T
  BY <1>2, <1>3, UpFromZero
<1>5. ASSUME NEW s \in SUBSET D PROVE Good(s)
  <2> DEFINE n == Cardinality(s)
  <2>1. n \in Nat /\ n \in T
    BY <1>1, <1>4
  <2> QED BY <2>1 DEF T
<1> QED BY <1>5

LEMMA ByElements ==
  ASSUME NEW S, IsFiniteSet(S), NEW T, {} \in T,
         \A s \in SUBSET S : \A x \in S \ s : s \in T => s \cup {x} \in T
  PROVE  S \in T
<1> DEFINE N == {n \in Nat : \A s \in SUBSET S : Cardinality(s) = n => s \in T}
<1>1. \A s \in SUBSET S : IsFiniteSet(s) /\ Cardinality(s) \in Nat
  BY FS_Subset, FS_CardinalityType
<1>2. 0 \in N
  BY <1>1, FS_EmptySet
<1>3. ASSUME NEW n \in Nat, n \in N PROVE n + 1 \in N
  <2> SUFFICES ASSUME NEW s \in SUBSET S, Cardinality(s) = n + 1 PROVE s \in T
    OBVIOUS
  <2>1. s # {}
    <3>1. Cardinality({}) = 0
      BY FS_EmptySet
    <3> QED BY <3>1
  <2>2. PICK x \in s : TRUE
    BY <2>1
  <2>3. Cardinality(s \ {x}) = Cardinality(s) - 1
    BY <1>1, <2>2, FS_RemoveElement
  <2>4. s \ {x} \in SUBSET S /\ s \ {x} \in T
    BY <1>3, <2>3
  <2>5. (s \ {x}) \cup {x} = s /\ x \in S \ (s \ {x})
    BY <2>2
  <2>6. (s \ {x}) \cup {x} \in T
    BY <2>4, <2>5
  <2> QED BY <2>5, <2>6
<1> HIDE DEF N
<1>4. \A n \in Nat : n \in N
  BY <1>2, <1>3, UpFromZero
<1>5. Cardinality(S) \in Nat /\ Cardinality(S) \in N
  BY <1>1, <1>4
<1> QED BY <1>5 DEF N

LEMMA SumInt ==
  ASSUME NEW f, NEW S, IsFiniteSet(S), \A i \in S : f[i] \in Int
  PROVE  Sum(f, S) \in Int
BY SumGrows

LEMMA SumWith ==
  ASSUME NEW f, NEW S, IsFiniteSet(S), \A i \in S : f[i] \in Int, NEW x, f[x] \in Int, x \notin S
  PROVE  Sum(f, S \cup {x}) = Sum(f, S) + f[x]
<1> DEFINE D == S \cup {x}
<1>1. IsFiniteSet(D)
  BY FS_AddElement
<1>2. \A i \in D : f[i] \in Int
  OBVIOUS
<1>3. S \in SUBSET D /\ x \in D \ S
  OBVIOUS
<1> HIDE DEF D
<1>4. Sum(f, S \cup {x}) = Sum(f, S) + f[x]
  BY <1>1, <1>2, <1>3, SumGrows
<1> QED BY <1>4

LEMMA SumWithout ==
  ASSUME NEW f, NEW S, IsFiniteSet(S), \A i \in S : f[i] \in Int, NEW x \in S
  PROVE  Sum(f, S) = Sum(f, S \ {x}) + f[x] /\ Sum(f, S \ {x}) \in Int
<1> DEFINE R == S \ {x}
<1>1. IsFiniteSet(R) /\ x \notin R /\ S = R \cup {x}
  BY FS_RemoveElement
<1>2. \A i \in R : f[i] \in Int
  OBVIOUS
<1> HIDE DEF R
<1>3. Sum(f, R \cup {x}) = Sum(f, R) + f[x]
  BY <1>1, <1>2, SumWith
<1>4. Sum(f, R) \in Int
  BY <1>1, <1>2, SumInt
<1> QED BY <1>1, <1>3, <1>4 DEF R

\* Values that are no larger add up to no more.
LEMMA SumAtMost ==
  ASSUME NEW f, NEW g, NEW S, IsFiniteSet(S),
         \A i \in S : f[i] \in Int /\ g[i] \in Int /\ f[i] <= g[i]
  PROVE  Sum(f, S) <= Sum(g, S)
<1> DEFINE T == {s \in SUBSET S : Sum(f, s) <= Sum(g, s)}
<1>1. {} \in T
  BY SumEmpty
<1>2. ASSUME NEW s \in SUBSET S, NEW x \in S \ s, s \in T PROVE s \cup {x} \in T
  <2>1. IsFiniteSet(s)
    BY FS_Subset
  <2>2. /\ Sum(f, s) \in Int /\ Sum(g, s) \in Int
        /\ Sum(f, s \cup {x}) = Sum(f, s) + f[x]
        /\ Sum(g, s \cup {x}) = Sum(g, s) + g[x]
    BY <2>1, SumInt, SumWith
  <2>3. f[x] \in Int /\ g[x] \in Int /\ f[x] <= g[x] /\ Sum(f, s) <= Sum(g, s)
    BY <1>2
  <2>4. Sum(f, s \cup {x}) <= Sum(g, s \cup {x})
    BY <2>2, <2>3
  <2> QED BY <2>4
<1> HIDE DEF T
<1>3. S \in T
  BY <1>1, <1>2, ByElements
<1> QED BY <1>3 DEF T

LEMMA SumNat ==
  ASSUME NEW f, NEW S, IsFiniteSet(S), \A i \in S : f[i] \in Nat
  PROVE  Sum(f, S) \in Nat
<1> DEFINE T == {s \in SUBSET S : Sum(f, s) \in Nat}
<1>1. {} \in T
  BY SumEmpty
<1>2. ASSUME NEW s \in SUBSET S, NEW x \in S \ s, s \in T PROVE s \cup {x} \in T
  <2>1. IsFiniteSet(s)
    BY FS_Subset
  <2>2. Sum(f, s \cup {x}) = Sum(f, s) + f[x]
    BY <2>1, SumWith
  <2>3. f[x] \in Nat /\ Sum(f, s) \in Nat
    BY <1>2
  <2>4. Sum(f, s \cup {x}) \in Nat
    BY <2>2, <2>3
  <2> QED BY <2>4
<1> HIDE DEF T
<1>3. S \in T
  BY <1>1, <1>2, ByElements
<1> QED BY <1>3 DEF T

\* One value changes.
LEMMA SumChanges ==
  ASSUME NEW f, NEW g, NEW S, IsFiniteSet(S), NEW x \in S,
         \A i \in S : f[i] \in Int /\ g[i] \in Int,
         \A i \in S \ {x} : g[i] = f[i]
  PROVE  Sum(g, S) = Sum(f, S) - f[x] + g[x]
<1> DEFINE R == S \ {x}
<1>1. /\ Sum(f, S) = Sum(f, R) + f[x] /\ Sum(f, R) \in Int
      /\ Sum(g, S) = Sum(g, R) + g[x] /\ Sum(g, R) \in Int
  BY SumWithout
<1>2. Sum(f, R) = Sum(g, R)
  BY FS_RemoveElement, SumSame
<1> HIDE DEF R
<1>3. f[x] \in Int /\ g[x] \in Int
  OBVIOUS
<1> QED BY <1>1, <1>2, <1>3

LEMMA LeqTrans ==
  ASSUME NEW a \in Int, NEW b \in Int, NEW c \in Int, a <= b, b <= c PROVE a <= c
OBVIOUS

LEMMA LeqPlus ==
  ASSUME NEW a \in Int, NEW b \in Int, NEW c \in Int, a <= b PROVE a + c <= b + c
OBVIOUS

LEMMA LeqMore == ASSUME NEW a \in Int, NEW n \in Nat PROVE a <= a + n
OBVIOUS

-----------------------------------------------------------------------------
(* Deposits and boosts.                                                    *)

\* What a handler works on, and its steps.
ApplySteps == {"start", "credit", "row", "feature", "boost"}
Placed(k, x, s) ==
  \/ k = "verify" /\ x \in Charges /\ s \in ApplySteps
  \/ k = "webhook" /\ x \in Charges /\ s \in ApplySteps \cup {"record"}
  \/ k = "confirm" /\ x \in Requests /\ s \in ApplySteps \cup {"confirmed"}
  \/ k = "reject" /\ x \in Requests /\ s \in {"start", "rejected"}
  \/ k = "wallet" /\ x \in Orders
     /\ s \in {"start", "debit", "debited", "feature", "boost"}
  \/ k = "grant" /\ x \in Orders /\ s \in {"credit", "row"}
  \/ k = "deduct" /\ x \in Orders /\ s \in {"start", "debit", "debited"}
  \/ k = "extend" /\ x = NoReference /\ s \in {"end", "vendor"}
  \/ k = "edit" /\ x = NoReference /\ s = "end"

FitsRow(row) ==
  /\ Placed(row.kind, row.ref, row.at)
  /\ row.kind \in {"extend", "edit"} => row.nth \in 1 .. Len(boosts) /\ row.until \in Dates
  /\ row.kind \notin {"extend", "edit"} => row.nth = 0
  /\ row.at = "boost" => row.until = PlanOf[row.ref]

Fits == \A r \in Runs : run[r] = Idle \/ FitsRow(run[r])

\* A webhook delivery between its event row and the payment.
Late(r, c) ==
  run[r].kind = "webhook" /\ run[r].ref = c /\ run[r].at \in {"credit", "feature"}

Counted ==
  /\ \A c \in Charges :
       c \notin event => byWebhook[c] = 0 /\ \A r \in Runs : ~Late(r, c)
  /\ \A c \in Charges, r \in Runs : Late(r, c) =>
       byWebhook[c] = 0 /\ \A q \in Runs : Late(q, c) => q = r

OrderedAt(o) ==
  /\ \A r, q \in Runs : run[r].ref = o /\ run[q].ref = o => r = q
  /\ purpose[o] = "none" =>
       log[o] = 0 /\ given[o] = 0 /\ \A r \in Runs : run[r].ref # o
  /\ \A r \in Runs : run[r].ref = o =>
       (run[r].kind = "wallet" <=> purpose[o] = "FEATURE_BOOST_PAYMENT")
  /\ purpose[o] = "FEATURE_BOOST_PAYMENT" /\ o \notin shaken =>
       \/ /\ log[o] + given[o] = 0
          /\ \A r \in Runs : run[r].ref = o => run[r].at \notin {"feature", "boost"}
       \/ /\ log[o] + given[o] = -1
          /\ \E r \in Runs : run[r].ref = o /\ run[r].at \in {"feature", "boost"}

Ordered == \A o \in Orders : OrderedAt(o)

DecidedAt(m) ==
  /\ \A r, q \in Runs : run[r].ref = m /\ run[q].ref = m => r = q
  /\ \A r \in Runs : run[r].ref = m /\ run[r].at # "start" => request[m] = "PENDING"
  /\ \/ /\ AppliedTimes(m) = 0
        /\ request[m] # "CONFIRMED"
        /\ \A r \in Runs : run[r].ref = m => run[r].at # "confirmed"
     \/ /\ AppliedTimes(m) = 1
        /\ request[m] \in {"CONFIRMED", "PENDING"}
        /\ request[m] = "PENDING" =>
             \E r \in Runs : run[r].ref = m /\ run[r].at = "confirmed"

Decided == \A m \in Requests \ shaken : DecidedAt(m)

\* An edit that will not move the vendor's date with the boost's.
Apart(r) == run[r].kind = "edit" /\ run[r].at = "end"

Lockstep ==
  ~torn =>
    /\ \A r, q \in Runs : run[r].nth # 0 /\ run[r].nth = run[q].nth => r = q
    /\ \A r \in Runs : run[r].at = "vendor" => boosts[run[r].nth] = run[r].until
    /\ \/ featured = 0
       \/ \E r \in Runs : run[r].at = "vendor"
       \/ \E r \in Runs : run[r].at = "boost" /\ run[r].until = featured
       \/ \E n \in 1 .. Len(boosts) : boosts[n] = featured
            /\ \A r \in Runs : Apart(r) => run[r].nth # n

IInv ==
  /\ TypeOK /\ Fits /\ Counted /\ Ordered /\ Decided /\ Lockstep
  /\ WebhookCreditsOnce

\* The handler of a row, as it may be.
RunRow == [kind : Kinds, ref : References \cup {NoReference}, at : Steps,
           until : Ends \cup {0}, nth : 0 .. Len(boosts)]

LEMMA IdleType == ASSUME boosts \in Seq(Ends) PROVE Idle \in RunRow
<1>1. Len(boosts) \in Nat
  OBVIOUS
<1> QED BY <1>1 DEF Idle, RunRow, Kinds, Steps

LEMMA PlanEnds == \A ref \in References : PlanOf[ref] \in Ends
BY PlanAssumption DEF References, Ends, Range

LEMMA EndsAreNat == Ends \subseteq Nat \ {0}
BY PlanAssumption, DepositAssumption DEF Ends, Range, References

LEMMA InitIInv == Init => IInv
<1> SUFFICES ASSUME Init PROVE IInv
  OBVIOUS
<1>1. boosts = <<>> /\ Len(boosts) = 0 /\ boosts \in Seq(Ends)
  BY DEF Init
<1>2. run \in [Runs -> RunRow]
  BY <1>1, IdleType DEF Init
<1>3. edits \in 0 .. MaxEdits /\ crashes \in 0 .. MaxCrashes
  BY DepositAssumption DEF Init
<1>4. TypeOK
  <2>1. run \in [Runs -> [kind : Kinds, ref : References \cup {NoReference}, at : Steps,
                          until : Ends \cup {0}, nth : 0 .. Len(boosts)]]
    BY <1>2 DEF RunRow
  <2>2. log \in [References -> Int] /\ given \in [References -> Nat]
    BY DEF Init
  <2>3. /\ charge \in [Charges -> {"none", "started", "collected"}]
        /\ request \in [Requests -> {"NONE", "PENDING", "CONFIRMED", "REJECTED"}]
        /\ purpose \in [References -> Purposes \cup {"none"}]
        /\ byWebhook \in [Charges -> Nat]
    BY DEF Init
  <2>4. event \subseteq Charges /\ shaken \subseteq Requests \cup Orders
    BY DEF Init
  <2>5. balance \in Int /\ unlogged \in Int
    BY DEF Init
  <2>6. featured \in Ends \cup {0} /\ torn \in BOOLEAN
    BY DEF Init
  <2> QED BY <1>1, <1>3, <2>1, <2>2, <2>3, <2>4, <2>5, <2>6 DEF TypeOK
<1>5. Fits
  BY DEF Init, Fits
<1>6. Counted /\ WebhookCreditsOnce
  BY DEF Init, Counted, Late, Idle, WebhookCreditsOnce
<1>7. Ordered
  BY NoReferenceAssumption DEF Init, Ordered, OrderedAt, Idle, References
<1>8. Decided
  BY NoReferenceAssumption DEF Init, Decided, DecidedAt, Idle, References, AppliedTimes
<1>9. Lockstep
  BY DEF Init, Lockstep, Idle
<1> QED BY <1>4, <1>5, <1>6, <1>7, <1>8, <1>9 DEF IInv

-----------------------------------------------------------------------------
(* What a step leaves alone.                                               *)

LEMMA CountedKept ==
  ASSUME IInv, UNCHANGED <<event, byWebhook>>,
         NEW r \in Runs, \A q \in Runs \ {r} : run'[q] = run[q],
         \A c \in Charges : Late(r, c)' => Late(r, c)
  PROVE  (Counted /\ WebhookCreditsOnce)'
BY DEF IInv, Counted, Late, WebhookCreditsOnce

LEMMA OrderedKept ==
  ASSUME IInv, NEW r \in Runs, \A q \in Runs \ {r} : run'[q] = run[q],
         run[r].ref \notin Orders, run'[r].ref \notin Orders,
         \A o \in Orders : /\ purpose'[o] = purpose[o] /\ log'[o] = log[o]
                           /\ given'[o] = given[o] /\ (o \in shaken => o \in shaken')
  PROVE  Ordered'
BY DEF IInv, Ordered, OrderedAt

LEMMA DecidedKept ==
  ASSUME IInv, NEW r \in Runs, \A q \in Runs \ {r} : run'[q] = run[q],
         run[r].ref \notin Requests, run'[r].ref \notin Requests,
         \A m \in Requests : /\ request'[m] = request[m] /\ log'[m] = log[m]
                             /\ given'[m] = given[m] /\ (m \in shaken => m \in shaken')
  PROVE  Decided'
BY DEF IInv, Decided, DecidedAt, AppliedTimes

LEMMA LockstepKept ==
  ASSUME IInv, UNCHANGED <<boosts, featured, torn>>,
         NEW r \in Runs, \A q \in Runs \ {r} : run'[q] = run[q],
         run[r].at \notin {"boost", "end", "vendor"}, run[r].nth = 0,
         run'[r].at \notin {"boost", "end", "vendor"}, run'[r].nth = 0
  PROVE  Lockstep'
BY DEF IInv, Lockstep, Apart

\* A handler that is not idle, and one that others leave alone.
LEMMA Busy == ASSUME IInv, NEW r \in Runs, run[r].at # "idle" PROVE FitsRow(run[r])
<1>1. Idle.at = "idle"
  BY DEF Idle
<1> QED BY <1>1 DEF IInv, Fits

LEMMA FitsKept ==
  ASSUME IInv, NEW r \in Runs, \A q \in Runs \ {r} : run'[q] = run[q],
         Len(boosts) \in Nat, Len(boosts') \in Nat, Len(boosts') >= Len(boosts),
         run'[r] = Idle \/ FitsRow(run[r])'
  PROVE  Fits'
<1>1. ASSUME NEW q \in Runs \ {r} PROVE run'[q] = Idle \/ FitsRow(run[q])'
  <2>1. run[q] = Idle \/ FitsRow(run[q])
    BY DEF IInv, Fits
  <2>2. FitsRow(run[q]) => FitsRow(run[q])'
    BY DEF FitsRow
  <2> QED BY <2>1, <2>2
<1> QED BY <1>1 DEF Fits

LEMMA LenType == ASSUME IInv PROVE Len(boosts) \in Nat
BY DEF IInv, TypeOK

LEMMA RunType ==
  ASSUME IInv, UNCHANGED boosts, NEW r \in Runs, NEW row \in RunRow,
         run' = [run EXCEPT ![r] = row]
  PROVE  run' \in [Runs -> RunRow']
<1>1. RunRow' = RunRow
  BY DEF RunRow
<1>2. run \in [Runs -> RunRow]
  BY DEF IInv, TypeOK, RunRow
<1> QED BY <1>1, <1>2

LEMMA GotoType ==
  ASSUME IInv, UNCHANGED boosts, NEW r \in Runs, NEW step \in Steps,
         Goto(r, step) \/ End(r)
  PROVE  run' \in [Runs -> RunRow']
<1>1. Idle \in RunRow
  BY IdleType DEF IInv, TypeOK
<1>2. [run[r] EXCEPT !.at = step] \in RunRow
  BY DEF IInv, TypeOK, RunRow
<1>3. run' = [run EXCEPT ![r] = [run[r] EXCEPT !.at = step]] \/ run' = [run EXCEPT ![r] = Idle]
  BY DEF IInv, TypeOK, Goto, End
<1> QED BY <1>1, <1>2, <1>3, RunType

-----------------------------------------------------------------------------
(* Requests.                                                               *)

LEMMA InitializeChargeInv ==
  ASSUME IInv, NEW c \in Charges, NEW for \in Purposes, InitializeCharge(c, for)
  PROVE  IInv'
<1> USE DEF rows, money, boost, history
<1>1. TypeOK'
  BY DEF IInv, TypeOK, InitializeCharge, References
<1>2. Fits'
  BY DEF IInv, Fits, FitsRow, InitializeCharge
<1>3. (Counted /\ WebhookCreditsOnce)'
  BY DEF IInv, Counted, Late, WebhookCreditsOnce, InitializeCharge
<1>4. Ordered'
  BY DepositAssumption DEF IInv, TypeOK, Ordered, OrderedAt, InitializeCharge, References
<1>5. Decided'
  BY DEF IInv, Decided, DecidedAt, AppliedTimes, InitializeCharge
<1>6. Lockstep'
  BY DEF IInv, Lockstep, Apart, InitializeCharge
<1> QED BY <1>1, <1>2, <1>3, <1>4, <1>5, <1>6 DEF IInv

LEMMA CustomerPaysChargeInv ==
  ASSUME IInv, NEW c \in Charges, CustomerPaysCharge(c) PROVE IInv'
<1> USE DEF rows, money, boost, history
<1>1. TypeOK'
  BY DEF IInv, TypeOK, CustomerPaysCharge
<1>2. Fits'
  BY DEF IInv, Fits, FitsRow, CustomerPaysCharge
<1>3. (Counted /\ WebhookCreditsOnce)'
  BY DEF IInv, Counted, Late, WebhookCreditsOnce, CustomerPaysCharge
<1>4. (Ordered /\ Decided)'
  BY DEF IInv, Ordered, OrderedAt, Decided, DecidedAt, AppliedTimes, CustomerPaysCharge
<1>5. Lockstep'
  BY DEF IInv, Lockstep, Apart, CustomerPaysCharge
<1> QED BY <1>1, <1>2, <1>3, <1>4, <1>5 DEF IInv

LEMMA CreateRequestInv ==
  ASSUME IInv, NEW m \in Requests, NEW for \in Purposes, CreateRequest(m, for)
  PROVE  IInv'
<1> USE DEF money, boost, history
<1>1. TypeOK'
  BY DEF IInv, TypeOK, CreateRequest, References
<1>2. Fits'
  BY DEF IInv, Fits, FitsRow, CreateRequest
<1>3. (Counted /\ WebhookCreditsOnce)'
  BY DEF IInv, Counted, Late, WebhookCreditsOnce, CreateRequest
<1>4. Ordered'
  BY DepositAssumption DEF IInv, TypeOK, Ordered, OrderedAt, CreateRequest, References
<1>5. Decided'
  <2>1. request[m] = "NONE" /\ request' = [request EXCEPT ![m] = "PENDING"]
        /\ UNCHANGED <<log, given, run, shaken>>
    BY DEF CreateRequest
  <2>2. \A n \in Requests : n # m => request'[n] = request[n]
    BY <2>1 DEF IInv, TypeOK
  <2>3. request'[m] = "PENDING"
    BY <2>1 DEF IInv, TypeOK
  <2>4. ASSUME NEW n \in Requests \ shaken PROVE DecidedAt(n)'
    <3>1. DecidedAt(n)
      BY DEF IInv, Decided
    <3>2. AppliedTimes(n)' = AppliedTimes(n)
      BY <2>1 DEF AppliedTimes
    <3>3. CASE n = m
      BY <2>1, <2>3, <3>1, <3>2, <3>3 DEF DecidedAt
    <3>4. CASE n # m
      BY <2>1, <2>2, <3>1, <3>2, <3>4 DEF DecidedAt
    <3> QED BY <3>3, <3>4
  <2> QED BY <2>1, <2>4 DEF Decided
<1>6. Lockstep'
  BY DEF IInv, Lockstep, Apart, CreateRequest
<1> QED BY <1>1, <1>2, <1>3, <1>4, <1>5, <1>6 DEF IInv

LEMMA BeginInv ==
  ASSUME IInv, NEW r \in Runs, NEW k, NEW x, Begin(r, k, x),
         \/ k \in {"verify", "webhook"} /\ x \in Charges
         \/ k \in {"confirm", "reject"} /\ x \in Requests
  PROVE  IInv'
<1> DEFINE row == [Idle EXCEPT !.kind = k, !.ref = x, !.at = "start"]
<1>1. /\ run' = [run EXCEPT ![r] = row] /\ run[r] = Idle
      /\ x \in Charges \cup Requests
      /\ UNCHANGED <<charge, purpose, request, event, balance, log, given, boosts, featured,
                     byWebhook, unlogged, torn, edits, crashes>>
  BY DEF Begin, rows, money, boost
<1>0. row = [Idle EXCEPT !.kind = k, !.ref = x, !.at = "start"]
  OBVIOUS
<1> HIDE DEF row
<1>2. /\ row \in RunRow
      /\ row.kind = k /\ row.ref = x /\ row.at = "start" /\ row.nth = 0
      /\ run[r].at = "idle" /\ run[r].ref = NoReference /\ run[r].nth = 0
  <2>1. k \in Kinds /\ x \in References /\ "start" \in Steps
    BY <1>1 DEF Kinds, References, Steps
  <2>2. row \in RunRow
    <3>1. Idle \in RunRow
      BY IdleType DEF IInv, TypeOK
    <3> QED BY <1>0, <2>1, <3>1 DEF RunRow
  <2>3. row.kind = k /\ row.ref = x /\ row.at = "start" /\ row.nth = 0
    BY <1>0 DEF Idle
  <2>4. run[r].at = "idle" /\ run[r].ref = NoReference /\ run[r].nth = 0
    BY <1>1 DEF Idle
  <2> QED BY <2>2, <2>3, <2>4
<1>3. run'[r] = row /\ \A q \in Runs \ {r} : run'[q] = run[q]
  BY <1>1 DEF IInv, TypeOK
<1>4. shaken \subseteq shaken' /\ shaken' \subseteq shaken \cup ({x} \ Charges)
  BY DEF Begin
<1>5. TypeOK'
  <2>1. run' \in [Runs -> RunRow']
    BY <1>1, <1>2, RunType
  <2> QED BY <1>1, <1>4, <2>1 DEF IInv, TypeOK, RunRow
<1>6. Fits'
  <2>1. FitsRow(run[r])'
    BY <1>1, <1>2, <1>3 DEF FitsRow, Placed, ApplySteps
  <2> QED BY <1>1, <1>3, <2>1, FitsKept, LenType
<1>7. (Counted /\ WebhookCreditsOnce)'
  BY <1>1, <1>2, <1>3, CountedKept DEF Late
<1>8. Ordered'
  BY <1>1, <1>2, <1>3, <1>4, OrderedKept, NoReferenceAssumption, DepositAssumption
     DEF References
<1>9. Decided'
  <2>1. CASE x \in Charges
    BY <1>1, <1>2, <1>3, <1>4, <2>1, DecidedKept, NoReferenceAssumption, DepositAssumption
       DEF References
  <2>2. CASE x \in Requests
    <3>1. Working(x) # {} => x \in shaken'
      BY <2>2, DepositAssumption DEF Begin
    <3> QED BY <1>1, <1>2, <1>3, <1>4, <2>2, <3>1, NoReferenceAssumption
            DEF IInv, Decided, DecidedAt, AppliedTimes, Working, References
  <2> QED BY <1>1, <2>1, <2>2
<1>10. Lockstep'
  BY <1>1, <1>2, <1>3, LockstepKept
<1> QED BY <1>5, <1>6, <1>7, <1>8, <1>9, <1>10 DEF IInv

LEMMA OrderInv ==
  ASSUME IInv, NEW r \in Runs, NEW o \in Orders, NEW k, NEW for, NEW step,
         Order(r, o, k, for, step),
         \/ k = "wallet" /\ for = "FEATURE_BOOST_PAYMENT" /\ step = "start"
         \/ k = "grant" /\ for = "WALLET_DEPOSIT" /\ step = "credit"
         \/ k = "deduct" /\ for = "WALLET_DEPOSIT" /\ step = "start"
  PROVE  IInv'
<1> DEFINE row == [Idle EXCEPT !.kind = k, !.ref = o, !.at = step]
<1>1. /\ run' = [run EXCEPT ![r] = row] /\ run[r] = Idle
      /\ purpose[o] = "none" /\ purpose' = [purpose EXCEPT ![o] = for]
      /\ UNCHANGED <<charge, request, event, balance, log, given, boosts, featured,
                     byWebhook, shaken, unlogged, torn, edits, crashes>>
  BY DEF Order, rows, money, boost, history
<1>0. row = [Idle EXCEPT !.kind = k, !.ref = o, !.at = step]
  OBVIOUS
<1> HIDE DEF row
<1>2. /\ row \in RunRow
      /\ row.kind = k /\ row.ref = o /\ row.at = step /\ row.nth = 0
      /\ run[r].at = "idle" /\ run[r].ref = NoReference /\ run[r].nth = 0
  <2>1. k \in Kinds /\ o \in References /\ step \in Steps
    BY DEF Kinds, References, Steps
  <2>2. row \in RunRow
    <3>1. Idle \in RunRow
      BY IdleType DEF IInv, TypeOK
    <3> QED BY <1>0, <2>1, <3>1 DEF RunRow
  <2>3. row.kind = k /\ row.ref = o /\ row.at = step /\ row.nth = 0
    BY <1>0 DEF Idle
  <2>4. run[r].at = "idle" /\ run[r].ref = NoReference /\ run[r].nth = 0
    BY <1>1 DEF Idle
  <2> QED BY <2>2, <2>3, <2>4
<1>3. run'[r] = row /\ \A q \in Runs \ {r} : run'[q] = run[q]
  BY <1>1 DEF IInv, TypeOK
<1>4. TypeOK'
  <2>1. run' \in [Runs -> RunRow']
    BY <1>1, <1>2, RunType
  <2> QED BY <1>1, <2>1 DEF IInv, TypeOK, RunRow, Purposes
<1>5. Fits'
  <2>1. FitsRow(run[r])'
    BY <1>1, <1>2, <1>3 DEF FitsRow, Placed, ApplySteps
  <2> QED BY <1>1, <1>3, <2>1, FitsKept, LenType
<1>6. (Counted /\ WebhookCreditsOnce)'
  BY <1>1, <1>2, <1>3, CountedKept DEF Late
<1>7. Ordered'
  BY <1>1, <1>2, <1>3, NoReferenceAssumption DEF IInv, TypeOK, Ordered, OrderedAt, References
<1>8. Decided'
  BY <1>1, <1>2, <1>3, DecidedKept, NoReferenceAssumption, DepositAssumption
     DEF References
<1>9. Lockstep'
  BY <1>1, <1>2, <1>3, LockstepKept
<1> QED BY <1>4, <1>5, <1>6, <1>7, <1>8, <1>9 DEF IInv

LEMMA StartExtendInv ==
  ASSUME IInv, NEW r \in Runs, NEW n \in DOMAIN boosts, NEW date \in Dates,
         StartExtend(r, n, date)
  PROVE  IInv'
<1> DEFINE k == IF featured <= boosts[n] THEN "extend" ELSE "edit"
           row == [Idle EXCEPT !.kind = k, !.at = "end", !.until = date, !.nth = n]
<1>1. /\ run' = [run EXCEPT ![r] = row] /\ run[r] = Idle
      /\ edits' = edits + 1 /\ edits < MaxEdits
      /\ torn' = (torn \/ \E other \in Runs : run[other].nth = n)
      /\ UNCHANGED <<charge, purpose, request, event, balance, log, given, boosts, featured,
                     byWebhook, shaken, unlogged, crashes>>
  BY DEF StartExtend, rows, money, boost
<1>2. /\ row.kind = k /\ row.ref = NoReference /\ row.at = "end" /\ row.nth = n
      /\ row.until = date
      /\ run[r].at = "idle" /\ run[r].ref = NoReference /\ run[r].nth = 0
  BY <1>1 DEF Idle
<1>3. run'[r] = row /\ \A q \in Runs \ {r} : run'[q] = run[q]
  BY <1>1 DEF IInv, TypeOK
<1>4. n \in 1 .. Len(boosts) /\ Len(boosts) \in Nat
  BY DEF IInv, TypeOK
<1>5. TypeOK'
  <2>1. row \in RunRow
    <3>1. Idle \in RunRow
      BY IdleType DEF IInv, TypeOK
    <3>2. k \in Kinds /\ date \in Ends /\ n \in 0 .. Len(boosts) /\ "end" \in Steps
      BY <1>4 DEF Kinds, Ends, Steps
    <3> QED BY <3>1, <3>2 DEF RunRow
  <2>2. run' \in [Runs -> RunRow']
    BY <1>1, <2>1, RunType
  <2>3. edits' \in 0 .. MaxEdits /\ torn' \in BOOLEAN
    BY <1>1, DepositAssumption DEF IInv, TypeOK
  <2> QED BY <1>1, <2>2, <2>3 DEF IInv, TypeOK, RunRow
<1>6. k \in {"extend", "edit"} /\ (k = "edit" => ~(featured <= boosts[n]))
  OBVIOUS
<1> HIDE DEF row, k
<1>7. Fits'
  <2>1. FitsRow(run[r])'
    BY <1>1, <1>2, <1>3, <1>4, <1>6 DEF FitsRow, Placed
  <2> QED BY <1>1, <1>3, <1>4, <2>1, FitsKept
<1>8. (Counted /\ WebhookCreditsOnce)'
  BY <1>1, <1>2, <1>3, CountedKept DEF Late
<1>9. Ordered'
  BY <1>1, <1>2, <1>3, OrderedKept, NoReferenceAssumption DEF References
<1>10. Decided'
  BY <1>1, <1>2, <1>3, DecidedKept, NoReferenceAssumption DEF References
<1>11. Lockstep'
  <2> SUFFICES ASSUME ~torn' PROVE Lockstep'
    BY DEF Lockstep
  <2>1. ~torn /\ \A other \in Runs : run[other].nth # n
    BY <1>1
  <2>2. featured = 0 \/ featured \in Nat
    BY EndsAreNat DEF IInv, TypeOK
  <2>3. boosts[n] \in Nat
    <3>1. boosts[n] \in Ends
      BY <1>4 DEF IInv, TypeOK
    <3> QED BY <3>1, EndsAreNat
  <2> QED BY <1>1, <1>2, <1>3, <1>4, <1>6, <2>1, <2>2, <2>3 DEF IInv, Lockstep, Apart
<1> QED BY <1>5, <1>7, <1>8, <1>9, <1>10, <1>11 DEF IInv

LEMMA ArriveInv == ASSUME IInv, NEW r \in Runs, Arrive(r) PROVE IInv'
<1>1. CASE \E c \in Charges : Begin(r, "verify", c) \/ Deliver(r, c)
  BY <1>1, BeginInv DEF Deliver
<1>2. CASE \E m \in Requests : Begin(r, "confirm", m) \/ Begin(r, "reject", m)
  BY <1>2, BeginInv
<1>3. CASE \E o \in Orders : BuyBoost(r, o) \/ AdjustWallet(r, o)
  BY <1>3, OrderInv DEF BuyBoost, AdjustWallet
<1>4. CASE \E n \in DOMAIN boosts, date \in Dates : StartExtend(r, n, date)
  BY <1>4, StartExtendInv
<1> QED BY <1>1, <1>2, <1>3, <1>4 DEF Arrive

-----------------------------------------------------------------------------
(* Steps of the handlers.                                                  *)

\* A step that moves a handler on, or ends it, and changes no date.
LEMMA StepMoves ==
  ASSUME IInv, NEW r \in Runs, run[r].at # "idle", NEW s \in Steps \ {"idle", "boost"},
         Placed(run[r].kind, run[r].ref, s), s \notin {"end", "vendor"},
         run[r].at \notin {"boost", "end", "vendor"},
         Goto(r, s) \/ End(r), UNCHANGED <<boosts, featured, torn>>
  PROVE  /\ run' \in [Runs -> RunRow']
         /\ Fits' /\ Lockstep'
         /\ \A q \in Runs \ {r} : run'[q] = run[q]
         /\ \/ run'[r] = Idle
            \/ /\ run'[r].at = s /\ run'[r].kind = run[r].kind
               /\ run'[r].ref = run[r].ref
<1>1. run' \in [Runs -> RunRow']
  BY GotoType
<1>2. \A q \in Runs \ {r} : run'[q] = run[q]
  BY DEF IInv, TypeOK, Goto, End
<1>3. \/ run'[r] = Idle
      \/ /\ run'[r].at = s /\ run'[r].kind = run[r].kind
         /\ run'[r].ref = run[r].ref /\ run'[r].nth = run[r].nth
         /\ run'[r].until = run[r].until
  BY DEF IInv, TypeOK, Goto, End
<1>4. FitsRow(run[r])
  BY Busy
<1>5. Fits'
  <2>1. run'[r] = Idle \/ FitsRow(run[r])'
    BY <1>3, <1>4 DEF FitsRow
  <2> QED BY <1>2, <2>1, FitsKept, LenType
<1>6. Lockstep'
  <2>1. run[r].nth = 0
    BY <1>4 DEF FitsRow, Placed
  <2>2. run'[r].nth = 0 /\ run'[r].at \notin {"boost", "end", "vendor"}
    BY <1>3, <2>1 DEF Idle
  <2> QED BY <1>2, <2>1, <2>2, LockstepKept
<1> QED BY <1>1, <1>2, <1>3, <1>5, <1>6

\* A webhook delivery that applies its payment.
LEMMA PaidByWebhook ==
  ASSUME IInv, NEW r \in Runs, CountWebhook(r), UNCHANGED event,
         run[r].kind = "webhook" =>
           run[r].ref \in Charges /\ run[r].at \in {"credit", "feature"},
         run'[r].kind # "webhook" \/ run'[r].at \notin {"credit", "feature"},
         \A q \in Runs \ {r} : run'[q] = run[q]
  PROVE  (Counted /\ WebhookCreditsOnce)'
<1>1. \A c \in Charges : ~Late(r, c)'
  BY DEF Late
<1>2. \A q \in Runs \ {r}, c \in Charges : Late(q, c)' <=> Late(q, c)
  BY DEF Late
<1>3. CASE run[r].kind = "webhook"
  <2>1. Late(r, run[r].ref) /\ run[r].ref \in Charges
    BY <1>3 DEF Late
  <2>2. /\ byWebhook[run[r].ref] = 0 /\ run[r].ref \in event
        /\ \A q \in Runs : Late(q, run[r].ref) => q = r
    BY <2>1 DEF IInv, Counted
  <2>3. /\ byWebhook'[run[r].ref] = 1
        /\ \A c \in Charges : c # run[r].ref => byWebhook'[c] = byWebhook[c]
    BY <1>3, <2>1, <2>2 DEF CountWebhook, IInv, TypeOK
  <2>4. WebhookCreditsOnce'
    BY <2>3 DEF IInv, WebhookCreditsOnce
  <2>5. ASSUME NEW c \in Charges, c \notin event'
        PROVE  byWebhook'[c] = 0 /\ \A q \in Runs : ~Late(q, c)'
    <3>1. c # run[r].ref /\ byWebhook[c] = 0 /\ \A q \in Runs : ~Late(q, c)
      BY <2>2, <2>5 DEF IInv, Counted
    <3> QED BY <1>1, <1>2, <2>3, <3>1
  <2>6. ASSUME NEW c \in Charges, NEW q \in Runs, Late(q, c)'
        PROVE  byWebhook'[c] = 0 /\ \A p \in Runs : Late(p, c)' => p = q
    <3>1. q # r /\ Late(q, c)
      BY <1>1, <1>2, <2>6
    <3>2. byWebhook[c] = 0 /\ \A p \in Runs : Late(p, c) => p = q
      BY <3>1 DEF IInv, Counted
    <3>3. c # run[r].ref
      BY <2>2, <3>1
    <3> QED BY <1>1, <1>2, <2>3, <3>2, <3>3
  <2> QED BY <2>4, <2>5, <2>6 DEF Counted
<1>4. CASE run[r].kind # "webhook"
  <2>1. byWebhook' = byWebhook
    BY <1>4 DEF CountWebhook
  <2> QED BY <1>1, <2>1, CountedKept
<1> QED BY <1>3, <1>4

\* The first step of a handler.
LEMMA DecideInv ==
  ASSUME IInv, NEW r \in Runs, NEW ok \in BOOLEAN, NEW s, Decide(r, ok, s),
         \/ run[r].kind = "verify" /\ s \in {"credit", "feature"}
         \/ run[r].kind = "webhook" /\ s = "record"
         \/ run[r].kind = "confirm" /\ s \in {"credit", "feature"}
         \/ run[r].kind = "reject" /\ s = "rejected"
         \/ run[r].kind \in {"wallet", "deduct"} /\ s = "debit",
         run[r].kind \in {"confirm", "reject"} /\ ok => request[run[r].ref] = "PENDING"
  PROVE  IInv'
<1>1. /\ run[r].at = "start" /\ (Goto(r, s) \/ End(r))
      /\ ~ok => End(r)
      /\ UNCHANGED <<charge, purpose, request, event, balance, log, given, boosts, featured,
                     byWebhook, shaken, unlogged, torn, edits, crashes>>
  BY DEF Decide, rows, money, boost, history
<1>2. FitsRow(run[r])
  BY <1>1, Busy
<1>3. Placed(run[r].kind, run[r].ref, s) /\ s \in Steps \ {"idle", "boost", "end", "vendor"}
  BY <1>1, <1>2 DEF FitsRow, Placed, ApplySteps, Steps
<1>4. /\ run' \in [Runs -> RunRow'] /\ Fits' /\ Lockstep'
      /\ \A q \in Runs \ {r} : run'[q] = run[q]
      /\ \/ run'[r] = Idle
         \/ /\ run'[r].at = s /\ run'[r].kind = run[r].kind
            /\ run'[r].ref = run[r].ref
  BY <1>1, <1>3, StepMoves
<1>5. \/ run'[r].ref = NoReference /\ run'[r].at = "idle"
      \/ ok /\ run'[r].at = s /\ run'[r].kind = run[r].kind /\ run'[r].ref = run[r].ref
  BY <1>1, <1>4 DEF Idle, End, IInv, TypeOK
<1>6. TypeOK'
  BY <1>1, <1>4 DEF IInv, TypeOK, RunRow
<1>7. (Counted /\ WebhookCreditsOnce)'
  BY <1>1, <1>4, <1>5, CountedKept DEF Late
<1>8. Ordered'
  BY <1>1, <1>2, <1>4, <1>5, NoReferenceAssumption, DepositAssumption
     DEF IInv, Ordered, OrderedAt, FitsRow, Placed, References
<1>9. Decided'
  <2>1. ASSUME NEW m \in Requests \ shaken' PROVE DecidedAt(m)'
    <3>1. DecidedAt(m) /\ m \in Requests /\ m # NoReference
      BY <1>1, NoReferenceAssumption DEF IInv, Decided, References
    <3>2. run[r].ref = m => run[r].kind \in {"confirm", "reject"} /\ s # "confirmed"
      BY <1>1, <1>2, <3>1, DepositAssumption DEF FitsRow, Placed
    <3>3. AppliedTimes(m)' = AppliedTimes(m)
      BY <1>1 DEF AppliedTimes
    <3> QED BY <1>1, <1>4, <1>5, <3>1, <3>2, <3>3 DEF DecidedAt
  <2> QED BY <2>1 DEF Decided
<1> QED BY <1>4, <1>6, <1>7, <1>8, <1>9 DEF IInv

LEMMA RecordEventInv == ASSUME IInv, NEW r \in Runs, RecordEvent(r) PROVE IInv'
<1> DEFINE c == run[r].ref
<1>1. /\ run[r].at = "record" /\ (Goto(r, Apply(r)) \/ End(r))
      /\ \/ c \in event /\ End(r) /\ UNCHANGED event
         \/ c \notin event /\ event' = event \cup {c}
      /\ UNCHANGED <<charge, purpose, request, balance, log, given, boosts, featured,
                     byWebhook, shaken, unlogged, torn, edits, crashes>>
  BY DEF RecordEvent, money, boost, history
<1>2. FitsRow(run[r]) /\ run[r].kind = "webhook" /\ c \in Charges
  <2>1. FitsRow(run[r])
    BY <1>1, Busy
  <2> QED BY <1>1, <2>1 DEF FitsRow, Placed, ApplySteps
<1>3. Apply(r) \in {"credit", "feature"} /\ Placed(run[r].kind, run[r].ref, Apply(r))
      /\ Apply(r) \in Steps
  BY <1>2 DEF Apply, Placed, ApplySteps, Steps
<1>4. /\ run' \in [Runs -> RunRow'] /\ Fits' /\ Lockstep'
      /\ \A q \in Runs \ {r} : run'[q] = run[q]
      /\ \/ run'[r] = Idle
         \/ /\ run'[r].at = Apply(r) /\ run'[r].kind = run[r].kind
            /\ run'[r].ref = run[r].ref
  BY <1>1, <1>3, StepMoves
<1>5. TypeOK'
  BY <1>1, <1>2, <1>4 DEF IInv, TypeOK, RunRow
<1>6. (Counted /\ WebhookCreditsOnce)'
  <2>1. WebhookCreditsOnce'
    BY <1>1 DEF IInv, WebhookCreditsOnce
  <2>2. CASE c \in event
    <3>1. run'[r] = Idle
      BY <1>1, <2>2 DEF End, IInv, TypeOK
    <3>2. \A d \in Charges : ~Late(r, d)'
      BY <3>1 DEF Late, Idle
    <3> QED BY <1>1, <1>4, <2>2, <3>2, CountedKept
  <2>3. CASE c \notin event
    <3>1. byWebhook[c] = 0 /\ \A q \in Runs : ~Late(q, c)
      BY <1>2, <2>3 DEF IInv, Counted
    <3>2. \A q \in Runs \ {r}, d \in Charges : Late(q, d)' <=> Late(q, d)
      BY <1>4 DEF Late
    <3>3. \A d \in Charges : Late(r, d)' => d = c
      BY <1>1, <1>4, NoReferenceAssumption DEF Late, Idle, References
    <3> QED BY <1>1, <2>1, <2>3, <3>1, <3>2, <3>3 DEF IInv, Counted
  <2> QED BY <2>2, <2>3
<1>7. Ordered'
  BY <1>1, <1>2, <1>4, OrderedKept, NoReferenceAssumption, DepositAssumption
     DEF References, Idle
<1>8. Decided'
  BY <1>1, <1>2, <1>4, DecidedKept, NoReferenceAssumption, DepositAssumption
     DEF References, Idle
<1> QED BY <1>4, <1>5, <1>6, <1>7, <1>8 DEF IInv

LEMMA CreditInv == ASSUME IInv, NEW r \in Runs, Credit(r) PROVE IInv'
<1> DEFINE c == run[r].ref
<1>1. /\ run[r].at = "credit" /\ Goto(r, "row") /\ CountWebhook(r)
      /\ balance' = balance + 1
      /\ UNCHANGED <<charge, purpose, request, event, log, given, boosts, featured,
                     shaken, unlogged, torn, edits, crashes>>
  BY DEF Credit, boost
<1>2. FitsRow(run[r])
  BY <1>1, Busy
<1>3. Placed(run[r].kind, run[r].ref, "row") /\ (run[r].kind = "webhook" => c \in Charges)
  BY <1>1, <1>2 DEF FitsRow, Placed, ApplySteps
<1>4. /\ run' \in [Runs -> RunRow'] /\ Fits' /\ Lockstep'
      /\ \A q \in Runs \ {r} : run'[q] = run[q]
      /\ run'[r].at = "row" /\ run'[r].kind = run[r].kind /\ run'[r].ref = run[r].ref
  <2>1. "row" \in Steps
    BY DEF Steps
  <2>2. run'[r].at = "row" /\ run'[r].kind = run[r].kind /\ run'[r].ref = run[r].ref
    BY <1>1 DEF Goto, IInv, TypeOK
  <2> QED BY <1>1, <1>3, <2>1, <2>2, StepMoves
<1>5. TypeOK'
  BY <1>1, <1>3, <1>4 DEF IInv, TypeOK, RunRow, CountWebhook
<1>6. (Counted /\ WebhookCreditsOnce)'
  BY <1>1, <1>3, <1>4, PaidByWebhook
<1>7. Ordered'
  BY <1>1, <1>4 DEF IInv, Ordered, OrderedAt
<1>8. Decided'
  <2>1. ASSUME NEW m \in Requests \ shaken' PROVE DecidedAt(m)'
    BY <1>1, <1>4 DEF IInv, Decided, DecidedAt, AppliedTimes
  <2> QED BY <2>1 DEF Decided
<1> QED BY <1>4, <1>5, <1>6, <1>7, <1>8 DEF IInv

\* The amount that a row brings to the reference of a handler.
LEMMA LogCreditInv == ASSUME IInv, NEW r \in Runs, LogCredit(r) PROVE IInv'
<1> DEFINE c == run[r].ref
           s == IF run[r].kind = "confirm" THEN "confirmed" ELSE "row"
<1>1. /\ run[r].at = "row" /\ log' = [log EXCEPT ![c] = @ + 1]
      /\ IF run[r].kind = "confirm" THEN Goto(r, "confirmed") ELSE End(r)
      /\ UNCHANGED <<charge, purpose, request, event, balance, given, boosts, featured,
                     byWebhook, shaken, unlogged, torn, edits, crashes>>
  BY DEF LogCredit, Applied, boost, history
<1>2. FitsRow(run[r])
  BY <1>1, Busy
<1>3. Placed(run[r].kind, run[r].ref, s) /\ c \in References
      /\ run[r].kind \in {"verify", "webhook", "confirm", "grant"}
  BY <1>1, <1>2 DEF FitsRow, Placed, ApplySteps, References
<1>4. /\ run' \in [Runs -> RunRow'] /\ Fits' /\ Lockstep'
      /\ \A q \in Runs \ {r} : run'[q] = run[q]
  <2>1. s \in Steps \ {"idle", "boost", "end", "vendor"} /\ (Goto(r, s) \/ End(r))
    BY <1>1 DEF Steps
  <2> QED BY <1>1, <1>3, <2>1, StepMoves
<1>5. IF run[r].kind = "confirm"
      THEN run'[r].at = "confirmed" /\ run'[r].ref = c /\ run'[r].kind = "confirm"
      ELSE run'[r].at = "idle" /\ run'[r].ref = NoReference
  BY <1>1 DEF Goto, End, Idle, IInv, TypeOK
<1>6. /\ log'[c] = log[c] + 1
      /\ \A ref \in References : ref # c => log'[ref] = log[ref]
  BY <1>1, <1>3 DEF IInv, TypeOK
<1>7. TypeOK'
  BY <1>1, <1>3, <1>4 DEF IInv, TypeOK, RunRow
<1>8. (Counted /\ WebhookCreditsOnce)'
  BY <1>1, <1>4, <1>5, CountedKept DEF Late
<1>9. Ordered'
  <2>1. ASSUME NEW o \in Orders PROVE OrderedAt(o)'
    <3>1. OrderedAt(o) /\ o \in References /\ o # NoReference
      BY NoReferenceAssumption DEF IInv, Ordered, OrderedAt, References
    <3>2. CASE o = c
      <4>1. run[r].kind = "grant"
        BY <1>2, <1>3, <3>2, DepositAssumption DEF FitsRow, Placed
      <4>2. purpose[o] \notin {"none", "FEATURE_BOOST_PAYMENT"}
        BY <3>1, <3>2, <4>1 DEF OrderedAt
      <4> QED BY <1>1, <1>4, <1>5, <3>1, <3>2, <4>1, <4>2 DEF OrderedAt
    <3>3. CASE o # c
      BY <1>1, <1>4, <1>5, <1>6, <3>1, <3>3 DEF OrderedAt
    <3> QED BY <3>2, <3>3
  <2> QED BY <2>1 DEF Ordered
<1>10. Decided'
  <2>1. ASSUME NEW m \in Requests \ shaken' PROVE DecidedAt(m)'
    <3>1. DecidedAt(m) /\ m \in References /\ m # NoReference
      BY <1>1, NoReferenceAssumption DEF IInv, Decided, References
    <3>2. CASE m = c
      <4>1. run[r].kind = "confirm"
        BY <1>2, <1>3, <3>2, DepositAssumption DEF FitsRow, Placed
      <4>2. request[m] = "PENDING" /\ AppliedTimes(m) = 0
        BY <1>1, <3>1, <3>2 DEF DecidedAt
      <4>3. AppliedTimes(m)' = 1
        <5>1. log[m] \in Int /\ given[m] \in Nat
          BY <3>1 DEF IInv, TypeOK
        <5> QED BY <1>1, <1>6, <3>2, <4>2, <5>1 DEF AppliedTimes
      <4> QED BY <1>1, <1>4, <1>5, <3>1, <3>2, <4>1, <4>2, <4>3 DEF DecidedAt
    <3>3. CASE m # c
      <4>1. AppliedTimes(m)' = AppliedTimes(m)
        BY <1>1, <1>6, <3>1, <3>3 DEF AppliedTimes
      <4> QED BY <1>1, <1>4, <1>5, <3>1, <3>3, <4>1 DEF DecidedAt
    <3> QED BY <3>2, <3>3
  <2> QED BY <2>1 DEF Decided
<1> QED BY <1>4, <1>7, <1>8, <1>9, <1>10 DEF IInv

LEMMA DebitInv == ASSUME IInv, NEW r \in Runs, Debit(r) PROVE IInv'
<1>1. /\ run[r].at = "debit" /\ Goto(r, "debited") /\ balance' = balance - 1
      /\ UNCHANGED <<charge, purpose, request, event, log, given, boosts, featured,
                     byWebhook, shaken, unlogged, torn, edits, crashes>>
  BY DEF Debit, boost, history
<1>2. FitsRow(run[r])
  BY <1>1, Busy
<1>3. Placed(run[r].kind, run[r].ref, "debited") /\ run[r].ref \in Orders
  BY <1>1, <1>2 DEF FitsRow, Placed, ApplySteps
<1>4. /\ run' \in [Runs -> RunRow'] /\ Fits' /\ Lockstep'
      /\ \A q \in Runs \ {r} : run'[q] = run[q]
      /\ run'[r].at = "debited" /\ run'[r].kind = run[r].kind /\ run'[r].ref = run[r].ref
  <2>1. "debited" \in Steps
    BY DEF Steps
  <2>2. /\ run'[r].at = "debited" /\ run'[r].kind = run[r].kind
        /\ run'[r].ref = run[r].ref
    BY <1>1 DEF Goto, IInv, TypeOK
  <2> QED BY <1>1, <1>3, <2>1, <2>2, StepMoves
<1>5. TypeOK'
  BY <1>1, <1>4 DEF IInv, TypeOK, RunRow
<1>6. (Counted /\ WebhookCreditsOnce)'
  BY <1>1, <1>4, CountedKept DEF Late
<1>7. Ordered'
  <2>1. ASSUME NEW o \in Orders PROVE OrderedAt(o)'
    BY <1>1, <1>4 DEF IInv, Ordered, OrderedAt
  <2> QED BY <2>1 DEF Ordered
<1>8. Decided'
  BY <1>1, <1>3, <1>4, DecidedKept, DepositAssumption
<1> QED BY <1>4, <1>5, <1>6, <1>7, <1>8 DEF IInv

LEMMA LogDebitInv == ASSUME IInv, NEW r \in Runs, LogDebit(r) PROVE IInv'
<1> DEFINE o == run[r].ref
<1>1. /\ run[r].at = "debited" /\ log' = [log EXCEPT ![o] = @ - 1]
      /\ IF run[r].kind = "wallet" THEN Goto(r, "feature") ELSE End(r)
      /\ UNCHANGED <<charge, purpose, request, event, balance, given, boosts, featured,
                     byWebhook, shaken, unlogged, torn, edits, crashes>>
  BY DEF LogDebit, boost, history
<1>2. FitsRow(run[r])
  BY <1>1, Busy
<1>3. run[r].kind \in {"wallet", "deduct"} /\ o \in Orders /\ o \in References
  BY <1>1, <1>2 DEF FitsRow, Placed, ApplySteps, References
<1>4. /\ run' \in [Runs -> RunRow'] /\ Fits' /\ Lockstep'
      /\ \A q \in Runs \ {r} : run'[q] = run[q]
  <2> DEFINE s == IF run[r].kind = "wallet" THEN "feature" ELSE "debited"
  <2>1. /\ s \in Steps \ {"idle", "boost", "end", "vendor"} /\ (Goto(r, s) \/ End(r))
        /\ Placed(run[r].kind, run[r].ref, s)
    BY <1>1, <1>3 DEF Steps, Placed
  <2> QED BY <1>1, <2>1, StepMoves
<1>5. IF run[r].kind = "wallet"
      THEN run'[r].at = "feature" /\ run'[r].ref = o /\ run'[r].kind = "wallet"
      ELSE run'[r].at = "idle" /\ run'[r].ref = NoReference
  BY <1>1 DEF Goto, End, Idle, IInv, TypeOK
<1>6. /\ log'[o] = log[o] - 1
      /\ \A ref \in References : ref # o => log'[ref] = log[ref]
  BY <1>1, <1>3 DEF IInv, TypeOK
<1>7. TypeOK'
  BY <1>1, <1>3, <1>4 DEF IInv, TypeOK, RunRow
<1>8. (Counted /\ WebhookCreditsOnce)'
  <2>1. ~(run'[r].kind = "webhook" /\ run'[r].at = "credit") /\ \A c \in Charges : ~Late(r, c)'
    BY <1>5, NoReferenceAssumption DEF Late, References
  <2> QED BY <1>1, <1>4, <2>1, CountedKept
<1>9. Ordered'
  <2>1. ASSUME NEW p \in Orders PROVE OrderedAt(p)'
    <3>1. OrderedAt(p) /\ p \in References /\ p # NoReference
      BY NoReferenceAssumption DEF IInv, Ordered, OrderedAt, References
    <3>2. CASE p = o
      <4>1. /\ purpose[p] # "none"
            /\ run[r].kind = "wallet" <=> purpose[p] = "FEATURE_BOOST_PAYMENT"
        BY <3>1, <3>2 DEF OrderedAt
      <4>2. \A q \in Runs : run[q].ref = p => q = r
        BY <3>1, <3>2 DEF OrderedAt
      <4>3. CASE run[r].kind = "wallet"
        <5>1. p \notin shaken => log[p] + given[p] = 0
          BY <1>1, <3>1, <3>2, <4>1, <4>2, <4>3 DEF OrderedAt
        <5>2. p \notin shaken => log'[p] + given'[p] = -1
          <6>1. log[p] \in Int /\ given[p] \in Nat
            BY <3>1 DEF IInv, TypeOK
          <6> QED BY <1>1, <1>6, <3>2, <5>1, <6>1
        <5> QED BY <1>1, <1>4, <1>5, <3>1, <3>2, <4>1, <4>2, <4>3, <5>2 DEF OrderedAt
      <4>4. CASE run[r].kind # "wallet"
        BY <1>1, <1>4, <1>5, <3>1, <3>2, <4>1, <4>2, <4>4 DEF OrderedAt
      <4> QED BY <4>3, <4>4
    <3>3. CASE p # o
      BY <1>1, <1>4, <1>5, <1>6, <3>1, <3>3 DEF OrderedAt
    <3> QED BY <3>2, <3>3
  <2> QED BY <2>1 DEF Ordered
<1>10. Decided'
  BY <1>1, <1>3, <1>4, <1>5, <1>6, DecidedKept, NoReferenceAssumption, DepositAssumption
     DEF References
<1> QED BY <1>4, <1>7, <1>8, <1>9, <1>10 DEF IInv

LEMMA EditsABoost ==
  ASSUME IInv, NEW r \in Runs, run[r].at \in {"end", "vendor"}
  PROVE  /\ run[r].nth \in 1 .. Len(boosts) /\ run[r].until \in Dates
         /\ run[r].ref = NoReference /\ run[r].kind \in {"extend", "edit"}
         /\ run[r].at = "vendor" => run[r].kind = "extend"
<1>1. FitsRow(run[r])
  BY Busy
<1> QED BY <1>1 DEF FitsRow, Placed, ApplySteps

LEMMA FeatureVendorInv == ASSUME IInv, NEW r \in Runs, FeatureVendor(r) PROVE IInv'
<1> DEFINE x == run[r].ref
           row == [run[r] EXCEPT !.at = "boost", !.until = PlanOf[x]]
<1>1. /\ run[r].at = "feature" /\ CountWebhook(r)
      /\ run' = [run EXCEPT ![r] = row] /\ featured' = PlanOf[x]
      /\ UNCHANGED <<charge, purpose, request, event, balance, log, given, boosts,
                     shaken, unlogged, torn, edits, crashes>>
  BY DEF FeatureVendor, money, IInv, TypeOK
<1>2. FitsRow(run[r])
  BY <1>1, Busy
<1>3. /\ x \in References /\ PlanOf[x] \in Ends
      /\ run[r].kind \in {"verify", "webhook", "confirm", "wallet"}
      /\ run[r].kind = "webhook" => x \in Charges
  BY <1>1, <1>2, PlanEnds DEF FitsRow, Placed, ApplySteps, References
<1>4. /\ row.at = "boost" /\ row.until = PlanOf[x] /\ row.kind = run[r].kind
      /\ row.ref = x /\ row.nth = run[r].nth /\ row \in RunRow
  BY <1>3 DEF IInv, TypeOK, RunRow, Steps
<1>5. run'[r] = row /\ \A q \in Runs \ {r} : run'[q] = run[q]
  BY <1>1 DEF IInv, TypeOK
<1> HIDE DEF row
<1>6. TypeOK'
  <2>1. run' \in [Runs -> RunRow']
    BY <1>1, <1>4, RunType
  <2> QED BY <1>1, <1>3, <2>1 DEF IInv, TypeOK, RunRow, CountWebhook
<1>7. Fits'
  <2>1. FitsRow(run[r])'
    BY <1>1, <1>2, <1>3, <1>4, <1>5 DEF FitsRow, Placed, ApplySteps
  <2> QED BY <1>1, <1>5, <2>1, FitsKept, LenType
<1>8. (Counted /\ WebhookCreditsOnce)'
  BY <1>1, <1>3, <1>4, <1>5, PaidByWebhook
<1>9. Ordered'
  <2>1. ASSUME NEW o \in Orders PROVE OrderedAt(o)'
    BY <1>1, <1>4, <1>5 DEF IInv, Ordered, OrderedAt
  <2> QED BY <2>1 DEF Ordered
<1>10. Decided'
  <2>1. ASSUME NEW m \in Requests \ shaken' PROVE DecidedAt(m)'
    BY <1>1, <1>4, <1>5 DEF IInv, Decided, DecidedAt, AppliedTimes
  <2> QED BY <2>1 DEF Decided
<1>11. Lockstep'
  <2>1. run[r].nth = 0
    BY <1>2, <1>3 DEF FitsRow
  <2> QED BY <1>1, <1>4, <1>5, <2>1 DEF IInv, Lockstep
<1> QED BY <1>6, <1>7, <1>8, <1>9, <1>10, <1>11 DEF IInv

LEMMA CreateBoostInv == ASSUME IInv, NEW r \in Runs, CreateBoost(r) PROVE IInv'
<1> DEFINE x == run[r].ref
<1>1. /\ run[r].at = "boost" /\ boosts' = Append(boosts, run[r].until)
      /\ given' = [given EXCEPT ![x] = @ + 1]
      /\ IF run[r].kind = "confirm" THEN Goto(r, "confirmed") ELSE End(r)
      /\ UNCHANGED <<charge, purpose, request, event, balance, log, featured, byWebhook,
                     shaken, unlogged, torn, edits, crashes>>
  BY DEF CreateBoost, Applied, money, history
<1>2. FitsRow(run[r])
  BY <1>1, Busy
<1>3. /\ x \in References /\ run[r].until = PlanOf[x] /\ PlanOf[x] \in Ends
      /\ run[r].kind \in {"verify", "webhook", "confirm", "wallet"} /\ run[r].nth = 0
  BY <1>1, <1>2, PlanEnds DEF FitsRow, Placed, ApplySteps, References
<1>4. /\ boosts \in Seq(Ends) /\ boosts' \in Seq(Ends) /\ Len(boosts) \in Nat
      /\ Len(boosts') = Len(boosts) + 1 /\ boosts'[Len(boosts) + 1] = run[r].until
      /\ \A n \in 1 .. Len(boosts) : boosts'[n] = boosts[n]
  BY <1>1, <1>3 DEF IInv, TypeOK
<1>5. \A q \in Runs \ {r} : run'[q] = run[q]
  BY <1>1 DEF Goto, End, IInv, TypeOK
<1>6. IF run[r].kind = "confirm"
      THEN /\ run'[r].at = "confirmed" /\ run'[r].ref = x /\ run'[r].kind = "confirm"
           /\ run'[r].nth = 0
      ELSE run'[r] = Idle /\ run'[r].at = "idle" /\ run'[r].ref = NoReference
           /\ run'[r].nth = 0
  BY <1>1, <1>3 DEF Goto, End, Idle, IInv, TypeOK
<1>7. /\ given'[x] = given[x] + 1
      /\ \A ref \in References : ref # x => given'[ref] = given[ref]
  BY <1>1, <1>3 DEF IInv, TypeOK
<1>8. TypeOK'
  <2>1. RunRow \subseteq RunRow'
    BY <1>4 DEF RunRow
  <2>2. run' \in [Runs -> RunRow]
    <3>1. Idle \in RunRow
      BY <1>4, IdleType
    <3>2. [run[r] EXCEPT !.at = "confirmed"] \in RunRow
      BY DEF IInv, TypeOK, RunRow, Steps
    <3>3. \/ run' = [run EXCEPT ![r] = Idle]
          \/ run' = [run EXCEPT ![r] = [run[r] EXCEPT !.at = "confirmed"]]
      BY <1>1 DEF Goto, End, IInv, TypeOK
    <3>4. run \in [Runs -> RunRow]
      BY DEF IInv, TypeOK, RunRow
    <3> QED BY <3>1, <3>2, <3>3, <3>4
  <2>3. run' \in [Runs -> RunRow']
    BY <2>1, <2>2
  <2> QED BY <1>1, <1>3, <1>4, <2>3 DEF IInv, TypeOK, RunRow
<1>9. Fits'
  <2>1. run'[r] = Idle \/ FitsRow(run[r])'
    BY <1>2, <1>3, <1>6 DEF FitsRow, Placed
  <2> QED BY <1>4, <1>5, <2>1, FitsKept
<1>10. (Counted /\ WebhookCreditsOnce)'
  BY <1>1, <1>5, <1>6, CountedKept DEF Late
<1>11. Ordered'
  <2>1. ASSUME NEW o \in Orders PROVE OrderedAt(o)'
    <3>1. OrderedAt(o) /\ o \in References /\ o # NoReference
      BY NoReferenceAssumption DEF IInv, Ordered, References
    <3>2. CASE o = x
      <4>1. run[r].kind = "wallet"
        BY <1>2, <1>3, <3>2, DepositAssumption DEF FitsRow, Placed
      <4>2. /\ purpose[o] = "FEATURE_BOOST_PAYMENT"
            /\ \A q \in Runs : run[q].ref = o => q = r
        BY <3>1, <3>2, <4>1 DEF OrderedAt
      <4>3. o \notin shaken => log[o] + given[o] = -1
        BY <1>1, <3>1, <3>2, <4>2 DEF OrderedAt
      <4>4. log[o] \in Int /\ given[o] \in Nat
        BY <3>1 DEF IInv, TypeOK
      <4>5. o \notin shaken => log'[o] + given'[o] = 0
        BY <1>1, <1>7, <3>2, <4>3, <4>4
      <4> QED BY <1>1, <1>5, <1>6, <3>1, <3>2, <4>1, <4>2, <4>5 DEF OrderedAt
    <3>3. CASE o # x
      BY <1>1, <1>5, <1>6, <1>7, <3>1, <3>3 DEF OrderedAt
    <3> QED BY <3>2, <3>3
  <2> QED BY <2>1 DEF Ordered
<1>12. Decided'
  <2>1. ASSUME NEW m \in Requests \ shaken' PROVE DecidedAt(m)'
    <3>1. DecidedAt(m) /\ m \in References /\ m # NoReference
      BY <1>1, NoReferenceAssumption DEF IInv, Decided, References
    <3>2. CASE m = x
      <4>1. run[r].kind = "confirm"
        BY <1>2, <1>3, <3>2, DepositAssumption DEF FitsRow, Placed
      <4>2. request[m] = "PENDING" /\ AppliedTimes(m) = 0
        BY <1>1, <3>1, <3>2 DEF DecidedAt
      <4>3. AppliedTimes(m)' = 1
        <5>1. log[m] \in Int /\ given[m] \in Nat
          BY <3>1 DEF IInv, TypeOK
        <5> QED BY <1>1, <1>7, <3>2, <4>2, <5>1 DEF AppliedTimes
      <4> QED BY <1>1, <1>5, <1>6, <3>1, <3>2, <4>1, <4>2, <4>3 DEF DecidedAt
    <3>3. CASE m # x
      <4>1. AppliedTimes(m)' = AppliedTimes(m)
        BY <1>1, <1>7, <3>1, <3>3 DEF AppliedTimes
      <4> QED BY <1>1, <1>5, <1>6, <3>1, <3>3, <4>1 DEF DecidedAt
    <3> QED BY <3>2, <3>3
  <2> QED BY <2>1 DEF Decided
<1>13. Lockstep'
  <2> SUFFICES ASSUME ~torn' PROVE Lockstep'
    BY DEF Lockstep
  <2>1. \A q \in Runs : run[q].nth # 0 => run[q].nth \in 1 .. Len(boosts)
    BY DEF IInv, Fits, FitsRow, Idle
  <2>2. \A p, q \in Runs : run'[p].nth # 0 /\ run'[p].nth = run'[q].nth => p = q
    BY <1>1, <1>5, <1>6 DEF IInv, Lockstep
  <2>3. \A q \in Runs : run'[q].at = "vendor" => q # r /\ run[q].nth # 0
    BY <1>5, <1>6 DEF IInv, Fits, FitsRow, Placed, ApplySteps, Idle
  <2>4. \A q \in Runs : run'[q].at = "vendor" => boosts'[run'[q].nth] = run'[q].until
    BY <1>1, <1>4, <1>5, <2>1, <2>3 DEF IInv, Lockstep
  <2>5. \A q \in Runs : Apart(q)' => Apart(q) /\ q # r /\ run'[q].nth = run[q].nth
    BY <1>5, <1>6 DEF Apart
  <2>6. CASE featured = run[r].until
    <3>1. \A q \in Runs : Apart(q)' => run'[q].nth # Len(boosts) + 1
      BY <1>4, <2>1, <2>5, EditsABoost DEF Apart
    <3>2. Len(boosts) + 1 \in 1 .. Len(boosts') /\ boosts'[Len(boosts) + 1] = featured'
      BY <1>1, <1>4, <2>6
    <3> QED BY <2>2, <2>4, <3>1, <3>2 DEF Lockstep
  <2>7. CASE featured = 0 \/ \E q \in Runs : run[q].at = "vendor"
    BY <1>1, <1>5, <2>2, <2>4, <2>7 DEF Lockstep
  <2>8. CASE \E q \in Runs \ {r} : run[q].at = "boost" /\ run[q].until = featured
    BY <1>1, <1>5, <2>2, <2>4, <2>8 DEF Lockstep
  <2>9. CASE \E n \in 1 .. Len(boosts) : boosts[n] = featured
               /\ \A q \in Runs : Apart(q) => run[q].nth # n
    <3>1. PICK n \in 1 .. Len(boosts) : /\ boosts[n] = featured
                                       /\ \A q \in Runs : Apart(q) => run[q].nth # n
      BY <2>9
    <3>2. n \in 1 .. Len(boosts') /\ boosts'[n] = featured'
      BY <1>1, <1>4, <3>1
    <3>3. \A q \in Runs : Apart(q)' => run'[q].nth # n
      BY <2>5, <3>1
    <3> QED BY <2>2, <2>4, <3>2, <3>3 DEF Lockstep
  <2> QED BY <1>1, <2>6, <2>7, <2>8, <2>9 DEF IInv, Lockstep
<1> QED BY <1>8, <1>9, <1>10, <1>11, <1>12, <1>13 DEF IInv

LEMMA EndBoostInv == ASSUME IInv, NEW r \in Runs, EndBoost(r) PROVE IInv'
<1> DEFINE n == run[r].nth
<1>1. /\ run[r].at = "end" /\ boosts' = [boosts EXCEPT ![n] = run[r].until]
      /\ IF run[r].kind = "extend" THEN Goto(r, "vendor") ELSE End(r)
      /\ UNCHANGED <<charge, purpose, request, event, balance, log, given, featured,
                     byWebhook, shaken, unlogged, torn, edits, crashes>>
  BY DEF EndBoost, money, history
<1>2. /\ n \in 1 .. Len(boosts) /\ run[r].until \in Dates /\ run[r].until \in Ends
      /\ run[r].ref = NoReference /\ run[r].kind \in {"extend", "edit"}
  BY <1>1, EditsABoost DEF Ends
<1>3. /\ boosts \in Seq(Ends) /\ boosts' \in Seq(Ends) /\ Len(boosts) \in Nat
      /\ Len(boosts') = Len(boosts) /\ boosts'[n] = run[r].until
      /\ \A m \in 1 .. Len(boosts) : m # n => boosts'[m] = boosts[m]
  BY <1>1, <1>2 DEF IInv, TypeOK
<1>4. \A q \in Runs \ {r} : run'[q] = run[q]
  BY <1>1 DEF Goto, End, IInv, TypeOK
<1>5. IF run[r].kind = "extend"
      THEN /\ run'[r].at = "vendor" /\ run'[r].ref = NoReference
           /\ run'[r].kind = "extend" /\ run'[r].nth = n /\ run'[r].until = run[r].until
      ELSE run'[r] = Idle /\ run'[r].at = "idle" /\ run'[r].ref = NoReference
           /\ run'[r].nth = 0
  BY <1>1, <1>2 DEF Goto, End, Idle, IInv, TypeOK
<1>6. TypeOK'
  <2>1. RunRow' = RunRow
    BY <1>3 DEF RunRow
  <2>2. Idle \in RunRow
    BY <1>3, IdleType
  <2>3. [run[r] EXCEPT !.at = "vendor"] \in RunRow
    BY DEF IInv, TypeOK, RunRow, Steps
  <2>4. \/ run' = [run EXCEPT ![r] = Idle]
        \/ run' = [run EXCEPT ![r] = [run[r] EXCEPT !.at = "vendor"]]
    BY <1>1 DEF Goto, End, IInv, TypeOK
  <2>5. run \in [Runs -> RunRow]
    BY DEF IInv, TypeOK, RunRow
  <2>6. run' \in [Runs -> RunRow']
    BY <2>1, <2>2, <2>3, <2>4, <2>5
  <2> QED BY <1>1, <1>3, <2>6 DEF IInv, TypeOK, RunRow
<1>7. Fits'
  <2>1. run'[r] = Idle \/ FitsRow(run[r])'
    BY <1>2, <1>3, <1>5 DEF FitsRow, Placed
  <2> QED BY <1>3, <1>4, <2>1, FitsKept
<1>8. (Counted /\ WebhookCreditsOnce)'
  BY <1>1, <1>4, <1>5, CountedKept DEF Late
<1>9. Ordered'
  BY <1>1, <1>2, <1>4, <1>5, OrderedKept, NoReferenceAssumption DEF References
<1>10. Decided'
  BY <1>1, <1>2, <1>4, <1>5, DecidedKept, NoReferenceAssumption DEF References
<1>11. Lockstep'
  <2> SUFFICES ASSUME ~torn' PROVE Lockstep'
    BY DEF Lockstep
  <2>1. \A q \in Runs \ {r} : run[q].nth # n
    BY <1>1, <1>2 DEF IInv, Lockstep
  <2>2. \A p, q \in Runs : run'[p].nth # 0 /\ run'[p].nth = run'[q].nth => p = q
    BY <1>1, <1>2, <1>4, <1>5, <2>1 DEF IInv, Lockstep
  <2>3. \A q \in Runs : run'[q].at = "vendor" => boosts'[run'[q].nth] = run'[q].until
    <3>1. ASSUME NEW q \in Runs \ {r}, run[q].at = "vendor"
          PROVE  boosts'[run[q].nth] = run[q].until
      BY <1>1, <1>3, <2>1, <3>1, EditsABoost DEF IInv, Lockstep
    <3> QED BY <1>3, <1>4, <1>5, <3>1
  <2>4. \A q \in Runs : Apart(q)' => Apart(q) /\ q # r /\ run'[q].nth = run[q].nth
    BY <1>4, <1>5 DEF Apart
  <2>5. CASE run[r].kind = "extend"
    BY <1>5, <2>2, <2>3, <2>5 DEF Lockstep
  <2>6. CASE featured = 0 \/ \E q \in Runs \ {r} : run[q].at = "vendor"
    BY <1>1, <1>4, <2>2, <2>3, <2>6 DEF Lockstep
  <2>7. CASE \E q \in Runs \ {r} : run[q].at = "boost" /\ run[q].until = featured
    BY <1>1, <1>4, <2>2, <2>3, <2>7 DEF Lockstep
  <2>8. ASSUME run[r].kind = "edit",
               NEW m \in 1 .. Len(boosts), boosts[m] = featured,
               \A q \in Runs : Apart(q) => run[q].nth # m
        PROVE  Lockstep'
    <3>1. m # n
      BY <1>1, <2>8 DEF Apart
    <3>2. m \in 1 .. Len(boosts') /\ boosts'[m] = featured'
      BY <1>1, <1>3, <2>8, <3>1
    <3>3. \A q \in Runs : Apart(q)' => run'[q].nth # m
      BY <2>4, <2>8
    <3> QED BY <2>2, <2>3, <3>2, <3>3 DEF Lockstep
  <2> QED BY <1>1, <1>2, <2>5, <2>6, <2>7, <2>8 DEF IInv, Lockstep
<1> QED BY <1>6, <1>7, <1>8, <1>9, <1>10, <1>11 DEF IInv

LEMMA EndFeatureInv == ASSUME IInv, NEW r \in Runs, EndFeature(r) PROVE IInv'
<1> DEFINE n == run[r].nth
<1>1. /\ run[r].at = "vendor" /\ End(r) /\ featured' = run[r].until
      /\ UNCHANGED <<charge, purpose, request, event, balance, log, given, boosts,
                     byWebhook, shaken, unlogged, torn, edits, crashes>>
  BY DEF EndFeature, money, history
<1>2. /\ n \in 1 .. Len(boosts) /\ run[r].until \in Ends /\ Len(boosts) \in Nat
      /\ run[r].ref = NoReference
  BY <1>1, EditsABoost, LenType DEF Ends
<1>3. \A q \in Runs \ {r} : run'[q] = run[q]
  BY <1>1 DEF End, IInv, TypeOK
<1>4. /\ run'[r] = Idle /\ run'[r].at = "idle" /\ run'[r].ref = NoReference
      /\ run'[r].nth = 0
  BY <1>1 DEF End, Idle, IInv, TypeOK
<1>5. TypeOK'
  <2>1. run' \in [Runs -> RunRow']
    BY <1>1, GotoType DEF Steps
  <2> QED BY <1>1, <1>2, <2>1 DEF IInv, TypeOK, RunRow
<1>6. Fits'
  BY <1>1, <1>2, <1>3, <1>4, FitsKept
<1>7. (Counted /\ WebhookCreditsOnce)'
  BY <1>1, <1>3, <1>4, CountedKept DEF Late
<1>8. Ordered'
  BY <1>1, <1>2, <1>3, <1>4, OrderedKept, NoReferenceAssumption DEF References
<1>9. Decided'
  BY <1>1, <1>2, <1>3, <1>4, DecidedKept, NoReferenceAssumption DEF References
<1>10. Lockstep'
  <2> SUFFICES ASSUME ~torn' PROVE Lockstep'
    BY DEF Lockstep
  <2>1. boosts[n] = featured'
    BY <1>1 DEF IInv, Lockstep
  <2>2. \A q \in Runs : Apart(q)' => run'[q].nth # n
    BY <1>1, <1>2, <1>3, <1>4 DEF IInv, Lockstep, Apart
  <2>3. \A p, q \in Runs : run'[p].nth # 0 /\ run'[p].nth = run'[q].nth => p = q
    BY <1>1, <1>3, <1>4 DEF IInv, Lockstep
  <2>4. \A q \in Runs : run'[q].at = "vendor" => boosts'[run'[q].nth] = run'[q].until
    BY <1>1, <1>3, <1>4 DEF IInv, Lockstep
  <2> QED BY <1>1, <1>2, <2>1, <2>2, <2>3, <2>4 DEF Lockstep
<1> QED BY <1>5, <1>6, <1>7, <1>8, <1>9, <1>10 DEF IInv

\* An admin's decision about a bank transfer.
LEMMA MarkInv ==
  ASSUME IInv, NEW r \in Runs, MarkConfirmed(r) \/ MarkRejected(r) PROVE IInv'
<1> DEFINE m == run[r].ref
<1>1. /\ \/ run[r].at = "confirmed" /\ request' = [request EXCEPT ![m] = "CONFIRMED"]
         \/ run[r].at = "rejected" /\ request' = [request EXCEPT ![m] = "REJECTED"]
      /\ End(r)
      /\ UNCHANGED <<charge, purpose, event, balance, log, given, boosts, featured,
                     byWebhook, shaken, unlogged, torn, edits, crashes>>
  BY DEF MarkConfirmed, MarkRejected, money, boost, history
<1>2. FitsRow(run[r])
  BY <1>1, Busy
<1>3. m \in Requests /\ Placed(run[r].kind, m, run[r].at) /\ run[r].at \in Steps
  BY <1>1, <1>2 DEF FitsRow, Placed, ApplySteps, Steps
<1>4. /\ run' \in [Runs -> RunRow'] /\ Fits' /\ Lockstep'
      /\ \A q \in Runs \ {r} : run'[q] = run[q]
  BY <1>1, <1>3, StepMoves
<1>5. run'[r].at = "idle" /\ run'[r].ref = NoReference
  BY <1>1 DEF End, Idle, IInv, TypeOK
<1>6. TypeOK'
  BY <1>1, <1>3, <1>4 DEF IInv, TypeOK, RunRow
<1>7. (Counted /\ WebhookCreditsOnce)'
  BY <1>1, <1>4, <1>5, CountedKept DEF Late
<1>8. Ordered'
  BY <1>1, <1>3, <1>4, <1>5, OrderedKept, NoReferenceAssumption, DepositAssumption
     DEF References
<1>9. Decided'
  <2>1. ASSUME NEW n \in Requests \ shaken' PROVE DecidedAt(n)'
    <3>1. DecidedAt(n) /\ n # NoReference
      BY <1>1, NoReferenceAssumption DEF IInv, Decided, References
    <3>2. AppliedTimes(n)' = AppliedTimes(n)
      BY <1>1 DEF AppliedTimes
    <3>3. CASE n = m
      <4>1. \A q \in Runs : run[q].ref = n => q = r
        BY <3>1, <3>3 DEF DecidedAt
      <4>2. CASE run[r].at = "confirmed"
        <5>1. request'[n] = "CONFIRMED"
          BY <1>1, <1>3, <3>3, <4>2 DEF IInv, TypeOK
        <5>2. AppliedTimes(n) = 1
          BY <3>1, <3>3, <4>2 DEF DecidedAt
        <5> QED BY <1>4, <1>5, <3>1, <3>2, <4>1, <5>1, <5>2 DEF DecidedAt
      <4>3. CASE run[r].at = "rejected"
        <5>1. request'[n] = "REJECTED"
          BY <1>1, <1>3, <3>3, <4>3 DEF IInv, TypeOK
        <5>2. AppliedTimes(n) = 0
          BY <3>1, <3>3, <4>1, <4>3 DEF DecidedAt
        <5> QED BY <1>4, <1>5, <3>1, <3>2, <4>1, <5>1, <5>2 DEF DecidedAt
      <4> QED BY <1>1, <4>2, <4>3
    <3>4. CASE n # m
      <4>1. request'[n] = request[n]
        BY <1>1, <1>3, <3>4 DEF IInv, TypeOK
      <4> QED BY <1>4, <1>5, <3>1, <3>2, <3>4, <4>1 DEF DecidedAt
    <3> QED BY <3>3, <3>4
  <2> QED BY <2>1 DEF Decided
<1> QED BY <1>4, <1>6, <1>7, <1>8, <1>9 DEF IInv

LEMMA CrashInv == ASSUME IInv, Crash PROVE IInv'
<1>1. /\ crashes < MaxCrashes /\ crashes' = crashes + 1
      /\ shaken' = shaken \cup {ref \in Requests \cup Orders : Working(ref) # {}}
      /\ torn' = (torn \/ At("boost") \cup At("vendor") # {})
      /\ run' = [r \in Runs |-> Idle]
      /\ UNCHANGED <<charge, purpose, request, event, balance, log, given, boosts, featured,
                     byWebhook, edits>>
  BY DEF Crash, rows, money, boost
<1>2. \A r \in Runs : /\ run'[r] = Idle /\ run'[r].at = "idle" /\ run'[r].nth = 0
                      /\ run'[r].ref = NoReference
  BY <1>1 DEF Idle
<1>3. TypeOK'
  <2>1. run' \in [Runs -> RunRow']
    <3>1. RunRow' = RunRow /\ Idle \in RunRow
      BY <1>1, IdleType DEF RunRow, IInv, TypeOK
    <3> QED BY <1>1, <3>1
  <2>2. unlogged' \in Int
    <3>1. IsFiniteSet(At("row")) /\ IsFiniteSet(At("debited"))
      BY FS_Subset, DepositAssumption DEF At
    <3>2. Cardinality(At("row")) \in Nat /\ Cardinality(At("debited")) \in Nat
      BY <3>1, FS_CardinalityType
    <3> QED BY <3>2 DEF Crash, IInv, TypeOK
  <2>3. torn' \in BOOLEAN
    BY <1>1
  <2>4. crashes' \in 0 .. MaxCrashes
    BY <1>1, DepositAssumption DEF IInv, TypeOK
  <2> QED BY <1>1, <2>1, <2>2, <2>3, <2>4 DEF IInv, TypeOK, RunRow
<1>4. Fits'
  BY <1>2 DEF Fits
<1>5. (Counted /\ WebhookCreditsOnce)'
  BY <1>1, <1>2 DEF IInv, Counted, WebhookCreditsOnce, Late
<1>6. Ordered'
  <2>1. ASSUME NEW o \in Orders PROVE OrderedAt(o)'
    <3>1. OrderedAt(o) /\ o # NoReference
      BY NoReferenceAssumption DEF IInv, Ordered, References
    <3>2. o \notin shaken' => \A r \in Runs : run[r].ref # o
      BY <1>1 DEF Working
    <3> QED BY <1>1, <1>2, <3>1, <3>2 DEF OrderedAt
  <2> QED BY <2>1 DEF Ordered
<1>7. Decided'
  <2>1. ASSUME NEW m \in Requests \ shaken' PROVE DecidedAt(m)'
    <3>1. DecidedAt(m) /\ m # NoReference
      BY <1>1, NoReferenceAssumption DEF IInv, Decided, References
    <3>2. \A r \in Runs : run[r].ref # m
      BY <1>1 DEF Working
    <3>3. AppliedTimes(m)' = AppliedTimes(m)
      BY <1>1 DEF AppliedTimes
    <3> QED BY <1>1, <1>2, <3>1, <3>2, <3>3 DEF DecidedAt
  <2> QED BY <2>1 DEF Decided
<1>8. Lockstep'
  BY <1>1, <1>2 DEF IInv, Lockstep, Apart, At
<1> QED BY <1>3, <1>4, <1>5, <1>6, <1>7, <1>8 DEF IInv

-----------------------------------------------------------------------------
LEMMA StepInv == ASSUME IInv, NEW r \in Runs, Step(r) PROVE IInv'
<1>1. CASE StartVerify(r)
  BY <1>1, DecideInv DEF StartVerify, Apply
<1>2. CASE StartWebhook(r)
  BY <1>2, DecideInv DEF StartWebhook
<1>3. CASE StartConfirm(r)
  BY <1>3, DecideInv DEF StartConfirm, Apply
<1>4. CASE StartReject(r)
  BY <1>4, DecideInv DEF StartReject
<1>5. CASE StartDebit(r)
  <2>1. (balance >= 1) \in BOOLEAN
    OBVIOUS
  <2>2. run[r].kind \in {"wallet", "deduct"} /\ Decide(r, balance >= 1, "debit")
    BY <1>5 DEF StartDebit
  <2> QED BY <2>1, <2>2, DecideInv
<1> QED BY <1>1, <1>2, <1>3, <1>4, <1>5, RecordEventInv, CreditInv, LogCreditInv, DebitInv,
           LogDebitInv, FeatureVendorInv, CreateBoostInv, EndBoostInv, EndFeatureInv, MarkInv
        DEF Step

LEMMA NextIInv == IInv /\ [Next]_vars => IInv'
<1> SUFFICES ASSUME IInv, [Next]_vars PROVE IInv'
  OBVIOUS
<1>1. CASE InitializeWalletDeposit \/ InitializeFeatureBoostPayment
  BY <1>1, InitializeChargeInv, CreateRequestInv
     DEF InitializeWalletDeposit, InitializeFeatureBoostPayment, Purposes
<1>2. CASE UNCHANGED vars
  <2>1. UNCHANGED <<charge, purpose, request, event, balance, log, given, boosts, featured,
                    run, byWebhook, shaken, unlogged, torn, edits, crashes>>
    BY <1>2 DEF vars, rows, money, boost, history
  <2>2. (TypeOK /\ Fits)'
    BY <2>1 DEF IInv, TypeOK, Fits, FitsRow
  <2>3. (Counted /\ WebhookCreditsOnce /\ Ordered)'
    BY <2>1 DEF IInv, Counted, Late, WebhookCreditsOnce, Ordered, OrderedAt
  <2>4. (Decided /\ Lockstep)'
    BY <2>1 DEF IInv, Decided, DecidedAt, AppliedTimes, Lockstep, Apart
  <2> QED BY <2>2, <2>3, <2>4 DEF IInv
<1> QED BY <1>1, <1>2, CustomerPaysChargeInv, ArriveInv, StepInv, CrashInv DEF Next

LEMMA AlwaysIInv == Spec => []IInv
  BY InitIInv, NextIInv, PTL DEF Spec

\* Rows, ledger and handlers keep their types.
THEOREM DepositsTypeCorrect == Spec => []TypeOK
<1>1. IInv => TypeOK
  BY DEF IInv
<1> QED BY <1>1, AlwaysIInv, PTL

\* The webhook applies a charge once at most.
THEOREM EventAppliedOnce == Spec => []WebhookCreditsOnce
<1>1. IInv => WebhookCreditsOnce
  BY DEF IInv
<1> QED BY <1>1, AlwaysIInv, PTL

\* A bank transfer decided without overlap is applied as it was decided.
THEOREM TransferSettledOnce == Spec => []RequestSettledOnce
<1>1. IInv => RequestSettledOnce
  BY DEF IInv, Decided, DecidedAt, RequestSettledOnce
<1> QED BY <1>1, AlwaysIInv, PTL

\* A debit without a crash has bought its boost, and no boost is free.
THEOREM DebitMeansBoost == Spec => []DebitBuysBoost
<1>1. IInv => DebitBuysBoost
  <2>1. \A o \in Orders : Working(o) = {} => \A r \in Runs : run[r].ref # o
    BY DEF Working
  <2> QED BY <2>1 DEF IInv, Ordered, OrderedAt, DebitBuysBoost
<1> QED BY <1>1, AlwaysIInv, PTL

\* A vendor is featured until the end of one of its boosts.
THEOREM FeaturedByBoost == Spec => []FeaturedUntilSomeBoost
<1>1. IInv => FeaturedUntilSomeBoost
  <2> SUFFICES ASSUME IInv, ~torn, At("boost") \cup At("vendor") = {}, featured # 0
               PROVE  featured \in Range(boosts)
    BY DEF FeaturedUntilSomeBoost
  <2>1. PICK n \in 1 .. Len(boosts) : boosts[n] = featured
    BY DEF IInv, Lockstep, At
  <2>2. n \in DOMAIN boosts
    BY DEF IInv, TypeOK
  <2> QED BY <2>1, <2>2 DEF Range
<1> QED BY <1>1, AlwaysIInv, PTL

-----------------------------------------------------------------------------
(* The wallet's balance and its Transaction rows.                          *)

\* The rows that there are, and what they lack.
Balanced == IsFiniteSet(Posted) /\ LogTrailsBalance

LEMMA LoggedIs == Logged = Sum(log, Posted)
BY DEF Logged, Sum, MapThenSumSet, MapThenFoldSet

LEMMA LoggedIsNext == Logged' = Sum(log', Posted')
BY DEF Logged, Sum, MapThenSumSet, MapThenFoldSet

\* A reference without rows adds nothing.
LEMMA SumWithNone ==
  ASSUME NEW f, NEW S, IsFiniteSet(S), \A i \in S : f[i] \in Int, NEW x, x \in S \/ f[x] = 0
  PROVE  Sum(f, S \cup {x}) = Sum(f, S)
<1>1. CASE x \in S
  <2>1. S \cup {x} = S
    BY <1>1
  <2> QED BY <2>1
<1>2. CASE x \notin S
  <2>1. f[x] = 0 /\ f[x] \in Int
    BY <1>2
  <2>2. Sum(f, S \cup {x}) = Sum(f, S) + f[x]
    BY <1>2, <2>1, SumWith
  <2>3. Sum(f, S) \in Int
    BY SumInt
  <2> QED BY <2>1, <2>2, <2>3
<1> QED BY <1>1, <1>2

\* One row more, of a credit (n = 1) or of a debit (n = -1).
LEMMA LoggedChanges ==
  ASSUME TypeOK, IsFiniteSet(Posted), NEW ref \in References, NEW n \in Int,
         log' = [log EXCEPT ![ref] = @ + n]
  PROVE  IsFiniteSet(Posted') /\ Logged' = Logged + n
<1> DEFINE D == Posted \cup {ref}
<1>1. log \in [References -> Int] /\ log' \in [References -> Int]
      /\ log'[ref] = log[ref] + n /\ \A x \in References \ {ref} : log'[x] = log[x]
  BY DEF TypeOK
<1>2. D \subseteq References /\ D = Posted' \cup {ref}
  BY <1>1 DEF Posted
<1>3. IsFiniteSet(D)
  BY FS_AddElement
<1>4. IsFiniteSet(Posted')
  BY <1>2, <1>3, FS_Subset
<1>5. Sum(log, D) = Sum(log, Posted)
  <2>1. \A x \in Posted : log[x] \in Int
    BY <1>1 DEF Posted
  <2>2. ref \in Posted \/ log[ref] = 0
    BY DEF Posted
  <2> QED BY <2>1, <2>2, SumWithNone
<1>6. Sum(log', D) = Sum(log', Posted')
  <2>1. \A x \in Posted' : log'[x] \in Int
    BY <1>1 DEF Posted
  <2>2. ref \in Posted' \/ log'[ref] = 0
    BY DEF Posted
  <2>3. Sum(log', Posted' \cup {ref}) = Sum(log', Posted')
    BY <1>4, <2>1, <2>2, SumWithNone
  <2> QED BY <1>2, <2>3
<1>7. /\ \A x \in D : log[x] \in Int /\ log'[x] \in Int
      /\ \A x \in D \ {ref} : log'[x] = log[x]
  BY <1>1, <1>2
<1> DEFINE f == log
           g == log'
<1>8. Sum(g, D) = Sum(f, D) - f[ref] + g[ref]
  <2>1. ref \in D
    OBVIOUS
  <2> HIDE DEF D, f, g
  <2>2. \A x \in D : f[x] \in Int /\ g[x] \in Int
    BY <1>7 DEF f, g
  <2>3. \A x \in D \ {ref} : g[x] = f[x]
    BY <1>7 DEF f, g
  <2> QED BY <1>3, <2>1, <2>2, <2>3, SumChanges
<1>9. Sum(log, D) \in Int
  BY <1>3, <1>7, SumInt
<1>10. Sum(log', D) = Sum(log, D) + n
  <2>1. Sum(log', D) = Sum(log, D) - log[ref] + log'[ref]
    BY <1>8
  <2>2. log[ref] \in Int
    BY <1>1
  <2> QED BY <1>1, <1>9, <2>1, <2>2
<1>11. Logged = Sum(log, Posted) /\ Logged' = Sum(log', Posted')
  BY LoggedIs, LoggedIsNext
<1> QED BY <1>4, <1>5, <1>6, <1>10, <1>11

LEMMA LoggedInt == ASSUME TypeOK, IsFiniteSet(Posted) PROVE Logged \in Int
<1>1. \A x \in Posted : log[x] \in Int
  BY DEF TypeOK, Posted
<1> QED BY <1>1, LoggedIs, SumInt

LEMMA LoggedKept ==
  ASSUME log' = log PROVE Logged' = Logged /\ Posted' = Posted
<1>1. Posted' = Posted
  BY DEF Posted
<1> QED BY <1>1, LoggedIs, LoggedIsNext

LEMMA AtFinite ==
  ASSUME NEW step PROVE IsFiniteSet(At(step)) /\ Cardinality(At(step)) \in Nat
<1>1. At(step) \subseteq Runs
  BY DEF At
<1>2. IsFiniteSet(At(step))
  BY <1>1, FS_Subset, DepositAssumption
<1> QED BY <1>2, FS_CardinalityType

\* Handlers that come to a step, and leave one.
LEMMA AtMoves ==
  ASSUME NEW step, NEW r \in Runs, \A q \in Runs \ {r} : run'[q].at = run[q].at
  PROVE  /\ run[r].at # step /\ run'[r].at = step =>
              Cardinality(At(step)') = Cardinality(At(step)) + 1
         /\ run[r].at = step /\ run'[r].at # step =>
              Cardinality(At(step)') = Cardinality(At(step)) - 1
         /\ (run[r].at = step <=> run'[r].at = step) =>
              Cardinality(At(step)') = Cardinality(At(step))
<1>1. IsFiniteSet(At(step)) /\ Cardinality(At(step)) \in Nat
  BY AtFinite
<1>2. ASSUME run[r].at # step, run'[r].at = step
      PROVE  Cardinality(At(step)') = Cardinality(At(step)) + 1
  <2>1. At(step)' = At(step) \cup {r} /\ r \notin At(step)
    BY <1>2 DEF At
  <2> QED BY <1>1, <2>1, FS_AddElement
<1>3. ASSUME run[r].at = step, run'[r].at # step
      PROVE  Cardinality(At(step)') = Cardinality(At(step)) - 1
  <2>1. At(step)' = At(step) \ {r} /\ r \in At(step)
    BY <1>3 DEF At
  <2> QED BY <1>1, <2>1, FS_RemoveElement
<1>4. ASSUME run[r].at = step <=> run'[r].at = step
      PROVE  Cardinality(At(step)') = Cardinality(At(step))
  <2>1. At(step)' = At(step)
    BY <1>4 DEF At
  <2> QED BY <2>1
<1> QED BY <1>2, <1>3, <1>4

\* Most steps: neither the money nor who is to write a row changes.
LEMMA BalancedKept ==
  ASSUME IInv, Balanced, UNCHANGED <<balance, log, unlogged>>,
         NEW r \in Runs, \A q \in Runs \ {r} : run'[q].at = run[q].at,
         run[r].at \notin {"row", "debited"}, run'[r].at \notin {"row", "debited"}
  PROVE  Balanced'
<1>1. /\ Cardinality(At("row")') = Cardinality(At("row"))
      /\ Cardinality(At("debited")') = Cardinality(At("debited"))
  BY AtMoves
<1>2. Logged' = Logged /\ Posted' = Posted
  BY LoggedKept
<1> QED BY <1>1, <1>2 DEF Balanced, LogTrailsBalance

\* Nobody moves at all.
LEMMA BalancedStill ==
  ASSUME Balanced, UNCHANGED <<balance, log, unlogged, run>> PROVE Balanced'
<1>1. At("row")' = At("row") /\ At("debited")' = At("debited")
  BY DEF At
<1>2. Logged' = Logged /\ Posted' = Posted
  BY LoggedKept
<1> QED BY <1>1, <1>2 DEF Balanced, LogTrailsBalance

\* What the numbers of the equation are.
LEMMA BalanceNumbers ==
  ASSUME IInv, Balanced
  PROVE  /\ balance \in Int /\ unlogged \in Int /\ Logged \in Int
         /\ Cardinality(At("row")) \in Nat /\ Cardinality(At("debited")) \in Nat
         /\ balance = Logged + unlogged + Cardinality(At("row")) - Cardinality(At("debited"))
<1>1. Logged \in Int
  BY LoggedInt DEF IInv, Balanced
<1> QED BY <1>1, AtFinite DEF IInv, TypeOK, Balanced, LogTrailsBalance

LEMMA RunMoves ==
  ASSUME IInv, NEW r \in Runs, NEW step \in Steps, Goto(r, step) \/ End(r)
  PROVE  /\ \A q \in Runs \ {r} : run'[q].at = run[q].at
         /\ run'[r].at \in {step, "idle"}
         /\ Goto(r, step) => run'[r].at = step
<1>1. run \in [Runs -> RunRow]
  BY DEF IInv, TypeOK, RunRow
<1>2. run[r] \in RunRow
  BY <1>1
<1>3. [run[r] EXCEPT !.at = step].at = step
  BY <1>2 DEF RunRow
<1>4. Idle.at = "idle"
  BY DEF Idle
<1>5. Goto(r, step) => run' = [run EXCEPT ![r] = [run[r] EXCEPT !.at = step]]
  BY <1>1 DEF Goto
<1>6. End(r) => run' = [run EXCEPT ![r] = Idle]
  BY DEF End
<1> QED BY <1>1, <1>3, <1>4, <1>5, <1>6

LEMMA StepsAre == {"row", "debited", "confirmed", "feature"} \subseteq Steps
BY DEF Steps

\* A handler that decides, or goes on without touching the money.
LEMMA GoOnBalanced ==
  ASSUME IInv, Balanced, UNCHANGED <<balance, log, unlogged>>,
         NEW r \in Runs, NEW step \in Steps, Goto(r, step) \/ End(r),
         run[r].at \notin {"row", "debited"}, step \notin {"row", "debited"}
  PROVE  Balanced'
<1>1. /\ \A q \in Runs \ {r} : run'[q].at = run[q].at
      /\ run'[r].at \in {step, "idle"}
  BY RunMoves
<1>2. run'[r].at \notin {"row", "debited"}
  BY <1>1
<1> QED BY <1>1, <1>2, BalancedKept

LEMMA DecideBalanced ==
  ASSUME IInv, Balanced, NEW r \in Runs, NEW ok, NEW step \in Steps, Decide(r, ok, step),
         step \notin {"row", "debited"}
  PROVE  Balanced'
<1>1. /\ UNCHANGED <<balance, log, unlogged>> /\ run[r].at = "start"
      /\ Goto(r, step) \/ End(r)
  BY DEF Decide, rows, money, history
<1>2. run[r].at \notin {"row", "debited"}
  BY <1>1
<1> QED BY <1>1, <1>2, GoOnBalanced

LEMMA BeginBalanced ==
  ASSUME IInv, Balanced, NEW r \in Runs, NEW k, NEW x, Begin(r, k, x) PROVE Balanced'
<1>1. /\ UNCHANGED <<balance, log, unlogged>> /\ run[r] = Idle
      /\ run' = [run EXCEPT ![r] = [Idle EXCEPT !.kind = k, !.ref = x, !.at = "start"]]
  BY DEF Begin, rows, money
<1>2. /\ run[r].at = "idle" /\ run'[r].at = "start"
      /\ \A q \in Runs \ {r} : run'[q].at = run[q].at
  BY <1>1 DEF Idle, IInv, TypeOK
<1> QED BY <1>1, <1>2, BalancedKept

LEMMA OrderBalanced ==
  ASSUME IInv, Balanced, NEW r \in Runs, NEW o, NEW k, NEW for, NEW step,
         step \in {"start", "credit"}, Order(r, o, k, for, step)
  PROVE  Balanced'
<1>1. /\ UNCHANGED <<balance, log, unlogged>> /\ run[r] = Idle
      /\ run' = [run EXCEPT ![r] = [Idle EXCEPT !.kind = k, !.ref = o, !.at = step]]
  BY DEF Order, rows, money, history
<1>2. /\ run[r].at = "idle" /\ run'[r].at = step
      /\ \A q \in Runs \ {r} : run'[q].at = run[q].at
  BY <1>1 DEF Idle, IInv, TypeOK
<1>3. run[r].at \notin {"row", "debited"} /\ run'[r].at \notin {"row", "debited"}
  BY <1>2
<1> QED BY <1>1, <1>2, <1>3, BalancedKept

LEMMA StartExtendBalanced ==
  ASSUME IInv, Balanced, NEW r \in Runs, NEW n, NEW date, StartExtend(r, n, date)
  PROVE  Balanced'
<1> DEFINE k == IF featured <= boosts[n] THEN "extend" ELSE "edit"
<1>1. /\ UNCHANGED <<balance, log, unlogged>> /\ run[r] = Idle
      /\ run' = [run EXCEPT ![r] =
           [Idle EXCEPT !.kind = k, !.at = "end", !.until = date, !.nth = n]]
  BY DEF StartExtend, rows, money
<1> HIDE DEF k
<1>2. /\ run[r].at = "idle" /\ run'[r].at = "end"
      /\ \A q \in Runs \ {r} : run'[q].at = run[q].at
  BY <1>1 DEF Idle, IInv, TypeOK
<1> QED BY <1>1, <1>2, BalancedKept

LEMMA ArriveBalanced == ASSUME IInv, Balanced, NEW r \in Runs, Arrive(r) PROVE Balanced'
BY BeginBalanced, OrderBalanced, StartExtendBalanced
   DEF Arrive, Deliver, BuyBoost, AdjustWallet

\* creditWallet's two steps, and debitWallet's.
LEMMA CreditBalanced == ASSUME IInv, Balanced, NEW r \in Runs, Credit(r) PROVE Balanced'
<1>1. /\ UNCHANGED <<log, unlogged>> /\ balance' = balance + 1
      /\ run[r].at = "credit" /\ Goto(r, "row")
  BY DEF Credit
<1>2. run'[r].at = "row" /\ \A q \in Runs \ {r} : run'[q].at = run[q].at
  BY <1>1, RunMoves, StepsAre
<1>3. /\ Cardinality(At("row")') = Cardinality(At("row")) + 1
      /\ Cardinality(At("debited")') = Cardinality(At("debited"))
  BY <1>1, <1>2, AtMoves
<1>4. Logged' = Logged /\ Posted' = Posted
  BY <1>1, LoggedKept
<1> QED BY <1>1, <1>3, <1>4, BalanceNumbers DEF Balanced, LogTrailsBalance

LEMMA DebitBalanced == ASSUME IInv, Balanced, NEW r \in Runs, Debit(r) PROVE Balanced'
<1>1. /\ UNCHANGED <<log, unlogged>> /\ balance' = balance - 1
      /\ run[r].at = "debit" /\ Goto(r, "debited")
  BY DEF Debit, history
<1>2. run'[r].at = "debited" /\ \A q \in Runs \ {r} : run'[q].at = run[q].at
  BY <1>1, RunMoves, StepsAre
<1>3. /\ Cardinality(At("row")') = Cardinality(At("row"))
      /\ Cardinality(At("debited")') = Cardinality(At("debited")) + 1
  BY <1>1, <1>2, AtMoves
<1>4. Logged' = Logged /\ Posted' = Posted
  BY <1>1, LoggedKept
<1> QED BY <1>1, <1>3, <1>4, BalanceNumbers DEF Balanced, LogTrailsBalance

LEMMA LogCreditBalanced ==
  ASSUME IInv, Balanced, NEW r \in Runs, LogCredit(r) PROVE Balanced'
<1>1. /\ UNCHANGED <<balance, unlogged>> /\ run[r].at = "row"
      /\ log' = [log EXCEPT ![run[r].ref] = @ + 1]
      /\ Goto(r, "confirmed") \/ End(r)
  BY DEF LogCredit, Applied, history
<1>2. run'[r].at \in {"confirmed", "idle"} /\ \A q \in Runs \ {r} : run'[q].at = run[q].at
  BY <1>1, RunMoves, StepsAre
<1>3. /\ Cardinality(At("row")') = Cardinality(At("row")) - 1
      /\ Cardinality(At("debited")') = Cardinality(At("debited"))
  <2>1. run'[r].at # "row" /\ run'[r].at # "debited" /\ run[r].at # "debited"
    BY <1>1, <1>2
  <2> QED BY <1>1, <1>2, <2>1, AtMoves
<1>4. run[r].ref \in References
  BY <1>1, Busy DEF FitsRow, Placed, References
<1>5. IsFiniteSet(Posted') /\ Logged' = Logged + 1
  <2>1. PICK ref \in References : ref = run[r].ref
    BY <1>4
  <2>2. PICK n \in Int : n = 1
    OBVIOUS
  <2>3. log' = [log EXCEPT ![ref] = @ + n]
    BY <1>1, <2>1, <2>2
  <2>4. TypeOK /\ IsFiniteSet(Posted)
    BY DEF IInv, Balanced
  <2>5. IsFiniteSet(Posted') /\ Logged' = Logged + n
    BY <2>3, <2>4, LoggedChanges
  <2> QED BY <2>2, <2>5
<1> QED BY <1>1, <1>3, <1>5, BalanceNumbers DEF Balanced, LogTrailsBalance

LEMMA LogDebitBalanced ==
  ASSUME IInv, Balanced, NEW r \in Runs, LogDebit(r) PROVE Balanced'
<1>1. /\ UNCHANGED <<balance, unlogged>> /\ run[r].at = "debited"
      /\ log' = [log EXCEPT ![run[r].ref] = @ - 1]
      /\ Goto(r, "feature") \/ End(r)
  BY DEF LogDebit, history
<1>2. run'[r].at \in {"feature", "idle"} /\ \A q \in Runs \ {r} : run'[q].at = run[q].at
  BY <1>1, RunMoves, StepsAre
<1>3. /\ Cardinality(At("row")') = Cardinality(At("row"))
      /\ Cardinality(At("debited")') = Cardinality(At("debited")) - 1
  <2>1. run'[r].at # "row" /\ run'[r].at # "debited" /\ run[r].at # "row"
    BY <1>1, <1>2
  <2> QED BY <1>1, <1>2, <2>1, AtMoves
<1>4. run[r].ref \in References
  BY <1>1, Busy DEF FitsRow, Placed, References
<1>5. TypeOK /\ IsFiniteSet(Posted)
  BY DEF IInv, Balanced
<1>6. IsFiniteSet(Posted') /\ Logged' = Logged - 1
  <2>1. PICK ref \in References : ref = run[r].ref
    BY <1>4
  <2>2. PICK n \in Int : n = -1
    OBVIOUS
  <2>3. log' = [log EXCEPT ![ref] = @ + n]
    <3>1. log[ref] \in Int /\ log[ref] - 1 = log[ref] + n
      BY <1>5, <2>2 DEF TypeOK
    <3> QED BY <1>1, <2>1, <3>1
  <2>4. IsFiniteSet(Posted') /\ Logged' = Logged + n
    BY <1>5, <2>3, LoggedChanges
  <2>5. Logged \in Int
    BY <1>5, LoggedInt
  <2> QED BY <2>2, <2>4, <2>5
<1> QED BY <1>1, <1>3, <1>6, BalanceNumbers DEF Balanced, LogTrailsBalance

\* The rest of a handler's steps.
LEMMA FeatureVendorBalanced ==
  ASSUME IInv, Balanced, NEW r \in Runs, FeatureVendor(r) PROVE Balanced'
<1>1. /\ UNCHANGED <<balance, log, unlogged>> /\ run[r].at = "feature"
      /\ run' = [run EXCEPT ![r].at = "boost", ![r].until = PlanOf[run[r].ref]]
  BY DEF FeatureVendor, money
<1>2. run'[r].at = "boost" /\ \A q \in Runs \ {r} : run'[q].at = run[q].at
  BY <1>1 DEF IInv, TypeOK
<1> QED BY <1>1, <1>2, BalancedKept

LEMMA OtherBalanced ==
  ASSUME IInv, Balanced, NEW r \in Runs,
         \/ RecordEvent(r) \/ CreateBoost(r) \/ EndBoost(r) \/ EndFeature(r)
         \/ MarkConfirmed(r) \/ MarkRejected(r)
  PROVE  Balanced'
<1>1. UNCHANGED <<balance, log, unlogged>>
  BY DEF RecordEvent, CreateBoost, EndBoost, EndFeature, MarkConfirmed, MarkRejected,
         money, history
<1>2. run[r].at \in {"record", "boost", "end", "vendor", "confirmed", "rejected"}
  BY DEF RecordEvent, CreateBoost, EndBoost, EndFeature, MarkConfirmed, MarkRejected
<1>3. \E step \in {"credit", "feature", "confirmed", "vendor"} : Goto(r, step) \/ End(r)
  BY DEF RecordEvent, CreateBoost, EndBoost, EndFeature, MarkConfirmed, MarkRejected,
         Apply, Applied
<1>4. PICK step \in {"credit", "feature", "confirmed", "vendor"} : Goto(r, step) \/ End(r)
  BY <1>3
<1>5. step \in Steps /\ step \notin {"row", "debited"} /\ run[r].at \notin {"row", "debited"}
  BY <1>2, <1>4 DEF Steps
<1> QED BY <1>1, <1>4, <1>5, GoOnBalanced

LEMMA StepBalanced == ASSUME IInv, Balanced, NEW r \in Runs, Step(r) PROVE Balanced'
<1>1. /\ Apply(r) \in Steps \ {"row", "debited"} /\ "record" \in Steps \ {"row", "debited"}
      /\ "rejected" \in Steps \ {"row", "debited"} /\ "debit" \in Steps \ {"row", "debited"}
  BY DEF Apply, Steps
<1>2. CASE StartVerify(r) \/ StartWebhook(r) \/ StartConfirm(r) \/ StartReject(r) \/ StartDebit(r)
  BY <1>1, <1>2, DecideBalanced
     DEF StartVerify, StartWebhook, StartConfirm, StartReject, StartDebit
<1> QED BY <1>2, CreditBalanced, LogCreditBalanced, DebitBalanced, LogDebitBalanced,
           FeatureVendorBalanced, OtherBalanced DEF Step

\* The rows that the dead handlers still had to write will never be.
LEMMA CrashBalanced == ASSUME IInv, Balanced, Crash PROVE Balanced'
<1>1. /\ UNCHANGED <<balance, log>>
      /\ unlogged' = unlogged + Cardinality(At("row")) - Cardinality(At("debited"))
      /\ run' = [r \in Runs |-> Idle]
  BY DEF Crash, rows, money
<1>2. At("row")' = {} /\ At("debited")' = {}
  BY <1>1 DEF At, Idle
<1>3. Cardinality(At("row")') = 0 /\ Cardinality(At("debited")') = 0
  BY <1>2, FS_EmptySet
<1>4. Logged' = Logged /\ Posted' = Posted
  BY <1>1, LoggedKept
<1> QED BY <1>1, <1>3, <1>4, BalanceNumbers DEF Balanced, LogTrailsBalance

LEMMA InitBalanced == Init => Balanced
<1> SUFFICES ASSUME Init PROVE Balanced
  OBVIOUS
<1>1. Posted = {} /\ At("row") = {} /\ At("debited") = {}
  BY DEF Init, Posted, At, Idle
<1>2. Logged = 0
  BY <1>1, LoggedIs, SumEmpty
<1>3. Cardinality(At("row")) = 0 /\ Cardinality(At("debited")) = 0 /\ IsFiniteSet(Posted)
  BY <1>1, FS_EmptySet
<1>4. balance = 0 /\ unlogged = 0
  BY DEF Init
<1> QED BY <1>2, <1>3, <1>4 DEF Balanced, LogTrailsBalance

LEMMA NextBalanced == IInv /\ Balanced /\ [Next]_vars => Balanced'
<1> SUFFICES ASSUME IInv, Balanced, [Next]_vars PROVE Balanced'
  OBVIOUS
<1>1. CASE \/ InitializeWalletDeposit \/ InitializeFeatureBoostPayment
           \/ \E c \in Charges : CustomerPaysCharge(c)
           \/ UNCHANGED vars
  <2>1. UNCHANGED <<balance, log, unlogged, run>>
    BY <1>1 DEF InitializeWalletDeposit, InitializeFeatureBoostPayment, InitializeCharge,
                CreateRequest, CustomerPaysCharge, vars, rows, money, history
  <2> QED BY <2>1, BalancedStill
<1> QED BY <1>1, ArriveBalanced, StepBalanced, CrashBalanced DEF Next

\* The balance is what the rows add up to and what the handlers at work or dead still owe
\* them, for any number of payments, handlers and crashes.
THEOREM LogTrailsBalanceHolds == Spec => []LogTrailsBalance
<1>1. Balanced => LogTrailsBalance
  BY DEF Balanced
<1> QED BY <1>1, InitBalanced, NextBalanced, AlwaysIInv, PTL DEF Spec

-----------------------------------------------------------------------------
(* The shopping list: its inductive invariant.  A handler's numbers are    *)
(* what it has read; the parts below say what they are worth by now.       *)

Unspoilt(by) == mishap \cap by = {}
Mishaps == {"repriced", "reset", "approvals", "payouts", "fee", "negative", "lost"}
Fair == {"repriced", "payouts", "negative", "lost"}

\* What may have reached a seller, and what a request still means to pay.
Gone == Live \cup Unanswered
Due(w) == w.pay + w.rest

\* What a handler works on.
ListPath(r) ==
  /\ r.step \in {"check", "mark"} => r.item \in Items /\ r.price \in Prices
  /\ r.step = "total" => r.read >= 0
  /\ r.step = "transfer" => r.payout \in Payouts

\* Whoever is in the middle of its transfer is alone with its payout.
TransferAlone ==
  \A h \in Handlers : work[h].step = "transfer" =>
    /\ payout[work[h].payout].status = "PENDING"
    /\ \A g \in Handlers :
         work[g].step = "transfer" /\ work[g].payout = work[h].payout => g = h

\* The list and the payouts are finite, and what has not been listed is blank.
Rows ==
  /\ IsFiniteSet(Listed) /\ IsFiniteSet(Gone)
  /\ \A i \in Items : item[i].row = "absent" => item[i].price = 0 /\ ~item[i].approved

\* A list that somebody is still to sum up has no total to compare.
TotalFollows ==
  ~off /\ (\A h \in Handlers : work[h].step \notin {"aggregate", "total"}) =>
    total = ApprovedSum

\* What an approval under way has shown its customer is the price, or none.
ShownPrices ==
  Unspoilt({"repriced"}) =>
    \A h \in Handlers :
      work[h].step \in {"check", "mark"} /\ work[h].item \in Listed =>
        item[work[h].item].price \in {0, work[h].price}

\* An approved item costs what was agreed, or had its price taken away since.
AgreedPrices ==
  Unspoilt({"repriced"}) =>
    \A i \in Approved : item[i].price \in {0, agreed[i]}

NeverReset == Unspoilt({"repriced", "reset"}) => \A i \in Approved : item[i].price # 0

\* The budget an approval has found is still there, and room for its item in it.
BudgetFits ==
  Unspoilt({"repriced", "approvals", "fee"}) =>
    /\ ApprovedSum <= deposit - fee
    /\ \A h \in Handlers :
         /\ work[h].step = "check" => work[h].read <= deposit - fee
         /\ work[h].step = "mark" => ApprovedSum + work[h].price <= deposit - fee

\* No total is more than the customer once agreed to, and no request to pay the
\* sellers goes beyond the total it has read.
TotalAgreed ==
  /\ Sum(agreed, Approved) <= most
  /\ Unspoilt({"repriced"}) =>
       /\ total <= most
       /\ \A h \in Handlers : work[h].step \in {"total", "cap"} => work[h].read <= most

\* Nothing of less than nothing has gone out or will, and whoever pays stays within
\* what was agreed.
PayoutsFit ==
  Unspoilt(Fair) =>
    /\ Received <= most
    /\ \A p \in Gone : payout[p].amount >= 0
    /\ \A h \in Handlers : work[h].step \in {"create", "transfer"} =>
         /\ work[h].pay >= 0 /\ work[h].rest >= 0
         /\ Received + Due(work[h]) <= most

ListInv ==
  /\ ListTypeOK /\ (\A h \in Handlers : ListPath(work[h])) /\ TransferAlone /\ Rows
  /\ TotalFollows /\ ShownPrices /\ AgreedPrices /\ NeverReset /\ BudgetFits
  /\ TotalAgreed /\ PayoutsFit

LEMMA NoWorkType == NoWork \in WorkRow
BY DEF NoWork, WorkRow

LEMMA SpoiltMore ==
  ASSUME mishap \subseteq mishap', NEW by, Unspoilt(by)' PROVE Unspoilt(by)
BY DEF Unspoilt

\* Rows of the list and of the payouts, and the numbers they come to.
Tables ==
  item \in [Items -> ItemRow] /\ payout \in [Payouts -> PayoutRow]
  /\ agreed \in [Items -> Prices \cup {0}] /\ Rows

Amounts ==
  /\ Approved \subseteq Listed /\ Listed \subseteq Items /\ Gone \subseteq Payouts
  /\ IsFiniteSet(Approved) /\ IsFiniteSet(Gone)
  /\ \A i \in Items : item[i] \in ItemRow /\ item[i].price \in Nat /\ agreed[i] \in Nat
  /\ \A p \in Payouts : payout[p] \in PayoutRow /\ payout[p].amount \in Int
  /\ ApprovedSum \in Nat /\ Sum(agreed, Approved) \in Nat /\ Received \in Int

LEMMA Numbers == Tables => Amounts
<1> SUFFICES ASSUME Tables PROVE Amounts
  OBVIOUS
<1>1. Approved \subseteq Listed /\ Listed \subseteq Items /\ Gone \subseteq Payouts
  BY DEF Approved, Listed, Gone, Live, Unanswered
<1>2. IsFiniteSet(Approved) /\ IsFiniteSet(Gone)
  BY <1>1, FS_Subset DEF Tables, Rows
<1>3. \A i \in Items : item[i] \in ItemRow /\ item[i].price \in Nat /\ agreed[i] \in Nat
  <2>1. \A i \in Items : item[i] \in ItemRow /\ agreed[i] \in Prices \cup {0}
    BY DEF Tables
  <2>2. \A r \in ItemRow : r.price \in Prices \cup {0}
    BY DEF ItemRow
  <2>3. Prices \cup {0} \subseteq Nat
    BY AmountsAssumption
  <2> QED BY <2>1, <2>2, <2>3
<1>4. \A p \in Payouts : payout[p] \in PayoutRow /\ payout[p].amount \in Int
  <2>1. \A p \in Payouts : payout[p] \in PayoutRow
    BY DEF Tables
  <2> QED BY <2>1 DEF PayoutRow
<1>5. ApprovedSum \in Nat
  <2> DEFINE f == [i \in Items |-> item[i].price]
  <2>1. \A i \in Approved : f[i] \in Nat
    BY <1>1, <1>3
  <2> HIDE DEF f
  <2>2. Sum(f, Approved) \in Nat
    BY <1>2, <2>1, SumNat
  <2> QED BY <2>2 DEF f, ApprovedSum
<1>6. Sum(agreed, Approved) \in Nat
  BY <1>1, <1>2, <1>3, SumNat
<1>7. Received \in Int
  <2> DEFINE f == [p \in Payouts |-> payout[p].amount]
  <2>1. \A p \in Gone : f[p] \in Int
    BY <1>1, <1>4
  <2> HIDE DEF f
  <2>2. Sum(f, Gone) \in Int
    BY <1>2, <2>1, SumInt
  <2> QED BY <2>2 DEF f, Received, Paid, Gone
<1> QED BY <1>1, <1>2, <1>3, <1>4, <1>5, <1>6, <1>7 DEF Amounts

LEMMA NumbersNext == Tables' => Amounts'
BY Numbers, PTL

LEMMA WorkNumbers ==
  ASSUME NEW w \in WorkRow
  PROVE  /\ w.read \in Int /\ w.price \in Nat /\ w.pay \in Int /\ w.rest \in Int
         /\ Due(w) \in Int
<1>1. /\ w.read \in Int /\ w.price \in Prices \cup {0}
      /\ w.pay \in Allotments \cup {0} /\ w.rest \in Allotments \cup {0}
  BY DEF WorkRow
<1>2. Prices \cup {0} \subseteq Nat /\ Allotments \cup {0} \subseteq Int
  BY AmountsAssumption
<1> QED BY <1>1, <1>2 DEF Due

\* What every state of ListInv has.
LEMMA ListNumbers ==
  ASSUME ListInv
  PROVE  /\ Tables /\ Amounts
         /\ deposit \in Nat /\ fee \in Nat /\ total \in Nat /\ most \in Nat
         /\ \A h \in Handlers : work[h] \in WorkRow /\ work[h].read \in Int
                                /\ work[h].price \in Nat /\ work[h].pay \in Int
                                /\ work[h].rest \in Int /\ Due(work[h]) \in Int
<1>1. Tables
  BY DEF ListInv, ListTypeOK, Tables
<1>2. deposit \in Nat /\ fee \in Nat /\ total \in Nat /\ most \in Nat
  BY AmountsAssumption DEF ListInv, ListTypeOK
<1>3. \A h \in Handlers : work[h] \in WorkRow
  BY DEF ListInv, ListTypeOK
<1> QED BY <1>1, <1>2, <1>3, WorkNumbers, Numbers

LEMMA MostIs ==
  ASSUME ListInv, NotesAgreement, Tables'
  PROVE  most' \in Nat /\ most <= most' /\ Sum(agreed, Approved)' <= most'
<1>1. Sum(agreed, Approved)' \in Nat
  BY NumbersNext DEF Amounts
<1>2. Sum(agreed, Approved)' =
        Sum(agreed', {i \in Items : item'[i].row = "listed" /\ item'[i].approved})
  <2>1. Approved' = {i \in Items : item'[i].row = "listed" /\ item'[i].approved}
    BY DEF Approved, Listed
  <2> QED BY <2>1
<1>3. most \in Nat
  BY DEF ListInv, ListTypeOK
<1>4. most' = IF Sum(agreed, Approved)' > most THEN Sum(agreed, Approved)' ELSE most
  BY <1>2 DEF NotesAgreement
<1> QED BY <1>1, <1>3, <1>4

\* What the list comes to changes with its rows only.
LEMMA ListKept ==
  ASSUME item' = item
  PROVE  Listed' = Listed /\ Approved' = Approved /\ ApprovedSum' = ApprovedSum
<1>1. Listed' = Listed
  BY DEF Listed
<1>2. Approved' = Approved
  BY <1>1 DEF Approved
<1> QED BY <1>1, <1>2 DEF ApprovedSum

LEMMA PayoutsKept ==
  ASSUME payout' = payout PROVE Gone' = Gone /\ Received' = Received
<1>1. Live' = Live /\ Unanswered' = Unanswered
  BY DEF Live, Unanswered
<1> QED BY <1>1 DEF Received, Paid, Gone

\* The approved items are worth no more than what was agreed for them.
LEMMA WorthAgreed ==
  ASSUME ListInv, Unspoilt({"repriced"}) PROVE ApprovedSum <= Sum(agreed, Approved)
<1> DEFINE f == [i \in Items |-> item[i].price]
<1>1. Amounts
  BY ListNumbers
<1>2. \A i \in Approved : f[i] \in Int /\ agreed[i] \in Int /\ f[i] <= agreed[i]
  <2> SUFFICES ASSUME NEW i \in Approved
               PROVE  f[i] \in Int /\ agreed[i] \in Int /\ f[i] <= agreed[i]
    OBVIOUS
  <2>1. i \in Items /\ item[i].price \in Nat /\ agreed[i] \in Nat
    BY <1>1 DEF Amounts
  <2>2. item[i].price \in {0, agreed[i]}
    BY DEF ListInv, AgreedPrices
  <2> QED BY <2>1, <2>2
<1> HIDE DEF f
<1>3. Sum(f, Approved) <= Sum(agreed, Approved)
  BY <1>1, <1>2, SumAtMost DEF Amounts
<1> QED BY <1>3 DEF f, ApprovedSum

-----------------------------------------------------------------------------
(* The steps that change what one handler has read, and nothing else.      *)

LEMMA WorkInv ==
  ASSUME ListInv, NotesAgreement, NEW h \in Handlers, NEW r \in WorkRow,
         UNCHANGED <<list, payout, agreed>>, mishap \subseteq mishap', mishap' \subseteq Mishaps,
         off' \in BOOLEAN, off => off',
         work' = [work EXCEPT ![h] = r], ListPath(r), r.step # "transfer",
         work[h].step \in {"aggregate", "total"} =>
           off' \/ r.step \in {"aggregate", "total"},
         Unspoilt({"repriced"}) /\ r.step \in {"check", "mark"} /\ r.item \in Listed =>
           item[r.item].price \in {0, r.price},
         Unspoilt({"repriced", "approvals", "fee"}) /\ r.step = "check" =>
           r.read <= deposit - fee,
         Unspoilt({"repriced", "approvals", "fee"}) /\ r.step = "mark" =>
           ApprovedSum + r.price <= deposit - fee,
         Unspoilt({"repriced"}) /\ r.step \in {"total", "cap"} => r.read <= most,
         Unspoilt(Fair)' /\ r.step = "create" =>
           r.pay >= 0 /\ r.rest >= 0 /\ Received + Due(r) <= most
  PROVE  ListInv'
<1> USE DEF list
<1>1. /\ Listed' = Listed /\ Approved' = Approved /\ ApprovedSum' = ApprovedSum
      /\ Gone' = Gone /\ Received' = Received
  BY ListKept, PayoutsKept
<1>2. \A by : Unspoilt(by)' => Unspoilt(by)
  BY SpoiltMore
<1>3. work \in [Handlers -> WorkRow]
  BY DEF ListInv, ListTypeOK
<1>4. /\ work'[h] = r
      /\ \A g \in Handlers \ {h} : work'[g] = work[g]
  BY <1>3
<1>5. Tables'
  BY <1>1, ListNumbers DEF Tables, Rows
<1>6. most' \in Nat /\ most <= most' /\ Sum(agreed, Approved)' <= most'
  BY <1>5, MostIs
<1>7. Amounts /\ most \in Nat
  BY ListNumbers
<1>8. ListTypeOK'
  BY <1>3, <1>6 DEF ListInv, ListTypeOK, Mishaps
<1>9. \A g \in Handlers : ListPath(work'[g])
  BY <1>4 DEF ListInv
<1>10. TransferAlone'
  BY <1>4 DEF ListInv, TransferAlone
<1>11. TotalFollows'
  BY <1>1, <1>4 DEF ListInv, TotalFollows
<1>12. ShownPrices'
  BY <1>1, <1>2, <1>4 DEF ListInv, ShownPrices
<1>13. AgreedPrices'
  BY <1>1, <1>2 DEF ListInv, AgreedPrices
<1>14. NeverReset'
  BY <1>1, <1>2 DEF ListInv, NeverReset
<1>15. BudgetFits'
  BY <1>1, <1>2, <1>4 DEF ListInv, BudgetFits
<1>16. TotalAgreed'
  <2>1. ASSUME Unspoilt({"repriced"})
        PROVE  /\ total <= most
               /\ \A g \in Handlers : work'[g].step \in {"total", "cap"} => work'[g].read <= most
    BY <1>4, <2>1 DEF ListInv, TotalAgreed
  <2>2. \A g \in Handlers : work'[g].read \in Int
    BY <1>8 DEF ListTypeOK, WorkRow
  <2>3. total \in Nat
    BY ListNumbers
  <2> QED BY <1>2, <1>6, <1>7, <2>1, <2>2, <2>3 DEF TotalAgreed
<1>17. PayoutsFit'
  <2>1. SUFFICES ASSUME Unspoilt(Fair)'
        PROVE  /\ Received <= most'
               /\ \A p \in Gone : payout[p].amount >= 0
               /\ \A g \in Handlers : work'[g].step \in {"create", "transfer"} =>
                    /\ work'[g].pay >= 0 /\ work'[g].rest >= 0
                    /\ Received + Due(work'[g]) <= most'
    BY <1>1 DEF PayoutsFit
  <2>2. /\ Received <= most
        /\ \A p \in Gone : payout[p].amount >= 0
        /\ \A g \in Handlers : work'[g].step \in {"create", "transfer"} =>
             /\ work'[g].pay >= 0 /\ work'[g].rest >= 0
             /\ Received + Due(work'[g]) <= most
    BY <1>2, <1>4, <2>1 DEF ListInv, PayoutsFit
  <2>3. Received \in Int
    BY <1>7 DEF Amounts
  <2>4. Received <= most'
    BY <1>6, <1>7, <2>2, <2>3, LeqTrans
  <2>5. ASSUME NEW g \in Handlers, Received + Due(work'[g]) <= most
        PROVE  Received + Due(work'[g]) <= most'
    <3>1. work'[g] \in WorkRow
      BY <1>8 DEF ListTypeOK
    <3>2. Received + Due(work'[g]) \in Int
      BY <2>3, <3>1, WorkNumbers
    <3> QED BY <1>6, <1>7, <2>5, <3>2, LeqTrans
  <2> QED BY <2>2, <2>4, <2>5
<1> QED BY <1>5, <1>8, <1>9, <1>10, <1>11, <1>12, <1>13, <1>14, <1>15, <1>16, <1>17
       DEF ListInv, Tables

\* The same when nothing is noted and no payout comes next.
LEMMA WorkOnlyInv ==
  ASSUME ListInv, NotesAgreement, NEW h \in Handlers, NEW r \in WorkRow,
         UNCHANGED <<list, payout, mishap, agreed>>, off' \in BOOLEAN, off => off',
         work' = [work EXCEPT ![h] = r], ListPath(r), r.step \notin {"create", "transfer"},
         work[h].step \in {"aggregate", "total"} =>
           off' \/ r.step \in {"aggregate", "total"},
         Unspoilt({"repriced"}) /\ r.step \in {"check", "mark"} /\ r.item \in Listed =>
           item[r.item].price \in {0, r.price},
         Unspoilt({"repriced", "approvals", "fee"}) /\ r.step = "check" =>
           r.read <= deposit - fee,
         Unspoilt({"repriced", "approvals", "fee"}) /\ r.step = "mark" =>
           ApprovedSum + r.price <= deposit - fee,
         Unspoilt({"repriced"}) /\ r.step \in {"total", "cap"} => r.read <= most
  PROVE  ListInv'
<1>1. UNCHANGED <<list, payout, agreed>> /\ mishap \subseteq mishap' /\ mishap' \subseteq Mishaps
  BY DEF ListInv, ListTypeOK, Mishaps
<1> QED BY <1>1, WorkInv

LEMMA NotRunning == NoWork.step = "none"
BY DEF NoWork

\* A row of work with another step, and so on, is a row of work.
LEMMA StepOn ==
  ASSUME NEW w \in WorkRow, NEW s \in {"none", "check", "mark", "aggregate", "total",
                                       "pack", "cap", "create", "transfer"}
  PROVE  /\ [w EXCEPT !.step = s] \in WorkRow /\ [w EXCEPT !.step = s].step = s
         /\ [w EXCEPT !.step = s].item = w.item /\ [w EXCEPT !.step = s].price = w.price
         /\ [w EXCEPT !.step = s].read = w.read /\ [w EXCEPT !.step = s].pay = w.pay
         /\ [w EXCEPT !.step = s].rest = w.rest
         /\ [w EXCEPT !.step = s].payout = w.payout
BY DEF WorkRow

\* A handler that ends, with nothing left to sum up or the total in doubt.
LEMMA EndsInv ==
  ASSUME ListInv, NotesAgreement, NEW h \in Handlers,
         UNCHANGED <<list, payout, mishap, agreed>>, off' \in BOOLEAN, off => off',
         work' = [work EXCEPT ![h] = NoWork],
         work[h].step \in {"aggregate", "total"} => off'
  PROVE  ListInv'
BY WorkOnlyInv, NoWorkType, NotRunning DEF ListPath

LEMMA StartApproveInv ==
  ASSUME ListInv, NotesAgreement, NEW h \in Handlers, NEW i \in Items, StartApprove(h, i)
  PROVE  ListInv'
<1> DEFINE r == [NoWork EXCEPT !.step = "check", !.item = i, !.price = item[i].price,
                               !.read = deposit - fee]
<1>1. item[i] \in ItemRow /\ item[i].price # 0
  BY ListNumbers DEF StartApprove, Amounts
<1>2. item[i].price \in Prices
  BY <1>1 DEF ItemRow
<1>3. deposit - fee \in Int
  BY ListNumbers
<1>4. /\ r \in WorkRow /\ r.step = "check" /\ r.item = i /\ r.price = item[i].price
      /\ r.read = deposit - fee
  <2>1. r \in WorkRow
    BY <1>2, <1>3, NoWorkType DEF WorkRow
  <2>2. r.step = "check" /\ r.item = i /\ r.price = item[i].price /\ r.read = deposit - fee
    BY DEF NoWork
  <2> QED BY <2>1, <2>2
<1>5. work' = [work EXCEPT ![h] = r] /\ work[h].step = "none"
  BY NotRunning DEF StartApprove, MayBegin
<1>6. UNCHANGED <<list, payout, mishap, agreed>> /\ off' = off
  BY DEF StartApprove, listHistory
<1>7. off' \in BOOLEAN
  BY <1>6 DEF ListInv, ListTypeOK
<1> HIDE DEF r
<1>8. ListPath(r)
  BY <1>2, <1>4 DEF ListPath
<1>9. r.step \notin {"aggregate", "total", "mark", "cap", "create", "transfer"}
  BY <1>4
<1>10. item[r.item].price \in {0, r.price} /\ r.read <= deposit - fee
  BY <1>3, <1>4
<1> QED BY <1>4, <1>5, <1>6, <1>7, <1>8, <1>9, <1>10, WorkOnlyInv

LEMMA CheckBudgetInv ==
  ASSUME ListInv, NotesAgreement, NEW h \in Handlers, CheckBudget(h)
  PROVE  ListInv'
<1> DEFINE r == [work[h] EXCEPT !.step = "mark"]
<1>1. /\ r \in WorkRow /\ r.step = "mark" /\ r.item = work[h].item /\ r.price = work[h].price
  BY ListNumbers, StepOn
<1>2. UNCHANGED <<list, payout, mishap, agreed>> /\ off' = off /\ work[h].step = "check"
  BY DEF CheckBudget, listHistory
<1>3. off' \in BOOLEAN
  BY <1>2 DEF ListInv, ListTypeOK
<1>4. CASE ~(ApprovedSum + work[h].price <= work[h].read)
  <2>1. work' = [work EXCEPT ![h] = NoWork]
    BY <1>4 DEF CheckBudget, Goes
  <2> QED BY <1>2, <1>3, <2>1, EndsInv
<1>5. CASE ApprovedSum + work[h].price <= work[h].read
  <2>1. work' = [work EXCEPT ![h] = r]
    BY <1>5, ListNumbers DEF CheckBudget, Goes
  <2>2. /\ ListPath(r)
        /\ Unspoilt({"repriced"}) /\ r.item \in Listed => item[r.item].price \in {0, r.price}
    BY <1>1, <1>2 DEF ListInv, ListPath, ShownPrices
  <2>3. ASSUME Unspoilt({"repriced", "approvals", "fee"})
        PROVE  ApprovedSum + r.price <= deposit - fee
    <3>1. work[h].read <= deposit - fee
      BY <1>2, <2>3 DEF ListInv, BudgetFits
    <3>2. /\ ApprovedSum \in Nat /\ work[h].read \in Int /\ work[h].price \in Nat
          /\ deposit - fee \in Int
      BY ListNumbers DEF Amounts
    <3> QED BY <1>1, <1>5, <3>1, <3>2
  <2> HIDE DEF r
  <2> QED BY <1>1, <1>2, <1>3, <2>1, <2>2, <2>3, WorkOnlyInv
<1> QED BY <1>4, <1>5

LEMMA AggregateInv ==
  ASSUME ListInv, NotesAgreement, NEW h \in Handlers, Aggregate(h)
  PROVE  ListInv'
<1> DEFINE r == [work[h] EXCEPT !.step = "total", !.read = ApprovedSum]
<1>1. work[h] \in WorkRow /\ Amounts /\ most \in Nat
  BY ListNumbers
<1>2. ApprovedSum \in Nat /\ Sum(agreed, Approved) \in Nat
  BY <1>1 DEF Amounts
<1>3. r \in WorkRow /\ r.step = "total" /\ r.read = ApprovedSum
  <2>1. ApprovedSum \in Int
    BY <1>2
  <2>2. r \in WorkRow
    BY <1>1, <2>1 DEF WorkRow
  <2>3. r.step = "total" /\ r.read = ApprovedSum
    BY <1>1 DEF WorkRow
  <2> QED BY <2>2, <2>3
<1>4. UNCHANGED <<list, payout, mishap, agreed>> /\ off' = off /\ work[h].step = "aggregate"
  BY DEF Aggregate, listHistory
<1>5. off' \in BOOLEAN
  BY <1>4 DEF ListInv, ListTypeOK
<1>6. work' = [work EXCEPT ![h] = r]
  BY DEF Aggregate
<1> HIDE DEF r
<1>7. ASSUME Unspoilt({"repriced"}) PROVE r.read <= most
  <2>1. ApprovedSum <= Sum(agreed, Approved)
    BY <1>7, WorthAgreed
  <2>2. Sum(agreed, Approved) <= most
    BY DEF ListInv, TotalAgreed
  <2> QED BY <1>1, <1>2, <1>3, <2>1, <2>2
<1>8. ListPath(r)
  BY <1>2, <1>3 DEF ListPath
<1> QED BY <1>3, <1>4, <1>5, <1>6, <1>7, <1>8, WorkOnlyInv

LEMMA CountUnapprovedInv ==
  ASSUME ListInv, NotesAgreement, NEW h \in Handlers, CountUnapproved(h)
  PROVE  ListInv'
<1> DEFINE r == [NoWork EXCEPT !.step = "pack"]
<1>1. r \in WorkRow /\ r.step = "pack"
  BY NoWorkType, StepOn
<1>2. /\ UNCHANGED <<list, payout, mishap, agreed>> /\ off' = off
      /\ work' = [work EXCEPT ![h] = r] /\ work[h].step = "none"
  BY NotRunning DEF CountUnapproved, MayBegin, listHistory
<1>3. off' \in BOOLEAN
  BY <1>2 DEF ListInv, ListTypeOK
<1> HIDE DEF r
<1>4. ListPath(r)
  BY <1>1 DEF ListPath
<1> QED BY <1>1, <1>2, <1>3, <1>4, WorkOnlyInv

LEMMA StartPayoutsInv ==
  ASSUME ListInv, NotesAgreement, NEW h \in Handlers, NEW pay \in Allotments,
         NEW rest \in Allotments \cup {0}, StartPayouts(h, pay, rest)
  PROVE  ListInv'
<1> DEFINE r == [NoWork EXCEPT !.step = "cap", !.pay = pay, !.rest = rest, !.read = total]
<1>1. total \in Nat
  BY ListNumbers
<1>2. r \in WorkRow /\ r.step = "cap" /\ r.read = total
  <2>1. r \in WorkRow
    <3>1. pay \in Allotments \cup {0} /\ rest \in Allotments \cup {0} /\ total \in Int
      BY <1>1
    <3> QED BY <3>1, NoWorkType DEF WorkRow
  <2>2. r.step = "cap" /\ r.read = total
    BY DEF NoWork
  <2> QED BY <2>1, <2>2
<1>3. /\ UNCHANGED <<list, payout, mishap, agreed>> /\ off' = off
      /\ work' = [work EXCEPT ![h] = r] /\ work[h].step = "none"
  BY NotRunning DEF StartPayouts, MayBegin, listHistory
<1>4. off' \in BOOLEAN
  BY <1>3 DEF ListInv, ListTypeOK
<1> HIDE DEF r
<1>5. ListPath(r)
  BY <1>2 DEF ListPath
<1>6. Unspoilt({"repriced"}) => r.read <= most
  BY <1>2 DEF ListInv, TotalAgreed
<1> QED BY <1>2, <1>3, <1>4, <1>5, <1>6, WorkOnlyInv

LEMMA CheckCapInv ==
  ASSUME ListInv, NotesAgreement, NEW h \in Handlers, CheckCap(h)
  PROVE  ListInv'
<1> DEFINE r == [work[h] EXCEPT !.step = "create", !.read = 0]
           fits == PaidSum + work[h].pay + work[h].rest <= work[h].read
<1>1. /\ UNCHANGED <<list, payout, agreed>> /\ off' = off /\ work[h].step = "cap"
      /\ work' = [work EXCEPT ![h] = IF fits THEN r ELSE NoWork]
      /\ mishap' = mishap
           \cup (IF fits /\ (work[h].pay < 0 \/ work[h].rest < 0) THEN {"negative"} ELSE {})
           \cup (IF fits /\ Unanswered # {} THEN {"lost"} ELSE {})
  BY ListNumbers DEF CheckCap, Capped, list
<1>2. off' \in BOOLEAN
  BY <1>1 DEF ListInv, ListTypeOK
<1>3. CASE ~fits
  <2>1. work' = [work EXCEPT ![h] = NoWork] /\ mishap' = mishap
    BY <1>1, <1>3
  <2> HIDE DEF fits, r
  <2> QED BY <1>1, <1>2, <2>1, EndsInv
<1>4. CASE fits
  <2>1. r \in WorkRow /\ r.step = "create" /\ r.pay = work[h].pay /\ r.rest = work[h].rest
    <3>1. work[h] \in WorkRow
      BY ListNumbers
    <3> HIDE DEF fits
    <3>2. r \in WorkRow
      <4>1. [work[h] EXCEPT !.step = "create"] \in WorkRow
        BY <3>1, StepOn
      <4>2. 0 \in Int /\ r = [[work[h] EXCEPT !.step = "create"] EXCEPT !.read = 0]
        OBVIOUS
      <4> QED BY <4>1, <4>2 DEF WorkRow
    <3>3. r.step = "create" /\ r.pay = work[h].pay /\ r.rest = work[h].rest
      BY <3>1 DEF WorkRow
    <3> QED BY <3>2, <3>3
  <2>2. work' = [work EXCEPT ![h] = r]
    BY <1>1, <1>4
  <2>3. mishap \subseteq mishap' /\ mishap' \subseteq Mishaps
    BY <1>1 DEF ListInv, ListTypeOK, Mishaps
  <2>4. ASSUME Unspoilt(Fair)'
        PROVE  r.pay >= 0 /\ r.rest >= 0 /\ Received + Due(r) <= most
    <3>1. Unspoilt({"repriced"})
      BY <2>3, <2>4 DEF Unspoilt, Fair
    <3>2. work[h].read <= most
      BY <1>1, <3>1 DEF ListInv, TotalAgreed
    <3>3. Unanswered = {} /\ ~(work[h].pay < 0) /\ ~(work[h].rest < 0)
      BY <1>1, <1>4, <2>4 DEF Unspoilt, Fair
    <3>4. Received = PaidSum
      BY <3>3 DEF Received, PaidSum
    <3>5. /\ Received \in Int /\ work[h].read \in Int /\ most \in Nat
          /\ work[h].pay \in Int /\ work[h].rest \in Int
      BY ListNumbers DEF Amounts
    <3>6. Received + work[h].pay + work[h].rest <= work[h].read
      BY <1>4, <3>4
    <3> HIDE DEF r, fits
    <3>7. Received + Due(r) <= most
      BY <2>1, <3>2, <3>5, <3>6 DEF Due
    <3> QED BY <2>1, <3>3, <3>5, <3>7
  <2>5. ListPath(r)
    BY <2>1 DEF ListPath
  <2> HIDE DEF r, fits
  <2> QED BY <1>1, <1>2, <2>1, <2>2, <2>3, <2>4, <2>5, WorkInv
<1> QED BY <1>3, <1>4

\* The turn of the next seller: what is left to pay is no more than before.
LEMMA NextSellerIs ==
  ASSUME NEW w \in WorkRow
  PROVE  /\ NextSeller(w) \in WorkRow /\ NextSeller(w).step \in {"none", "create"}
         /\ w.pay >= 0 /\ w.rest >= 0 =>
              /\ NextSeller(w).pay >= 0 /\ NextSeller(w).rest >= 0
              /\ Due(NextSeller(w)) = w.rest
<1> DEFINE r == [NoWork EXCEPT !.step = "create", !.pay = w.rest]
<1>1. r \in WorkRow /\ r.step = "create" /\ r.pay = w.rest /\ r.rest = 0
  <2>1. w.rest \in Allotments \cup {0}
    BY DEF WorkRow
  <2>2. r \in WorkRow
    BY <2>1, NoWorkType DEF WorkRow
  <2> QED BY <2>2 DEF NoWork
<1>2. NoWork.step = "none" /\ NoWork.pay = 0 /\ NoWork.rest = 0
  BY DEF NoWork
<1>3. w.rest \in Int
  BY WorkNumbers
<1>4. CASE w.rest = 0
  <2>1. NextSeller(w) = NoWork
    BY <1>4 DEF NextSeller
  <2> QED BY <1>2, <1>4, <2>1, NoWorkType DEF Due
<1>5. CASE w.rest # 0
  <2>1. NextSeller(w) = r
    BY <1>5 DEF NextSeller
  <2> HIDE DEF r
  <2> QED BY <1>1, <1>3, <2>1 DEF Due
<1> QED BY <1>4, <1>5

LEMMA UnknownSellerInv ==
  ASSUME ListInv, NotesAgreement, NEW h \in Handlers, UnknownSeller(h)
  PROVE  ListInv'
<1> DEFINE r == NextSeller(work[h])
<1>1. /\ UNCHANGED <<list, payout, mishap, agreed>> /\ off' = off /\ work[h].step = "create"
      /\ work' = [work EXCEPT ![h] = r]
  BY DEF UnknownSeller, listHistory
<1>2. off' \in BOOLEAN /\ mishap \subseteq mishap' /\ mishap' \subseteq Mishaps
  BY <1>1 DEF ListInv, ListTypeOK, Mishaps
<1>3. r \in WorkRow /\ r.step \in {"none", "create"}
  BY ListNumbers, NextSellerIs
<1>4. ASSUME Unspoilt(Fair)'
      PROVE  r.pay >= 0 /\ r.rest >= 0 /\ Received + Due(r) <= most
  <2>1. Unspoilt(Fair)
    BY <1>2, <1>4, SpoiltMore
  <2>2. work[h].pay >= 0 /\ work[h].rest >= 0 /\ Received + Due(work[h]) <= most
    BY <1>1, <2>1 DEF ListInv, PayoutsFit
  <2>3. r.pay >= 0 /\ r.rest >= 0 /\ Due(r) = work[h].rest
    BY <2>2, ListNumbers, NextSellerIs
  <2>4. Received \in Int /\ most \in Int /\ work[h].pay \in Int /\ work[h].rest \in Int
    BY ListNumbers DEF Amounts
  <2> HIDE DEF r
  <2>5. Received + Due(r) <= most
    BY <2>2, <2>3, <2>4 DEF Due
  <2> QED BY <2>3, <2>5
<1>5. ListPath(r)
  BY <1>3 DEF ListPath
<1> HIDE DEF r
<1> QED BY <1>1, <1>2, <1>3, <1>4, <1>5, WorkInv

LEMMA FailInv ==
  ASSUME ListInv, NotesAgreement, NEW h \in Handlers, Fail(h)
  PROVE  ListInv'
<1>1. /\ UNCHANGED <<list, payout, mishap, agreed>>
      /\ off' = (off \/ work[h].step \in {"aggregate", "total"})
      /\ work' = [work EXCEPT ![h] = NoWork]
  BY DEF Fail, Goes
<1> QED BY <1>1, EndsInv DEF ListInv, ListTypeOK

-----------------------------------------------------------------------------
(* The steps that write the amounts of the session.                        *)

\* What the step leaves of the handlers and payouts, when only the list changes.
LEMMA PayoutsFitKept ==
  ASSUME ListInv, payout' = payout, mishap \subseteq mishap',
         most' \in Nat, most <= most',
         \A g \in Handlers : work'[g] = work[g] \/ work'[g].step \in {"none", "aggregate"}
  PROVE  PayoutsFit' /\ TransferAlone'
<1>1. Received' = Received /\ Gone' = Gone /\ Received \in Int /\ most \in Nat
  BY PayoutsKept, ListNumbers DEF Amounts
<1>2. TransferAlone'
  BY DEF ListInv, TransferAlone
<1>3. SUFFICES ASSUME Unspoilt(Fair)'
      PROVE  /\ Received <= most'
             /\ \A p \in Gone : payout[p].amount >= 0
             /\ \A g \in Handlers : work'[g].step \in {"create", "transfer"} =>
                  /\ work'[g].pay >= 0 /\ work'[g].rest >= 0
                  /\ Received + Due(work'[g]) <= most'
  BY <1>1, <1>2 DEF PayoutsFit
<1>4. /\ Received <= most
      /\ \A p \in Gone : payout[p].amount >= 0
      /\ \A g \in Handlers : work[g].step \in {"create", "transfer"} =>
           /\ work[g].pay >= 0 /\ work[g].rest >= 0
           /\ Received + Due(work[g]) <= most
  BY <1>3, SpoiltMore DEF ListInv, PayoutsFit
<1>5. Received <= most'
  BY <1>1, <1>4, LeqTrans
<1>6. ASSUME NEW g \in Handlers, work'[g].step \in {"create", "transfer"}
      PROVE  /\ work'[g].pay >= 0 /\ work'[g].rest >= 0
             /\ Received + Due(work'[g]) <= most'
  <2>1. work'[g] = work[g]
    BY <1>6
  <2>2. Received + Due(work[g]) \in Int
    BY <1>1, ListNumbers
  <2> QED BY <1>1, <1>4, <1>6, <2>1, <2>2, LeqTrans
<1> QED BY <1>4, <1>5, <1>6

LEMMA AmountsInv ==
  ASSUME ListInv, NotesAgreement, UNCHANGED <<item, payout, agreed>>,
         mishap \subseteq mishap',
         mishap' \subseteq Mishaps,
         deposit' \in 0 .. MaxDeposit, fee' \in CallFees \cup {Fee}, total' \in Nat,
         packing' \in BOOLEAN, off' \in BOOLEAN, work' \in [Handlers -> WorkRow],
         \A g \in Handlers : work'[g] = work[g] \/ work'[g] = NoWork,
         Unspoilt({"fee"})' => deposit - fee <= deposit' - fee',
         ~off' /\ (\A g \in Handlers : work'[g].step \notin {"aggregate", "total"}) =>
           total' = ApprovedSum,
         Unspoilt({"repriced"}) => total' <= most
  PROVE  ListInv'
<1>1. /\ Listed' = Listed /\ Approved' = Approved /\ ApprovedSum' = ApprovedSum
      /\ Gone' = Gone /\ Received' = Received
  BY ListKept, PayoutsKept
<1>2. \A by : Unspoilt(by)' => Unspoilt(by)
  BY SpoiltMore
<1>3. \A g \in Handlers : work'[g] = work[g] \/ work'[g].step = "none"
  BY NotRunning
<1>4. Tables'
  BY <1>1, ListNumbers DEF Tables, Rows
<1>5. most' \in Nat /\ most <= most' /\ Sum(agreed, Approved)' <= most'
  BY <1>4, MostIs
<1>6. Amounts /\ most \in Nat /\ deposit \in Nat /\ fee \in Nat
  BY ListNumbers
<1>7. ListTypeOK'
  BY <1>5 DEF ListInv, ListTypeOK, Mishaps
<1>8. deposit' \in Nat /\ fee' \in Nat
  BY AmountsAssumption
<1>9. \A g \in Handlers : /\ work[g].read \in Int /\ work[g].price \in Nat
                          /\ Due(work[g]) \in Int
  BY ListNumbers
<1>10. \A g \in Handlers : ListPath(work'[g])
  BY <1>3 DEF ListInv, ListPath
<1>11. TransferAlone'
  BY <1>3 DEF ListInv, TransferAlone
<1>12. TotalFollows'
  BY <1>1 DEF TotalFollows
<1>13. ShownPrices'
  BY <1>1, <1>2, <1>3 DEF ListInv, ShownPrices
<1>14. AgreedPrices'
  BY <1>1, <1>2 DEF ListInv, AgreedPrices
<1>15. NeverReset'
  BY <1>1, <1>2 DEF ListInv, NeverReset
<1>16. BudgetFits'
  <2>1. SUFFICES ASSUME Unspoilt({"repriced", "approvals", "fee"})'
        PROVE  /\ ApprovedSum <= deposit' - fee'
               /\ \A g \in Handlers :
                    /\ work'[g].step = "check" => work'[g].read <= deposit' - fee'
                    /\ work'[g].step = "mark" => ApprovedSum + work'[g].price <= deposit' - fee'
    BY <1>1 DEF BudgetFits
  <2>2. deposit - fee <= deposit' - fee'
    BY <2>1 DEF Unspoilt
  <2>3. /\ ApprovedSum <= deposit - fee
        /\ \A g \in Handlers :
             /\ work[g].step = "check" => work[g].read <= deposit - fee
             /\ work[g].step = "mark" => ApprovedSum + work[g].price <= deposit - fee
    BY <1>2, <2>1 DEF ListInv, BudgetFits
  <2>4. ApprovedSum \in Nat
    BY <1>6 DEF Amounts
  <2>5. deposit \in Nat /\ fee \in Nat
    BY <1>6
  <2>6. ApprovedSum <= deposit - fee
    BY <2>3
  <2>7. ApprovedSum \in Int /\ deposit - fee \in Int /\ deposit' - fee' \in Int
    BY <1>8, <2>4, <2>5
  <2>8. ApprovedSum <= deposit' - fee'
    BY <2>2, <2>6, <2>7, LeqTrans
  <2>9. ASSUME NEW g \in Handlers, work'[g].step = "check"
        PROVE  work'[g].read <= deposit' - fee'
    <3>1. work'[g] = work[g] /\ work[g].read <= deposit - fee
      BY <1>3, <2>3, <2>9
    <3>2. work[g].read \in Int
      BY <1>9
    <3>3. work[g].read <= deposit' - fee'
      BY <2>2, <2>7, <3>1, <3>2, LeqTrans
    <3> QED BY <3>1, <3>3
  <2>10. ASSUME NEW g \in Handlers, work'[g].step = "mark"
        PROVE  ApprovedSum + work'[g].price <= deposit' - fee'
    <3>1. work'[g] = work[g] /\ ApprovedSum + work[g].price <= deposit - fee
      BY <1>3, <2>3, <2>10
    <3>2. work[g].price \in Nat
      BY <1>9
    <3>3. ApprovedSum + work[g].price <= deposit' - fee'
      <4>1. ApprovedSum + work[g].price \in Int
        BY <2>4, <3>2
      <4> QED BY <2>2, <2>7, <3>1, <4>1, LeqTrans
    <3> QED BY <3>1, <3>3
  <2> QED BY <2>8, <2>9, <2>10
<1>17. TotalAgreed'
  <2>1. SUFFICES ASSUME Unspoilt({"repriced"})'
        PROVE  /\ total' <= most'
               /\ \A g \in Handlers : work'[g].step \in {"total", "cap"} => work'[g].read <= most'
    BY <1>5 DEF TotalAgreed
  <2>2. /\ total' <= most
        /\ \A g \in Handlers : work[g].step \in {"total", "cap"} => work[g].read <= most
    BY <1>2, <2>1 DEF ListInv, TotalAgreed
  <2> QED BY <1>3, <1>5, <1>6, <1>9, <2>2
<1>18. PayoutsFit'
  BY <1>3, <1>5, PayoutsFitKept
<1> QED BY <1>4, <1>7, <1>10, <1>11, <1>12, <1>13, <1>14, <1>15, <1>16, <1>17, <1>18
       DEF ListInv, Tables

LEMMA WriteTotalInv ==
  ASSUME ListInv, NotesAgreement, NEW h \in Handlers, WriteTotal(h)
  PROVE  ListInv'
<1>1. /\ UNCHANGED <<item, deposit, fee, packing, payout, mishap, agreed>>
      /\ total' = work[h].read /\ off' = (work[h].read # ApprovedSum)
      /\ work' = [work EXCEPT ![h] = NoWork] /\ work[h].step = "total"
  BY DEF WriteTotal, Goes
<1>2. total' \in Nat
  <2>1. work[h].read \in Int /\ work[h].read >= 0
    BY <1>1, ListNumbers DEF ListInv, ListPath
  <2> QED BY <1>1, <2>1
<1>3. Unspoilt({"repriced"}) => total' <= most
  BY <1>1 DEF ListInv, TotalAgreed
<1>4. work' \in [Handlers -> WorkRow] /\ \A g \in Handlers : work'[g] = work[g] \/ work'[g] = NoWork
  BY <1>1, NoWorkType DEF ListInv, ListTypeOK
<1>5. /\ deposit' \in 0 .. MaxDeposit /\ fee' \in CallFees \cup {Fee} /\ packing' \in BOOLEAN
      /\ mishap' \subseteq Mishaps
  BY <1>1 DEF ListInv, ListTypeOK, Mishaps
<1>6. deposit - fee <= deposit' - fee'
  BY <1>1, ListNumbers
<1>7. off' \in BOOLEAN /\ (~off' => total' = ApprovedSum)
  BY <1>1
<1> QED BY <1>1, <1>2, <1>3, <1>4, <1>5, <1>6, <1>7, AmountsInv

LEMMA TopUpItemsInv ==
  ASSUME ListInv, NotesAgreement, NEW amount \in TopUps, TopUpItems(amount)
  PROVE  ListInv'
<1>1. /\ UNCHANGED <<item, fee, total, packing, payout, work, off, mishap, agreed>>
      /\ deposit' = deposit + amount /\ deposit + amount <= MaxDeposit
  BY DEF TopUpItems, listHistory
<1>2. amount \in Nat /\ deposit \in Nat /\ fee \in Nat /\ MaxDeposit \in Nat
  BY AmountsAssumption, ListNumbers
<1>3. deposit' \in 0 .. MaxDeposit /\ deposit - fee <= deposit' - fee'
  BY <1>1, <1>2
<1>4. /\ fee' \in CallFees \cup {Fee} /\ packing' \in BOOLEAN /\ total' \in Nat /\ off' \in BOOLEAN
      /\ mishap' \subseteq Mishaps
      /\ work' \in [Handlers -> WorkRow]
  BY <1>1 DEF ListInv, ListTypeOK, Mishaps
<1>5. ~off' /\ (\A g \in Handlers : work'[g].step \notin {"aggregate", "total"}) =>
        total' = ApprovedSum
  BY <1>1 DEF ListInv, TotalFollows
<1>6. Unspoilt({"repriced"}) => total' <= most
  BY <1>1 DEF ListInv, TotalAgreed
<1> QED BY <1>1, <1>3, <1>4, <1>5, <1>6, AmountsInv

LEMMA StartPackagingInv ==
  ASSUME ListInv, NotesAgreement, NEW h \in Handlers, NEW f \in CallFees, StartPackaging(h, f)
  PROVE  ListInv'
<1>1. /\ UNCHANGED <<item, deposit, total, payout, off, agreed>>
      /\ packing' = TRUE /\ fee' = f /\ work[h].step = "pack"
      /\ mishap' = mishap \cup (IF f > fee THEN {"fee"} ELSE {})
      /\ work' = [work EXCEPT ![h] = NoWork]
  BY DEF StartPackaging, Goes
<1>2. Unspoilt({"fee"})' => deposit - fee <= deposit' - fee'
  <2>1. f \in Nat /\ deposit \in Nat /\ fee \in Nat
    BY AmountsAssumption, ListNumbers
  <2>2. Unspoilt({"fee"})' => ~(f > fee)
    BY <1>1 DEF Unspoilt
  <2> QED BY <1>1, <2>1, <2>2
<1>3. /\ mishap \subseteq mishap'
      /\ mishap' \subseteq Mishaps
  BY <1>1 DEF ListInv, ListTypeOK, Mishaps
<1>4. /\ deposit' \in 0 .. MaxDeposit /\ fee' \in CallFees \cup {Fee} /\ packing' \in BOOLEAN
      /\ total' \in Nat /\ off' \in BOOLEAN
  BY <1>1 DEF ListInv, ListTypeOK
<1>5. work \in [Handlers -> WorkRow]
  BY DEF ListInv, ListTypeOK
<1>6. work' \in [Handlers -> WorkRow] /\ \A g \in Handlers : work'[g] = work[g] \/ work'[g] = NoWork
  BY <1>1, <1>5, NoWorkType
<1>7. ~off' /\ (\A g \in Handlers : work'[g].step \notin {"aggregate", "total"}) =>
        total' = ApprovedSum
  BY <1>1, <1>5 DEF ListInv, TotalFollows
<1>8. Unspoilt({"repriced"}) => total' <= most
  BY <1>1 DEF ListInv, TotalAgreed
<1> QED BY <1>1, <1>2, <1>3, <1>4, <1>6, <1>7, <1>8, AmountsInv

-----------------------------------------------------------------------------
(* The steps that change a row of the list.                                *)

LEMMA TotalAgreedKept ==
  ASSUME ListInv, total' = total, mishap \subseteq mishap',
         most' \in Nat, most <= most', Sum(agreed, Approved)' <= most',
         \A g \in Handlers : work'[g] = work[g] \/ work'[g].step \in {"none", "aggregate"}
  PROVE  TotalAgreed'
<1>1. most \in Nat /\ total \in Nat /\ \A g \in Handlers : work[g].read \in Int
  BY ListNumbers
<1>2. ASSUME Unspoilt({"repriced"})'
      PROVE  /\ total <= most
             /\ \A g \in Handlers : work[g].step \in {"total", "cap"} => work[g].read <= most
  <2>1. Unspoilt({"repriced"})
    BY <1>2, SpoiltMore
  <2> QED BY <2>1 DEF ListInv, TotalAgreed
<1>3. ASSUME Unspoilt({"repriced"})' PROVE total' <= most'
  BY <1>1, <1>2, <1>3, LeqTrans
<1>4. ASSUME Unspoilt({"repriced"})', NEW g \in Handlers, work'[g].step \in {"total", "cap"}
      PROVE  work'[g].read <= most'
  <2>1. work'[g] = work[g]
    BY <1>4
  <2>2. work[g].read <= most
    BY <1>2, <1>4, <2>1
  <2> QED BY <1>1, <2>1, <2>2, LeqTrans
<1> QED BY <1>3, <1>4 DEF TotalAgreed

\* A row that ends up not approved, whatever it was.
LEMMA LessApproved ==
  ASSUME Tables, Amounts, NEW i \in Items, NEW row \in ItemRow, row.row # "absent", ~row.approved,
         item' = [item EXCEPT ![i] = row], payout' = payout,
         agreed' \in [Items -> Prices \cup {0}]
  PROVE  /\ Tables' /\ Approved' = Approved \ {i} /\ Listed' \ {i} = Listed \ {i}
         /\ (i \in Listed' <=> row.row = "listed")
         /\ ApprovedSum' \in Nat /\ ApprovedSum' <= ApprovedSum
         /\ i \notin Approved => ApprovedSum' = ApprovedSum
<1>1. /\ item'[i] = row
      /\ \A j \in Items \ {i} : item'[j] = item[j]
  BY DEF Tables
<1>2. Approved' = Approved \ {i}
  BY <1>1 DEF Approved, Listed
<1>3. Listed' \subseteq Listed \cup {i} /\ Listed' \ {i} = Listed \ {i}
      /\ (i \in Listed' <=> row.row = "listed")
  BY <1>1 DEF Listed
<1>4. IsFiniteSet(Listed') /\ IsFiniteSet(Gone')
  <2>1. IsFiniteSet(Listed \cup {i})
    BY FS_AddElement DEF Tables, Rows
  <2>2. IsFiniteSet(Listed')
    BY <1>3, <2>1, FS_Subset
  <2> QED BY <2>2, PayoutsKept DEF Tables, Rows
<1>5. \A j \in Items : item'[j].row = "absent" => item'[j].price = 0 /\ ~item'[j].approved
  BY <1>1 DEF Tables, Rows
<1>6. item' \in [Items -> ItemRow]
  BY DEF Tables
<1>7. Tables'
  BY <1>4, <1>5, <1>6 DEF Tables, Rows
<1>8. ApprovedSum' <= ApprovedSum /\ (i \notin Approved => ApprovedSum' = ApprovedSum)
  <2> DEFINE f == [j \in Items |-> item[j].price]
             g == [j \in Items |-> item'[j].price]
             S == Approved \ {i}
  <2>1. IsFiniteSet(S) /\ S \subseteq Approved /\ Approved \subseteq Items
    BY FS_Subset DEF Amounts
  <2>2. \A j \in S : f[j] = g[j]
    BY <1>1, <2>1
  <2>3. \A j \in Approved : f[j] \in Nat
    BY <2>1 DEF Amounts
  <2>4. ApprovedSum' = Sum(g, S) /\ ApprovedSum = Sum(f, Approved)
    BY <1>2 DEF ApprovedSum
  <2> HIDE DEF f, g
  <2>5. Sum(f, S) = Sum(g, S)
    BY <2>1, <2>2, SumSame
  <2>6. CASE i \notin Approved
    <3>1. S = Approved
      BY <2>6
    <3>2. ApprovedSum' = ApprovedSum
      BY <2>4, <2>5, <3>1
    <3>3. ApprovedSum \in Nat
      BY DEF Amounts
    <3> QED BY <3>2, <3>3
  <2>7. CASE i \in Approved
    <3>1. \A j \in Approved : f[j] \in Int
      BY <2>3
    <3>2. Sum(f, Approved) = Sum(f, S) + f[i] /\ Sum(f, S) \in Int
      BY <2>7, <3>1, SumWithout DEF Amounts
    <3>3. f[i] \in Nat
      BY <2>3, <2>7
    <3>4. Sum(f, S) <= Sum(f, Approved)
      BY <3>2, <3>3
    <3> QED BY <2>4, <2>5, <2>7, <3>4
  <2> QED BY <2>6, <2>7
<1>9. ApprovedSum' \in Nat
  BY <1>7, NumbersNext DEF Amounts
<1> QED BY <1>2, <1>3, <1>7, <1>8, <1>9

LEMMA ItemLeavesInv ==
  ASSUME ListInv, NotesAgreement, NEW i \in Items, NEW row \in ItemRow,
         row.row # "absent", ~row.approved, item' = [item EXCEPT ![i] = row],
         agreed' \in [Items -> Prices \cup {0}], \A j \in Items \ {i} : agreed'[j] = agreed[j],
         UNCHANGED <<deposit, fee, total, packing, payout>>, mishap \subseteq mishap',
         mishap' \subseteq Mishaps,
         off' \in BOOLEAN, off => off', work' \in [Handlers -> WorkRow],
         \A g \in Handlers :
           work'[g] = work[g] \/ (work[g] = NoWork /\ work'[g].step = "aggregate"),
         i \in Approved => off' \/ \E g \in Handlers : work'[g].step = "aggregate",
         Unspoilt({"repriced"})' =>
           row.row = "deleted" \/ row.price = 0 \/ Approving(i) = {}
  PROVE  ListInv'
<1>1. Tables /\ Amounts /\ deposit \in Nat /\ fee \in Nat
  BY ListNumbers
<1>2. /\ Tables' /\ Approved' = Approved \ {i} /\ Listed' \ {i} = Listed \ {i}
      /\ (i \in Listed' <=> row.row = "listed")
      /\ ApprovedSum' \in Nat /\ ApprovedSum' <= ApprovedSum
      /\ i \notin Approved => ApprovedSum' = ApprovedSum
  BY <1>1, LessApproved
<1>3. /\ item'[i] = row
      /\ \A j \in Items \ {i} : item'[j] = item[j]
  BY <1>1 DEF Tables
<1>4. Approved \subseteq Items /\ Listed \subseteq Items
  BY <1>1 DEF Amounts
<1>5. \A g \in Handlers :
        work'[g] = work[g] \/ (work[g].step = "none" /\ work'[g].step = "aggregate")
  BY NotRunning
<1>6. most' \in Nat /\ most <= most' /\ Sum(agreed, Approved)' <= most'
  BY <1>2, MostIs
<1>7. ListTypeOK'
  BY <1>2, <1>6 DEF ListInv, ListTypeOK, Tables, Mishaps
<1>8. \A g \in Handlers : ListPath(work'[g])
  BY <1>5 DEF ListInv, ListPath
<1>9. TransferAlone' /\ PayoutsFit'
  BY <1>5, <1>6, PayoutsFitKept
<1>10. TotalAgreed'
  BY <1>5, <1>6, TotalAgreedKept
<1>11. TotalFollows'
  <2>1. SUFFICES ASSUME ~off', \A g \in Handlers : work'[g].step \notin {"aggregate", "total"}
                 PROVE  total' = ApprovedSum'
    BY DEF TotalFollows
  <2>2. ~off /\ \A g \in Handlers : work[g].step \notin {"aggregate", "total"}
    BY <1>5, <2>1
  <2>3. total = ApprovedSum
    BY <2>2 DEF ListInv, TotalFollows
  <2>4. i \notin Approved
    BY <2>1
  <2> QED BY <1>2, <2>3, <2>4
<1>12. ShownPrices'
  <2>1. SUFFICES ASSUME Unspoilt({"repriced"})', NEW g \in Handlers,
                        work'[g].step \in {"check", "mark"}, work'[g].item \in Listed'
                 PROVE  item'[work'[g].item].price \in {0, work'[g].price}
    BY DEF ShownPrices
  <2>2. work'[g] = work[g]
    BY <1>5, <2>1
  <2>3. Unspoilt({"repriced"})
    BY <2>1, SpoiltMore
  <2>4. CASE work[g].item = i
    <3>1. row.row = "listed" /\ Approving(i) # {}
      BY <1>2, <2>1, <2>2, <2>4 DEF Approving
    <3>2. row.price = 0
      BY <2>1, <3>1
    <3> QED BY <1>3, <2>2, <2>4, <3>2
  <2>5. CASE work[g].item # i
    <3>1. work[g].item \in Listed
      BY <1>2, <2>1, <2>2, <2>5
    <3>2. item[work[g].item].price \in {0, work[g].price}
      BY <2>1, <2>2, <2>3, <3>1 DEF ListInv, ShownPrices
    <3> QED BY <1>3, <1>4, <2>2, <2>5, <3>1, <3>2
  <2> QED BY <2>4, <2>5
<1>13. AgreedPrices' /\ NeverReset'
  <2>1. \A j \in Approved' : j \in Approved /\ item'[j] = item[j] /\ agreed'[j] = agreed[j]
    BY <1>2, <1>3, <1>4
  <2>2. AgreedPrices'
    <3>1. Unspoilt({"repriced"})' => \A j \in Approved : item[j].price \in {0, agreed[j]}
      BY SpoiltMore DEF ListInv, AgreedPrices
    <3> QED BY <2>1, <3>1 DEF AgreedPrices
  <2>3. NeverReset'
    <3>1. Unspoilt({"repriced", "reset"})' => \A j \in Approved : item[j].price # 0
      BY SpoiltMore DEF ListInv, NeverReset
    <3> QED BY <2>1, <3>1 DEF NeverReset
  <2> QED BY <2>2, <2>3
<1>14. BudgetFits'
  <2>1. SUFFICES ASSUME Unspoilt({"repriced", "approvals", "fee"})'
        PROVE  /\ ApprovedSum' <= deposit - fee
               /\ \A g \in Handlers :
                    /\ work'[g].step = "check" => work'[g].read <= deposit - fee
                    /\ work'[g].step = "mark" => ApprovedSum' + work'[g].price <= deposit - fee
    BY DEF BudgetFits
  <2>2. /\ ApprovedSum <= deposit - fee
        /\ \A g \in Handlers :
             /\ work[g].step = "check" => work[g].read <= deposit - fee
             /\ work[g].step = "mark" => ApprovedSum + work[g].price <= deposit - fee
    <3>1. Unspoilt({"repriced", "approvals", "fee"})
      BY <2>1, SpoiltMore
    <3> QED BY <3>1 DEF ListInv, BudgetFits
  <2>3. ApprovedSum \in Nat /\ deposit - fee \in Int
    BY <1>1 DEF Amounts
  <2>4. ApprovedSum' <= deposit - fee
    BY <1>2, <2>2, <2>3, LeqTrans
  <2>5. ASSUME NEW g \in Handlers, work'[g].step = "check"
        PROVE  work'[g].read <= deposit - fee
    BY <1>5, <2>2, <2>5
  <2>6. ASSUME NEW g \in Handlers, work'[g].step = "mark"
        PROVE  ApprovedSum' + work'[g].price <= deposit - fee
    <3>1. work'[g] = work[g]
      BY <1>5, <2>6
    <3>2. ApprovedSum + work[g].price <= deposit - fee
      BY <2>2, <2>6, <3>1
    <3>3. work[g].price \in Nat
      BY ListNumbers
    <3>4. ApprovedSum' + work[g].price <= ApprovedSum + work[g].price
      BY <1>2, <2>3, <3>3
    <3>5. ApprovedSum' + work[g].price \in Int /\ ApprovedSum + work[g].price \in Int
      BY <1>2, <2>3, <3>3
    <3>6. ApprovedSum' + work[g].price <= deposit - fee
      BY <2>3, <3>2, <3>4, <3>5, LeqTrans
    <3> QED BY <3>1, <3>6
  <2> QED BY <2>4, <2>5, <2>6
<1> QED BY <1>2, <1>7, <1>8, <1>9, <1>10, <1>11, <1>12, <1>13, <1>14
       DEF ListInv, Tables

LEMMA AddItemInv ==
  ASSUME ListInv, NotesAgreement, NEW i \in Items, AddItem(i)
  PROVE  ListInv'
<1> DEFINE row == [item[i] EXCEPT !.row = "listed"]
<1>1. /\ item[i] \in ItemRow /\ item[i].row = "absent" /\ item[i].price = 0
      /\ ~item[i].approved
  BY ListNumbers DEF AddItem, Amounts, Tables, Rows
<1>2. row \in ItemRow /\ row.row = "listed" /\ ~row.approved /\ row.price = 0
  BY <1>1 DEF ItemRow
<1>3. item' = [item EXCEPT ![i] = row]
  BY ListNumbers DEF AddItem, Tables
<1>4. UNCHANGED <<deposit, fee, total, packing, payout, work, off, mishap, agreed>>
  BY DEF AddItem, listHistory
<1>5. i \notin Approved
  BY <1>1 DEF Approved
<1> HIDE DEF row
<1>6. /\ agreed' \in [Items -> Prices \cup {0}] /\ off' \in BOOLEAN
      /\ mishap' \subseteq Mishaps
      /\ work' \in [Handlers -> WorkRow]
  BY <1>4 DEF ListInv, ListTypeOK, Mishaps
<1> QED BY <1>2, <1>3, <1>4, <1>5, <1>6, ItemLeavesInv

LEMMA RemoveItemInv ==
  ASSUME ListInv, NotesAgreement, NEW i \in Items, RemoveItem(i)
  PROVE  ListInv'
<1> DEFINE row == [row |-> "deleted", price |-> 0, approved |-> FALSE]
<1>1. row \in ItemRow /\ row.row = "deleted" /\ ~row.approved
  BY DEF ItemRow
<1>2. /\ item' = [item EXCEPT ![i] = row] /\ i \in Listed
      /\ off' = (off \/ item[i].approved) /\ agreed' = [agreed EXCEPT ![i] = 0]
      /\ UNCHANGED <<deposit, fee, total, packing, payout, work, mishap>>
  BY DEF RemoveItem
<1> HIDE DEF row
<1>3. /\ agreed \in [Items -> Prices \cup {0}] /\ off \in BOOLEAN
      /\ mishap' \subseteq Mishaps
      /\ work' \in [Handlers -> WorkRow]
  BY <1>2 DEF ListInv, ListTypeOK, Mishaps
<1>4. item[i].approved \in BOOLEAN
  BY ListNumbers DEF Amounts, ItemRow
<1>5. /\ agreed' \in [Items -> Prices \cup {0}]
      /\ \A j \in Items \ {i} : agreed'[j] = agreed[j]
  BY <1>2, <1>3
<1>6. off' \in BOOLEAN /\ (off => off') /\ (i \in Approved => off')
  BY <1>2, <1>3, <1>4 DEF Approved
<1> QED BY <1>1, <1>2, <1>3, <1>5, <1>6, ItemLeavesInv

LEMMA ResetItemPricingInv ==
  ASSUME ListInv, NotesAgreement, NEW h \in Handlers, NEW i \in Items, ResetItemPricing(h, i)
  PROVE  ListInv'
<1> DEFINE row == [item[i] EXCEPT !.price = 0, !.approved = FALSE]
           r == [NoWork EXCEPT !.step = "aggregate"]
<1>1. item[i] \in ItemRow /\ item[i].row = "listed"
  BY ListNumbers DEF ResetItemPricing, Amounts, Listed
<1>2. row \in ItemRow /\ row.row = "listed" /\ ~row.approved /\ row.price = 0
  BY <1>1 DEF ItemRow
<1>3. r \in WorkRow /\ r.step = "aggregate"
  BY NoWorkType, StepOn
<1>4. item' = [item EXCEPT ![i] = row]
  BY <1>1, ListNumbers DEF ResetItemPricing, Tables, ItemRow
<1>5. /\ agreed' = [agreed EXCEPT ![i] = 0] /\ work' = [work EXCEPT ![h] = r]
      /\ work[h] = NoWork
      /\ UNCHANGED <<deposit, fee, total, packing, payout, off, mishap>>
  BY DEF ResetItemPricing, MayBegin
<1> HIDE DEF row, r
<1>6. /\ agreed \in [Items -> Prices \cup {0}] /\ off' \in BOOLEAN
      /\ mishap' \subseteq Mishaps
      /\ work \in [Handlers -> WorkRow]
  BY <1>5 DEF ListInv, ListTypeOK, Mishaps
<1>7. /\ agreed' \in [Items -> Prices \cup {0}]
      /\ \A j \in Items \ {i} : agreed'[j] = agreed[j]
  BY <1>5, <1>6
<1>8. /\ work' \in [Handlers -> WorkRow]
      /\ \A g \in Handlers :
           work'[g] = work[g] \/ (work[g] = NoWork /\ work'[g].step = "aggregate")
      /\ \E g \in Handlers : work'[g].step = "aggregate"
  BY <1>3, <1>5, <1>6
<1> QED BY <1>2, <1>4, <1>5, <1>6, <1>7, <1>8, ItemLeavesInv

LEMMA PriceItemInv ==
  ASSUME ListInv, NotesAgreement, NEW i \in Items, NEW p \in Prices, PriceItem(i, p)
  PROVE  ListInv'
<1> DEFINE row == [item[i] EXCEPT !.price = p]
<1>1. item[i] \in ItemRow /\ item[i].row = "listed" /\ i \in Listed
  BY ListNumbers DEF PriceItem, Amounts, Listed
<1>2. row \in ItemRow /\ row.row = "listed" /\ row.approved = item[i].approved /\ row.price = p
  BY <1>1 DEF ItemRow
<1>3. item' = [item EXCEPT ![i] = row]
  BY <1>1, ListNumbers DEF PriceItem, Tables, ItemRow
<1>4. /\ off' = (off \/ item[i].approved)
      /\ mishap' = mishap \cup
           (IF item[i].approved \/ Approving(i) # {} THEN {"repriced"} ELSE {})
      /\ UNCHANGED <<deposit, fee, total, packing, payout, work, agreed>>
  BY DEF PriceItem
<1> HIDE DEF row
<1>5. /\ agreed' \in [Items -> Prices \cup {0}] /\ off' \in BOOLEAN /\ off \in BOOLEAN
      /\ mishap \subseteq Mishaps
      /\ work' \in [Handlers -> WorkRow]
  BY <1>1, <1>4 DEF ListInv, ListTypeOK, ItemRow, Mishaps
<1>6. mishap \subseteq mishap' /\ mishap' \subseteq Mishaps
  BY <1>4, <1>5 DEF Mishaps
<1>7. CASE ~item[i].approved
  <2>1. Unspoilt({"repriced"})' => Approving(i) = {}
    BY <1>4, <1>7 DEF Unspoilt
  <2>2. i \notin Approved /\ off' = off
    BY <1>4, <1>5, <1>7 DEF Approved
  <2>3. ~row.approved /\ row.row # "absent"
    BY <1>2, <1>7
  <2> QED BY <1>2, <1>3, <1>4, <1>5, <1>6, <2>1, <2>2, <2>3, ItemLeavesInv
<1>8. CASE item[i].approved
  <2>1. off' /\ ~Unspoilt({"repriced"})' /\ ~Unspoilt({"repriced", "reset"})'
        /\ ~Unspoilt({"repriced", "approvals", "fee"})'
    BY <1>4, <1>8 DEF Unspoilt
  <2>2. /\ item'[i] = row
        /\ \A j \in Items \ {i} : item'[j] = item[j]
    BY <1>3, ListNumbers DEF Tables
  <2>3. Listed' = Listed /\ Gone' = Gone
    <3>1. Listed' = Listed
      BY <1>1, <1>2, <2>2 DEF Listed
    <3> QED BY <1>4, <3>1, PayoutsKept
  <2>4. Tables'
    <3>1. item' \in [Items -> ItemRow]
      BY <1>2, <1>3, ListNumbers DEF Tables
    <3>2. \A j \in Items : item'[j].row = "absent" => item'[j].price = 0 /\ ~item'[j].approved
      BY <1>2, <2>2, ListNumbers DEF Tables, Rows
    <3> QED BY <1>4, <2>3, <3>1, <3>2, ListNumbers DEF Tables, Rows
  <2>5. most' \in Nat /\ most <= most' /\ Sum(agreed, Approved)' <= most'
    BY <2>4, MostIs
  <2>6. ListTypeOK'
    BY <1>4, <1>5, <1>6, <2>4, <2>5 DEF ListInv, ListTypeOK, Tables, Mishaps
  <2>7. TransferAlone' /\ PayoutsFit'
    BY <1>4, <1>6, <2>5, PayoutsFitKept
  <2>8. TotalAgreed'
    BY <1>4, <1>6, <2>5, TotalAgreedKept
  <2>9. \A g \in Handlers : ListPath(work'[g])
    BY <1>4 DEF ListInv
  <2>10. TotalFollows' /\ ShownPrices' /\ AgreedPrices' /\ NeverReset' /\ BudgetFits'
    BY <2>1 DEF TotalFollows, ShownPrices, AgreedPrices, NeverReset, BudgetFits
  <2> QED BY <2>4, <2>6, <2>7, <2>8, <2>9, <2>10 DEF ListInv, Tables
<1> QED BY <1>7, <1>8

\* Approving an item adds no more than its price to what is approved.
LEMMA MoreApproved ==
  ASSUME Tables, Amounts, NEW i \in Listed, payout' = payout,
         item' = [item EXCEPT ![i].approved = TRUE], agreed' \in [Items -> Prices \cup {0}]
  PROVE  /\ Tables' /\ Approved' = Approved \cup {i} /\ Listed' = Listed
         /\ \A j \in Items : item'[j].price = item[j].price
         /\ ApprovedSum' \in Nat /\ ApprovedSum' <= ApprovedSum + item[i].price
<1>1. i \in Items /\ item[i] \in ItemRow /\ item[i].row = "listed"
  BY DEF Amounts, Listed
<1>2. /\ item'[i] = [item[i] EXCEPT !.approved = TRUE]
      /\ \A j \in Items \ {i} : item'[j] = item[j]
  BY <1>1 DEF Tables
<1>3. /\ item'[i] \in ItemRow /\ item'[i].approved /\ item'[i].row = "listed"
      /\ item'[i].price = item[i].price
  BY <1>1, <1>2 DEF ItemRow
<1>4. Listed' = Listed
  BY <1>1, <1>2, <1>3 DEF Listed
<1>5. Approved' = Approved \cup {i}
  BY <1>1, <1>2, <1>3, <1>4 DEF Approved, Listed
<1>6. \A j \in Items : item'[j].price = item[j].price
  BY <1>2, <1>3
<1>7. Tables'
  <2>1. item' \in [Items -> ItemRow]
    BY <1>1, <1>3 DEF Tables
  <2>2. \A j \in Items : item'[j].row = "absent" => item'[j].price = 0 /\ ~item'[j].approved
    BY <1>2, <1>3 DEF Tables, Rows
  <2> QED BY <1>4, <2>1, <2>2, PayoutsKept DEF Tables, Rows
<1>8. ApprovedSum' \in Nat
  BY <1>7, NumbersNext DEF Amounts
<1>9. ApprovedSum' <= ApprovedSum + item[i].price
  <2> DEFINE f == [j \in Items |-> item[j].price]
             g == [j \in Items |-> item'[j].price]
  <2>1. f = g /\ f[i] = item[i].price
    BY <1>1, <1>6
  <2>2. \A j \in Approved : f[j] \in Int
    BY DEF Amounts
  <2>3. f[i] \in Nat
    BY <1>1 DEF Amounts
  <2>4. ApprovedSum' = Sum(g, Approved \cup {i}) /\ ApprovedSum = Sum(f, Approved)
    BY <1>5 DEF ApprovedSum
  <2> HIDE DEF f, g
  <2>5. ApprovedSum \in Nat /\ IsFiniteSet(Approved)
    BY DEF Amounts
  <2>6. CASE i \in Approved
    <3>1. Approved \cup {i} = Approved
      BY <2>6
    <3>2. ApprovedSum' = ApprovedSum
      BY <2>1, <2>4, <3>1
    <3> QED BY <2>1, <2>3, <2>5, <3>2
  <2>7. CASE i \notin Approved
    <3>1. f[i] \in Int
      BY <2>3
    <3>2. Sum(f, Approved \cup {i}) = Sum(f, Approved) + f[i]
      BY <2>2, <2>5, <2>7, <3>1, SumWith
    <3>3. ApprovedSum' = ApprovedSum + item[i].price
      BY <2>1, <2>4, <3>2
    <3> QED BY <1>8, <3>3
  <2> QED BY <2>6, <2>7
<1> QED BY <1>4, <1>5, <1>6, <1>7, <1>8, <1>9

LEMMA MarkItemInv ==
  ASSUME ListInv, NotesAgreement, NEW h \in Handlers, Mark(h)
  PROVE  ListInv'
<1> DEFINE i == work[h].item
           r == [NoWork EXCEPT !.step = "aggregate"]
<1>1. UNCHANGED <<deposit, fee, total, packing, payout, off>> /\ work[h].step = "mark"
  BY DEF Mark
<1>2. CASE i \notin Listed
  <2>1. /\ UNCHANGED <<list, payout, mishap, agreed>> /\ off' = off
        /\ work' = [work EXCEPT ![h] = NoWork]
    BY <1>2 DEF Mark, Goes, list
  <2>2. off' \in BOOLEAN /\ (off => off')
    BY <2>1 DEF ListInv, ListTypeOK
  <2>3. ~(work[h].step \in {"aggregate", "total"})
    BY <1>1
  <2> HIDE DEF i, r
  <2> QED BY <2>1, <2>2, <2>3, EndsInv
<1>3. CASE i \in Listed
  <2>1. /\ item' = [item EXCEPT ![i].approved = TRUE]
        /\ agreed' = [agreed EXCEPT ![i] = work[h].price]
        /\ mishap' = mishap
             \cup (IF \E g \in Handlers \ {h} : work[g].step = "mark" THEN {"approvals"} ELSE {})
             \cup (IF item[i].price = 0 THEN {"reset"} ELSE {})
        /\ work' = [work EXCEPT ![h] = r]
    BY <1>3 DEF Mark
  <2>2. Tables /\ Amounts /\ deposit \in Nat /\ fee \in Nat
    BY ListNumbers
  <2>3. i \in Items /\ work[h].price \in Prices
    BY <1>1 DEF ListInv, ListPath
  <2> HIDE DEF i
  <2>4. agreed' \in [Items -> Prices \cup {0}]
    BY <2>1, <2>2, <2>3 DEF Tables
  <2>5. /\ Tables' /\ Approved' = Approved \cup {i} /\ Listed' = Listed
        /\ \A j \in Items : item'[j].price = item[j].price
        /\ ApprovedSum' \in Nat /\ ApprovedSum' <= ApprovedSum + item[i].price
    BY <1>1, <1>3, <2>1, <2>2, <2>4, MoreApproved
  <2>6. /\ mishap \subseteq mishap'
        /\ mishap' \subseteq Mishaps
    BY <2>1 DEF ListInv, ListTypeOK, Mishaps
  <2>7. r \in WorkRow /\ r.step = "aggregate"
    BY NoWorkType, StepOn
  <2> HIDE DEF r
  <2>8. work \in [Handlers -> WorkRow]
    BY DEF ListInv, ListTypeOK
  <2>9. /\ work' \in [Handlers -> WorkRow] /\ work'[h] = r
        /\ \A g \in Handlers \ {h} : work'[g] = work[g]
    BY <2>1, <2>7, <2>8
  <2>10. \A g \in Handlers : work'[g] = work[g] \/ work'[g].step = "aggregate"
    BY <2>7, <2>9
  <2>11. most' \in Nat /\ most <= most' /\ Sum(agreed, Approved)' <= most'
    BY <2>5, MostIs
  <2>12. ListTypeOK'
    BY <1>1, <2>5, <2>6, <2>9, <2>11 DEF ListInv, ListTypeOK, Tables, Mishaps
  <2>13. \A g \in Handlers : ListPath(work'[g])
    BY <2>10 DEF ListInv, ListPath
  <2>14. TransferAlone' /\ PayoutsFit'
    BY <1>1, <2>6, <2>10, <2>11, PayoutsFitKept
  <2>15. TotalAgreed'
    BY <1>1, <2>6, <2>10, <2>11, TotalAgreedKept
  <2>16. TotalFollows'
    BY <2>7, <2>9 DEF TotalFollows
  <2>17. Approved \subseteq Items /\ Listed \subseteq Items
    BY <2>2 DEF Amounts
  <2>18. ShownPrices'
    <3>1. SUFFICES ASSUME Unspoilt({"repriced"})', NEW g \in Handlers,
                          work'[g].step \in {"check", "mark"}, work'[g].item \in Listed'
                   PROVE  item'[work'[g].item].price \in {0, work'[g].price}
      BY DEF ShownPrices
    <3>2. work'[g] = work[g]
      BY <2>10, <3>1
    <3>3. item[work[g].item].price \in {0, work[g].price}
      BY <2>5, <2>6, <3>1, <3>2, SpoiltMore DEF ListInv, ShownPrices
    <3> QED BY <2>5, <2>17, <3>1, <3>2, <3>3
  <2>19. ASSUME Unspoilt({"repriced"})' PROVE item[i].price \in {0, work[h].price}
    <3>1. Unspoilt({"repriced"})
      BY <2>6, <2>19, SpoiltMore
    <3> QED BY <1>1, <1>3, <3>1 DEF ListInv, ShownPrices, i
  <2>20. agreed'[i] = work[h].price /\ \A j \in Items \ {i} : agreed'[j] = agreed[j]
    BY <2>1, <2>2, <2>3 DEF Tables
  <2>21. AgreedPrices'
    <3>1. SUFFICES ASSUME Unspoilt({"repriced"})', NEW j \in Approved'
                   PROVE  item'[j].price \in {0, agreed'[j]}
      BY DEF AgreedPrices
    <3>2. CASE j = i
      BY <2>3, <2>5, <2>19, <2>20, <3>1, <3>2
    <3>3. CASE j # i
      <4>1. j \in Approved /\ j \in Items
        BY <2>5, <2>17, <3>3
      <4>2. Unspoilt({"repriced"})
        BY <2>6, <3>1, SpoiltMore
      <4>3. item[j].price \in {0, agreed[j]}
        BY <4>1, <4>2 DEF ListInv, AgreedPrices
      <4> QED BY <2>5, <2>20, <3>3, <4>1, <4>3
    <3> QED BY <3>2, <3>3
  <2>22. NeverReset'
    <3>1. SUFFICES ASSUME Unspoilt({"repriced", "reset"})', NEW j \in Approved'
                   PROVE  item'[j].price # 0
      BY DEF NeverReset
    <3>2. CASE j = i
      <4>1. item[i].price # 0
        BY <2>1, <3>1 DEF Unspoilt
      <4> QED BY <2>3, <2>5, <3>2, <4>1
    <3>3. CASE j # i
      <4>1. j \in Approved /\ j \in Items
        BY <2>5, <2>17, <3>3
      <4>2. Unspoilt({"repriced", "reset"})
        BY <2>6, <3>1, SpoiltMore
      <4>3. item[j].price # 0
        BY <4>1, <4>2 DEF ListInv, NeverReset
      <4> QED BY <2>5, <4>1, <4>3
    <3> QED BY <3>2, <3>3
  <2>23. BudgetFits'
    <3>1. SUFFICES ASSUME Unspoilt({"repriced", "approvals", "fee"})'
          PROVE  /\ ApprovedSum' <= deposit - fee
                 /\ \A g \in Handlers :
                      /\ work'[g].step = "check" => work'[g].read <= deposit - fee
                      /\ work'[g].step = "mark" => ApprovedSum' + work'[g].price <= deposit - fee
      BY <1>1 DEF BudgetFits
    <3>2. Unspoilt({"repriced", "approvals", "fee"})
      BY <2>6, <3>1, SpoiltMore
    <3>3. /\ ApprovedSum + work[h].price <= deposit - fee
          /\ \A g \in Handlers : work[g].step = "check" => work[g].read <= deposit - fee
      BY <1>1, <3>2 DEF ListInv, BudgetFits
    <3>4. \A g \in Handlers \ {h} : work[g].step # "mark"
      BY <2>1, <3>1 DEF Unspoilt
    <3>5. ApprovedSum \in Nat /\ work[h].price \in Nat /\ item[i].price \in Nat
          /\ deposit - fee \in Int
      BY <2>2, <2>3, ListNumbers DEF Amounts
    <3>6. item[i].price <= work[h].price
      <4>1. Unspoilt({"repriced"})'
        BY <3>1 DEF Unspoilt
      <4>2. item[i].price \in {0, work[h].price}
        BY <2>19, <4>1
      <4> QED BY <3>5, <4>2
    <3>7. ApprovedSum' <= deposit - fee
      <4>1. ApprovedSum + item[i].price <= ApprovedSum + work[h].price
        BY <3>5, <3>6
      <4>2. /\ ApprovedSum + item[i].price \in Int /\ ApprovedSum + work[h].price \in Int
            /\ ApprovedSum' \in Int
        BY <2>5, <3>5
      <4>3. ApprovedSum' <= ApprovedSum + work[h].price
        BY <2>5, <4>1, <4>2, LeqTrans
      <4> QED BY <3>3, <3>5, <4>2, <4>3, LeqTrans
    <3>8. \A g \in Handlers : work'[g].step # "mark"
      BY <2>7, <2>9, <3>4
    <3>9. ASSUME NEW g \in Handlers, work'[g].step = "check"
          PROVE  work'[g].read <= deposit - fee
      <4>1. work'[g] = work[g]
        BY <2>10, <3>9
      <4> QED BY <3>3, <3>9, <4>1
    <3> QED BY <3>7, <3>8, <3>9
  <2> QED BY <2>5, <2>12, <2>13, <2>14, <2>15, <2>16, <2>18, <2>21, <2>22, <2>23
          DEF ListInv, Tables
<1> QED BY <1>2, <1>3

-----------------------------------------------------------------------------
(* The steps that pay the sellers.                                         *)

\* What no payout changes: the list, its amounts and the approvals under way.
LEMMA PayingKept ==
  ASSUME ListInv, NotesAgreement, UNCHANGED <<list, off, agreed>>, mishap \subseteq mishap',
         payout' \in [Payouts -> PayoutRow], IsFiniteSet(Gone'),
         mishap' \subseteq Mishaps,
         work' \in [Handlers -> WorkRow],
         \A g \in Handlers : work'[g] = work[g]
           \/ (/\ work'[g].step \in {"none", "create", "transfer"}
               /\ work[g].step \notin {"aggregate", "total"})
  PROVE  /\ ListTypeOK' /\ Rows' /\ TotalFollows' /\ ShownPrices' /\ AgreedPrices' /\ NeverReset'
         /\ BudgetFits' /\ TotalAgreed' /\ most \in Nat /\ most' \in Nat /\ most <= most'
<1> USE DEF list
<1>1. Listed' = Listed /\ Approved' = Approved /\ ApprovedSum' = ApprovedSum
  BY ListKept
<1>2. \A by : Unspoilt(by)' => Unspoilt(by)
  BY SpoiltMore
<1>3. Tables'
  BY <1>1, ListNumbers DEF Tables, Rows
<1>4. most' \in Nat /\ most <= most' /\ Sum(agreed, Approved)' <= most'
  BY <1>3, MostIs
<1>5. ListTypeOK'
  BY <1>3, <1>4 DEF ListInv, ListTypeOK, Tables, Mishaps
<1>6. TotalFollows'
  <2>1. SUFFICES ASSUME ~off', \A g \in Handlers : work'[g].step \notin {"aggregate", "total"}
                 PROVE  total = ApprovedSum
    BY <1>1 DEF TotalFollows
  <2>2. \A g \in Handlers : work[g].step \notin {"aggregate", "total"}
    BY <2>1
  <2> QED BY <2>1, <2>2 DEF ListInv, TotalFollows
<1>7. ShownPrices'
  BY <1>1, <1>2 DEF ListInv, ShownPrices
<1>8. AgreedPrices'
  BY <1>1, <1>2 DEF ListInv, AgreedPrices
<1>9. NeverReset'
  BY <1>1, <1>2 DEF ListInv, NeverReset
<1>10. BudgetFits'
  BY <1>1, <1>2 DEF ListInv, BudgetFits
<1>11. TotalAgreed'
  <2>1. most \in Nat /\ total \in Nat /\ \A g \in Handlers : work[g].read \in Int
    BY ListNumbers
  <2>2. SUFFICES ASSUME Unspoilt({"repriced"})'
        PROVE  /\ total <= most'
               /\ \A g \in Handlers : work'[g].step \in {"total", "cap"} => work'[g].read <= most'
    BY <1>4 DEF TotalAgreed
  <2>3. /\ total <= most
        /\ \A g \in Handlers : work[g].step \in {"total", "cap"} => work[g].read <= most
    BY <1>2, <2>2 DEF ListInv, TotalAgreed
  <2>4. total <= most'
    BY <1>4, <2>1, <2>3, LeqTrans
  <2>5. ASSUME NEW g \in Handlers, work'[g].step \in {"total", "cap"}
        PROVE  work'[g].read <= most'
    <3>1. work'[g] = work[g]
      BY <2>5
    <3>2. work[g].read <= most
      BY <2>3, <2>5, <3>1
    <3> QED BY <1>4, <2>1, <3>1, <3>2, LeqTrans
  <2> QED BY <2>4, <2>5
<1>12. Rows' /\ most \in Nat
  BY <1>3, ListNumbers DEF Tables
<1> QED BY <1>4, <1>5, <1>6, <1>7, <1>8, <1>9, <1>10, <1>11, <1>12

\* A payout that has a new status counts as before, or no longer.
LEMMA PaidLess ==
  ASSUME Amounts, NEW p \in Live, NEW s, payout \in [Payouts -> PayoutRow],
         s \in {"PENDING", "PROCESSING", "PAID", "FAILED", "LOST"},
         payout' = [payout EXCEPT ![p].status = s]
  PROVE  /\ payout' \in [Payouts -> PayoutRow] /\ IsFiniteSet(Gone')
         /\ Received' \in Int /\ (payout[p].amount >= 0 => Received' <= Received)
         /\ \A q \in Gone' : q \in Gone /\ payout'[q].amount = payout[q].amount
<1>1. p \in Gone /\ p \in Payouts /\ payout[p] \in PayoutRow
  BY DEF Amounts, Gone
<1>2. payout'[p] \in PayoutRow /\ payout'[p].status = s /\ payout'[p].amount = payout[p].amount
  BY <1>1 DEF PayoutRow
<1>3. \A q \in Payouts \ {p} : payout'[q] = payout[q]
  BY <1>1
<1>4. payout' \in [Payouts -> PayoutRow]
  BY <1>1, <1>2
<1>5. Gone' = Gone \/ Gone' = Gone \ {p}
  <2>1. \A q \in Payouts \ {p} : q \in Gone' <=> q \in Gone
    BY <1>3 DEF Gone, Live, Unanswered
  <2>2. Gone' \subseteq Payouts /\ Gone \subseteq Payouts
    BY DEF Gone, Live, Unanswered
  <2> QED BY <1>1, <2>1, <2>2
<1>6. IsFiniteSet(Gone')
  BY <1>5, FS_Subset DEF Amounts
<1>7. \A q \in Gone' : q \in Gone /\ payout'[q].amount = payout[q].amount
  BY <1>2, <1>3, <1>5 DEF Amounts
<1> DEFINE f == [q \in Payouts |-> payout[q].amount]
           g == [q \in Payouts |-> payout'[q].amount]
<1>8. f = g /\ f[p] = payout[p].amount
  BY <1>1, <1>2, <1>3
<1>9. Received = Sum(f, Gone) /\ Received' = Sum(g, Gone')
  BY DEF Received, Paid, Gone
<1>10. \A q \in Gone : f[q] \in Int
  BY DEF Amounts
<1> HIDE DEF f, g
<1>11. Received \in Int /\ IsFiniteSet(Gone)
  BY DEF Amounts
<1>12. CASE Gone' = Gone
  BY <1>4, <1>6, <1>7, <1>8, <1>9, <1>11, <1>12
<1>13. CASE Gone' = Gone \ {p}
  <2>1. Sum(f, Gone) = Sum(f, Gone \ {p}) + f[p] /\ Sum(f, Gone \ {p}) \in Int
    BY <1>1, <1>10, <1>11, SumWithout
  <2>2. f[p] \in Int
    BY <1>1, <1>10
  <2>3. Received' = Sum(f, Gone \ {p})
    BY <1>8, <1>9, <1>13
  <2>4. Received' \in Int /\ (f[p] >= 0 => Received' <= Received)
    BY <1>9, <2>1, <2>2, <2>3
  <2> QED BY <1>4, <1>6, <1>7, <1>8, <2>4
<1> QED BY <1>5, <1>12, <1>13

LEMMA FitsAsBefore ==
  ASSUME ListInv, mishap \subseteq mishap', most' \in Nat, most <= most',
         Received' \in Int, Unspoilt(Fair) => Received' <= Received,
         \A q \in Gone' : q \in Gone /\ payout'[q].amount = payout[q].amount,
         \A g \in Handlers : work'[g].step \in {"create", "transfer"} =>
           /\ work[g].step \in {"create", "transfer"} /\ Due(work'[g]) \in Int
           /\ work[g].pay >= 0 /\ work[g].rest >= 0 =>
                /\ work'[g].pay >= 0 /\ work'[g].rest >= 0
                /\ Due(work'[g]) <= Due(work[g])
  PROVE  PayoutsFit'
<1>1. Received \in Int /\ most \in Nat
  BY ListNumbers DEF Amounts
<1>2. SUFFICES ASSUME Unspoilt(Fair)'
      PROVE  /\ Received' <= most'
             /\ \A q \in Gone' : payout'[q].amount >= 0
             /\ \A g \in Handlers : work'[g].step \in {"create", "transfer"} =>
                  /\ work'[g].pay >= 0 /\ work'[g].rest >= 0
                  /\ Received' + Due(work'[g]) <= most'
  BY DEF PayoutsFit
<1>3. Unspoilt(Fair)
  BY <1>2, SpoiltMore
<1>4. /\ Received <= most
      /\ \A q \in Gone : payout[q].amount >= 0
      /\ \A g \in Handlers : work[g].step \in {"create", "transfer"} =>
           /\ work[g].pay >= 0 /\ work[g].rest >= 0
           /\ Received + Due(work[g]) <= most
  BY <1>3 DEF ListInv, PayoutsFit
<1>5. Received' <= most'
  <2>1. Received' <= most
    BY <1>1, <1>3, <1>4, LeqTrans
  <2> QED BY <1>1, <2>1, LeqTrans
<1>6. \A q \in Gone' : payout'[q].amount >= 0
  BY <1>4
<1>7. ASSUME NEW g \in Handlers, work'[g].step \in {"create", "transfer"}
      PROVE  /\ work'[g].pay >= 0 /\ work'[g].rest >= 0
             /\ Received' + Due(work'[g]) <= most'
  <2>1. work[g].step \in {"create", "transfer"} /\ Due(work'[g]) \in Int /\ Due(work[g]) \in Int
    BY <1>7, ListNumbers
  <2>2. work[g].pay >= 0 /\ work[g].rest >= 0 /\ Received + Due(work[g]) <= most
    BY <1>4, <2>1
  <2>3. work'[g].pay >= 0 /\ work'[g].rest >= 0 /\ Due(work'[g]) <= Due(work[g])
    BY <1>7, <2>2
  <2>4. Received' <= Received
    BY <1>3
  <2>5. Received' + Due(work'[g]) <= most'
    BY <1>1, <2>1, <2>2, <2>3, <2>4
  <2> QED BY <2>3, <2>5
<1> QED BY <1>5, <1>6, <1>7

LEMMA TransferEventInv ==
  ASSUME ListInv, NotesAgreement, NEW p \in Payouts, NEW status \in {"PAID", "FAILED"},
         TransferEvent(p, status)
  PROVE  ListInv'
<1>1. /\ payout' = [payout EXCEPT ![p].status = status]
      /\ payout[p].status \in {"PROCESSING", "PAID"}
      /\ UNCHANGED <<list, work, off, mishap, agreed>>
  BY DEF TransferEvent, listHistory
<1>2. p \in Live /\ p \in Gone
  BY <1>1 DEF Gone, Live
<1>3. payout \in [Payouts -> PayoutRow] /\ Amounts
  BY ListNumbers DEF Tables
<1>4. /\ payout' \in [Payouts -> PayoutRow] /\ IsFiniteSet(Gone')
      /\ Received' \in Int /\ (payout[p].amount >= 0 => Received' <= Received)
      /\ \A q \in Gone' : q \in Gone /\ payout'[q].amount = payout[q].amount
  BY <1>1, <1>2, <1>3, PaidLess
<1>5. /\ work' \in [Handlers -> WorkRow]
      /\ mishap' \subseteq Mishaps
  BY <1>1 DEF ListInv, ListTypeOK, Mishaps
<1>6. /\ ListTypeOK' /\ Rows' /\ TotalFollows' /\ ShownPrices' /\ AgreedPrices' /\ NeverReset'
      /\ BudgetFits' /\ TotalAgreed' /\ most' \in Nat /\ most <= most'
  BY <1>1, <1>4, <1>5, PayingKept
<1>7. PayoutsFit'
  <2>1. Unspoilt(Fair) => Received' <= Received
    BY <1>2, <1>4 DEF ListInv, PayoutsFit
  <2>2. \A g \in Handlers : Due(work'[g]) = Due(work[g]) /\ Due(work[g]) \in Int
    BY <1>1, ListNumbers
  <2> QED BY <1>1, <1>4, <1>6, <2>1, <2>2, FitsAsBefore
<1>8. TransferAlone'
  <2>1. \A q \in Payouts : q # p => payout'[q] = payout[q]
    BY <1>1, <1>3
  <2>2. \A g \in Handlers : work[g].step = "transfer" =>
          work[g].payout \in Payouts /\ work[g].payout # p
    BY <1>1 DEF ListInv, TransferAlone, ListPath
  <2> QED BY <1>1, <2>1, <2>2 DEF ListInv, TransferAlone
<1>9. \A g \in Handlers : ListPath(work'[g])
  BY <1>1 DEF ListInv
<1> QED BY <1>6, <1>7, <1>8, <1>9 DEF ListInv

LEMMA TransferInv ==
  ASSUME ListInv, NotesAgreement, NEW h \in Handlers,
         NEW status \in {"PROCESSING", "FAILED", "LOST"}, Transfer(h, status)
  PROVE  ListInv'
<1> DEFINE p == work[h].payout
           r == NextSeller(work[h])
<1>1. /\ payout' = [payout EXCEPT ![p].status = status] /\ work[h].step = "transfer"
      /\ work' = [work EXCEPT ![h] = r]
      /\ UNCHANGED <<list, off, mishap, agreed>>
  BY DEF Transfer, listHistory
<1>2. /\ p \in Payouts /\ payout[p].status = "PENDING"
      /\ \A g \in Handlers \ {h} : work[g].step = "transfer" => work[g].payout # p
  BY <1>1 DEF ListInv, ListPath, TransferAlone
<1>3. work \in [Handlers -> WorkRow] /\ work[h] \in WorkRow
  BY DEF ListInv, ListTypeOK
<1>4. /\ r \in WorkRow /\ r.step \in {"none", "create"}
      /\ work[h].pay >= 0 /\ work[h].rest >= 0 =>
           r.pay >= 0 /\ r.rest >= 0 /\ Due(r) = work[h].rest
  BY <1>3, NextSellerIs
<1>5. /\ Due(r) \in Int
      /\ work[h].pay >= 0 /\ work[h].rest >= 0 =>
           r.pay >= 0 /\ r.rest >= 0 /\ Due(r) <= Due(work[h])
  <2>1. work[h].pay \in Int /\ work[h].rest \in Int /\ Due(r) \in Int
    BY <1>3, <1>4, WorkNumbers
  <2> HIDE DEF r
  <2>2. work[h].pay >= 0 /\ work[h].rest >= 0 => Due(r) <= Due(work[h])
    BY <1>4, <2>1 DEF Due
  <2> QED BY <1>4, <2>1, <2>2
<1> HIDE DEF p, r
<1>6. /\ work' \in [Handlers -> WorkRow] /\ work'[h] = r
      /\ \A g \in Handlers \ {h} : work'[g] = work[g]
  BY <1>1, <1>3, <1>4
<1>7. payout \in [Payouts -> PayoutRow] /\ Amounts /\ p \in Live /\ p \in Gone
  BY <1>2, ListNumbers DEF Tables, Gone, Live
<1>8. /\ payout' \in [Payouts -> PayoutRow] /\ IsFiniteSet(Gone')
      /\ Received' \in Int /\ (payout[p].amount >= 0 => Received' <= Received)
      /\ \A q \in Gone' : q \in Gone /\ payout'[q].amount = payout[q].amount
  BY <1>1, <1>7, PaidLess
<1>9. mishap' \subseteq Mishaps
  BY <1>1 DEF ListInv, ListTypeOK, Mishaps
<1>10. \A g \in Handlers : work'[g] = work[g]
         \/ (/\ work'[g].step \in {"none", "create", "transfer"}
             /\ work[g].step \notin {"aggregate", "total"})
  BY <1>1, <1>4, <1>6
<1>11. /\ ListTypeOK' /\ Rows' /\ TotalFollows' /\ ShownPrices' /\ AgreedPrices' /\ NeverReset'
       /\ BudgetFits' /\ TotalAgreed' /\ most' \in Nat /\ most <= most'
  BY <1>1, <1>6, <1>8, <1>9, <1>10, PayingKept
<1>12. \A g \in Handlers : work'[g].step \in {"create", "transfer"} =>
         /\ work[g].step \in {"create", "transfer"} /\ Due(work'[g]) \in Int
         /\ work[g].pay >= 0 /\ work[g].rest >= 0 =>
              /\ work'[g].pay >= 0 /\ work'[g].rest >= 0
              /\ Due(work'[g]) <= Due(work[g])
  <2>1. \A g \in Handlers : Due(work[g]) \in Int
    BY ListNumbers
  <2>2. \A g \in Handlers \ {h} : Due(work'[g]) = Due(work[g]) /\ Due(work[g]) <= Due(work[g])
    BY <1>6, <2>1
  <2> QED BY <1>1, <1>5, <1>6, <2>1, <2>2
<1>13. PayoutsFit'
  <2>1. Unspoilt(Fair) => Received' <= Received
    BY <1>7, <1>8 DEF ListInv, PayoutsFit
  <2> QED BY <1>1, <1>8, <1>11, <1>12, <2>1, FitsAsBefore
<1>14. TransferAlone'
  <2>1. \A q \in Payouts : q # p => payout'[q] = payout[q]
    BY <1>1, <1>7
  <2>2. \A g \in Handlers : work'[g].step = "transfer" => g # h /\ work'[g] = work[g]
    BY <1>4, <1>6
  <2>3. \A g \in Handlers \ {h} : work[g].step = "transfer" =>
          work[g].payout \in Payouts /\ work[g].payout # p
    BY <1>2 DEF ListInv, ListPath
  <2> QED BY <2>1, <2>2, <2>3 DEF ListInv, TransferAlone
<1>15. \A g \in Handlers : ListPath(work'[g])
  <2>1. ListPath(work'[h])
    BY <1>4, <1>5, <1>6 DEF ListPath
  <2> QED BY <1>6, <2>1 DEF ListInv
<1> QED BY <1>11, <1>13, <1>14, <1>15 DEF ListInv

\* One payout more.
LEMMA PaidMore ==
  ASSUME Amounts, NEW p \in Payouts, payout[p].status = "ABSENT", NEW row \in PayoutRow,
         row.status \in {"PENDING", "PAID"},
         payout \in [Payouts -> PayoutRow], payout' = [payout EXCEPT ![p] = row]
  PROVE  /\ payout' \in [Payouts -> PayoutRow] /\ IsFiniteSet(Gone')
         /\ Received' = Received + row.amount /\ Received' \in Int
         /\ Gone' = Gone \cup {p}
<1>1. payout'[p] = row /\ \A q \in Payouts \ {p} : payout'[q] = payout[q]
  OBVIOUS
<1>2. payout' \in [Payouts -> PayoutRow]
  OBVIOUS
<1>3. Gone' = Gone \cup {p} /\ p \notin Gone
  <2>1. \A q \in Payouts \ {p} : q \in Gone' <=> q \in Gone
    BY <1>1 DEF Gone, Live, Unanswered
  <2>2. Gone' \subseteq Payouts /\ Gone \subseteq Payouts /\ p \in Gone' /\ p \notin Gone
    BY <1>1 DEF Gone, Live, Unanswered
  <2> QED BY <2>1, <2>2
<1>4. IsFiniteSet(Gone')
  BY <1>3, FS_AddElement DEF Amounts
<1> DEFINE f == [q \in Payouts |-> payout[q].amount]
           g == [q \in Payouts |-> payout'[q].amount]
<1>5. \A q \in Gone : f[q] = g[q] /\ g[q] \in Int
  BY <1>1, <1>3 DEF Amounts
<1>6. Received = Sum(f, Gone) /\ Received' = Sum(g, Gone')
  BY DEF Received, Paid, Gone
<1>7. g[p] = row.amount /\ row.amount \in Int
  BY <1>1 DEF PayoutRow
<1> HIDE DEF f, g
<1>8. Sum(f, Gone) = Sum(g, Gone)
  BY <1>5, SumSame DEF Amounts
<1>9. g[p] \in Int /\ IsFiniteSet(Gone)
  BY <1>7 DEF Amounts
<1>10. Sum(g, Gone \cup {p}) = Sum(g, Gone) + g[p]
  BY <1>3, <1>5, <1>9, SumWith
<1>11. Received' = Received + row.amount /\ Received \in Int
  BY <1>3, <1>6, <1>7, <1>8, <1>10 DEF Amounts
<1> QED BY <1>2, <1>3, <1>4, <1>7, <1>11



LEMMA CreatePayoutInv ==
  ASSUME ListInv, NotesAgreement, NEW h \in Handlers, NEW p \in Payouts, NEW direct \in BOOLEAN,
         CreatePayout(h, p, direct)
  PROVE  ListInv'
<1> DEFINE row == [status |-> IF direct THEN "PAID" ELSE "PENDING", amount |-> work[h].pay,
                   direct |-> direct]
           w == [NoWork EXCEPT !.step = "transfer", !.payout = p, !.rest = work[h].rest]
           v == NextSeller(work[h])
<1>1. /\ work[h].step = "create" /\ payout[p].status = "ABSENT"
      /\ payout' = [payout EXCEPT ![p] = row]
      /\ mishap' = mishap \cup
           (IF \E g \in Handlers \ {h} : work[g].step \in {"create", "transfer"}
            THEN {"payouts"} ELSE {})
      /\ work' = [work EXCEPT ![h] = IF direct THEN v ELSE w]
      /\ UNCHANGED <<list, off, agreed>>
  BY DEF CreatePayout
<1>2. work \in [Handlers -> WorkRow] /\ work[h] \in WorkRow
  BY DEF ListInv, ListTypeOK
<1>3. work[h].pay \in Int /\ work[h].rest \in Int /\ work[h].rest \in Allotments \cup {0}
  BY <1>2, WorkNumbers DEF WorkRow
<1>4. /\ row \in PayoutRow /\ row.status \in {"PENDING", "PAID"} /\ row.amount = work[h].pay
      /\ (~direct => row.status = "PENDING")
  BY <1>3 DEF PayoutRow
<1>5. /\ w \in WorkRow /\ w.step = "transfer" /\ w.payout = p /\ w.pay = 0
      /\ w.rest = work[h].rest /\ Due(w) = work[h].rest
  <2>1. w.step = "transfer" /\ w.payout = p /\ w.pay = 0 /\ w.rest = work[h].rest
    BY DEF NoWork
  <2>2. w \in WorkRow
    BY <1>3, NoWorkType DEF WorkRow
  <2> HIDE DEF w
  <2> QED BY <1>3, <2>1, <2>2 DEF Due
<1>6. /\ v \in WorkRow /\ v.step \in {"none", "create"}
      /\ work[h].pay >= 0 /\ work[h].rest >= 0 =>
           v.pay >= 0 /\ v.rest >= 0 /\ Due(v) = work[h].rest
  BY <1>2, NextSellerIs
<1> HIDE DEF row, w, v
<1>7. /\ work' \in [Handlers -> WorkRow]
      /\ \A g \in Handlers \ {h} : work'[g] = work[g]
      /\ (work'[h] = w /\ ~direct) \/ work'[h] = v
  BY <1>1, <1>2, <1>5, <1>6
<1>8. payout \in [Payouts -> PayoutRow] /\ Amounts
  BY ListNumbers DEF Tables
<1>9. /\ payout' \in [Payouts -> PayoutRow] /\ IsFiniteSet(Gone')
      /\ Received' = Received + work[h].pay /\ Received' \in Int /\ Gone' = Gone \cup {p}
  BY <1>1, <1>4, <1>8, PaidMore
<1>10. /\ mishap \subseteq mishap'
       /\ mishap' \subseteq Mishaps
  BY <1>1 DEF ListInv, ListTypeOK, Mishaps
<1>11. \A g \in Handlers : work'[g] = work[g]
         \/ (/\ work'[g].step \in {"none", "create", "transfer"}
             /\ work[g].step \notin {"aggregate", "total"})
  BY <1>1, <1>5, <1>6, <1>7
<1>12. /\ ListTypeOK' /\ Rows' /\ TotalFollows' /\ ShownPrices' /\ AgreedPrices' /\ NeverReset'
       /\ BudgetFits' /\ TotalAgreed' /\ most \in Nat /\ most' \in Nat /\ most <= most'
  BY <1>1, <1>7, <1>9, <1>10, <1>11, PayingKept
<1>13. PayoutsFit'
  <2>1. SUFFICES ASSUME Unspoilt(Fair)'
        PROVE  /\ Received' <= most'
               /\ \A q \in Gone' : payout'[q].amount >= 0
               /\ \A g \in Handlers : work'[g].step \in {"create", "transfer"} =>
                    /\ work'[g].pay >= 0 /\ work'[g].rest >= 0
                    /\ Received' + Due(work'[g]) <= most'
    BY DEF PayoutsFit
  <2>2. Unspoilt(Fair)
    BY <1>10, <2>1, SpoiltMore
  <2>3. /\ work[h].pay >= 0 /\ work[h].rest >= 0 /\ Received + Due(work[h]) <= most
        /\ \A q \in Gone : payout[q].amount >= 0
    BY <1>1, <2>2 DEF ListInv, PayoutsFit
  <2>4. \A g \in Handlers \ {h} : work[g].step \notin {"create", "transfer"}
    BY <1>1, <2>1 DEF Unspoilt, Fair
  <2>5. Received \in Int /\ Gone \subseteq Payouts
    BY <1>8 DEF Amounts
  <2>6. Received' + work[h].rest <= most' /\ Received' <= most'
    BY <1>3, <1>9, <1>12, <2>3, <2>5 DEF Due
  <2>7. \A q \in Gone' : payout'[q].amount >= 0
    <3>1. payout'[p].amount = work[h].pay /\ \A q \in Payouts \ {p} : payout'[q] = payout[q]
      BY <1>1, <1>4, <1>8
    <3> QED BY <1>9, <2>3, <2>5, <3>1
  <2>8. work'[h].pay >= 0 /\ work'[h].rest >= 0 /\ Due(work'[h]) = work[h].rest
    <3>1. CASE work'[h] = w
      BY <1>5, <2>3, <3>1
    <3>2. CASE work'[h] = v
      BY <1>6, <2>3, <3>2
    <3> QED BY <1>7, <3>1, <3>2
  <2>9. \A g \in Handlers : work'[g].step \in {"create", "transfer"} => g = h
    BY <1>7, <2>4
  <2> QED BY <2>6, <2>7, <2>8, <2>9
<1>14. TransferAlone'
  <2>1. payout'[p] = row /\ \A q \in Payouts : q # p => payout'[q] = payout[q]
    BY <1>1, <1>8
  <2>2. \A g \in Handlers : work[g].step = "transfer" =>
          /\ work[g].payout \in Payouts /\ work[g].payout # p
          /\ payout[work[g].payout].status = "PENDING"
    BY <1>1 DEF ListInv, TransferAlone, ListPath
  <2>3. ASSUME NEW g \in Handlers, work'[g].step = "transfer"
        PROVE  payout'[work'[g].payout].status = "PENDING"
    <3>1. CASE g = h
      BY <1>4, <1>5, <1>6, <1>7, <2>1, <2>3, <3>1
    <3>2. CASE g # h
      BY <1>7, <2>1, <2>2, <2>3, <3>2
    <3> QED BY <3>1, <3>2
  <2>4. ASSUME NEW g \in Handlers, work'[g].step = "transfer",
               NEW k \in Handlers, work'[k].step = "transfer",
               work'[k].payout = work'[g].payout
        PROVE  k = g
    <3>1. CASE g # h /\ k # h
      BY <1>7, <2>4, <3>1 DEF ListInv, TransferAlone
    <3>2. CASE g = h /\ k # h
      BY <1>5, <1>6, <1>7, <2>2, <2>4, <3>2
    <3>3. CASE g # h /\ k = h
      BY <1>5, <1>6, <1>7, <2>2, <2>4, <3>3
    <3> QED BY <3>1, <3>2, <3>3
  <2> QED BY <2>3, <2>4 DEF TransferAlone
<1>15. \A g \in Handlers : ListPath(work'[g])
  <2>1. ListPath(work'[h])
    BY <1>3, <1>5, <1>6, <1>7 DEF ListPath
  <2> QED BY <1>7, <2>1 DEF ListInv
<1> QED BY <1>12, <1>13, <1>14, <1>15 DEF ListInv

-----------------------------------------------------------------------------
(* The list: its invariant, and what follows from it.                      *)

LEMMA ListInitInv == ASSUME ListInit PROVE ListInv
<1>1. /\ item = [i \in Items |-> [row |-> "absent", price |-> 0, approved |-> FALSE]]
      /\ payout = [p \in Payouts |-> [status |-> "ABSENT", amount |-> 0, direct |-> FALSE]]
      /\ work = [h \in Handlers |-> NoWork] /\ agreed = [i \in Items |-> 0]
      /\ deposit = Deposit /\ fee = Fee /\ total = 0 /\ packing = FALSE
      /\ off = FALSE /\ mishap = {} /\ most = 0
  BY DEF ListInit
<1>2. Listed = {} /\ Approved = {} /\ Gone = {}
  BY <1>1 DEF Listed, Approved, Gone, Live, Unanswered
<1>3. ApprovedSum = 0 /\ Received = 0 /\ Sum(agreed, Approved) = 0
  BY <1>2, SumEmpty DEF ApprovedSum, Received, Paid, Gone
<1>4. \A h \in Handlers : work[h] = NoWork /\ work[h].step = "none"
  BY <1>1, NotRunning
<1>5. ListTypeOK
  <2>1. item \in [Items -> ItemRow] /\ payout \in [Payouts -> PayoutRow]
    BY <1>1 DEF ItemRow, PayoutRow
  <2>2. work \in [Handlers -> WorkRow]
    BY <1>1, NoWorkType
  <2>3. deposit \in 0 .. MaxDeposit
    BY <1>1, AmountsAssumption
  <2> QED BY <1>1, <2>1, <2>2, <2>3 DEF ListTypeOK
<1>6. Rows
  BY <1>1, <1>2, FS_EmptySet DEF Rows
<1>7. (\A h \in Handlers : ListPath(work[h])) /\ TransferAlone
  BY <1>4 DEF ListPath, TransferAlone
<1>8. TotalFollows /\ ShownPrices /\ AgreedPrices /\ NeverReset
  BY <1>1, <1>2, <1>3, <1>4 DEF TotalFollows, ShownPrices, AgreedPrices, NeverReset
<1>9. TotalAgreed
  BY <1>1, <1>3, <1>4 DEF TotalAgreed
<1>10. PayoutsFit
  BY <1>1, <1>2, <1>3, <1>4 DEF PayoutsFit
<1>11. BudgetFits
  <2>1. ApprovedSum <= deposit - fee
    BY <1>1, <1>3, AmountsAssumption
  <2> QED BY <1>4, <2>1 DEF BudgetFits
<1> QED BY <1>5, <1>6, <1>7, <1>8, <1>9, <1>10, <1>11 DEF ListInv

LEMMA ListStepInv == ASSUME ListInv, [ListNext]_listVars PROVE ListInv'
<1>1. CASE UNCHANGED listVars
  <2>1. UNCHANGED <<item, deposit, fee, total, packing, payout, work, off, mishap, agreed, most>>
    BY <1>1 DEF listVars, list, listHistory
  <2>2. Listed' = Listed /\ Approved' = Approved /\ ApprovedSum' = ApprovedSum
        /\ Gone' = Gone /\ Received' = Received
    BY <2>1, ListKept, PayoutsKept
  <2>3. \A by : Unspoilt(by)' <=> Unspoilt(by)
    BY <2>1 DEF Unspoilt
  <2>4. ListTypeOK' /\ TransferAlone' /\ \A h \in Handlers : ListPath(work'[h])
    BY <2>1 DEF ListInv, ListTypeOK, TransferAlone
  <2>5. Rows' /\ TotalFollows'
    BY <2>1, <2>2 DEF ListInv, Rows, TotalFollows
  <2>6. ShownPrices' /\ AgreedPrices' /\ NeverReset'
    BY <2>1, <2>2, <2>3 DEF ListInv, ShownPrices, AgreedPrices, NeverReset
  <2>7. BudgetFits' /\ TotalAgreed' /\ PayoutsFit'
    BY <2>1, <2>2, <2>3 DEF ListInv, BudgetFits, TotalAgreed, PayoutsFit
  <2> QED BY <2>4, <2>5, <2>6, <2>7 DEF ListInv
<1>2. CASE ListNext
  <2>1. NotesAgreement
    BY <1>2 DEF ListNext
  <2>2. CASE ListStep
    BY <2>1, <2>2, AddItemInv, RemoveItemInv, PriceItemInv, StartApproveInv, ResetItemPricingInv,
       CheckBudgetInv, MarkItemInv, AggregateInv, WriteTotalInv DEF ListStep
  <2>3. CASE SessionStep
    BY <2>1, <2>3, TopUpItemsInv, CountUnapprovedInv, StartPackagingInv DEF SessionStep
  <2>4. CASE PayoutStep
    BY <2>1, <2>4, StartPayoutsInv, CheckCapInv, UnknownSellerInv, CreatePayoutInv,
       TransferInv, TransferEventInv        DEF PayoutStep
  <2>5. CASE \E h \in Handlers : Fail(h)
    BY <2>1, <2>5, FailInv
  <2> QED BY <1>2, <2>2, <2>3, <2>4, <2>5 DEF ListNext
<1> QED BY <1>1, <1>2

THEOREM ListInvariant == ListSpec => []ListInv
<1>1. ListInit => ListInv
  BY ListInitInv
<1>2. ListInv /\ [ListNext]_listVars => ListInv'
  BY ListStepInv
<1> QED BY <1>1, <1>2, PTL DEF ListSpec

\* Every variable of the list stays in its type, whatever Handlers, Items and Payouts are.
THEOREM ListTypeCorrect == ListSpec => []ListTypeOK
<1>1. ListInv => ListTypeOK
  BY DEF ListInv
<1> QED BY <1>1, ListInvariant, PTL

\* The total that payouts go by is that of the approved items whenever nobody is at work:
\* each of approveItem and resetItemPricing sums up after its own change.
THEOREM TotalIsApprovedHolds == ListSpec => []TotalIsApproved
<1>1. ListInv => TotalIsApproved
  BY NotRunning DEF ListInv, TotalIsApproved, TotalFollows, Quiet
<1> QED BY <1>1, ListInvariant, PTL

\* The approved items fit into the deposit beside the fees, for lists and prices of any size.
THEOREM ApprovedFitDepositHolds == ListSpec => []ApprovedFitDeposit
<1>1. ListInv => ApprovedFitDeposit
  BY DEF ListInv, ApprovedFitDeposit, BudgetFits, Unspoilt
<1> QED BY <1>1, ListInvariant, PTL

\* An approved item has the price its customer was shown.
THEOREM ApprovedAsShownHolds == ListSpec => []ApprovedAsShown
<1>1. ListInv => ApprovedAsShown
  <2> SUFFICES ASSUME ListInv, mishap \cap {"repriced", "reset"} = {}, NEW i \in Approved
               PROVE  item[i].price # 0 /\ item[i].price = agreed[i]
    BY DEF ApprovedAsShown
  <2>1. Unspoilt({"repriced", "reset"}) /\ Unspoilt({"repriced"})
    BY DEF Unspoilt
  <2>2. item[i].price # 0 /\ item[i].price \in {0, agreed[i]}
    BY <2>1 DEF ListInv, NeverReset, AgreedPrices
  <2> QED BY <2>2
<1> QED BY <1>1, ListInvariant, PTL

\* The sellers never get more than the customer once agreed to, for any number of requests,
\* whatever they allot: transfers without an answer are counted in, and what the cap does
\* not keep out is named (a repricing, overlapping payouts, an amount below zero, a request
\* let through after an answer was lost).
THEOREM SellersGetWhatWasAgreedHolds == ListSpec => []SellersGetWhatWasAgreed
<1>1. ListInv => SellersGetWhatWasAgreed
  BY DEF ListInv, SellersGetWhatWasAgreed, PayoutsFit, Unspoilt, Fair
<1> QED BY <1>1, ListInvariant, PTL
=============================================================================
