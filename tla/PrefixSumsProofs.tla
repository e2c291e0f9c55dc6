-------------------------- MODULE PrefixSumsProofs --------------------------
(***************************************************************************)
(* What a prefix sum does when one slot of the array changes, and how it   *)
(* bounds its terms.  The library's induction theorems quantify over       *)
(* predicates; here every induction is on the least element of a set of    *)
(* counterexamples (LeastNatural), which stays first-order.                *)
(***************************************************************************)
EXTENDS PrefixSums, WellFoundedInduction, TLAPS

LessThanOnNat == OpToRel(<, Nat)

(***************************************************************************)
(* A nonempty set of naturals has a least element.                         *)
(***************************************************************************)
LEMMA LeastNatural ==
    ASSUME NEW T \in SUBSET Nat, T # {}
    PROVE  \E m \in T : \A k \in T : m <= k
<1>1. LessThanOnNat = {p \in Nat \X Nat : p[1] < p[2]}
  BY Zenon DEF LessThanOnNat, OpToRel
<1>2. IsWellFoundedOn(LessThanOnNat, Nat)
  BY NatLessThanWellFounded, Zenon DEF LessThanOnNat
<1>3. PICK m \in T : \A k \in T : <<k, m>> \notin LessThanOnNat
  <2>1. T \subseteq Nat
    OBVIOUS
  <2>2. QED
    BY <1>2, <2>1, WFMin, Zenon
<1>4. ASSUME NEW k \in T PROVE m <= k
  <2>1. m \in Nat /\ k \in Nat
    OBVIOUS
  <2>2. ~(k < m)
    BY <1>1, <1>3, <2>1
  <2>3. QED
    BY <2>1, <2>2
<1>5. QED
  BY <1>4

(***************************************************************************)
(* Induction on a set of naturals: a set that holds 0 and is closed under  *)
(* successor (up to the bound n) holds every natural up to n.              *)
(***************************************************************************)
LEMMA UpTo ==
    ASSUME NEW n \in Nat, NEW P \in SUBSET (0..n),
           0 \in P,
           \A k \in 0..n : k \in P /\ k + 1 <= n => k + 1 \in P
    PROVE  P = 0..n
<1>1. SUFFICES ASSUME P # 0..n PROVE FALSE
  OBVIOUS
<1> DEFINE Missing == (0..n) \ P
<1>2. Missing \in SUBSET Nat /\ Missing # {}
  <2>1. 0..n \subseteq Nat
    OBVIOUS
  <2>2. Missing \subseteq 0..n
    OBVIOUS
  <2>3. Missing # {}
    BY <1>1, Zenon
  <2>4. QED
    BY <2>1, <2>2, <2>3
<1>3. PICK m \in Missing : \A k \in Missing : m <= k
  BY <1>2, LeastNatural
<1>4. m \in 0..n /\ m # 0 /\ m \notin P
  OBVIOUS
<1>5. m - 1 \in 0..n /\ m - 1 \in P
  BY <1>3, <1>4
<1>6. QED
  BY <1>4, <1>5

(***************************************************************************)
(* The recursive definition has the value its equation asks for.           *)
(***************************************************************************)
LEMMA PrefixSumsDef ==
    ASSUME NEW f, NEW n \in Nat
    PROVE  PrefixSums(f, n) =
             [k \in 0..n |-> IF k = 0 THEN 0 ELSE PrefixSums(f, n)[k - 1] + f[k - 1]]
<1> DEFINE Body(s, m) == [k \in 0..m |-> IF k = 0 THEN 0 ELSE s[k - 1] + f[k - 1]]
<1> DEFINE P == {m \in 0..n : \E s : s = Body(s, m)}
<1>1. 0 \in P
  <2> DEFINE s == [k \in 0..0 |-> 0]
  <2>1. s = Body(s, 0)
    OBVIOUS
  <2>2. \E r : r = Body(r, 0)
    BY <2>1, Zenon
  <2>3. QED
    BY <2>2
<1>2. ASSUME NEW m \in 0..n, m \in P, m + 1 <= n PROVE m + 1 \in P
  <2>1. PICK s : s = Body(s, m)
    BY <1>2
  <2> DEFINE t == [k \in 0..(m+1) |-> IF k = m + 1 THEN s[m] + f[m] ELSE s[k]]
  <2>2. \A k \in 0..(m+1) : t[k] = Body(t, m + 1)[k]
    BY <2>1
  <2>3. t = Body(t, m + 1)
    BY <2>2
  <2>4. \E r : r = Body(r, m + 1)
    BY <2>3, Zenon
  <2>5. m + 1 \in 0..n
    BY <1>2
  <2>6. QED
    BY <2>4, <2>5
<1>3. P = 0..n
  <2>1. P \in SUBSET (0..n)
    OBVIOUS
  <2>2. \A k \in 0..n : k \in P /\ k + 1 <= n => k + 1 \in P
    BY <1>2
  <2> HIDE DEF P
  <2>3. QED
    BY <1>1, <2>1, <2>2, UpTo
<1>4. \E s : s = Body(s, n)
  BY <1>3
<1>5. PrefixSums(f, n) = CHOOSE s : s = Body(s, n)
  BY DEF PrefixSums
<1>6. QED
  BY <1>4, <1>5

(***************************************************************************)
(* A running total does not depend on how far the loop goes on after it.   *)
(***************************************************************************)
LEMMA PrefixIndependent ==
    ASSUME NEW f, NEW n \in Nat, NEW m \in 0..n
    PROVE  PrefixSums(f, n)[m] = PrefixSum(f, m)
<1> DEFINE P == {k \in 0..m : PrefixSums(f, n)[k] = PrefixSums(f, m)[k]}
<1>1. 0 \in P
  BY PrefixSumsDef
<1>2. ASSUME NEW k \in 0..m, k \in P, k + 1 <= m PROVE k + 1 \in P
  <2>1. PrefixSums(f, n)[k + 1] = PrefixSums(f, n)[k] + f[k]
    BY PrefixSumsDef, <1>2
  <2>2. PrefixSums(f, m)[k + 1] = PrefixSums(f, m)[k] + f[k]
    BY PrefixSumsDef, <1>2
  <2>3. QED
    BY <2>1, <2>2, <1>2
<1>3. P = 0..m
  <2>1. P \in SUBSET (0..m)
    OBVIOUS
  <2>2. \A k \in 0..m : k \in P /\ k + 1 <= m => k + 1 \in P
    BY <1>2
  <2> HIDE DEF P
  <2>3. QED
    BY <1>1, <2>1, <2>2, UpTo
<1>4. QED
  BY <1>3 DEF PrefixSum

(***************************************************************************)
(* The two equations of the loop: it starts at zero, and slot n adds f[n]. *)
(***************************************************************************)
LEMMA PrefixSumZero ==
    ASSUME NEW f
    PROVE  PrefixSum(f, 0) = 0
BY PrefixSumsDef DEF PrefixSum

LEMMA PrefixSumStep ==
    ASSUME NEW f, NEW n \in Nat
    PROVE  PrefixSum(f, n + 1) = PrefixSum(f, n) + f[n]
<1>1. PrefixSum(f, n + 1) = PrefixSums(f, n + 1)[n] + f[n]
  BY PrefixSumsDef DEF PrefixSum
<1>2. n \in 0..(n + 1)
  OBVIOUS
<1>3. PrefixSums(f, n + 1)[n] = PrefixSum(f, n)
  BY <1>2, PrefixIndependent
<1>4. QED
  BY <1>1, <1>3

(***************************************************************************)
(* Sums of integers are integers, sums of naturals are naturals.           *)
(***************************************************************************)
LEMMA PrefixSumInt ==
    ASSUME NEW n \in Nat, NEW f, \A k \in 0..(n - 1) : f[k] \in Int
    PROVE  PrefixSum(f, n) \in Int
<1> DEFINE P == {m \in 0..n : PrefixSum(f, m) \in Int}
<1>1. 0 \in P
  BY PrefixSumZero
<1>2. ASSUME NEW m \in 0..n, m \in P, m + 1 <= n PROVE m + 1 \in P
  BY <1>2, PrefixSumStep
<1>3. P = 0..n
  <2>1. P \in SUBSET (0..n)
    OBVIOUS
  <2>2. \A k \in 0..n : k \in P /\ k + 1 <= n => k + 1 \in P
    BY <1>2
  <2> HIDE DEF P
  <2>3. QED
    BY <1>1, <2>1, <2>2, UpTo
<1>4. QED
  BY <1>3

LEMMA PrefixSumNat ==
    ASSUME NEW n \in Nat, NEW f, \A k \in 0..(n - 1) : f[k] \in Nat
    PROVE  PrefixSum(f, n) \in Nat
<1> DEFINE P == {m \in 0..n : PrefixSum(f, m) \in Nat}
<1>1. 0 \in P
  BY PrefixSumZero
<1>2. ASSUME NEW m \in 0..n, m \in P, m + 1 <= n PROVE m + 1 \in P
  BY <1>2, PrefixSumStep
<1>3. P = 0..n
  <2>1. P \in SUBSET (0..n)
    OBVIOUS
  <2>2. \A k \in 0..n : k \in P /\ k + 1 <= n => k + 1 \in P
    BY <1>2
  <2> HIDE DEF P
  <2>3. QED
    BY <1>1, <2>1, <2>2, UpTo
<1>4. QED
  BY <1>3

(***************************************************************************)
(* Arrays that agree on the slots in use have the same total.              *)
(***************************************************************************)
LEMMA PrefixSumSame ==
    ASSUME NEW n \in Nat, NEW f, NEW g, \A k \in 0..(n - 1) : f[k] = g[k]
    PROVE  PrefixSum(f, n) = PrefixSum(g, n)
<1> DEFINE P == {m \in 0..n : PrefixSum(f, m) = PrefixSum(g, m)}
<1>1. 0 \in P
  BY PrefixSumZero
<1>2. ASSUME NEW m \in 0..n, m \in P, m + 1 <= n PROVE m + 1 \in P
  BY <1>2, PrefixSumStep
<1>3. P = 0..n
  <2>1. P \in SUBSET (0..n)
    OBVIOUS
  <2>2. \A k \in 0..n : k \in P /\ k + 1 <= n => k + 1 \in P
    BY <1>2
  <2> HIDE DEF P
  <2>3. QED
    BY <1>1, <2>1, <2>2, UpTo
<1>4. QED
  BY <1>3

(***************************************************************************)
(* Changing one slot moves the total by exactly the change of that slot.   *)
(***************************************************************************)
LEMMA PrefixSumUpdate ==
    ASSUME NEW n \in Nat, NEW f, NEW g, NEW i \in 0..(n - 1),
           \A k \in 0..(n - 1) : f[k] \in Int /\ g[k] \in Int,
           \A k \in 0..(n - 1) : k # i => g[k] = f[k]
    PROVE  PrefixSum(g, n) = PrefixSum(f, n) - f[i] + g[i]
<1> DEFINE P == {m \in 0..n :
                   PrefixSum(g, m) = PrefixSum(f, m) + (IF i < m THEN g[i] - f[i] ELSE 0)}
<1>1. 0 \in P
  BY PrefixSumZero
<1>2. ASSUME NEW m \in 0..n, m \in P, m + 1 <= n PROVE m + 1 \in P
  <2>1. PrefixSum(f, m) \in Int /\ PrefixSum(g, m) \in Int
    <3>1. \A k \in 0..(m - 1) : f[k] \in Int /\ g[k] \in Int
      OBVIOUS
    <3>2. QED
      BY <3>1, PrefixSumInt
  <2>2. /\ PrefixSum(f, m + 1) = PrefixSum(f, m) + f[m]
        /\ PrefixSum(g, m + 1) = PrefixSum(g, m) + g[m]
    BY PrefixSumStep
  <2>3. f[m] \in Int /\ g[m] \in Int /\ f[i] \in Int /\ g[i] \in Int
    BY <1>2
  <2>4. CASE m = i
    BY <1>2, <2>1, <2>2, <2>3, <2>4
  <2>5. CASE m # i
    BY <1>2, <2>1, <2>2, <2>3, <2>5
  <2>6. QED
    BY <2>4, <2>5
<1>3. P = 0..n
  <2>1. P \in SUBSET (0..n)
    OBVIOUS
  <2>2. \A k \in 0..n : k \in P /\ k + 1 <= n => k + 1 \in P
    BY <1>2
  <2> HIDE DEF P
  <2>3. QED
    BY <1>1, <2>1, <2>2, UpTo
<1>4. PrefixSum(f, n) \in Int /\ PrefixSum(g, n) \in Int /\ f[i] \in Int /\ g[i] \in Int
  BY PrefixSumInt
<1>5. QED
  BY <1>3, <1>4

(***************************************************************************)
(* A term of a sum of naturals is at most the sum.                         *)
(***************************************************************************)
LEMMA PrefixSumBound ==
    ASSUME NEW n \in Nat, NEW f, NEW i \in 0..(n - 1),
           \A k \in 0..(n - 1) : f[k] \in Nat
    PROVE  f[i] <= PrefixSum(f, n)
<1> DEFINE g == [k \in 0..(n - 1) |-> IF k = i THEN 0 ELSE f[k]]
<1>1. \A k \in 0..(n - 1) : g[k] \in Nat
  OBVIOUS
<1>2. PrefixSum(g, n) \in Nat
  BY <1>1, PrefixSumNat
<1>3. PrefixSum(f, n) \in Nat
  BY PrefixSumNat
<1>4. PrefixSum(g, n) = PrefixSum(f, n) - f[i] + g[i]
  <2>1. \A k \in 0..(n - 1) : f[k] \in Int /\ g[k] \in Int
    BY <1>1
  <2>2. \A k \in 0..(n - 1) : k # i => g[k] = f[k]
    OBVIOUS
  <2> HIDE DEF g
  <2>3. QED
    BY <2>1, <2>2, PrefixSumUpdate
<1>5. g[i] = 0 /\ f[i] \in Nat
  OBVIOUS
<1> HIDE DEF g
<1>6. QED
  BY <1>2, <1>3, <1>4, <1>5

-----------------------------------------------------------------------------
(***************************************************************************)
(* The same facts for arrays of naturals, with hypotheses that have names: *)
(* the form in which the proofs about the ledger cite them.                *)
(***************************************************************************)
NatTerms(f, n) == \A k \in 0..(n - 1) : f[k] \in Nat

EqualTerms(f, g, n) == \A k \in 0..(n - 1) : f[k] = g[k]

SameElsewhere(f, g, n, i) == \A k \in 0..(n - 1) : k # i => g[k] = f[k]

\* A sum of naturals is a natural that none of its terms exceeds.
LEMMA SumBound ==
    ASSUME NEW n \in Nat, NEW f, NatTerms(f, n)
    PROVE  PrefixSum(f, n) \in Nat /\ \A i \in 0..(n - 1) : f[i] <= PrefixSum(f, n)
<1>1. \A k \in 0..(n - 1) : f[k] \in Nat
  BY DEF NatTerms
<1> QED
  BY <1>1, PrefixSumNat, PrefixSumBound

\* A change of one term changes the sum by as much.
LEMMA SumChange ==
    ASSUME NEW n \in Nat, NEW f, NEW g, NEW i \in 0..(n - 1),
           NatTerms(f, n), NatTerms(g, n), SameElsewhere(f, g, n, i)
    PROVE  PrefixSum(g, n) = PrefixSum(f, n) - f[i] + g[i]
<1>1. \A k \in 0..(n - 1) : f[k] \in Int /\ g[k] \in Int
  BY DEF NatTerms
<1>2. \A k \in 0..(n - 1) : k # i => g[k] = f[k]
  BY DEF SameElsewhere
<1> QED
  BY <1>1, <1>2, PrefixSumUpdate

\* Equal terms, equal sums.
LEMMA SumSame ==
    ASSUME NEW n \in Nat, NEW f, NEW g, EqualTerms(f, g, n)
    PROVE  PrefixSum(g, n) = PrefixSum(f, n)
BY PrefixSumSame DEF EqualTerms

\* One more term adds itself.
LEMMA SumAppend ==
    ASSUME NEW n \in Nat, NEW f, NEW g, EqualTerms(f, g, n)
    PROVE  PrefixSum(g, n + 1) = PrefixSum(f, n) + g[n]
BY SumSame, PrefixSumStep

\* Nothing adds up to nothing.
LEMMA SumNothing ==
    ASSUME NEW n \in Nat, NEW f, \A k \in 0..(n - 1) : f[k] = 0
    PROVE  PrefixSum(f, n) = 0
<1> DEFINE P == {m \in 0..n : PrefixSum(f, m) = 0}
<1>1. 0 \in P
  BY PrefixSumZero
<1>2. ASSUME NEW m \in 0..n, m \in P, m + 1 <= n PROVE m + 1 \in P
  <2>1. PrefixSum(f, m + 1) = PrefixSum(f, m) + f[m]
    BY PrefixSumStep
  <2>2. f[m] = 0 /\ PrefixSum(f, m) = 0
    BY <1>2
  <2> QED
    BY <1>2, <2>1, <2>2
<1>3. P = 0..n
  <2>1. P \in SUBSET (0..n)
    OBVIOUS
  <2>2. \A k \in 0..n : k \in P /\ k + 1 <= n => k + 1 \in P
    BY <1>2
  <2> HIDE DEF P
  <2> QED
    BY <1>1, <2>1, <2>2, UpTo
<1> QED
  BY <1>3

\* Terms within terms, sums within the sum.
LEMMA SumWithin ==
    ASSUME NEW n \in Nat, NEW f, NEW g, NEW h, NatTerms(f, n), NatTerms(g, n), NatTerms(h, n),
           \A k \in 0..(n - 1) : f[k] + g[k] <= h[k]
    PROVE  PrefixSum(f, n) + PrefixSum(g, n) <= PrefixSum(h, n)
<1> DEFINE P == {m \in 0..n : PrefixSum(f, m) + PrefixSum(g, m) <= PrefixSum(h, m)}
<1>1. 0 \in P
  BY PrefixSumZero
<1>2. ASSUME NEW m \in 0..n, m \in P, m + 1 <= n PROVE m + 1 \in P
  <2>1. PrefixSum(f, m) \in Nat /\ PrefixSum(g, m) \in Nat /\ PrefixSum(h, m) \in Nat
    <3>1. m \in Nat /\ NatTerms(f, m) /\ NatTerms(g, m) /\ NatTerms(h, m)
      BY DEF NatTerms
    <3> QED
      BY <3>1, SumBound
  <2>2. /\ PrefixSum(f, m + 1) = PrefixSum(f, m) + f[m]
        /\ PrefixSum(g, m + 1) = PrefixSum(g, m) + g[m]
        /\ PrefixSum(h, m + 1) = PrefixSum(h, m) + h[m]
    BY PrefixSumStep
  <2>3. f[m] \in Nat /\ g[m] \in Nat /\ h[m] \in Nat /\ f[m] + g[m] <= h[m]
    BY <1>2 DEF NatTerms
  <2>4. PrefixSum(f, m) + PrefixSum(g, m) <= PrefixSum(h, m)
    BY <1>2
  <2> QED
    BY <1>2, <2>1, <2>2, <2>3, <2>4
<1>3. P = 0..n
  <2>1. P \in SUBSET (0..n)
    OBVIOUS
  <2>2. \A k \in 0..n : k \in P /\ k + 1 <= n => k + 1 \in P
    BY <1>2
  <2> HIDE DEF P
  <2> QED
    BY <1>1, <2>1, <2>2, UpTo
<1> QED
  BY <1>3

-----------------------------------------------------------------------------
(***************************************************************************)
(* A sum told apart by owner: the terms of each owner add up to its share, *)
(* and the shares to the sum.                                              *)
(***************************************************************************)
OwnTerms(f, own, i) == [k \in DOMAIN f |-> IF own[k] = i THEN f[k] ELSE 0]

Shares(f, own, n, m) == [i \in 0..(n - 1) |-> PrefixSum(OwnTerms(f, own, i), m)]

\* One more term, and its owner's share grows by it.
LEMMA ShareStep ==
    ASSUME NEW n \in Nat, NEW m \in Nat, NEW f \in [0..(m - 1) -> Nat], NEW own,
           NEW k \in 0..(m - 1), own[k] \in 0..(n - 1)
    PROVE  /\ NatTerms(Shares(f, own, n, k), n) /\ NatTerms(Shares(f, own, n, k + 1), n)
           /\ SameElsewhere(Shares(f, own, n, k), Shares(f, own, n, k + 1), n, own[k])
           /\ Shares(f, own, n, k + 1)[own[k]] = Shares(f, own, n, k)[own[k]] + f[k]
<1>1. ASSUME NEW i \in 0..(n - 1)
      PROVE  /\ PrefixSum(OwnTerms(f, own, i), k) \in Nat
             /\ PrefixSum(OwnTerms(f, own, i), k + 1)
                  = PrefixSum(OwnTerms(f, own, i), k) + (IF own[k] = i THEN f[k] ELSE 0)
  <2> DEFINE g == OwnTerms(f, own, i)
  <2>1. NatTerms(g, k) /\ g[k] = IF own[k] = i THEN f[k] ELSE 0
    BY DEF NatTerms, OwnTerms
  <2> HIDE DEF g
  <2>2. PrefixSum(g, k) \in Nat /\ PrefixSum(g, k + 1) = PrefixSum(g, k) + g[k]
    BY <2>1, SumBound, PrefixSumStep
  <2> QED
    BY <2>1, <2>2 DEF g
<1>2. f[k] \in Nat
  OBVIOUS
<1>3. \A i \in 0..(n - 1) : /\ Shares(f, own, n, k)[i] = PrefixSum(OwnTerms(f, own, i), k)
                            /\ Shares(f, own, n, k + 1)[i] = PrefixSum(OwnTerms(f, own, i), k + 1)
  BY DEF Shares
<1> DEFINE s == Shares(f, own, n, k)
           t == Shares(f, own, n, k + 1)
<1>4. \A i \in 0..(n - 1) : s[i] \in Nat /\ t[i] = s[i] + (IF own[k] = i THEN f[k] ELSE 0)
  BY <1>1, <1>3
<1> HIDE DEF s, t
<1>5. NatTerms(s, n)
  BY <1>4 DEF NatTerms
<1>6. NatTerms(t, n)
  <2>1. \A i \in 0..(n - 1) : t[i] \in Nat
    BY <1>2, <1>4
  <2> QED
    BY <2>1 DEF NatTerms
<1>7. SameElsewhere(s, t, n, own[k])
  BY <1>4 DEF SameElsewhere
<1>8. t[own[k]] = s[own[k]] + f[k]
  BY <1>4
<1> QED
  BY <1>5, <1>6, <1>7, <1>8 DEF s, t

\* The shares of all owners are the whole.
LEMMA SumByOwner ==
    ASSUME NEW n \in Nat, NEW m \in Nat, NEW f \in [0..(m - 1) -> Nat], NEW own,
           \A k \in 0..(m - 1) : own[k] \in 0..(n - 1)
    PROVE  PrefixSum(Shares(f, own, n, m), n) = PrefixSum(f, m)
<1> DEFINE P == {k \in 0..m : PrefixSum(Shares(f, own, n, k), n) = PrefixSum(f, k)}
<1>1. 0 \in P
  <2> DEFINE s == Shares(f, own, n, 0)
  <2>1. \A i \in 0..(n - 1) : s[i] = 0
    BY PrefixSumZero DEF Shares
  <2> HIDE DEF s
  <2>2. PrefixSum(s, n) = 0 /\ PrefixSum(f, 0) = 0
    BY <2>1, SumNothing, PrefixSumZero
  <2> QED
    BY <2>2 DEF s
<1>2. ASSUME NEW k \in 0..m, k \in P, k + 1 <= m PROVE k + 1 \in P
  <2> DEFINE s == Shares(f, own, n, k)
             t == Shares(f, own, n, k + 1)
  <2>1. k \in 0..(m - 1) /\ own[k] \in 0..(n - 1) /\ f[k] \in Nat
    BY <1>2
  <2>2. /\ NatTerms(s, n) /\ NatTerms(t, n) /\ SameElsewhere(s, t, n, own[k])
        /\ t[own[k]] = s[own[k]] + f[k]
    BY <2>1, ShareStep
  <2> HIDE DEF s, t
  <2>3. PrefixSum(t, n) = PrefixSum(s, n) - s[own[k]] + t[own[k]]
    BY <2>1, <2>2, SumChange
  <2>4. PrefixSum(f, k + 1) = PrefixSum(f, k) + f[k]
    BY <2>1, PrefixSumStep
  <2>5. s[own[k]] \in Nat /\ PrefixSum(s, n) \in Nat
    BY <2>1, <2>2, SumBound DEF NatTerms
  <2>6. PrefixSum(s, n) = PrefixSum(f, k)
    BY <1>2 DEF s
  <2>7. PrefixSum(t, n) = PrefixSum(f, k + 1)
    BY <2>1, <2>2, <2>3, <2>4, <2>5, <2>6
  <2> QED
    BY <1>2, <2>7 DEF t
<1>3. P = 0..m
  <2>1. P \in SUBSET (0..m)
    OBVIOUS
  <2>2. \A k \in 0..m : k \in P /\ k + 1 <= m => k + 1 \in P
    BY <1>2
  <2> HIDE DEF P
  <2> QED
    BY <1>1, <2>1, <2>2, UpTo
<1> QED
  BY <1>3

\* The sum of two arrays, one behind the other.
LEMMA SumBehind ==
    ASSUME NEW n \in Nat, NEW m \in Nat, NEW f, NEW g, NEW h, EqualTerms(f, g, n),
           \A k \in 0..(n - 1) : f[k] \in Int, \A k \in 0..(m - 1) : h[k] \in Int,
           \A k \in 0..(m - 1) : g[n + k] = h[k]
    PROVE  PrefixSum(g, n + m) = PrefixSum(f, n) + PrefixSum(h, m)
<1> DEFINE P == {i \in 0..m : PrefixSum(g, n + i) = PrefixSum(f, n) + PrefixSum(h, i)}
<1>1. PrefixSum(f, n) \in Int /\ PrefixSum(g, n) = PrefixSum(f, n)
  BY PrefixSumInt, SumSame
<1>2. 0 \in P
  <2>1. PrefixSum(h, 0) = 0 /\ n + 0 = n
    BY PrefixSumZero
  <2> QED
    BY <1>1, <2>1
<1>3. ASSUME NEW i \in 0..m, i \in P, i + 1 <= m PROVE i + 1 \in P
  <2>1. /\ PrefixSum(g, (n + i) + 1) = PrefixSum(g, n + i) + g[n + i]
        /\ PrefixSum(h, i + 1) = PrefixSum(h, i) + h[i]
    BY PrefixSumStep
  <2>2. g[n + i] = h[i] /\ h[i] \in Int
    BY <1>3
  <2>3. PrefixSum(h, i) \in Int
    BY <1>3, PrefixSumInt
  <2>4. PrefixSum(g, n + i) = PrefixSum(f, n) + PrefixSum(h, i)
    BY <1>3
  <2>5. PrefixSum(g, (n + i) + 1) = PrefixSum(f, n) + PrefixSum(h, i + 1)
    BY <1>1, <2>1, <2>2, <2>3, <2>4
  <2>6. (n + i) + 1 = n + (i + 1) /\ i + 1 \in 0..m
    BY <1>3
  <2> QED
    BY <2>5, <2>6
<1>4. P = 0..m
  <2>1. P \in SUBSET (0..m)
    OBVIOUS
  <2>2. \A k \in 0..m : k \in P /\ k + 1 <= m => k + 1 \in P
    BY <1>3
  <2> HIDE DEF P
  <2> QED
    BY <1>2, <2>1, <2>2, UpTo
<1> QED
  BY <1>4

=============================================================================
