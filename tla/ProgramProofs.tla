---------------------------- MODULE ProgramProofs ----------------------------
(***************************************************************************)
(* What the program prints and how it ends, for every value of the         *)
(* constants.  The report is a list of calls of the writer; each call is   *)
(* seen as a step of a stack of open containers, which knows of a          *)
(* container its kind and the keys it has.  A list of calls that runs from *)
(* one stack to another, every step allowed, is a piece of a document.     *)
(* The last part shows that the program is one of the ledger's callers.    *)
(***************************************************************************)
EXTENDS ProgramProperties, LedgerTypeProofs, PrefixSumsProofs

-----------------------------------------------------------------------------
(* Lists, and what FlattenSeq does with a list of them.                    *)

IsList(list) == \E S : list \in Seq(S)

\* Two lists after each other.
LEMMA ListConcat ==
    ASSUME NEW a, NEW b, IsList(a), IsList(b)
    PROVE  /\ IsList(a \o b) /\ Len(a) \in Nat /\ Len(b) \in Nat
           /\ Len(a \o b) = Len(a) + Len(b)
           /\ \A k \in 1..Len(a) : (a \o b)[k] = a[k]
           /\ \A k \in (Len(a) + 1)..(Len(a) + Len(b)) : (a \o b)[k] = b[k - Len(a)]
<1>1. PICK A : a \in Seq(A)
  BY DEF IsList
<1>2. PICK B : b \in Seq(B)
  BY DEF IsList
<1>3. a \in Seq(A \cup B) /\ b \in Seq(A \cup B)
  BY <1>1, <1>2
<1>4. /\ a \o b \in Seq(A \cup B)
      /\ Len(a \o b) = Len(a) + Len(b)
      /\ \A k \in 1..(Len(a) + Len(b)) :
            (a \o b)[k] = IF k <= Len(a) THEN a[k] ELSE b[k - Len(a)]
  BY <1>3, ConcatProperties
<1>5. Len(a) \in Nat /\ Len(b) \in Nat
  BY <1>1, <1>2
<1> QED
  BY <1>4, <1>5 DEF IsList

\* A list of one, a list without its first.
LEMMA ListParts ==
    /\ IsList(<<>>) /\ Len(<<>>) = 0
    /\ \A x : IsList(<<x>>) /\ Len(<<x>>) = 1 /\ <<x>>[1] = x
    /\ \A a : IsList(a) /\ a # <<>> =>
          /\ IsList(Tail(a)) /\ Len(a) \in Nat /\ Len(a) > 0 /\ Len(Tail(a)) = Len(a) - 1
          /\ Head(a) = a[1] /\ \A k \in 1..(Len(a) - 1) : Tail(a)[k] = a[k + 1]
<1>1. IsList(<<>>) /\ Len(<<>>) = 0
  <2>1. <<>> \in Seq({})
    OBVIOUS
  <2> QED
    BY <2>1 DEF IsList
<1>2. ASSUME NEW x PROVE IsList(<<x>>) /\ Len(<<x>>) = 1 /\ <<x>>[1] = x
  <2>1. <<x>> \in Seq({x})
    OBVIOUS
  <2> QED
    BY <2>1 DEF IsList
<1>3. ASSUME NEW a, IsList(a), a # <<>>
      PROVE  /\ IsList(Tail(a)) /\ Len(a) \in Nat /\ Len(a) > 0 /\ Len(Tail(a)) = Len(a) - 1
             /\ Head(a) = a[1] /\ \A k \in 1..(Len(a) - 1) : Tail(a)[k] = a[k + 1]
  <2>1. PICK A : a \in Seq(A)
    BY <1>3 DEF IsList
  <2>2. /\ Tail(a) \in Seq(A) /\ Len(a) \in Nat /\ Len(a) > 0
        /\ Len(Tail(a)) = Len(a) - 1 /\ Head(a) = a[1]
        /\ \A k \in 1..(Len(a) - 1) : Tail(a)[k] = a[k + 1]
    BY <1>3, <2>1, HeadTailProperties
  <2> QED
    BY <2>2 DEF IsList
<1> QED
  BY <1>1, <1>2, <1>3

(***************************************************************************)
(* FlattenSeq joins the lists of a list one by one.                        *)
(***************************************************************************)
LEMMA FlattenSteps ==
    ASSUME NEW lists, NEW n \in Nat, Len(lists) = n, n > 0
    PROVE  \E f : /\ f[1] = lists[1]
                  /\ \A k \in 1..n : k > 1 => f[k] = f[k - 1] \o lists[k]
                  /\ FlattenSeq(lists) = f[n]
<1> DEFINE Join(a, b) == a \o b
           Body(s, m) == [i \in 1..m |-> IF i = 1 THEN lists[i] ELSE Join(s[i - 1], lists[i])]
           P == {m \in 0..n : \E s : s = Body(s, m)}
<1> HIDE DEF Join
<1>1. 0 \in P
  <2> DEFINE s == [i \in 1..0 |-> <<>>]
  <2>1. s = Body(s, 0)
    OBVIOUS
  <2>2. \E r : r = Body(r, 0)
    BY <2>1, Zenon
  <2>3. 0 \in 0..n
    OBVIOUS
  <2> HIDE DEF Body
  <2> QED
    BY <2>2, <2>3
<1>2. ASSUME NEW m \in 0..n, m \in P, m + 1 <= n PROVE m + 1 \in P
  <2>1. PICK s : s = Body(s, m)
    BY <1>2
  <2> DEFINE t == [i \in 1..(m + 1) |-> IF i = m + 1
                                         THEN IF i = 1 THEN lists[i] ELSE Join(s[m], lists[i])
                                         ELSE s[i]]
  <2>2. \A i \in 1..(m + 1) : t[i] = Body(t, m + 1)[i]
    BY <2>1
  <2>3. t = Body(t, m + 1)
    BY <2>2
  <2>4. \E r : r = Body(r, m + 1)
    BY <2>3, Zenon
  <2>5. m + 1 \in 0..n
    BY <1>2
  <2> QED
    BY <2>4, <2>5
<1>3. P = 0..n
  <2>1. P \in SUBSET (0..n)
    OBVIOUS
  <2>2. \A k \in 0..n : k \in P /\ k + 1 <= n => k + 1 \in P
    BY <1>2
  <2> HIDE DEF P
  <2> QED
    BY <1>1, <2>1, <2>2, UpTo
<1>4. \E s : s = Body(s, n)
  BY <1>3
<1> DEFINE f == CHOOSE s : s = Body(s, n)
<1>5. f = Body(f, n)
  BY <1>4, Zenon
<1>6. FlattenSeq(lists) = f[n]
  BY DEF FlattenSeq, Join
<1> HIDE DEF f
<1>7. f[1] = lists[1] /\ \A k \in 1..n : k > 1 => f[k] = Join(f[k - 1], lists[k])
  BY <1>5
<1> QED
  BY <1>6, <1>7 DEF Join

\* Joining no lists gives the empty list.
LEMMA FlattenNothing == FlattenSeq(<<>>) = <<>>
BY ListParts DEF FlattenSeq

\* A function on 1..n is a list.
LEMMA FunctionList ==
    ASSUME NEW f, NEW n \in Nat, f = [k \in 1..n |-> f[k]]
    PROVE  IsList(f) /\ Len(f) = n /\ DOMAIN f = 1..n
<1> DEFINE S == {f[k] : k \in 1..n}
<1>1. f \in [1..n -> S]
  OBVIOUS
<1> HIDE DEF S
<1>2. f \in Seq(S) /\ Len(f) = n /\ DOMAIN f = 1..n
  BY <1>1
<1> QED
  BY <1>2 DEF IsList

\* Lists joined are a list.
LEMMA ListsFlatten ==
    ASSUME NEW lists, IsList(lists), \A k \in 1..Len(lists) : IsList(lists[k])
    PROVE  IsList(FlattenSeq(lists))
<1> DEFINE n == Len(lists)
<1>1. n \in Nat /\ (n = 0 => lists = <<>>)
  BY DEF IsList
<1> HIDE DEF n
<1>2. CASE n = 0
  BY <1>1, <1>2, FlattenNothing, ListParts
<1>3. CASE n > 0
  <2>1. PICK f : /\ f[1] = lists[1]
                 /\ \A k \in 1..n : k > 1 => f[k] = f[k - 1] \o lists[k]
                 /\ FlattenSeq(lists) = f[n]
    BY <1>1, <1>3, FlattenSteps, Zenon DEF n
  <2> DEFINE P == {k \in 0..n : k > 0 => IsList(f[k])}
  <2>2. ASSUME NEW k \in 0..n, k \in P, k + 1 <= n PROVE k + 1 \in P
    <3> DEFINE j == k + 1
    <3>1. j \in 1..n /\ j - 1 = k /\ j \in 0..n /\ (k > 0 => j > 1) /\ (k = 0 => j = 1)
      BY <1>1, <2>2
    <3> HIDE DEF j
    <3>2. IsList(lists[j])
      BY <3>1, Zenon DEF n
    <3>3. IsList(f[j])
      <4>1. CASE k = 0
        BY <2>1, <3>1, <3>2, <4>1, Zenon
      <4>2. CASE k > 0
        <5>1. f[j] = f[j - 1] \o lists[j]
          BY <2>1, <3>1, <4>2, Zenon
        <5>2. IsList(f[j - 1])
          BY <2>2, <3>1, <4>2, Zenon
        <5>3. IsList(f[j - 1] \o lists[j])
          BY <3>2, <5>2, ListConcat, Zenon
        <5> QED
          BY <5>1, <5>3
      <4> QED
        BY <1>1, <4>1, <4>2
    <3>4. j \in P
      BY <3>1, <3>3, Zenon
    <3> QED
      BY <3>4, Zenon DEF j
  <2>3. 0 \in P
    <3>1. 0 \in 0..n /\ ~(0 > 0)
      BY <1>1
    <3> QED
      BY <3>1, Zenon
  <2>4. P \in SUBSET (0..n)
    OBVIOUS
  <2>5. \A k \in 0..n : k \in P /\ k + 1 <= n => k + 1 \in P
    BY <2>2
  <2>6. P = 0..n
    <3> HIDE DEF P
    <3> QED
      BY <1>1, <2>3, <2>4, <2>5, UpTo
  <2>7. n \in P
    BY <1>1, <2>6
  <2>8. IsList(f[n])
    BY <1>3, <2>7, Zenon
  <2> QED
    BY <2>1, <2>8, Zenon
<1> QED
  BY <1>1, <1>2, <1>3

-----------------------------------------------------------------------------
(* Documents as stacks of open containers, from the outside in.            *)

RangeOf(list) == {list[k] : k \in DOMAIN list}

DocumentNames == {"scenario", "network_id", "state_digest", "conservation_ok", "surface", "totals",
                  "cells", "settlement", "operations", "routes", "receipts", "journal_tail"}

\* The keys that the document has anywhere.
Names == DocumentNames \cup Roles
           \cup RangeOf(CellFields) \cup RangeOf(ReceiptFields) \cup RangeOf(RouteFields)
           \cup RangeOf(EntryFields) \cup RangeOf(SurfaceFields) \cup RangeOf(TotalsFields)
           \cup RangeOf(SettlementFields) \cup RangeOf(OperationsFields)

Obj(keys) == [kind |-> "o", keys |-> keys]
Arr       == [kind |-> "a", keys |-> {}]

Container == {Obj(K) : K \in SUBSET Names} \cup {Arr}

Stacks == {s \in Seq(Container) : Len(s) <= MaxJsonDepth}

\* What a call of the writer may do to the stack, if it may be made.
Step(call, s, t) ==
    \/ /\ call.op = "begin_object"
       /\ s = <<>> /\ t = <<Obj({})>>
    \/ \E below \in Stacks, K \in SUBSET Names :
          /\ s = Append(below, Obj(K))
          /\ call.name \in Names \ K
          /\ \/ call.op = "prop" /\ t = Append(below, Obj(K \cup {call.name}))
             \/ /\ call.op = "prop_object_begin"
                /\ t = Append(Append(below, Obj(K \cup {call.name})), Obj({}))
             \/ /\ call.op = "prop_array_begin"
                /\ t = Append(Append(below, Obj(K \cup {call.name})), Arr)
    \/ /\ call.op = "array_object_begin"
       /\ \E below \in Stacks : s = Append(below, Arr) /\ t = Append(s, Obj({}))
    \/ /\ call.op = "end_object" /\ t # <<>>
       /\ \E K \in SUBSET Names : s = Append(t, Obj(K))
    \/ call.op = "end_array" /\ t # <<>> /\ s = Append(t, Arr)

\* The calls lead from s to t, through the stacks h.
Through(h, calls, s, t) ==
    /\ h \in [0..Len(calls) -> Stacks]
    /\ h[0] = s /\ h[Len(calls)] = t
    /\ \A k \in 1..Len(calls) : Step(calls[k], h[k - 1], h[k])

Runs(calls, s, t) == IsList(calls) /\ \E h : Through(h, calls, s, t)

\* No call leads nowhere.
LEMMA RunsNothing ==
    ASSUME NEW s \in Stacks
    PROVE  Runs(<<>>, s, s)
<1> DEFINE h == [k \in 0..0 |-> s]
<1>1. Through(h, <<>>, s, s)
  BY ListParts DEF Through
<1> HIDE DEF h
<1> QED
  BY <1>1, ListParts DEF Runs

\* One call is one step.
LEMMA RunsOne ==
    ASSUME NEW s \in Stacks, NEW t \in Stacks, NEW call, Step(call, s, t)
    PROVE  Runs(<<call>>, s, t)
<1> DEFINE h == [k \in 0..1 |-> IF k = 0 THEN s ELSE t]
<1>1. h \in [0..1 -> Stacks] /\ h[0] = s /\ h[1] = t
  OBVIOUS
<1> HIDE DEF h
<1>2. Len(<<call>>) = 1 /\ <<call>>[1] = call /\ IsList(<<call>>)
  BY ListParts
<1>3. \A k \in 1..1 : Step(<<call>>[k], h[k - 1], h[k])
  <2> SUFFICES ASSUME NEW k \in 1..1 PROVE Step(<<call>>[k], h[k - 1], h[k])
    OBVIOUS
  <2>1. k = 1 /\ k - 1 = 0
    OBVIOUS
  <2>2. Step(<<call>>[1], h[0], h[1])
    BY <1>1, <1>2, Zenon
  <2> QED
    BY <2>1, <2>2, Zenon
<1>4. Through(h, <<call>>, s, t)
  BY <1>1, <1>2, <1>3, Zenon DEF Through
<1> QED
  BY <1>2, <1>4, Zenon DEF Runs

\* One list of calls after the other.
LEMMA RunsConcat ==
    ASSUME NEW a, NEW b, NEW s, NEW t, NEW u, Runs(a, s, t), Runs(b, t, u)
    PROVE  Runs(a \o b, s, u)
<1> DEFINE m == Len(a)
           n == Len(b)
           c == a \o b
<1>1. PICK f : Through(f, a, s, t)
  BY Zenon DEF Runs
<1>2. PICK g : Through(g, b, t, u)
  BY Zenon DEF Runs
<1>3. /\ IsList(c) /\ m \in Nat /\ n \in Nat /\ Len(c) = m + n
      /\ \A k \in 1..m : c[k] = a[k]
      /\ \A k \in (m + 1)..(m + n) : c[k] = b[k - m]
  BY ListConcat, Zenon DEF Runs
<1> HIDE DEF m, n, c
<1> DEFINE h == [k \in 0..(m + n) |-> IF k <= m THEN f[k] ELSE g[k - m]]
<1>4. /\ f \in [0..m -> Stacks] /\ f[0] = s /\ f[m] = t
      /\ \A k \in 1..m : Step(a[k], f[k - 1], f[k])
  BY <1>1, Zenon DEF Through, m
<1>5. /\ g \in [0..n -> Stacks] /\ g[0] = t /\ g[n] = u
      /\ \A k \in 1..n : Step(b[k], g[k - 1], g[k])
  BY <1>2, Zenon DEF Through, n
<1>6. \A k \in 0..m : h[k] = f[k]
  BY <1>3
<1>7. \A k \in m..(m + n) : h[k] = g[k - m]
  BY <1>3, <1>4, <1>5
<1>8. h \in [0..(m + n) -> Stacks]
  BY <1>3, <1>4, <1>5
<1>9. h[0] = s /\ h[m + n] = u
  BY <1>3, <1>4, <1>5, <1>6, <1>7
<1> HIDE DEF h
<1>10. ASSUME NEW k \in 1..(m + n) PROVE Step(c[k], h[k - 1], h[k])
  <2>1. CASE k <= m
    <3>1. c[k] = a[k] /\ h[k - 1] = f[k - 1] /\ h[k] = f[k] /\ k \in 1..m
      BY <1>3, <1>6, <2>1
    <3> QED
      BY <1>4, <3>1, Zenon
  <2>2. CASE k > m
    <3>1. /\ c[k] = b[k - m] /\ h[k - 1] = g[k - 1 - m] /\ h[k] = g[k - m]
          /\ k - m \in 1..n /\ k - 1 - m = (k - m) - 1
      BY <1>3, <1>7, <2>2
    <3> QED
      BY <1>5, <3>1, Zenon
  <2> QED
    BY <1>3, <2>1, <2>2
<1>11. Through(h, c, s, u)
  BY <1>3, <1>8, <1>9, <1>10, Zenon DEF Through
<1>12. Runs(c, s, u)
  BY <1>3, <1>11, Zenon DEF Runs
<1> QED
  BY <1>12, Zenon DEF c

\* No call leads no further.
LEMMA RunsNowhere ==
    ASSUME NEW s, NEW t, Runs(<<>>, s, t)
    PROVE  s = t
<1>1. PICK h : Through(h, <<>>, s, t)
  BY Zenon DEF Runs
<1>2. Len(<<>>) = 0
  BY ListParts
<1> QED
  BY <1>1, <1>2, Zenon DEF Through

\* The first call is a step, and the others lead on from where it leads.
LEMMA RunsTail ==
    ASSUME NEW a, NEW s, NEW t, Runs(a, s, t), a # <<>>
    PROVE  \E u \in Stacks : Step(Head(a), s, u) /\ Runs(Tail(a), u, t)
<1> DEFINE n == Len(a) - 1
           b == Tail(a)
<1>1. PICK f : Through(f, a, s, t)
  BY Zenon DEF Runs
<1>2. /\ IsList(b) /\ Len(a) \in Nat /\ Len(a) > 0 /\ Len(b) = n
      /\ Head(a) = a[1] /\ \A k \in 1..n : b[k] = a[k + 1]
  BY ListParts, Zenon DEF Runs
<1>3. n \in Nat /\ n + 1 = Len(a)
  BY <1>2
<1> HIDE DEF n, b
<1> DEFINE h == [k \in 0..n |-> f[k + 1]]
<1>4. /\ f \in [0..(n + 1) -> Stacks] /\ f[0] = s /\ f[n + 1] = t
      /\ \A k \in 1..(n + 1) : Step(a[k], f[k - 1], f[k])
  BY <1>1, <1>3, Zenon DEF Through
<1>5. h \in [0..n -> Stacks] /\ h[0] = f[1] /\ h[n] = t
  BY <1>3, <1>4
<1>6. \A k \in 0..n : h[k] = f[k + 1]
  OBVIOUS
<1> HIDE DEF h
<1>7. ASSUME NEW k \in 1..n PROVE Step(b[k], h[k - 1], h[k])
  <2> DEFINE j == k + 1
  <2>1. /\ h[k - 1] = f[j - 1] /\ h[k] = f[j] /\ b[k] = a[j]
        /\ j \in 1..(n + 1)
    <3>1. k - 1 \in 0..n /\ k \in 0..n /\ k - 1 + 1 = j - 1 /\ j \in 1..(n + 1)
      BY <1>3
    <3>2. h[k - 1] = f[k - 1 + 1] /\ h[k] = f[j] /\ b[k] = a[j]
      BY <1>2, <1>6, <3>1, Zenon
    <3> QED
      BY <3>1, <3>2, Zenon
  <2> HIDE DEF j
  <2>2. Step(a[j], f[j - 1], f[j])
    BY <1>4, <2>1, Zenon
  <2> QED
    BY <2>1, <2>2, Zenon
<1>8. Through(h, b, f[1], t)
  BY <1>2, <1>5, <1>7, Zenon DEF Through
<1>9. Runs(b, f[1], t)
  BY <1>2, <1>8, Zenon DEF Runs
<1>10. f[1] \in Stacks /\ Step(a[1], f[0], f[1])
  <2>1. 1 \in 1..(n + 1) /\ 1 - 1 = 0 /\ 1 \in 0..(n + 1)
    BY <1>3
  <2>2. Step(a[1], f[1 - 1], f[1])
    BY <1>4, <2>1, Zenon
  <2> QED
    BY <1>4, <2>1, <2>2, Zenon
<1> QED
  BY <1>2, <1>4, <1>9, <1>10, Zenon DEF b

\* Lists that lead from one stack to the next lead from the first to the last.
LEMMA RunsFlatten ==
    ASSUME NEW n \in Nat, NEW lists, IsList(lists), Len(lists) = n,
           NEW g \in [0..n -> Stacks],
           \A k \in 1..n : Runs(lists[k], g[k - 1], g[k])
    PROVE  Runs(FlattenSeq(lists), g[0], g[n])
<1>1. CASE n = 0
  <2>1. lists = <<>>
    BY <1>1, ListParts
  <2>2. g[0] \in Stacks
    OBVIOUS
  <2>3. FlattenSeq(lists) = <<>> /\ g[n] = g[0]
    BY <1>1, <2>1, FlattenNothing
  <2>4. Runs(<<>>, g[0], g[0])
    BY <2>2, RunsNothing, Zenon
  <2> QED
    BY <2>3, <2>4, Zenon
<1>2. CASE n > 0
  <2>1. PICK f : /\ f[1] = lists[1]
                 /\ \A k \in 1..n : k > 1 => f[k] = f[k - 1] \o lists[k]
                 /\ FlattenSeq(lists) = f[n]
    BY <1>2, FlattenSteps, Zenon
  <2> DEFINE Good(k) == Runs(f[k], g[0], g[k])
             P == {k \in 0..n : k > 0 => Good(k)}
  <2>2. ASSUME NEW k \in 0..n, k \in P, k + 1 <= n PROVE k + 1 \in P
    <3> DEFINE j == k + 1
    <3>1. j \in 1..n /\ j - 1 = k /\ j \in 0..n /\ (k > 0 => j > 1) /\ (k = 0 => j = 1)
      BY <2>2
    <3> HIDE DEF j
    <3>2. Runs(lists[j], g[j - 1], g[j])
      BY <3>1, Zenon
    <3>3. Good(j)
      <4>1. CASE k = 0
        <5>1. f[j] = lists[j] /\ g[j - 1] = g[0]
          BY <2>1, <3>1, <4>1
        <5> QED
          BY <3>2, <5>1, Zenon
      <4>2. CASE k > 0
        <5>1. f[j] = f[j - 1] \o lists[j]
          BY <2>1, <3>1, <4>2, Zenon
        <5>2. Good(j - 1)
          BY <2>2, <3>1, <4>2, Zenon
        <5> QED
          BY <3>2, <5>1, <5>2, RunsConcat, Zenon
      <4> QED
        BY <4>1, <4>2
    <3>4. j \in P
      BY <3>1, <3>3, Zenon
    <3> QED
      BY <3>4, Zenon DEF j
  <2>3. 0 \in P
    <3>1. 0 \in 0..n /\ ~(0 > 0)
      OBVIOUS
    <3> QED
      BY <3>1, Zenon
  <2>4. P \in SUBSET (0..n)
    OBVIOUS
  <2>5. \A k \in 0..n : k \in P /\ k + 1 <= n => k + 1 \in P
    BY <2>2
  <2>6. P = 0..n
    <3> HIDE DEF P
    <3> QED
      BY <2>3, <2>4, <2>5, UpTo
  <2>7. n \in P
    BY <2>6
  <2>8. Good(n)
    BY <1>2, <2>7, Zenon
  <2> QED
    BY <2>1, <2>8, Zenon
<1> QED
  BY <1>1, <1>2

-----------------------------------------------------------------------------
(* The pieces of a document.                                               *)

\* An open object with the keys K, in what is open around it.
Inside(below, K) == Append(below, Obj(K))

\* calls that add the property name to the object they are made in, room deeper at most
Gives(calls, name, room) ==
    \A below \in Stacks, K \in SUBSET Names :
       Len(below) + 1 + room <= MaxJsonDepth /\ name \in Names \ K =>
          Runs(calls, Inside(below, K), Inside(below, K \cup {name}))

\* calls that fill an empty object
Fills(calls, room) ==
    \A below \in Stacks :
       Len(below) + 1 + room <= MaxJsonDepth =>
          \E K \in SUBSET Names : Runs(calls, Inside(below, {}), Inside(below, K))

\* One more container, where there is room for it.
LEMMA Deeper ==
    ASSUME NEW s \in Stacks, NEW c \in Container
    PROVE  /\ Len(s) \in Nat
           /\ Append(s, c) # <<>>
           /\ Len(Append(s, c)) = Len(s) + 1
           /\ Len(s) < MaxJsonDepth => Append(s, c) \in Stacks
           /\ MaxJsonDepth \in Nat
<1>1. s \in Seq(Container) /\ Len(s) <= MaxJsonDepth
  BY DEF Stacks
<1>2. Append(s, c) \in Seq(Container) /\ Len(Append(s, c)) = Len(s) + 1 /\ Append(s, c) # <<>>
  BY <1>1, AppendProperties
<1>3. Len(s) \in Nat /\ MaxJsonDepth \in Nat
  BY <1>1, WriterAssumption
<1> QED
  BY <1>1, <1>2, <1>3 DEF Stacks

LEMMA ObjectStacks ==
    ASSUME NEW below \in Stacks, Len(below) + 1 <= MaxJsonDepth
    PROVE  \A K \in SUBSET Names : Inside(below, K) \in Stacks
<1> SUFFICES ASSUME NEW K \in SUBSET Names PROVE Inside(below, K) \in Stacks
  OBVIOUS
<1>1. Obj(K) \in Container
  BY DEF Container
<1>2. Len(below) < MaxJsonDepth
  <2>1. Len(below) \in Nat /\ MaxJsonDepth \in Nat
    BY <1>1, Deeper
  <2> QED
    BY <2>1
<1> QED
  BY <1>1, <1>2, Deeper DEF Inside

\* A property.
LEMMA FieldGives ==
    ASSUME NEW name, NEW value
    PROVE  Gives(Field(name, value), name, 0)
<1> DEFINE call == [op |-> "prop", name |-> name, value |-> value]
<1> SUFFICES ASSUME NEW below \in Stacks, NEW K \in SUBSET Names,
                    Len(below) + 1 + 0 <= MaxJsonDepth, name \in Names \ K
             PROVE  Runs(<<call>>, Inside(below, K), Inside(below, K \cup {name}))
  BY Zenon DEF Gives, Field
<1>1. call.op = "prop" /\ call.name = name
  OBVIOUS
<1> HIDE DEF call
<1>2. K \cup {name} \in SUBSET Names
  OBVIOUS
<1>3. Step(call, Inside(below, K), Inside(below, K \cup {name}))
  BY <1>1, Zenon DEF Step, Inside
<1>4. Len(below) + 1 <= MaxJsonDepth
  <2>1. Len(below) \in Nat
    BY DEF Stacks
  <2> QED
    BY <2>1
<1>5. Inside(below, K) \in Stacks /\ Inside(below, K \cup {name}) \in Stacks
  BY <1>2, <1>4, ObjectStacks
<1> QED
  BY <1>3, <1>5, RunsOne, Zenon

\* A property more, for which there is room.
LEMMA GivesMore ==
    ASSUME NEW calls, NEW name, NEW room \in Nat, NEW less \in Nat, less <= room,
           Gives(calls, name, less)
    PROVE  Gives(calls, name, room)
<1> SUFFICES ASSUME NEW below \in Stacks, NEW K \in SUBSET Names,
                    Len(below) + 1 + room <= MaxJsonDepth, name \in Names \ K
             PROVE  Runs(calls, Inside(below, K), Inside(below, K \cup {name}))
  BY Zenon DEF Gives
<1>1. Len(below) + 1 + less <= MaxJsonDepth
  <2>1. Len(below) \in Nat /\ MaxJsonDepth \in Nat
    BY WriterAssumption DEF Stacks
  <2> QED
    BY <2>1
<1> QED
  BY <1>1, Zenon DEF Gives

\* A list of calls, and then a property.
LEMMA RunsNamed ==
    ASSUME NEW calls, NEW from, NEW below \in Stacks, NEW K \in SUBSET Names,
           NEW more, NEW name \in Names, NEW room,
           Runs(calls, from, Inside(below, K)), Gives(more, name, room),
           name \notin K, Len(below) + 1 + room <= MaxJsonDepth
    PROVE  Runs(calls \o more, from, Inside(below, K \cup {name}))
<1>1. Runs(more, Inside(below, K), Inside(below, K \cup {name}))
  <2>1. name \in Names \ K
    OBVIOUS
  <2> QED
    BY <2>1, Zenon DEF Gives
<1> QED
  BY <1>1, RunsConcat, Zenon

\* Different names.
AreNames(names) ==
    \E n \in Nat : /\ DOMAIN names = 1..n
                   /\ \A k \in 1..n : names[k] \in Names
                   /\ \A i, j \in 1..n : names[i] = names[j] => i = j

\* Properties of different names.
LEMMA FieldsFill ==
    ASSUME NEW names, NEW record, AreNames(names)
    PROVE  Fills(Fields(names, record), 0)
<1> DEFINE lists == [k \in DOMAIN names |-> Field(names[k], record[names[k]])]
<1> SUFFICES ASSUME NEW below \in Stacks, Len(below) + 1 + 0 <= MaxJsonDepth
             PROVE  \E K \in SUBSET Names :
                       Runs(FlattenSeq(lists), Inside(below, {}), Inside(below, K))
  BY Zenon DEF Fills, Fields
<1>1. PICK n \in Nat : /\ DOMAIN names = 1..n
                       /\ \A k \in 1..n : names[k] \in Names
                       /\ \A i, j \in 1..n : names[i] = names[j] => i = j
  BY Zenon DEF AreNames
<1> DEFINE keys(k) == {names[i] : i \in 1..k}
           g == [k \in 0..n |-> Inside(below, keys(k))]
<1>2. \A k \in 0..n : keys(k) \in SUBSET Names
  BY <1>1
<1>3. Len(below) + 1 <= MaxJsonDepth
  <2>1. Len(below) \in Nat
    BY DEF Stacks
  <2> QED
    BY <2>1
<1>4. \A K \in SUBSET Names : Inside(below, K) \in Stacks
  BY <1>3, ObjectStacks
<1>5. g \in [0..n -> Stacks]
  <2> HIDE DEF keys
  <2> QED
    BY <1>2, <1>4
<1>6. IsList(lists) /\ Len(lists) = n
  <2> DEFINE S == {lists[k] : k \in 1..n}
  <2>1. lists \in [1..n -> S]
    BY <1>1
  <2> HIDE DEF lists, S
  <2>2. lists \in Seq(S) /\ Len(lists) = n
    BY <1>1, <2>1
  <2> QED
    BY <2>2 DEF IsList
<1>7. ASSUME NEW k \in 1..n PROVE Runs(lists[k], g[k - 1], g[k])
  <2>1. k - 1 \in 0..n /\ k \in 0..n
    BY <1>1
  <2>2. keys(k) = keys(k - 1) \cup {names[k]}
    BY <1>1
  <2>3. names[k] \in Names \ keys(k - 1)
    BY <1>1
  <2>4. g[k - 1] = Inside(below, keys(k - 1)) /\ g[k] = Inside(below, keys(k - 1) \cup {names[k]})
    <3> HIDE DEF keys
    <3> QED
      BY <2>1, <2>2
  <2>5. lists[k] = Field(names[k], record[names[k]])
    BY <1>1
  <2>6. keys(k - 1) \in SUBSET Names
    BY <1>2, <2>1
  <2>7. Gives(Field(names[k], record[names[k]]), names[k], 0)
    BY FieldGives, Zenon
  <2> HIDE DEF keys, lists, g
  <2>8. Runs(Field(names[k], record[names[k]]), Inside(below, keys(k - 1)),
             Inside(below, keys(k - 1) \cup {names[k]}))
    BY <2>3, <2>6, <2>7, Zenon DEF Gives
  <2> QED
    BY <2>4, <2>5, <2>8, Zenon
<1>8. Runs(FlattenSeq(lists), g[0], g[n])
  <2> HIDE DEF lists, g
  <2> QED
    BY <1>1, <1>5, <1>6, <1>7, RunsFlatten, Zenon
<1>9. g[0] = Inside(below, {}) /\ g[n] = Inside(below, keys(n)) /\ keys(n) \in SUBSET Names
  <2>1. keys(0) = {}
    OBVIOUS
  <2>2. 0 \in 0..n /\ n \in 0..n
    BY <1>1
  <2> HIDE DEF keys
  <2> QED
    BY <1>2, <2>1, <2>2
<1> HIDE DEF lists, g, keys
<1> QED
  BY <1>8, <1>9, Zenon

\* What is open when an object is begun in an object: the outer one has the name already.
LEMMA GrownStack ==
    ASSUME NEW below \in Stacks, NEW K \in SUBSET Names, NEW name \in Names, NEW room \in Nat,
           Len(below) + 1 + (room + 1) <= MaxJsonDepth
    PROVE  LET grown == Inside(below, K \cup {name})
           IN  /\ K \cup {name} \in SUBSET Names
               /\ Inside(below, K) \in Stacks
               /\ grown \in Stacks /\ grown # <<>>
               /\ Len(grown) = Len(below) + 1 /\ Len(grown) + 1 + room <= MaxJsonDepth
               /\ Append(grown, Arr) \in Stacks
<1>1. K \cup {name} \in SUBSET Names
  OBVIOUS
<1>2. Obj(K \cup {name}) \in Container /\ Arr \in Container
  BY <1>1 DEF Container
<1>3. Len(below) \in Nat /\ MaxJsonDepth \in Nat
  BY WriterAssumption DEF Stacks
<1>4. Len(below) + 1 <= MaxJsonDepth
  BY <1>3
<1>5. Inside(below, K) \in Stacks /\ Inside(below, K \cup {name}) \in Stacks
  BY <1>1, <1>4, ObjectStacks
<1>6. Inside(below, K \cup {name}) # <<>> /\ Len(Inside(below, K \cup {name})) = Len(below) + 1
  BY <1>2, Deeper, Zenon DEF Inside
<1>7. Len(Inside(below, K \cup {name})) < MaxJsonDepth
  <2> HIDE DEF Inside
  <2> QED
    BY <1>3, <1>6
<1>8. Append(Inside(below, K \cup {name}), Arr) \in Stacks
  BY <1>2, <1>5, <1>7, Deeper, Zenon
<1>9. Len(Inside(below, K \cup {name})) + 1 + room <= MaxJsonDepth
  BY <1>3, <1>6
<1> QED
  BY <1>1, <1>5, <1>6, <1>8, <1>9, Zenon

\* An object as a property.
LEMMA ObjectGives ==
    ASSUME NEW name, NEW body, NEW room \in Nat, Fills(body, room)
    PROVE  Gives(Object(name, body), name, room + 1)
<1> DEFINE begin == [op |-> "prop_object_begin", name |-> name]
           end == [op |-> "end_object"]
<1> SUFFICES ASSUME NEW below \in Stacks, NEW K \in SUBSET Names,
                    Len(below) + 1 + (room + 1) <= MaxJsonDepth, name \in Names \ K
             PROVE  Runs(<<begin>> \o body \o <<end>>, Inside(below, K),
                         Inside(below, K \cup {name}))
  BY Zenon DEF Gives, Object
<1> DEFINE grown == Inside(below, K \cup {name})
<1>1. /\ begin.op = "prop_object_begin" /\ begin.name = name
      /\ end.op = "end_object"
  OBVIOUS
<1> HIDE DEF begin, end
<1>2. /\ K \cup {name} \in SUBSET Names
      /\ Inside(below, K) \in Stacks
      /\ grown \in Stacks /\ grown # <<>> /\ Len(grown) + 1 + room <= MaxJsonDepth
  BY GrownStack, Zenon
<1>3. Step(begin, Inside(below, K), Inside(grown, {}))
  BY <1>1, Zenon DEF Step, Inside
<1> HIDE DEF grown
<1>4. Len(grown) + 1 <= MaxJsonDepth
  <2>1. Len(grown) \in Nat /\ MaxJsonDepth \in Nat
    BY <1>2, WriterAssumption DEF Stacks
  <2> QED
    BY <1>2, <2>1
<1>5. \A L \in SUBSET Names : Inside(grown, L) \in Stacks
  BY <1>2, <1>4, ObjectStacks, Zenon
<1>6. {} \in SUBSET Names
  OBVIOUS
<1>7. Runs(<<begin>>, Inside(below, K), Inside(grown, {}))
  BY <1>2, <1>3, <1>5, <1>6, RunsOne, Zenon
<1>8. PICK L \in SUBSET Names : Runs(body, Inside(grown, {}), Inside(grown, L))
  BY <1>2, Zenon DEF Fills
<1>9. Step(end, Inside(grown, L), grown)
  BY <1>1, <1>2, Zenon DEF Step, Inside
<1>10. Runs(<<end>>, Inside(grown, L), grown)
  BY <1>2, <1>5, <1>9, RunsOne, Zenon
<1>11. Runs(<<begin>> \o body, Inside(below, K), Inside(grown, L))
  BY <1>7, <1>8, RunsConcat, Zenon
<1>12. Runs((<<begin>> \o body) \o <<end>>, Inside(below, K), grown)
  BY <1>10, <1>11, RunsConcat, Zenon
<1> QED
  BY <1>12, Zenon DEF grown

\* An object as an element.
LEMMA ElementRuns ==
    ASSUME NEW arr \in Stacks, NEW below \in Stacks, arr = Append(below, Arr), arr # <<>>,
           Len(arr) + 1 <= MaxJsonDepth, NEW body, Fills(body, 0)
    PROVE  Runs(<<[op |-> "array_object_begin"]>> \o body \o <<[op |-> "end_object"]>>, arr, arr)
<1> DEFINE begin == [op |-> "array_object_begin"]
           end == [op |-> "end_object"]
<1>1. begin.op = "array_object_begin" /\ end.op = "end_object"
  OBVIOUS
<1>2. \A L \in SUBSET Names : Inside(arr, L) \in Stacks
  BY ObjectStacks, Zenon
<1>3. {} \in SUBSET Names
  OBVIOUS
<1> HIDE DEF begin, end
<1>4. Step(begin, arr, Inside(arr, {}))
  BY <1>1, Zenon DEF Step, Inside
<1>5. Runs(<<begin>>, arr, Inside(arr, {}))
  BY <1>2, <1>3, <1>4, RunsOne, Zenon
<1>6. Len(arr) + 1 + 0 <= MaxJsonDepth
  <2>1. Len(arr) \in Nat
    BY DEF Stacks
  <2> QED
    BY <2>1
<1>7. PICK L \in SUBSET Names : Runs(body, Inside(arr, {}), Inside(arr, L))
  BY <1>6, Zenon DEF Fills
<1>8. Step(end, Inside(arr, L), arr)
  BY <1>1, Zenon DEF Step, Inside
<1>9. Runs(<<end>>, Inside(arr, L), arr)
  BY <1>2, <1>8, RunsOne, Zenon
<1>10. Runs(<<begin>> \o body, arr, Inside(arr, L))
  BY <1>5, <1>7, RunsConcat, Zenon
<1>11. Runs((<<begin>> \o body) \o <<end>>, arr, arr)
  BY <1>9, <1>10, RunsConcat, Zenon
<1> QED
  BY <1>11, Zenon DEF begin, end

\* An array of objects as a property.
LEMMA ArrayGives ==
    ASSUME NEW name, NEW bodies, NEW n \in Nat, DOMAIN bodies = 1..n,
           \A k \in 1..n : Fills(bodies[k], 0)
    PROVE  Gives(Array(name, bodies), name, 2)
<1> DEFINE begin == [op |-> "prop_array_begin", name |-> name]
           end == [op |-> "end_array"]
           Element(k) == <<[op |-> "array_object_begin"]>> \o bodies[k]
                            \o <<[op |-> "end_object"]>>
           lists == [k \in 1..n |-> Element(k)]
<1> SUFFICES ASSUME NEW below \in Stacks, NEW K \in SUBSET Names,
                    Len(below) + 1 + 2 <= MaxJsonDepth, name \in Names \ K
             PROVE  Runs(<<begin>> \o FlattenSeq(lists) \o <<end>>, Inside(below, K),
                         Inside(below, K \cup {name}))
  BY Zenon DEF Gives, Array
<1> DEFINE grown == Inside(below, K \cup {name})
           arr == Append(grown, Arr)
<1>1. begin.op = "prop_array_begin" /\ begin.name = name /\ end.op = "end_array"
  OBVIOUS
<1> HIDE DEF begin, end
<1>2. /\ K \cup {name} \in SUBSET Names
      /\ Inside(below, K) \in Stacks
      /\ grown \in Stacks /\ grown # <<>> /\ Len(grown) + 1 + 1 <= MaxJsonDepth
      /\ arr \in Stacks
  <2>1. Len(below) + 1 + (1 + 1) <= MaxJsonDepth /\ 1 \in Nat
    OBVIOUS
  <2> QED
    BY <2>1, GrownStack, Zenon
<1>3. Step(begin, Inside(below, K), arr)
  BY <1>1, Zenon DEF Step, Inside
<1> HIDE DEF grown
<1>4. Arr \in Container
  BY DEF Container
<1>5. arr # <<>> /\ Len(arr) = Len(grown) + 1 /\ Len(grown) \in Nat
  BY <1>2, <1>4, Deeper, Zenon
<1>6. Len(arr) + 1 <= MaxJsonDepth
  BY <1>2, <1>5
<1>7. Step(end, arr, grown)
  BY <1>1, <1>2, Zenon DEF Step
<1>8. arr = Append(grown, Arr)
  OBVIOUS
<1> HIDE DEF arr
<1>9. \A k \in 1..n : Runs(Element(k), arr, arr)
  BY <1>2, <1>5, <1>6, <1>8, ElementRuns, Zenon
<1> HIDE DEF Element
<1>10. Runs(FlattenSeq(lists), arr, arr)
  <2> DEFINE g == [k \in 0..n |-> arr]
             S == {lists[k] : k \in 1..n}
  <2>1. lists \in Seq(S) /\ Len(lists) = n
    <3>1. lists \in [1..n -> S]
      OBVIOUS
    <3> HIDE DEF lists, S
    <3> QED
      BY <3>1
  <2>2. IsList(lists)
    BY <2>1 DEF IsList
  <2>3. g \in [0..n -> Stacks] /\ g[0] = arr /\ g[n] = arr
    BY <1>2
  <2>4. ASSUME NEW k \in 1..n PROVE Runs(lists[k], g[k - 1], g[k])
    <3>1. lists[k] = Element(k) /\ g[k - 1] = arr /\ g[k] = arr
      OBVIOUS
    <3> QED
      BY <1>9, <3>1, Zenon
  <2> HIDE DEF g, lists
  <2>5. Runs(FlattenSeq(lists), g[0], g[n])
    BY <2>1, <2>2, <2>3, <2>4, RunsFlatten, Zenon
  <2> QED
    BY <2>3, <2>5, Zenon
<1>11. Runs(<<begin>>, Inside(below, K), arr) /\ Runs(<<end>>, arr, grown)
  BY <1>2, <1>3, <1>7, RunsOne, Zenon
<1> HIDE DEF lists
<1>12. Runs(<<begin>> \o FlattenSeq(lists), Inside(below, K), arr)
  BY <1>10, <1>11, RunsConcat, Zenon
<1>13. Runs((<<begin>> \o FlattenSeq(lists)) \o <<end>>, Inside(below, K), grown)
  BY <1>11, <1>12, RunsConcat, Zenon
<1> QED
  BY <1>13, Zenon DEF grown

-----------------------------------------------------------------------------
(* The document of the report.                                             *)

\* No field is named twice.
LEMMA FieldNames ==
    /\ AreNames(CellFields) /\ AreNames(ReceiptFields) /\ AreNames(RouteFields)
    /\ AreNames(EntryFields) /\ AreNames(SurfaceFields) /\ AreNames(TotalsFields)
    /\ AreNames(SettlementFields) /\ AreNames(OperationsFields)
<1>1. AreNames(CellFields)
  <2>1. /\ DOMAIN CellFields = 1..14
        /\ \A i, j \in 1..14 : CellFields[i] = CellFields[j] => i = j
    BY DEF CellFields
  <2>2. \A k \in DOMAIN CellFields : CellFields[k] \in Names
    BY DEF Names, RangeOf
  <2> QED
    BY <2>1, <2>2 DEF AreNames
<1>2. AreNames(ReceiptFields)
  <2>1. /\ DOMAIN ReceiptFields = 1..15
        /\ \A i, j \in 1..15 : ReceiptFields[i] = ReceiptFields[j] => i = j
    BY DEF ReceiptFields
  <2>2. \A k \in DOMAIN ReceiptFields : ReceiptFields[k] \in Names
    BY DEF Names, RangeOf
  <2> QED
    BY <2>1, <2>2 DEF AreNames
<1>3. AreNames(RouteFields)
  <2>1. /\ DOMAIN RouteFields = 1..21
        /\ \A i, j \in 1..21 : RouteFields[i] = RouteFields[j] => i = j
    BY DEF RouteFields
  <2>2. \A k \in DOMAIN RouteFields : RouteFields[k] \in Names
    BY DEF Names, RangeOf
  <2> QED
    BY <2>1, <2>2 DEF AreNames
<1>4. AreNames(EntryFields)
  <2>1. /\ DOMAIN EntryFields = 1..10
        /\ \A i, j \in 1..10 : EntryFields[i] = EntryFields[j] => i = j
    BY DEF EntryFields
  <2>2. \A k \in DOMAIN EntryFields : EntryFields[k] \in Names
    BY DEF Names, RangeOf
  <2> QED
    BY <2>1, <2>2 DEF AreNames
<1>5. AreNames(SurfaceFields)
  <2>1. /\ DOMAIN SurfaceFields = 1..6
        /\ \A i, j \in 1..6 : SurfaceFields[i] = SurfaceFields[j] => i = j
    BY DEF SurfaceFields
  <2>2. \A k \in DOMAIN SurfaceFields : SurfaceFields[k] \in Names
    BY DEF Names, RangeOf
  <2> QED
    BY <2>1, <2>2 DEF AreNames
<1>6. AreNames(TotalsFields)
  <2>1. /\ DOMAIN TotalsFields = 1..7
        /\ \A i, j \in 1..7 : TotalsFields[i] = TotalsFields[j] => i = j
    BY DEF TotalsFields
  <2>2. \A k \in DOMAIN TotalsFields : TotalsFields[k] \in Names
    BY DEF Names, RangeOf
  <2> QED
    BY <2>1, <2>2 DEF AreNames
<1>7. AreNames(SettlementFields)
  <2>1. /\ DOMAIN SettlementFields = 1..4
        /\ \A i, j \in 1..4 : SettlementFields[i] = SettlementFields[j] => i = j
    BY DEF SettlementFields
  <2>2. \A k \in DOMAIN SettlementFields : SettlementFields[k] \in Names
    BY DEF Names, RangeOf
  <2> QED
    BY <2>1, <2>2 DEF AreNames
<1>8. AreNames(OperationsFields)
  <2>1. /\ DOMAIN OperationsFields = 1..5
        /\ \A i, j \in 1..5 : OperationsFields[i] = OperationsFields[j] => i = j
    BY DEF OperationsFields
  <2>2. \A k \in DOMAIN OperationsFields : OperationsFields[k] \in Names
    BY DEF Names, RangeOf
  <2> QED
    BY <2>1, <2>2 DEF AreNames
<1> QED
  BY <1>1, <1>2, <1>3, <1>4, <1>5, <1>6, <1>7, <1>8, Zenon

\* A cell is a property, an object or null.
LEMMA CellReportGives ==
    ASSUME NEW role
    PROVE  Gives(CellReport(role), role, 1)
<1>1. 0 \in Nat /\ 1 \in Nat /\ 0 <= 1 /\ 0 + 1 = 1
  OBVIOUS
<1>2. Gives(Field(role, Null), role, 1)
  BY <1>1, FieldGives, GivesMore, Zenon
<1>3. \A record : Gives(Object(role, Fields(CellFields, record)), role, 1)
  <2> TAKE record
  <2>1. Fills(Fields(CellFields, record), 0)
    BY FieldNames, FieldsFill, Zenon
  <2>2. Gives(Object(role, Fields(CellFields, record)), role, 0 + 1)
    BY <1>1, <2>1, ObjectGives, Zenon
  <2> QED
    BY <1>1, <2>2, Zenon
<1> QED
  BY <1>2, <1>3, Zenon DEF CellReport

\* The elements of the arrays.
LEMMA ElementsFill ==
    /\ \A name : Fills(RouteReport(name), 0)
    /\ \A r : Fills(ReceiptReport(r), 0)
    /\ \A k : Fills(EntryReport(k), 0)
BY FieldNames, FieldsFill, Zenon DEF RouteReport, ReceiptReport, EntryReport

\* The cells, one after the other.
LEMMA CellsFill ==
    Fills(CellReport("origin") \o CellReport("aux") \o CellReport("sponsor")
             \o CellReport("beneficiary") \o CellReport("treasury"), 1)
<1> SUFFICES ASSUME NEW below \in Stacks, Len(below) + 1 + 1 <= MaxJsonDepth
             PROVE  \E K \in SUBSET Names :
                       Runs(CellReport("origin") \o CellReport("aux") \o CellReport("sponsor")
                               \o CellReport("beneficiary") \o CellReport("treasury"),
                            Inside(below, {}), Inside(below, K))
  BY Zenon DEF Fills
<1> DEFINE A == {} \cup {"origin"}
           B == A \cup {"aux"}
           C == B \cup {"sponsor"}
           D == C \cup {"beneficiary"}
           E == D \cup {"treasury"}
<1>0. Roles \subseteq Names
  BY DEF Names
<1>1. {} \in SUBSET Names /\ "origin" \in Names \ {}
  BY <1>0 DEF Roles
<1>2. A \in SUBSET Names /\ "aux" \in Names /\ "aux" \notin A
  BY <1>0 DEF Roles
<1>3. B \in SUBSET Names /\ "sponsor" \in Names /\ "sponsor" \notin B
  BY <1>0 DEF Roles
<1>4. C \in SUBSET Names /\ "beneficiary" \in Names /\ "beneficiary" \notin C
  BY <1>0 DEF Roles
<1>5. D \in SUBSET Names /\ "treasury" \in Names /\ "treasury" \notin D
  BY <1>0 DEF Roles
<1>6. E \in SUBSET Names
  BY <1>0 DEF Roles
<1>7. Runs(CellReport("origin"), Inside(below, {}), Inside(below, A))
  BY <1>1, CellReportGives, Zenon DEF Gives
<1> HIDE DEF A
<1>8. Runs(CellReport("origin") \o CellReport("aux"), Inside(below, {}), Inside(below, B))
  BY <1>2, <1>7, CellReportGives, RunsNamed, Zenon
<1> HIDE DEF B
<1>9. Runs(CellReport("origin") \o CellReport("aux") \o CellReport("sponsor"),
           Inside(below, {}), Inside(below, C))
  BY <1>3, <1>8, CellReportGives, RunsNamed, Zenon
<1> HIDE DEF C
<1>10. Runs(CellReport("origin") \o CellReport("aux") \o CellReport("sponsor")
               \o CellReport("beneficiary"),
            Inside(below, {}), Inside(below, D))
  BY <1>4, <1>9, CellReportGives, RunsNamed, Zenon
<1> HIDE DEF D
<1>11. Runs(CellReport("origin") \o CellReport("aux") \o CellReport("sponsor")
               \o CellReport("beneficiary") \o CellReport("treasury"),
            Inside(below, {}), Inside(below, E))
  BY <1>5, <1>10, CellReportGives, RunsNamed, Zenon
<1> HIDE DEF E
<1> QED
  BY <1>6, <1>11, Zenon

\* The report is a document, but for its last bracket.
LEMMA ReportRuns ==
    ASSUME MaxJsonDepth >= 3, receipt_count \in Nat, IsList(journal),
           NEW order, NEW n \in Nat, DOMAIN order = 1..n
    PROVE  \E rest : \E K \in SUBSET Names :
              /\ ReportCalls(order) = rest \o <<[op |-> "end_object"]>>
              /\ Runs(rest, <<>>, Inside(<<>>, K))
<1> DEFINE surface == [policies |-> Cardinality(DOMAIN policies),
                       routes |-> Cardinality(DOMAIN routes),
                       cells |-> cell_count, receipts |-> receipt_count,
                       journal_entries |-> Len(journal), route_closed |-> result.route_closed]
           sums == [cell_reserves |-> TotalCellReserves, reserved_out |-> TotalReservedOut,
                    settled_in |-> TotalSettledIn, settled_out |-> TotalSettledOut,
                    global_ok |-> GlobalReconciliationOk] @@ totals
           operations == [secondary_receipt |-> OrNull(result.secondary_receipt)] @@ result
           roles == CellReport("origin") \o CellReport("aux") \o CellReport("sponsor")
                       \o CellReport("beneficiary") \o CellReport("treasury")
           added == [k \in DOMAIN order |-> RouteReport(order[k])]
           issued == [k \in 1..receipt_count |-> ReceiptReport(k - 1)]
           tail == [k \in 1..(Len(journal) - BeforeTail) |-> EntryReport(BeforeTail + k)]
           c0 == <<[op |-> "begin_object"]>>
           c1 == c0 \o Field("scenario", result.scenario)
           c2 == c1 \o Field("network_id", Text)
           c3 == c2 \o Field("state_digest", Text)
           c4 == c3 \o Field("conservation_ok", GlobalReconciliationOk)
           c5 == c4 \o Object("surface", Fields(SurfaceFields, surface))
           c6 == c5 \o Object("totals", Fields(TotalsFields, sums))
           c7 == c6 \o Object("cells", roles)
           c8 == c7 \o Object("settlement", Fields(SettlementFields, result))
           c9 == c8 \o Object("operations", Fields(OperationsFields, operations))
           c10 == c9 \o Array("routes", added)
           c11 == c10 \o Array("receipts", issued)
           c12 == c11 \o Array("journal_tail", tail)
           K0 == {}
           K1 == K0 \cup {"scenario"}
           K2 == K1 \cup {"network_id"}
           K3 == K2 \cup {"state_digest"}
           K4 == K3 \cup {"conservation_ok"}
           K5 == K4 \cup {"surface"}
           K6 == K5 \cup {"totals"}
           K7 == K6 \cup {"cells"}
           K8 == K7 \cup {"settlement"}
           K9 == K8 \cup {"operations"}
           K10 == K9 \cup {"routes"}
           K11 == K10 \cup {"receipts"}
           K12 == K11 \cup {"journal_tail"}
<1>1. ReportCalls(order) = c12 \o <<[op |-> "end_object"]>>
  BY Zenon DEF ReportCalls
<1>2. 0 \in Nat /\ 1 \in Nat /\ 2 \in Nat /\ 0 <= 2 /\ 1 <= 2 /\ 0 + 1 = 1 /\ 1 + 1 = 2
  OBVIOUS
<1>3. \A name, value : Gives(Field(name, value), name, 2)
  BY <1>2, FieldGives, GivesMore, Zenon
<1>4. \A name, names, record :
         AreNames(names) => Gives(Object(name, Fields(names, record)), name, 2)
  <2> TAKE name, names, record
  <2> HAVE AreNames(names)
  <2>1. Fills(Fields(names, record), 0)
    BY FieldsFill, Zenon
  <2>2. Gives(Object(name, Fields(names, record)), name, 0 + 1)
    BY <1>2, <2>1, ObjectGives, Zenon
  <2>3. Gives(Object(name, Fields(names, record)), name, 1)
    BY <1>2, <2>2, Zenon
  <2> QED
    BY <1>2, <2>3, GivesMore, Zenon
<1>5. Gives(Object("cells", roles), "cells", 2)
  <2>1. Gives(Object("cells", roles), "cells", 1 + 1)
    BY <1>2, CellsFill, ObjectGives, Zenon
  <2> QED
    BY <1>2, <2>1, Zenon
<1>6. Gives(Array("routes", added), "routes", 2)
  <2>1. DOMAIN added = 1..n /\ \A k \in 1..n : added[k] = RouteReport(order[k])
    OBVIOUS
  <2> HIDE DEF added
  <2>2. \A k \in 1..n : Fills(added[k], 0)
    BY <2>1, ElementsFill, Zenon
  <2> QED
    BY <2>1, <2>2, ArrayGives, Zenon
<1>7. Gives(Array("receipts", issued), "receipts", 2)
  <2>1. /\ DOMAIN issued = 1..receipt_count
        /\ \A k \in 1..receipt_count : issued[k] = ReceiptReport(k - 1)
    OBVIOUS
  <2> HIDE DEF issued
  <2>2. \A k \in 1..receipt_count : Fills(issued[k], 0)
    BY <2>1, ElementsFill, Zenon
  <2> QED
    BY <2>1, <2>2, ArrayGives, Zenon
<1>8. Gives(Array("journal_tail", tail), "journal_tail", 2)
  <2> DEFINE m == Len(journal) - BeforeTail
  <2>1. m \in Nat
    <3>1. Len(journal) \in Nat
      BY DEF IsList
    <3> QED
      BY <3>1 DEF BeforeTail
  <2>2. DOMAIN tail = 1..m /\ \A k \in 1..m : tail[k] = EntryReport(BeforeTail + k)
    OBVIOUS
  <2> HIDE DEF tail, m
  <2>3. \A k \in 1..m : Fills(tail[k], 0)
    BY <2>2, ElementsFill, Zenon
  <2> QED
    BY <2>1, <2>2, <2>3, ArrayGives, Zenon
<1> HIDE DEF surface, sums, operations, roles, added, issued, tail
<1>9. <<>> \in Stacks /\ Len(<<>>) + 1 <= MaxJsonDepth /\ Len(<<>>) + 1 + 2 <= MaxJsonDepth
  <2>1. <<>> \in Seq(Container) /\ Len(<<>>) = 0 /\ MaxJsonDepth \in Nat
    BY WriterAssumption
  <2> QED
    BY <2>1 DEF Stacks
<1>10. DocumentNames \subseteq Names
  BY DEF Names
<1>11. Runs(c0, <<>>, Inside(<<>>, K0)) /\ K0 \in SUBSET Names
  <2> DEFINE begin == [op |-> "begin_object"]
  <2>1. begin.op = "begin_object"
    OBVIOUS
  <2> HIDE DEF begin
  <2>2. Inside(<<>>, {}) = <<Obj({})>>
    BY DEF Inside
  <2>3. Step(begin, <<>>, Inside(<<>>, {}))
    BY <2>1, <2>2, Zenon DEF Step
  <2>4. {} \in SUBSET Names
    OBVIOUS
  <2>5. Inside(<<>>, {}) \in Stacks
    BY <1>9, <2>4, ObjectStacks, Zenon
  <2>6. Runs(<<begin>>, <<>>, Inside(<<>>, {}))
    BY <1>9, <2>3, <2>5, RunsOne, Zenon
  <2> QED
    BY <2>4, <2>6, Zenon DEF begin
<1>12. K0 \in SUBSET Names /\ "scenario" \in Names /\ "scenario" \notin K0
  BY <1>10 DEF DocumentNames
<1>13. K1 \in SUBSET Names /\ "network_id" \in Names /\ "network_id" \notin K1
  BY <1>10 DEF DocumentNames
<1>14. K2 \in SUBSET Names /\ "state_digest" \in Names /\ "state_digest" \notin K2
  BY <1>10 DEF DocumentNames
<1>15. K3 \in SUBSET Names /\ "conservation_ok" \in Names /\ "conservation_ok" \notin K3
  BY <1>10 DEF DocumentNames
<1>16. K4 \in SUBSET Names /\ "surface" \in Names /\ "surface" \notin K4
  BY <1>10 DEF DocumentNames
<1>17. K5 \in SUBSET Names /\ "totals" \in Names /\ "totals" \notin K5
  BY <1>10 DEF DocumentNames
<1>18. K6 \in SUBSET Names /\ "cells" \in Names /\ "cells" \notin K6
  BY <1>10 DEF DocumentNames
<1>19. K7 \in SUBSET Names /\ "settlement" \in Names /\ "settlement" \notin K7
  BY <1>10 DEF DocumentNames
<1>20. K8 \in SUBSET Names /\ "operations" \in Names /\ "operations" \notin K8
  BY <1>10 DEF DocumentNames
<1>21. K9 \in SUBSET Names /\ "routes" \in Names /\ "routes" \notin K9
  BY <1>10 DEF DocumentNames
<1>22. K10 \in SUBSET Names /\ "receipts" \in Names /\ "receipts" \notin K10
  BY <1>10 DEF DocumentNames
<1>23. K11 \in SUBSET Names /\ "journal_tail" \in Names /\ "journal_tail" \notin K11
  BY <1>10 DEF DocumentNames
<1>24. K12 \in SUBSET Names
  BY <1>10 DEF DocumentNames
<1> HIDE DEF c0, K0
<1>25. Runs(c1, <<>>, Inside(<<>>, K1))
  BY <1>3, <1>9, <1>12, <1>11, RunsNamed, Zenon
<1> HIDE DEF c1, K1
<1>26. Runs(c2, <<>>, Inside(<<>>, K2))
  BY <1>3, <1>9, <1>13, <1>25, RunsNamed, Zenon
<1> HIDE DEF c2, K2
<1>27. Runs(c3, <<>>, Inside(<<>>, K3))
  BY <1>3, <1>9, <1>14, <1>26, RunsNamed, Zenon
<1> HIDE DEF c3, K3
<1>28. Runs(c4, <<>>, Inside(<<>>, K4))
  BY <1>3, <1>9, <1>15, <1>27, RunsNamed, Zenon
<1> HIDE DEF c4, K4
<1>29. Runs(c5, <<>>, Inside(<<>>, K5))
  BY <1>4, FieldNames, <1>9, <1>16, <1>28, RunsNamed, Zenon
<1> HIDE DEF c5, K5
<1>30. Runs(c6, <<>>, Inside(<<>>, K6))
  BY <1>4, FieldNames, <1>9, <1>17, <1>29, RunsNamed, Zenon
<1> HIDE DEF c6, K6
<1>31. Runs(c7, <<>>, Inside(<<>>, K7))
  BY <1>5, <1>9, <1>18, <1>30, RunsNamed, Zenon
<1> HIDE DEF c7, K7
<1>32. Runs(c8, <<>>, Inside(<<>>, K8))
  BY <1>4, FieldNames, <1>9, <1>19, <1>31, RunsNamed, Zenon
<1> HIDE DEF c8, K8
<1>33. Runs(c9, <<>>, Inside(<<>>, K9))
  BY <1>4, FieldNames, <1>9, <1>20, <1>32, RunsNamed, Zenon
<1> HIDE DEF c9, K9
<1>34. Runs(c10, <<>>, Inside(<<>>, K10))
  BY <1>6, <1>9, <1>21, <1>33, RunsNamed, Zenon
<1> HIDE DEF c10, K10
<1>35. Runs(c11, <<>>, Inside(<<>>, K11))
  BY <1>7, <1>9, <1>22, <1>34, RunsNamed, Zenon
<1> HIDE DEF c11, K11
<1>36. Runs(c12, <<>>, Inside(<<>>, K12))
  BY <1>8, <1>9, <1>23, <1>35, RunsNamed, Zenon
<1> HIDE DEF c12, K12
<1> QED
  BY <1>1, <1>24, <1>36, Zenon

-----------------------------------------------------------------------------
(* The scripts, and the routes they add.                                   *)

LEMMA ScriptList ==
    ASSUME NEW name \in KnownScenarios
    PROVE  IsList(Script(name))
<1>1. IsList(Surface)
  <2>1. Surface = [k \in 1..12 |-> Surface[k]]
    BY DEF Surface
  <2> QED
    BY <2>1, FunctionList
<1>2. IsList(Snapshot)
  BY ListParts DEF Snapshot
<1>3. IsList(Flow)
  <2>1. Flow = [k \in 1..7 |-> Flow[k]]
    BY DEF Flow
  <2> QED
    BY <2>1, FunctionList
<1>4. IsList(Cancellation)
  <2>1. Cancellation = [k \in 1..5 |-> Cancellation[k]]
    BY DEF Cancellation
  <2> QED
    BY <2>1, FunctionList
<1>5. IsList(FeeRotation)
  <2>1. FeeRotation = [k \in 1..4 |-> FeeRotation[k]]
    BY DEF FeeRotation
  <2> QED
    BY <2>1, FunctionList
<1> DEFINE rest == CASE name = "snapshot"     -> Snapshot
                     [] name = "flow"         -> Flow
                     [] name = "cancel"       -> Cancellation
                     [] name = "fee-rotation" -> FeeRotation
<1>6. IsList(rest)
  BY <1>2, <1>3, <1>4, <1>5 DEF KnownScenarios
<1>7. Script(name) = Surface \o rest
  BY Zenon DEF Script
<1> HIDE DEF rest
<1> QED
  BY <1>1, <1>6, <1>7, ListConcat, Zenon

LEMMA RoutesAddedList ==
    ASSUME Scenario \in KnownScenarios
    PROVE  \E n \in Nat : DOMAIN RoutesAdded = 1..n
<1> DEFINE calls == Script(Scenario)
           lists == [k \in DOMAIN calls |->
                       IF calls[k].op = "add_route" THEN <<calls[k].args.name>> ELSE <<>>]
<1>1. IsList(calls)
  BY ScriptList, Zenon
<1>2. RoutesAdded = FlattenSeq(lists)
  BY DEF RoutesAdded
<1> HIDE DEF calls
<1>3. PICK m \in Nat : DOMAIN calls = 1..m
  BY <1>1 DEF IsList
<1>4. \A k \in 1..m : IsList(lists[k])
  BY <1>3, ListParts
<1>5. lists = [k \in 1..m |-> lists[k]]
  BY <1>3
<1> HIDE DEF lists
<1>6. IsList(lists) /\ Len(lists) = m
  BY <1>5, FunctionList, Zenon
<1>7. IsList(RoutesAdded)
  BY <1>2, <1>4, <1>6, ListsFlatten, Zenon
<1> HIDE DEF RoutesAdded
<1> QED
  BY <1>7 DEF IsList

-----------------------------------------------------------------------------
(* The reader of the document, and the writer, which keep in step.         *)

\* A list with one more.
OneMore(list, a, x) ==
    /\ IsList(list) /\ Len(list) = Len(a) + 1 /\ list[Len(a) + 1] = x /\ list # <<>>
    /\ \A d \in 1..Len(a) : list[d] = a[d]
    /\ Len(a) \in Nat

LEMMA ListAppend ==
    ASSUME NEW a, IsList(a), NEW x
    PROVE  OneMore(Append(a, x), a, x)
<1>1. PICK S : a \in Seq(S)
  BY DEF IsList
<1> DEFINE T == S \cup {x}
<1>2. a \in Seq(T) /\ x \in T
  BY <1>1
<1> HIDE DEF T
<1>3. /\ Append(a, x) \in Seq(T) /\ Len(Append(a, x)) = Len(a) + 1
      /\ Append(a, x)[Len(a) + 1] = x /\ Append(a, x) # <<>>
      /\ \A d \in 1..Len(a) : Append(a, x)[d] = a[d]
  BY <1>2, AppendProperties
<1>4. Len(a) \in Nat
  BY <1>1
<1> QED
  BY <1>3, <1>4 DEF IsList, OneMore

\* The last of a list, and the others.
LEMMA ListFront ==
    ASSUME NEW a, IsList(a), a # <<>>
    PROVE  /\ Last(a) = a[Len(a)] /\ Len(a) \in Nat /\ Len(a) > 0
           /\ IsList(Front(a)) /\ Len(Front(a)) = Len(a) - 1
           /\ \A d \in 1..(Len(a) - 1) : Front(a)[d] = a[d]
<1>1. PICK S : a \in Seq(S)
  BY DEF IsList
<1>2. Len(a) \in Nat /\ Len(a) > 0
  BY <1>1
<1> DEFINE n == Len(a) - 1
<1>3. /\ 1 \in 1..(Len(a) + 1) /\ n \in 0..Len(a) /\ n \in 1 - 1..Len(a)
      /\ n - 1 + 1 = n
  BY <1>2
<1>4. /\ SubSeq(a, 1, n) \in Seq(S)
      /\ Len(SubSeq(a, 1, n)) = n
      /\ \A d \in 1..n : SubSeq(a, 1, n)[d] = a[1 + d - 1]
  BY <1>1, <1>3, SubSeqProperties
<1>5. \A d \in 1..n : 1 + d - 1 = d
  BY <1>2
<1> QED
  BY <1>2, <1>4, <1>5 DEF Last, Front, IsList

\* The same with the last replaced.
LEMMA ListReplaced ==
    ASSUME NEW a, IsList(a), a # <<>>, NEW x
    PROVE  /\ IsList(Append(Front(a), x)) /\ Len(Append(Front(a), x)) = Len(a)
           /\ Append(Front(a), x)[Len(a)] = x /\ Append(Front(a), x) # <<>>
           /\ \A d \in 1..(Len(a) - 1) : Append(Front(a), x)[d] = a[d]
<1> DEFINE f == Front(a)
<1>1. /\ IsList(f) /\ Len(f) = Len(a) - 1 /\ Len(a) \in Nat
      /\ \A d \in 1..(Len(a) - 1) : f[d] = a[d]
  BY ListFront, Zenon
<1> HIDE DEF f
<1>2. /\ IsList(Append(f, x)) /\ Len(Append(f, x)) = Len(f) + 1
      /\ Append(f, x)[Len(f) + 1] = x /\ Append(f, x) # <<>>
      /\ \A d \in 1..Len(f) : Append(f, x)[d] = f[d]
  <2>1. OneMore(Append(f, x), f, x)
    BY <1>1, ListAppend, Zenon
  <2> QED
    BY <2>1, Zenon DEF OneMore
<1>3. Len(f) + 1 = Len(a)
  BY <1>1
<1> QED
  BY <1>1, <1>2, <1>3 DEF f

\* An open container of the reader, as the stack has it, with a length.
IsOpen(o, c) == \E path : \E length \in Nat :
                   o = [kind |-> c.kind, path |-> path, keys |-> c.keys, length |-> length]

\* What the reader has open is the stack.
IsReader(r) == \E open, at, name, said :
                  r = [open |-> open, at |-> at, name |-> name, said |-> said]

OpenAs(s, r) ==
    /\ IsReader(r)
    /\ IsList(r.open) /\ Len(r.open) = Len(s)
    /\ \A d \in 1..Len(s) : IsOpen(r.open[d], s[d])

Length(r, d) == r.open[d].length

\* Their fields, one by one.
LEMMA OpenFields ==
    ASSUME NEW o, NEW c, IsOpen(o, c)
    PROVE  /\ o.kind = c.kind /\ o.keys = c.keys /\ o.length \in Nat
           /\ \A e, K : e.kind = c.kind /\ e.keys = K =>
                 IsOpen([o EXCEPT !.keys = K], e) /\ [o EXCEPT !.keys = K].length = o.length
           /\ \A l \in Nat :
                 IsOpen([o EXCEPT !.length = l], c) /\ [o EXCEPT !.length = l].length = l
<1>1. PICK path, length : length \in Nat /\
         o = [kind |-> c.kind, path |-> path, keys |-> c.keys, length |-> length]
  BY Zenon DEF IsOpen
<1>2. o.kind = c.kind /\ o.keys = c.keys /\ o.length \in Nat
  BY <1>1
<1>3. ASSUME NEW e, NEW K, e.kind = c.kind, e.keys = K
      PROVE  IsOpen([o EXCEPT !.keys = K], e) /\ [o EXCEPT !.keys = K].length = o.length
  <2>1. [o EXCEPT !.keys = K]
           = [kind |-> e.kind, path |-> path, keys |-> e.keys, length |-> length]
    BY <1>1, <1>3
  <2>2. [o EXCEPT !.keys = K].length = o.length
    BY <1>1
  <2> QED
    BY <1>1, <2>1, <2>2, Zenon DEF IsOpen
<1>4. ASSUME NEW l \in Nat
      PROVE  IsOpen([o EXCEPT !.length = l], c) /\ [o EXCEPT !.length = l].length = l
  <2>1. [o EXCEPT !.length = l]
           = [kind |-> c.kind, path |-> path, keys |-> c.keys, length |-> l]
    BY <1>1
  <2>2. [o EXCEPT !.length = l].length = l
    BY <1>1
  <2> QED
    BY <2>1, <2>2, Zenon DEF IsOpen
<1> QED
  BY <1>2, <1>3, <1>4, Zenon

LEMMA ReaderUpdate ==
    ASSUME NEW r, IsReader(r), NEW x
    PROVE  /\ IsReader([r EXCEPT !.at = x]) /\ IsReader([r EXCEPT !.open = x])
           /\ IsReader([r EXCEPT !.name = x]) /\ IsReader([r EXCEPT !.said = x])
           /\ [r EXCEPT !.at = x].at = x /\ [r EXCEPT !.at = x].open = r.open
           /\ [r EXCEPT !.open = x].open = x /\ [r EXCEPT !.open = x].at = r.at
           /\ [r EXCEPT !.name = x].open = r.open /\ [r EXCEPT !.name = x].at = r.at
           /\ [r EXCEPT !.said = x].open = r.open /\ [r EXCEPT !.said = x].at = r.at
<1>1. PICK o, b, m, d : r = [open |-> o, at |-> b, name |-> m, said |-> d]
  BY Zenon DEF IsReader
<1>2. /\ [r EXCEPT !.at = x] = [open |-> o, at |-> x, name |-> m, said |-> d]
      /\ [r EXCEPT !.open = x] = [open |-> x, at |-> b, name |-> m, said |-> d]
      /\ [r EXCEPT !.name = x] = [open |-> o, at |-> b, name |-> x, said |-> d]
      /\ [r EXCEPT !.said = x] = [open |-> o, at |-> b, name |-> m, said |-> x]
  BY <1>1
<1>3. \A open, a, n, said : IsReader([open |-> open, at |-> a, name |-> n, said |-> said])
  BY Zenon DEF IsReader
<1>4. /\ IsReader([r EXCEPT !.at = x]) /\ IsReader([r EXCEPT !.open = x])
      /\ IsReader([r EXCEPT !.name = x]) /\ IsReader([r EXCEPT !.said = x])
  <2> DEFINE t1 == [r EXCEPT !.at = x]
             t2 == [r EXCEPT !.open = x]
             t3 == [r EXCEPT !.name = x]
             t4 == [r EXCEPT !.said = x]
  <2>1. /\ t1 = [open |-> o, at |-> x, name |-> m, said |-> d]
        /\ t2 = [open |-> x, at |-> b, name |-> m, said |-> d]
        /\ t3 = [open |-> o, at |-> b, name |-> x, said |-> d]
        /\ t4 = [open |-> o, at |-> b, name |-> m, said |-> x]
    BY <1>2
  <2> HIDE DEF t1, t2, t3, t4
  <2>2. IsReader(t1) /\ IsReader(t2) /\ IsReader(t3) /\ IsReader(t4)
    BY <1>3, <2>1, Zenon
  <2> QED
    BY <2>2 DEF t1, t2, t3, t4
<1>5. /\ [r EXCEPT !.at = x].at = x /\ [r EXCEPT !.at = x].open = r.open
      /\ [r EXCEPT !.open = x].open = x /\ [r EXCEPT !.open = x].at = r.at
      /\ [r EXCEPT !.name = x].open = r.open /\ [r EXCEPT !.name = x].at = r.at
      /\ [r EXCEPT !.said = x].open = r.open /\ [r EXCEPT !.said = x].at = r.at
  BY <1>1
<1> QED
  BY <1>4, <1>5, Zenon

\* A reader that has moved on, with other containers open.
IsMoved(t, open, a) == IsReader(t) /\ t.open = open /\ t.at = a

LEMMA ReaderFields ==
    ASSUME NEW r, IsReader(r)
    PROVE  /\ \A a : IsMoved([r EXCEPT !.at = a], r.open, a)
           /\ \A open, a : IsMoved([r EXCEPT !.open = open, !.at = a], open, a)
           /\ \A open, n, a : IsMoved([r EXCEPT !.open = open, !.name = n, !.at = a], open, a)
           /\ \A said, open, a : IsMoved([r EXCEPT !.said = said, !.open = open, !.at = a], open, a)
<1>1. ASSUME NEW q, IsReader(q), NEW a
      PROVE  IsMoved([q EXCEPT !.at = a], q.open, a)
  BY <1>1, ReaderUpdate, Zenon DEF IsMoved
<1>2. ASSUME NEW open, NEW a
      PROVE  IsMoved([r EXCEPT !.open = open, !.at = a], open, a)
  <2> DEFINE u == [r EXCEPT !.open = open]
             t == [r EXCEPT !.open = open, !.at = a]
  <2>1. IsReader(u) /\ u.open = open
    BY ReaderUpdate, Zenon
  <2>2. t = [u EXCEPT !.at = a]
    OBVIOUS
  <2> HIDE DEF u, t
  <2>3. IsMoved([u EXCEPT !.at = a], u.open, a)
    BY <1>1, <2>1, Zenon
  <2>4. IsMoved(t, open, a)
    BY <2>1, <2>2, <2>3, Zenon
  <2> QED
    BY <2>4 DEF t
<1>3. ASSUME NEW open, NEW n, NEW a
      PROVE  IsMoved([r EXCEPT !.open = open, !.name = n, !.at = a], open, a)
  <2> DEFINE u == [r EXCEPT !.open = open]
             v == [u EXCEPT !.name = n]
             t == [r EXCEPT !.open = open, !.name = n, !.at = a]
  <2>1. IsReader(u) /\ u.open = open
    BY ReaderUpdate, Zenon
  <2>2. t = [v EXCEPT !.at = a]
    OBVIOUS
  <2> HIDE DEF u, t
  <2>3. IsReader(v) /\ v.open = u.open
    BY <2>1, ReaderUpdate, Zenon
  <2> HIDE DEF v
  <2>4. IsMoved([v EXCEPT !.at = a], v.open, a)
    BY <1>1, <2>3, Zenon
  <2>5. IsMoved(t, open, a)
    BY <2>1, <2>2, <2>3, <2>4, Zenon
  <2> QED
    BY <2>5 DEF t
<1>4. ASSUME NEW said, NEW open, NEW a
      PROVE  IsMoved([r EXCEPT !.said = said, !.open = open, !.at = a], open, a)
  <2> DEFINE u == [r EXCEPT !.said = said]
             v == [u EXCEPT !.open = open]
             t == [r EXCEPT !.said = said, !.open = open, !.at = a]
  <2>1. IsReader(u)
    BY ReaderUpdate, Zenon
  <2>2. t = [v EXCEPT !.at = a]
    OBVIOUS
  <2> HIDE DEF u, t
  <2>3. IsReader(v) /\ v.open = open
    BY <2>1, ReaderUpdate, Zenon
  <2> HIDE DEF v
  <2>4. IsMoved([v EXCEPT !.at = a], v.open, a)
    BY <1>1, <2>3, Zenon
  <2>5. IsMoved(t, open, a)
    BY <2>2, <2>3, <2>4, Zenon
  <2> QED
    BY <2>5 DEF t
<1> QED
  BY <1>1, <1>2, <1>3, <1>4, Zenon

\* What a reader does with a token that it wants.
LEMMA ReadCases ==
    ASSUME NEW r
    PROVE  /\ WantsValue(r) => /\ Read(r, Punctuation("{")) = Entered(r, "o")
                               /\ Read(r, Punctuation("[")) = Entered(r, "a")
                               /\ \A value : Read(r, Literal(value)) = Told(r, value)
           /\ \A name : WantsKey(r) /\ name \notin Last(r.open).keys =>
                 Read(r, Key(name)) = Named(r, name)
           /\ r.at = "after" => Read(r, Punctuation(",")) = [r EXCEPT !.at = "next"]
           /\ MayClose(r, "o") => Read(r, Punctuation("}")) = Left(r)
           /\ MayClose(r, "a") => Read(r, Punctuation("]")) = Left(r)
           /\ Read(r, Prose) = [r EXCEPT !.at = "error"]
BY DEF Read, Punctuation, Key, Literal, Prose

\* The containers of a stack.
LEMMA StackList ==
    ASSUME NEW s \in Stacks, NEW c
    PROVE  /\ IsList(s) /\ Len(s) \in Nat /\ (s = <<>> <=> Len(s) = 0)
           /\ Len(Append(s, c)) = Len(s) + 1 /\ Append(s, c) # <<>>
           /\ Append(s, c)[Len(s) + 1] = c
           /\ \A d \in 1..Len(s) : Append(s, c)[d] = s[d]
<1>1. IsList(s)
  BY DEF Stacks, IsList
<1>2. s = <<>> <=> Len(s) = 0
  BY DEF Stacks
<1>3. OneMore(Append(s, c), s, c)
  BY <1>1, ListAppend, Zenon
<1> QED
  BY <1>1, <1>2, <1>3, Zenon DEF OneMore

\* The innermost of what is open.
LEMMA InnerOpen ==
    ASSUME NEW below \in Stacks, NEW c, NEW r, OpenAs(Append(below, c), r)
    PROVE  LET n == Len(below) + 1
           IN  /\ Len(r.open) = n /\ n \in Nat /\ n - 1 = Len(below) /\ r.open # <<>>
               /\ IsList(r.open)
               /\ Last(r.open) = r.open[n] /\ IsOpen(r.open[n], c)
               /\ In(r) = c.kind
               /\ \A d \in 1..Len(below) : IsOpen(r.open[d], below[d])
<1> DEFINE s == Append(below, c)
           n == Len(below) + 1
<1>1. /\ Len(below) \in Nat /\ Len(s) = n /\ s[n] = c
      /\ \A d \in 1..Len(below) : s[d] = below[d]
  BY StackList
<1>2. IsList(r.open) /\ Len(r.open) = Len(s) /\ \A d \in 1..Len(s) : IsOpen(r.open[d], s[d])
  BY Zenon DEF OpenAs
<1> HIDE DEF s
<1>3. n \in Nat /\ n - 1 = Len(below) /\ n \in 1..n /\ \A d \in 1..Len(below) : d \in 1..n
  BY <1>1
<1> HIDE DEF n
<1>4. r.open # <<>> /\ Last(r.open) = r.open[n]
  <2>1. n # 0 /\ Len(r.open) = n
    BY <1>1, <1>2, <1>3
  <2>2. r.open # <<>>
    BY <2>1, ListParts
  <2> QED
    BY <1>2, <2>1, <2>2, ListFront
<1>5. IsOpen(r.open[n], c) /\ \A d \in 1..Len(below) : IsOpen(r.open[d], below[d])
  BY <1>1, <1>2, <1>3, Zenon
<1>6. In(r) = c.kind
  <2>1. r.open[n].kind = c.kind
    BY <1>5, OpenFields, Zenon
  <2> QED
    BY <1>4, <2>1 DEF In
<1> QED
  BY <1>1, <1>2, <1>3, <1>4, <1>5, <1>6, Zenon DEF n

\* The innermost container replaced, one more opened, the innermost closed.
LEMMA OpenReplaced ==
    ASSUME NEW below \in Stacks, NEW c, NEW r, OpenAs(Append(below, c), r),
           NEW o, NEW e, IsOpen(o, e),
           NEW t, IsReader(t), t.open = Append(Front(r.open), o)
    PROVE  /\ OpenAs(Append(below, e), t)
           /\ Length(t, Len(below) + 1) = o.length
           /\ \A d \in 1..Len(below) : Length(t, d) = Length(r, d)
<1> DEFINE n == Len(below) + 1
<1>1. /\ Len(r.open) = n /\ n \in Nat /\ n - 1 = Len(below) /\ r.open # <<>>
      /\ IsList(r.open) /\ \A d \in 1..Len(below) : IsOpen(r.open[d], below[d])
  BY InnerOpen
<1>2. /\ IsList(t.open) /\ Len(t.open) = n /\ t.open[n] = o
      /\ \A d \in 1..Len(below) : t.open[d] = r.open[d]
  <2> DEFINE a == r.open
  <2>1. IsList(a) /\ a # <<>> /\ Len(a) = n
    BY <1>1, Zenon
  <2> HIDE DEF a, n
  <2>2. /\ IsList(Append(Front(a), o)) /\ Len(Append(Front(a), o)) = Len(a)
        /\ Append(Front(a), o)[Len(a)] = o
        /\ \A d \in 1..(Len(a) - 1) : Append(Front(a), o)[d] = a[d]
    BY <2>1, ListReplaced, Zenon
  <2>3. t.open = Append(Front(a), o)
    BY Zenon DEF a
  <2>4. \A d \in 1..Len(below) : d \in 1..(Len(a) - 1)
    BY <1>1, <2>1
  <2> QED
    BY <2>1, <2>2, <2>3, <2>4, Zenon DEF a
<1>3. /\ Len(Append(below, e)) = n /\ Append(below, e)[n] = e
      /\ \A d \in 1..Len(below) : Append(below, e)[d] = below[d]
  BY StackList
<1> HIDE DEF n
<1>4. \A d \in 1..n : d = n \/ d \in 1..Len(below)
  BY <1>1
<1>5. ASSUME NEW d \in 1..n PROVE IsOpen(t.open[d], Append(below, e)[d])
  BY <1>1, <1>2, <1>3, <1>4, Zenon
<1>6. OpenAs(Append(below, e), t)
  BY <1>2, <1>3, <1>5, Zenon DEF OpenAs
<1> QED
  BY <1>2, <1>6, Zenon DEF Length, n

LEMMA OpenPushed ==
    ASSUME NEW s \in Stacks, NEW r, OpenAs(s, r), NEW o, NEW e, IsOpen(o, e),
           NEW t, IsReader(t), t.open = Append(r.open, o)
    PROVE  /\ OpenAs(Append(s, e), t)
           /\ Length(t, Len(s) + 1) = o.length
           /\ \A d \in 1..Len(s) : Length(t, d) = Length(r, d)
<1> DEFINE n == Len(s) + 1
<1>1. IsList(r.open) /\ Len(r.open) = Len(s) /\ \A d \in 1..Len(s) : IsOpen(r.open[d], s[d])
  BY Zenon DEF OpenAs
<1>2. /\ IsList(t.open) /\ Len(t.open) = n /\ t.open[n] = o
      /\ \A d \in 1..Len(s) : t.open[d] = r.open[d]
  BY <1>1, ListAppend DEF OneMore
<1>3. /\ Len(Append(s, e)) = n /\ Append(s, e)[n] = e /\ Len(s) \in Nat
      /\ \A d \in 1..Len(s) : Append(s, e)[d] = s[d]
  BY StackList
<1>4. \A d \in 1..n : d = n \/ d \in 1..Len(s)
  BY <1>3
<1> HIDE DEF n
<1>5. ASSUME NEW d \in 1..n PROVE IsOpen(t.open[d], Append(s, e)[d])
  BY <1>1, <1>2, <1>3, <1>4, Zenon
<1>6. OpenAs(Append(s, e), t)
  BY <1>2, <1>3, <1>5, Zenon DEF OpenAs
<1> QED
  BY <1>2, <1>6, Zenon DEF Length, n

LEMMA OpenPopped ==
    ASSUME NEW s \in Stacks, NEW c, NEW r, OpenAs(Append(s, c), r),
           NEW t, IsReader(t), t.open = Front(r.open)
    PROVE  /\ OpenAs(s, t)
           /\ \A d \in 1..Len(s) : Length(t, d) = Length(r, d)
<1>1. /\ Len(r.open) - 1 = Len(s) /\ r.open # <<>>
      /\ IsList(r.open) /\ \A d \in 1..Len(s) : IsOpen(r.open[d], s[d])
  BY InnerOpen
<1>2. /\ IsList(t.open) /\ Len(t.open) = Len(s)
      /\ \A d \in 1..Len(s) : t.open[d] = r.open[d]
  BY <1>1, ListFront
<1>3. ASSUME NEW d \in 1..Len(s) PROVE IsOpen(t.open[d], s[d])
  BY <1>1, <1>2, Zenon
<1>4. OpenAs(s, t)
  BY <1>2, <1>3, Zenon DEF OpenAs
<1> QED
  BY <1>2, <1>4, Zenon DEF Length

\* q is where the next element of the container begins, with no more told than r.
Separates(q, s, r) ==
    OpenAs(s, q) /\ q.at \in {"first", "next"} /\ \A d : Length(q, d) = Length(r, d)

\* A comma, where one is due.
LEMMA ReadComma ==
    ASSUME NEW s, NEW r, OpenAs(s, r), NEW w, r.at \in {"first", "after"},
           w.first[w.depth - 1] \in BOOLEAN, w.first[w.depth - 1] <=> r.at = "first"
    PROVE  Separates(Separated(w, r), s, r)
<1>1. IsReader(r)
  BY DEF OpenAs
<1>2. CASE r.at = "first"
  <2>1. Separated(w, r) = r
    BY <1>2 DEF Separated
  <2> QED
    BY <1>2, <2>1 DEF Separates
<1>3. CASE r.at = "after"
  <2> DEFINE t == [r EXCEPT !.at = "next"]
  <2>1. Separated(w, r) = Read(r, Punctuation(","))
    BY <1>3 DEF Separated
  <2>2. Read(r, Punctuation(",")) = t
    BY <1>3, ReadCases
  <2>3. IsMoved(t, r.open, "next")
    BY <1>1, ReaderFields, Zenon
  <2> HIDE DEF t
  <2>4. Separates(t, s, r)
    BY <2>3 DEF Separates, OpenAs, IsMoved, Length
  <2>5. Separated(w, r) = t
    BY <2>1, <2>2
  <2> QED
    BY <2>4, <2>5, Zenon
<1> QED
  BY <1>2, <1>3

\* t is at a, in a container e of its own in s and with that many elements, and else as r.
Stands(t, s, e, length, r, a) ==
    /\ OpenAs(Append(s, e), t) /\ t.at = a
    /\ Length(t, Len(s) + 1) = length
    /\ \A d \in 1..Len(s) : Length(t, d) = Length(r, d)

\* The innermost container, changed, in a reader that moves on.
LEMMA MovedReplaced ==
    ASSUME NEW below \in Stacks, NEW c, NEW r, OpenAs(Append(below, c), r),
           NEW o, NEW e, IsOpen(o, e),
           NEW t, NEW a, IsMoved(t, Append(Front(r.open), o), a)
    PROVE  Stands(t, below, e, o.length, r, a)
<1>1. IsReader(t) /\ t.open = Append(Front(r.open), o) /\ t.at = a
  BY Zenon DEF IsMoved
<1> QED
  BY <1>1, OpenReplaced DEF Stands

LEMMA MovedPushed ==
    ASSUME NEW s \in Stacks, NEW r, OpenAs(s, r), NEW o, NEW e, IsOpen(o, e),
           NEW t, NEW a, IsMoved(t, Append(r.open, o), a)
    PROVE  Stands(t, s, e, o.length, r, a)
<1>1. IsReader(t) /\ t.open = Append(r.open, o) /\ t.at = a
  BY Zenon DEF IsMoved
<1> QED
  BY <1>1, OpenPushed DEF Stands

\* A key that the object does not have.
LEMMA ReadKey ==
    ASSUME NEW below \in Stacks, NEW K, NEW r, OpenAs(Inside(below, K), r),
           r.at \in {"first", "next"}, NEW name, name \notin K
    PROVE  Stands(Read(r, Key(name)), below, Obj(K \cup {name}), Length(r, Len(below) + 1),
                  r, "named")
<1> DEFINE n == Len(below) + 1
           last == Last(r.open)
           o == [last EXCEPT !.keys = last.keys \cup {name}]
           c == Obj(K)
           e == Obj(K \cup {name})
           t == Read(r, Key(name))
<1>1. OpenAs(Append(below, c), r)
  BY DEF Inside
<1>2. c.kind = "o" /\ c.keys = K /\ e.kind = "o" /\ e.keys = K \cup {name}
  BY DEF Obj
<1>3. n \in Nat /\ last = r.open[n] /\ IsOpen(last, c) /\ In(r) = c.kind
  <2> HIDE DEF c
  <2> QED
    BY <1>1, InnerOpen
<1>4. IsReader(r)
  BY <1>1, Zenon DEF OpenAs
<1>5. t = Named(r, name)
  <2>1. last.keys = K /\ In(r) = "o"
    BY <1>2, <1>3, OpenFields
  <2>2. WantsKey(r)
    BY <2>1 DEF WantsKey
  <2> QED
    BY <2>1, <2>2, ReadCases, Zenon
<1>6. IsMoved(t, Append(Front(r.open), o), "named")
  <2> DEFINE open == Append(Front(r.open), o)
  <2>1. Named(r, name) = [r EXCEPT !.open = open, !.name = name, !.at = "named"]
    BY DEF Named
  <2> HIDE DEF open, t
  <2>2. IsMoved([r EXCEPT !.open = open, !.name = name, !.at = "named"], open, "named")
    BY <1>4, ReaderFields, Zenon
  <2>3. IsMoved(t, open, "named")
    BY <1>5, <2>1, <2>2, Zenon
  <2> QED
    BY <2>3 DEF open
<1>7. IsOpen(o, e) /\ o.length = last.length
  <2>1. last.keys = K
    BY <1>2, <1>3, OpenFields
  <2>2. e.kind = c.kind /\ e.keys = last.keys \cup {name}
    BY <1>2, <2>1
  <2>3. IsOpen(last, c)
    BY <1>3
  <2> DEFINE k == last.keys \cup {name}
  <2> HIDE DEF c, e, last, k
  <2>4. \A x, S : x.kind = c.kind /\ x.keys = S =>
           IsOpen([last EXCEPT !.keys = S], x) /\ [last EXCEPT !.keys = S].length = last.length
    BY <2>3, OpenFields
  <2>5. IsOpen([last EXCEPT !.keys = k], e) /\ [last EXCEPT !.keys = k].length = last.length
    BY <2>2, <2>4 DEF k
  <2> QED
    BY <2>5 DEF k
<1> HIDE DEF o, c, e, last, t, n
<1>8. Stands(t, below, e, o.length, r, "named")
  <2>1. OpenAs(Append(below, c), r) /\ IsOpen(o, e) /\ below \in Stacks
    BY <1>1, <1>7
  <2>2. IsMoved(t, Append(Front(r.open), o), "named")
    BY <1>6
  <2> QED
    BY <2>1, <2>2, MovedReplaced, Zenon
<1>9. Length(r, n) = last.length
  BY <1>3, Zenon DEF Length
<1> QED
  BY <1>7, <1>8, <1>9, Zenon DEF n, e, t

\* The innermost container has one value more.
LEMMA OpenCounted ==
    ASSUME NEW below \in Stacks, NEW c, NEW r, OpenAs(Append(below, c), r),
           NEW t, NEW a, IsMoved(t, Counted(r.open), a)
    PROVE  /\ Stands(t, below, c, Length(r, Len(below) + 1) + 1, r, a)
           /\ Length(r, Len(below) + 1) \in Nat
<1> DEFINE n == Len(below) + 1
           last == Last(r.open)
           l == last.length + 1
           o == [last EXCEPT !.length = l]
<1>1. r.open # <<>> /\ last = r.open[n] /\ IsOpen(last, c)
  BY InnerOpen
<1>2. last.length \in Nat /\ l \in Nat
  <2>1. last.length \in Nat
    <3> HIDE DEF last
    <3> QED
      BY <1>1, OpenFields, Zenon
  <2> QED
    BY <2>1
<1>3. Counted(r.open) = Append(Front(r.open), o)
  BY <1>1 DEF Counted
<1>4. IsOpen(o, c) /\ o.length = l
  <2> HIDE DEF last, l
  <2>1. \A x \in Nat : /\ IsOpen([last EXCEPT !.length = x], c)
                       /\ [last EXCEPT !.length = x].length = x
    BY <1>1, OpenFields
  <2> QED
    BY <1>2, <2>1
<1>5. Length(r, n) = last.length
  BY <1>1 DEF Length
<1> HIDE DEF n, last, o
<1>6. IsMoved(t, Append(Front(r.open), o), a)
  BY <1>3
<1>7. Last(r.open).length = last.length
  BY DEF last
<1> HIDE DEF l
<1>8. Stands(t, below, c, o.length, r, a)
  BY <1>4, <1>6, MovedReplaced, Zenon
<1>9. l = last.length + 1
  BY DEF l
<1> QED
  BY <1>2, <1>4, <1>5, <1>8, <1>9, Zenon DEF n

\* q wants a value in the container c, and r has told as much as q.
Expects(q, below, c, r) ==
    /\ OpenAs(Append(below, c), q)
    /\ WantsValue(q)
    /\ \A d \in 1..(Len(below) + 1) : Length(q, d) = Length(r, d)

\* t has told one value more than r in the container c.
HasOneMore(t, below, c, r) ==
    /\ Length(t, Len(below) + 1) # 0
    /\ \A d \in 1..Len(below) : Length(t, d) = Length(r, d)

LEMMA LiteralTold ==
    ASSUME NEW below \in Stacks, NEW c, NEW r, NEW q, Expects(q, below, c, r), NEW value
    PROVE  LET t == Read(q, Literal(value))
           IN  OpenAs(Append(below, c), t) /\ t.at = "after" /\ HasOneMore(t, below, c, r)
<1> DEFINE t == Read(q, Literal(value))
           n == Len(below) + 1
<1>1. OpenAs(Append(below, c), q) /\ WantsValue(q)
  BY Zenon DEF Expects
<1>2. IsReader(q)
  BY <1>1, Zenon DEF OpenAs
<1>3. t = Told(q, value)
  BY <1>1, ReadCases, Zenon
<1>4. q.open # <<>>
  BY <1>1, InnerOpen
<1>5. IsMoved(t, Counted(q.open), "after")
  <2> DEFINE said == (Path(q) :> value) @@ q.said
             open == Counted(q.open)
  <2>1. Told(q, value) = [q EXCEPT !.said = said, !.open = open, !.at = "after"]
    BY <1>4 DEF Told, After
  <2> HIDE DEF said, open, t
  <2>2. IsMoved([q EXCEPT !.said = said, !.open = open, !.at = "after"], open, "after")
    BY <1>2, ReaderFields, Zenon
  <2>3. IsMoved(t, open, "after")
    BY <1>3, <2>1, <2>2, Zenon
  <2> QED
    BY <2>3 DEF open
<1> HIDE DEF t
<1>6. /\ OpenAs(Append(below, c), t) /\ t.at = "after"
      /\ Length(t, Len(below) + 1) = Length(q, Len(below) + 1) + 1
      /\ \A d \in 1..Len(below) : Length(t, d) = Length(q, d)
      /\ Length(q, Len(below) + 1) \in Nat
  <2>1. /\ Stands(t, below, c, Length(q, Len(below) + 1) + 1, q, "after")
        /\ Length(q, Len(below) + 1) \in Nat
    BY <1>1, <1>5, OpenCounted, Zenon
  <2> QED
    BY <2>1, Zenon DEF Stands
<1>7. Length(t, Len(below) + 1) # 0
  BY <1>6
<1>8. Len(below) \in Nat
  BY StackList
<1>9. \A d \in 1..Len(below) : d \in 1..(Len(below) + 1)
  BY <1>8
<1>10. \A d \in 1..Len(below) : Length(t, d) = Length(r, d)
  BY <1>6, <1>9, Zenon DEF Expects
<1> QED
  BY <1>6, <1>7, <1>10, Zenon DEF HasOneMore, t

\* What a bracket opens.
Opened(bracket) == IF bracket = "{" THEN Obj({}) ELSE Arr

Opens(bracket) == bracket \in {"{", "["}

\* An empty container is opened.
LEMMA ContainerEntered ==
    ASSUME NEW q, IsReader(q), WantsValue(q), NEW b, Opens(b)
    PROVE  \E o : /\ IsMoved(Read(q, Punctuation(b)), Append(Counted(q.open), o), "first")
                  /\ IsOpen(o, Opened(b)) /\ o.length = 0
<1> DEFINE e == Opened(b)
           o == [kind |-> e.kind, path |-> Path(q), keys |-> {}, length |-> 0]
           open == Append(Counted(q.open), o)
           t == Read(q, Punctuation(b))
<1>1. e.keys = {} /\ t = Entered(q, e.kind)
  <2>1. CASE b = "{"
    <3>1. e.kind = "o" /\ e.keys = {}
      BY <2>1 DEF Opened, Obj
    <3> HIDE DEF e
    <3>2. Read(q, Punctuation("{")) = Entered(q, "o")
      BY ReadCases, Zenon
    <3> QED
      BY <2>1, <3>1, <3>2
  <2>2. CASE b = "["
    <3>1. e.kind = "a" /\ e.keys = {}
      BY <2>2 DEF Opened, Arr
    <3> HIDE DEF e
    <3>2. Read(q, Punctuation("[")) = Entered(q, "a")
      BY ReadCases, Zenon
    <3> QED
      BY <2>2, <3>1, <3>2
  <2> QED
    BY <2>1, <2>2 DEF Opens
<1> HIDE DEF e
<1>3. IsOpen(o, e) /\ o.length = 0
  <2>1. o = [kind |-> e.kind, path |-> Path(q), keys |-> e.keys, length |-> 0]
    BY <1>1
  <2>2. o.length = 0 /\ 0 \in Nat
    OBVIOUS
  <2> HIDE DEF o
  <2> QED
    BY <2>1, <2>2, Zenon DEF IsOpen
<1>4. IsMoved(t, open, "first")
  <2>1. Entered(q, e.kind) = [q EXCEPT !.open = open, !.at = "first"]
    BY DEF Entered
  <2> HIDE DEF open, t
  <2>2. IsMoved([q EXCEPT !.open = open, !.at = "first"], open, "first")
    BY ReaderFields, Zenon
  <2> QED
    BY <1>1, <2>1, <2>2, Zenon
<1> HIDE DEF o, t
<1> QED
  BY <1>3, <1>4, Zenon DEF t, e

LEMMA ContainerOpened ==
    ASSUME NEW below \in Stacks, NEW c, NEW r, NEW q, Expects(q, below, c, r),
           Append(below, c) \in Stacks, NEW b, Opens(b)
    PROVE  LET t == Read(q, Punctuation(b))
               s == Append(below, c)
           IN  /\ OpenAs(Append(s, Opened(b)), t) /\ t.at = "first"
               /\ Length(t, Len(s) + 1) = 0 /\ HasOneMore(t, below, c, r)
<1> DEFINE t == Read(q, Punctuation(b))
           s == Append(below, c)
           n == Len(below) + 1
<1>1. OpenAs(s, q) /\ WantsValue(q) /\ s \in Stacks
  BY Zenon DEF Expects
<1>2. IsReader(q)
  BY <1>1, Zenon DEF OpenAs
<1>3. PICK o : /\ IsMoved(t, Append(Counted(q.open), o), "first")
               /\ IsOpen(o, Opened(b)) /\ o.length = 0
  BY <1>1, <1>2, ContainerEntered, Zenon
<1> DEFINE open == Counted(q.open)
           u == [q EXCEPT !.open = open, !.at = "first"]
<1>4. IsMoved(u, open, "first")
  BY <1>2, ReaderFields, Zenon
<1> HIDE DEF u, t
<1>5. /\ OpenAs(Append(below, c), u)
      /\ Length(u, Len(below) + 1) = Length(q, Len(below) + 1) + 1
      /\ \A d \in 1..Len(below) : Length(u, d) = Length(q, d)
      /\ Length(q, Len(below) + 1) \in Nat
  <2>1. OpenAs(Append(below, c), q) /\ IsMoved(u, Counted(q.open), "first")
    BY <1>1, <1>4
  <2>2. /\ Stands(u, below, c, Length(q, Len(below) + 1) + 1, q, "first")
        /\ Length(q, Len(below) + 1) \in Nat
    BY <2>1, OpenCounted, Zenon
  <2> QED
    BY <2>2, Zenon DEF Stands
<1>6. u.open = open /\ IsReader(t) /\ t.open = Append(open, o) /\ t.at = "first"
  BY <1>3, <1>4, Zenon DEF IsMoved
<1>7. IsMoved(t, Append(u.open, o), "first")
  BY <1>3, <1>6, Zenon
<1> HIDE DEF open
<1> DEFINE e == Opened(b)
<1>8. IsOpen(o, e)
  BY <1>3
<1> HIDE DEF s, e
<1>9. OpenAs(s, u)
  BY <1>5 DEF s
<1>10. /\ OpenAs(Append(s, e), t)
       /\ Length(t, Len(s) + 1) = o.length
       /\ \A d \in 1..Len(s) : Length(t, d) = Length(u, d)
  <2>1. Stands(t, s, e, o.length, u, "first")
    BY <1>1, <1>7, <1>8, <1>9, MovedPushed, Zenon
  <2> QED
    BY <2>1, Zenon DEF Stands
<1>11. Len(s) = n /\ n \in Nat /\ Len(below) \in Nat
  BY StackList DEF s
<1>12. n \in 1..Len(s) /\ \A d \in 1..Len(below) : d \in 1..Len(s) /\ d \in 1..n
  BY <1>11
<1>13. Length(t, n) # 0
  <2>1. Length(t, n) = Length(q, n) + 1 /\ Length(q, n) \in Nat
    BY <1>5, <1>10, <1>12, Zenon
  <2> HIDE DEF n
  <2> QED
    BY <2>1
<1>14. \A d \in 1..Len(below) : Length(t, d) = Length(r, d)
  BY <1>5, <1>10, <1>12, Zenon DEF Expects
<1> QED
  BY <1>3, <1>6, <1>10, <1>13, <1>14, Zenon DEF HasOneMore, s, t, e

\* The innermost container is closed: an empty one, or one that a value came before.
Closes(bracket, c) == (bracket = "}" /\ c.kind = "o") \/ (bracket = "]" /\ c.kind = "a")

Leaves(t, s, r) ==
    /\ OpenAs(s, t) /\ t.at = After(t.open)
    /\ \A d \in 1..Len(s) : Length(t, d) = Length(r, d)

LEMMA ContainerLeft ==
    ASSUME NEW s \in Stacks, NEW c, NEW r, OpenAs(Append(s, c), r), r.at \in {"first", "after"},
           NEW b, Closes(b, c)
    PROVE  Leaves(Read(r, Punctuation(b)), s, r)
<1> DEFINE t == Read(r, Punctuation(b))
           open == Front(r.open)
           a == After(open)
<1>1. IsReader(r) /\ In(r) = c.kind
  BY InnerOpen DEF OpenAs
<1>2. t = Left(r)
  <2>1. CASE b = "}" /\ c.kind = "o"
    <3>1. MayClose(r, "o")
      BY <1>1, <2>1 DEF MayClose
    <3> QED
      BY <2>1, <3>1, ReadCases, Zenon
  <2>2. CASE b = "]" /\ c.kind = "a"
    <3>1. MayClose(r, "a")
      BY <1>1, <2>2 DEF MayClose
    <3> QED
      BY <2>2, <3>1, ReadCases, Zenon
  <2> QED
    BY <2>1, <2>2 DEF Closes
<1>3. Left(r) = [r EXCEPT !.open = open, !.at = a]
  BY DEF Left
<1> HIDE DEF t, a
<1>4. IsMoved([r EXCEPT !.open = open, !.at = a], open, a)
  BY <1>1, ReaderFields, Zenon
<1>5. IsMoved(t, open, a)
  BY <1>2, <1>3, <1>4, Zenon
<1>6. IsReader(t) /\ t.open = Front(r.open) /\ t.at = a
  BY <1>5, Zenon DEF IsMoved
<1>7. OpenAs(s, t) /\ \A d \in 1..Len(s) : Length(t, d) = Length(r, d)
  BY <1>6, OpenPopped
<1>8. a = After(t.open)
  BY <1>6 DEF a
<1> QED
  BY <1>6, <1>7, <1>8, Zenon DEF t, Leaves

-----------------------------------------------------------------------------
(* The writer's own bookkeeping.                                           *)

Writers == [depth: 0..MaxJsonDepth, kind: [Levels -> {"none", "o", "a"}],
            first: [Levels -> BOOLEAN]]

LEMMA WriterTaken ==
    ASSUME NEW w \in Writers, w.depth > 0
    PROVE  /\ Taken(w) \in Writers /\ Taken(w).depth = w.depth /\ Taken(w).kind = w.kind
           /\ Taken(w).first[w.depth - 1] = FALSE
           /\ \A d \in Levels : d # w.depth - 1 => Taken(w).first[d] = w.first[d]
<1>1. /\ Taken(w) \in Writers /\ Taken(w).depth = w.depth /\ Taken(w).kind = w.kind
      /\ Taken(w).first = [w.first EXCEPT ![w.depth - 1] = FALSE]
  BY WriterAssumption DEF Writers, Levels, Taken
<1>2. w.depth - 1 \in Levels /\ w.first \in [Levels -> BOOLEAN]
  BY WriterAssumption DEF Writers, Levels
<1> QED
  BY <1>1, <1>2

IsPushed(u, w, kind) ==
    /\ u \in Writers /\ u.depth = w.depth + 1
    /\ u.kind[w.depth] = kind /\ u.first[w.depth] = TRUE
    /\ \A d \in Levels : d # w.depth => u.kind[d] = w.kind[d] /\ u.first[d] = w.first[d]

LEMMA WriterPushed ==
    ASSUME NEW w \in Writers, w.depth < MaxJsonDepth, NEW kind \in {"o", "a"}
    PROVE  IsPushed(Pushed(w, kind), w, kind)
<1>1. /\ Pushed(w, kind).depth = w.depth + 1
      /\ Pushed(w, kind).kind = [w.kind EXCEPT ![w.depth] = kind]
      /\ Pushed(w, kind).first = [w.first EXCEPT ![w.depth] = TRUE]
  BY WriterAssumption DEF Writers, Levels, Pushed
<1>2. /\ w.depth \in Levels /\ w.depth + 1 \in 0..MaxJsonDepth
      /\ w.kind \in [Levels -> {"none", "o", "a"}] /\ w.first \in [Levels -> BOOLEAN]
  BY WriterAssumption DEF Writers, Levels
<1>3. /\ [w.kind EXCEPT ![w.depth] = kind] \in [Levels -> {"none", "o", "a"}]
      /\ [w.first EXCEPT ![w.depth] = TRUE] \in [Levels -> BOOLEAN]
  BY <1>2
<1>4. Pushed(w, kind) \in Writers
  <2> DEFINE k == [w.kind EXCEPT ![w.depth] = kind]
             f == [w.first EXCEPT ![w.depth] = TRUE]
             u == [w EXCEPT !.kind = k]
             v == [u EXCEPT !.first = f]
  <2>1. Pushed(w, kind) = [v EXCEPT !.depth = w.depth + 1]
    BY DEF Pushed
  <2> HIDE DEF k, f
  <2>2. u \in Writers
    BY <1>3 DEF Writers, k
  <2> HIDE DEF u
  <2>3. v \in Writers
    BY <1>3, <2>2 DEF Writers, f
  <2> HIDE DEF v
  <2>4. [v EXCEPT !.depth = w.depth + 1] \in Writers
    BY <1>2, <2>3 DEF Writers
  <2> QED
    BY <2>1, <2>4
<1> QED
  BY <1>1, <1>2, <1>4 DEF IsPushed

LEMMA WriterPopped ==
    ASSUME NEW w \in Writers, w.depth > 0
    PROVE  /\ Popped(w) \in Writers /\ Popped(w).depth = w.depth - 1
           /\ Popped(w).kind = w.kind /\ Popped(w).first = w.first
BY WriterAssumption DEF Writers, Levels, Popped

-----------------------------------------------------------------------------
(* The writer's bookkeeping and the reader's agree with the stack.         *)

\* the level of the writer below d is right about the container d
MarkedAt(w, c, r, d) == w.kind[d - 1] = c.kind /\ (w.first[d - 1] <=> Length(r, d) = 0)

\* where the reader is between two calls
Rests(s, r) ==
    /\ s = <<>> => r.at = "start"
    /\ s # <<>> => r.at = IF Length(r, Len(s)) = 0 THEN "first" ELSE "after"
    /\ \A d \in 1..Len(s) : d < Len(s) => Length(r, d) # 0

Known(s, w, r) ==
    /\ w \in Writers /\ w.depth = Len(s)
    /\ OpenAs(s, r)
    /\ \A d \in 1..Len(s) : MarkedAt(w, s[d], r, d)
    /\ Rests(s, r)

\* An object or array is open: what the writer knows of it.
LEMMA KnownInner ==
    ASSUME NEW below \in Stacks, NEW c, NEW w, NEW r, Known(Append(below, c), w, r)
    PROVE  LET n == Len(below) + 1
           IN  /\ w \in Writers /\ w.depth = n /\ w.depth > 0 /\ w.depth - 1 = Len(below)
               /\ OpenAs(Append(below, c), r)
               /\ MarkedAt(w, c, r, n)
               /\ \A d \in 1..Len(below) : MarkedAt(w, below[d], r, d) /\ Length(r, d) # 0
               /\ r.at = IF Length(r, n) = 0 THEN "first" ELSE "after"
<1> DEFINE n == Len(below) + 1
           s == Append(below, c)
<1>1. /\ Len(below) \in Nat /\ Len(s) = n /\ s # <<>> /\ s[n] = c
      /\ \A d \in 1..Len(below) : s[d] = below[d]
  BY StackList
<1> HIDE DEF s
<1>2. n \in Nat /\ n > 0 /\ n - 1 = Len(below) /\ n \in 1..n
      /\ \A d \in 1..Len(below) : d \in 1..n /\ d < n
  BY <1>1
<1> HIDE DEF n
<1>3. /\ w \in Writers /\ w.depth = n /\ OpenAs(s, r)
      /\ \A d \in 1..n : MarkedAt(w, s[d], r, d)
      /\ Rests(s, r)
  BY <1>1, Zenon DEF Known, s
<1>4. r.at = IF Length(r, n) = 0 THEN "first" ELSE "after"
  BY <1>1, <1>3, Zenon DEF Rests
<1>5. \A d \in 1..Len(below) : Length(r, d) # 0
  BY <1>1, <1>2, <1>3, Zenon DEF Rests
<1>6. MarkedAt(w, c, r, n) /\ \A d \in 1..Len(below) : MarkedAt(w, below[d], r, d)
  BY <1>1, <1>2, <1>3, Zenon
<1>7. w.depth > 0 /\ w.depth - 1 = Len(below)
  BY <1>2, <1>3
<1> QED
  BY <1>3, <1>4, <1>5, <1>6, <1>7, Zenon DEF s, n

\* And conversely.
LEMMA KnownFrom ==
    ASSUME NEW below \in Stacks, NEW c, NEW w, NEW r,
           w \in Writers, w.depth = Len(below) + 1,
           OpenAs(Append(below, c), r), MarkedAt(w, c, r, Len(below) + 1),
           \A d \in 1..Len(below) : MarkedAt(w, below[d], r, d) /\ Length(r, d) # 0,
           r.at = IF Length(r, Len(below) + 1) = 0 THEN "first" ELSE "after"
    PROVE  Known(Append(below, c), w, r)
<1> DEFINE n == Len(below) + 1
           s == Append(below, c)
<1>1. /\ Len(below) \in Nat /\ Len(s) = n /\ s # <<>> /\ s[n] = c
      /\ \A d \in 1..Len(below) : s[d] = below[d]
  BY StackList
<1>2. MarkedAt(w, c, r, n) /\ w.depth = n /\ OpenAs(s, r)
      /\ r.at = IF Length(r, n) = 0 THEN "first" ELSE "after"
  OBVIOUS
<1> HIDE DEF s
<1>3. /\ \A d \in 1..n : d = n \/ d \in 1..Len(below)
      /\ \A d \in 1..n : d < n => d \in 1..Len(below)
  BY <1>1
<1> HIDE DEF n
<1>4. \A d \in 1..n : MarkedAt(w, s[d], r, d)
  BY <1>1, <1>2, <1>3, Zenon
<1>5. Rests(s, r)
  BY <1>1, <1>2, <1>3, Zenon DEF Rests
<1> QED
  BY <1>1, <1>2, <1>4, <1>5, Zenon DEF Known, s

\* The comma before an element or a property.
LEMMA KnownSeparated ==
    ASSUME NEW below \in Stacks, NEW c, NEW w, NEW r, Known(Append(below, c), w, r)
    PROVE  Separates(Separated(w, r), Append(below, c), r)
<1> DEFINE n == Len(below) + 1
           s == Append(below, c)
<1>1. /\ w \in Writers /\ w.depth = n /\ w.depth > 0 /\ OpenAs(s, r) /\ MarkedAt(w, c, r, n)
      /\ r.at = IF Length(r, n) = 0 THEN "first" ELSE "after"
  BY KnownInner, Zenon
<1>2. w.first[w.depth - 1] \in BOOLEAN
  BY <1>1, WriterAssumption DEF Writers, Levels
<1> HIDE DEF s
<1>3. w.first[w.depth - 1] <=> Length(r, n) = 0
  BY <1>1, Zenon DEF MarkedAt
<1> HIDE DEF n
<1>4. r.at \in {"first", "after"} /\ (w.first[w.depth - 1] <=> r.at = "first")
  BY <1>1, <1>3
<1>5. Separates(Separated(w, r), s, r)
  BY <1>1, <1>2, <1>4, ReadComma
<1> QED
  BY <1>5, Zenon DEF s

LEMMA ExpectsProperty ==
    ASSUME NEW below \in Stacks, NEW K, NEW w, NEW r, Known(Inside(below, K), w, r),
           NEW name, name \notin K
    PROVE  Expects(Read(Separated(w, r), Key(name)), below, Obj(K \cup {name}), r)
<1> DEFINE q == Separated(w, r)
           t == Read(q, Key(name))
<1>1. Known(Append(below, Obj(K)), w, r)
  BY Zenon DEF Inside
<1>2. Separates(q, Append(below, Obj(K)), r)
  BY <1>1, KnownSeparated, Zenon
<1> HIDE DEF q
<1> DEFINE n == Len(below) + 1
<1>3. /\ OpenAs(Inside(below, K), q) /\ q.at \in {"first", "next"}
      /\ \A d : Length(q, d) = Length(r, d)
  BY <1>2, Zenon DEF Inside, Separates
<1>4. Stands(t, below, Obj(K \cup {name}), Length(q, n), q, "named")
  BY <1>3, ReadKey, Zenon
<1> HIDE DEF t
<1>5. /\ OpenAs(Append(below, Obj(K \cup {name})), t) /\ t.at = "named"
      /\ Length(t, n) = Length(q, n) /\ \A d \in 1..Len(below) : Length(t, d) = Length(q, d)
  BY <1>4, Zenon DEF Stands
<1>6. WantsValue(t)
  BY <1>5 DEF WantsValue
<1>7. \A d \in 1..n : d = n \/ d \in 1..Len(below)
  BY StackList
<1> HIDE DEF n
<1>8. \A d \in 1..n : Length(t, d) = Length(r, d)
  BY <1>3, <1>5, <1>7, Zenon
<1>9. Expects(t, below, Obj(K \cup {name}), r)
  BY <1>5, <1>6, <1>8, Zenon DEF Expects, n
<1> QED
  BY <1>9, Zenon DEF t, q

LEMMA ExpectsElement ==
    ASSUME NEW below \in Stacks, NEW w, NEW r, Known(Append(below, Arr), w, r)
    PROVE  Expects(Separated(w, r), below, Arr, r)
<1> DEFINE q == Separated(w, r)
           c == Arr
<1>1. c.kind = "a"
  BY DEF Arr
<1> HIDE DEF c
<1>2. Known(Append(below, c), w, r)
  BY Zenon DEF c
<1>3. /\ OpenAs(Append(below, c), q) /\ q.at \in {"first", "next"}
      /\ \A d : Length(q, d) = Length(r, d)
  <2>1. Separates(q, Append(below, c), r)
    BY <1>2, KnownSeparated, Zenon
  <2> QED
    BY <2>1, Zenon DEF Separates
<1> HIDE DEF q
<1>4. In(q) = c.kind
  BY <1>3, InnerOpen
<1>5. WantsValue(q)
  BY <1>1, <1>3, <1>4 DEF WantsValue
<1>6. Expects(q, below, c, r)
  BY <1>3, <1>5, Zenon DEF Expects
<1> QED
  BY <1>6, Zenon DEF q, c

\* The level, and those below, after one more value.
LEMMA MarkedTaken ==
    ASSUME NEW below \in Stacks, NEW c0, NEW c, NEW w, NEW r, NEW t,
           Known(Append(below, c0), w, r), c.kind = c0.kind, HasOneMore(t, below, c, r)
    PROVE  /\ Taken(w) \in Writers /\ Taken(w).depth = Len(below) + 1
           /\ MarkedAt(Taken(w), c, t, Len(below) + 1)
           /\ \A d \in 1..Len(below) : MarkedAt(Taken(w), below[d], t, d) /\ Length(t, d) # 0
<1> DEFINE n == Len(below) + 1
           v == Taken(w)
<1>1. /\ w \in Writers /\ w.depth = n /\ w.depth > 0 /\ w.depth - 1 = Len(below)
      /\ MarkedAt(w, c0, r, n)
      /\ \A d \in 1..Len(below) : MarkedAt(w, below[d], r, d) /\ Length(r, d) # 0
  BY KnownInner, Zenon
<1>2. /\ v \in Writers /\ v.depth = n /\ v.kind = w.kind
      /\ v.first[w.depth - 1] = FALSE
      /\ \A d \in Levels : d # w.depth - 1 => v.first[d] = w.first[d]
  BY <1>1, WriterTaken
<1> HIDE DEF v
<1>3. n - 1 = w.depth - 1 /\ n \in Nat
  BY <1>1 DEF Writers
<1>4. \A d \in 1..Len(below) : d - 1 \in Levels /\ d - 1 # w.depth - 1
  BY <1>1, WriterAssumption DEF Writers, Levels
<1> HIDE DEF n
<1>5. Length(t, n) # 0 /\ \A d \in 1..Len(below) : Length(t, d) = Length(r, d)
  BY Zenon DEF HasOneMore, n
<1>6. MarkedAt(v, c, t, n)
  <2>1. w.kind[n - 1] = c.kind
    BY <1>1, Zenon DEF MarkedAt
  <2> QED
    BY <1>2, <1>3, <1>5, <2>1 DEF MarkedAt
<1>7. ASSUME NEW d \in 1..Len(below) PROVE MarkedAt(v, below[d], t, d) /\ Length(t, d) # 0
  <2>1. /\ w.kind[d - 1] = below[d].kind /\ (w.first[d - 1] <=> Length(r, d) = 0)
        /\ Length(r, d) # 0
    BY <1>1, Zenon DEF MarkedAt
  <2>2. v.first[d - 1] = w.first[d - 1]
    BY <1>2, <1>4
  <2> QED
    BY <1>2, <1>5, <2>1, <2>2, Zenon DEF MarkedAt
<1> QED
  BY <1>2, <1>6, <1>7, Zenon DEF v, n

LEMMA KnownTold ==
    ASSUME NEW below \in Stacks, NEW c0, NEW c, NEW w, NEW r, NEW q,
           Known(Append(below, c0), w, r), c.kind = c0.kind, Expects(q, below, c, r), NEW value
    PROVE  Known(Append(below, c), Taken(w), Read(q, Literal(value)))
<1> DEFINE t == Read(q, Literal(value))
           v == Taken(w)
<1>1. OpenAs(Append(below, c), t) /\ t.at = "after" /\ HasOneMore(t, below, c, r)
  BY LiteralTold, Zenon
<1> HIDE DEF t, v
<1>2. /\ v \in Writers /\ v.depth = Len(below) + 1
      /\ MarkedAt(v, c, t, Len(below) + 1)
      /\ \A d \in 1..Len(below) : MarkedAt(v, below[d], t, d) /\ Length(t, d) # 0
  BY <1>1, MarkedTaken, Zenon DEF v
<1>3. t.at = IF Length(t, Len(below) + 1) = 0 THEN "first" ELSE "after"
  BY <1>1, Zenon DEF HasOneMore
<1>4. Known(Append(below, c), v, t)
  BY <1>1, <1>2, <1>3, KnownFrom, Zenon
<1> QED
  BY <1>4 DEF t, v

LEMMA KnownOpened ==
    ASSUME NEW below \in Stacks, NEW c0, NEW c, NEW w, NEW r, NEW q,
           Known(Append(below, c0), w, r), c.kind = c0.kind, Expects(q, below, c, r),
           Append(below, c) \in Stacks, Len(below) + 1 < MaxJsonDepth, NEW b, Opens(b)
    PROVE  Known(Append(Append(below, c), Opened(b)), Pushed(Taken(w), Opened(b).kind),
                 Read(q, Punctuation(b)))
<1> DEFINE t == Read(q, Punctuation(b))
           v == Taken(w)
           e == Opened(b)
           u == Pushed(v, e.kind)
           s == Append(below, c)
           n == Len(below) + 1
<1>1. /\ OpenAs(Append(s, e), t) /\ t.at = "first"
      /\ Length(t, Len(s) + 1) = 0 /\ HasOneMore(t, below, c, r)
  BY ContainerOpened, Zenon
<1>2. e.kind \in {"o", "a"}
  BY DEF Opened, Obj, Arr
<1> HIDE DEF t, v, e
<1>3. /\ v \in Writers /\ v.depth = Len(below) + 1
      /\ MarkedAt(v, c, t, Len(below) + 1)
      /\ \A d \in 1..Len(below) : MarkedAt(v, below[d], t, d) /\ Length(t, d) # 0
  BY <1>1, MarkedTaken, Zenon DEF v
<1>4. /\ Len(s) = n /\ n \in Nat /\ s[n] = c
      /\ \A d \in 1..Len(below) : s[d] = below[d]
  BY StackList
<1>5. \A d \in 1..Len(s) : d = n \/ d \in 1..Len(below)
  BY <1>4, StackList
<1>6. /\ u \in Writers /\ u.depth = Len(s) + 1
      /\ u.kind[n] = e.kind /\ u.first[n] = TRUE
      /\ \A d \in Levels : d # n => u.kind[d] = v.kind[d] /\ u.first[d] = v.first[d]
  <2> DEFINE k == e.kind
  <2>1. k \in {"o", "a"} /\ v.depth = n /\ n < MaxJsonDepth
    BY <1>2, <1>3
  <2> HIDE DEF k, n, s
  <2>2. IsPushed(Pushed(v, k), v, k)
    BY <1>3, <2>1, WriterPushed
  <2> QED
    BY <1>4, <2>1, <2>2, Zenon DEF IsPushed, k
<1>7. \A d \in 1..Len(s) : d - 1 \in Levels /\ d - 1 # n
  BY <1>4, WriterAssumption DEF Levels
<1>8. n = Len(s) + 1 - 1
  BY <1>4
<1> HIDE DEF u, s
<1>9. Len(s) + 1 - 1 = n
  BY <1>8
<1>10. \A d \in 1..Len(s) : MarkedAt(v, s[d], t, d) /\ Length(t, d) # 0
  <2>1. MarkedAt(v, c, t, n) /\ Length(t, n) # 0
    BY <1>1, <1>3, Zenon DEF HasOneMore
  <2> HIDE DEF n
  <2> QED
    BY <1>3, <1>4, <1>5, <2>1, Zenon
<1> HIDE DEF n
<1>11. MarkedAt(u, e, t, Len(s) + 1)
  BY <1>1, <1>6, <1>9 DEF MarkedAt
<1>12. ASSUME NEW d \in 1..Len(s) PROVE MarkedAt(u, s[d], t, d) /\ Length(t, d) # 0
  <2>1. /\ v.kind[d - 1] = s[d].kind /\ (v.first[d - 1] <=> Length(t, d) = 0)
        /\ Length(t, d) # 0
    BY <1>10, Zenon DEF MarkedAt
  <2>2. u.kind[d - 1] = v.kind[d - 1] /\ u.first[d - 1] = v.first[d - 1]
    BY <1>6, <1>7, Zenon
  <2> QED
    BY <2>1, <2>2, Zenon DEF MarkedAt
<1>13. s \in Stacks
  BY DEF s
<1>14. t.at = IF Length(t, Len(s) + 1) = 0 THEN "first" ELSE "after"
  BY <1>1, Zenon
<1>15. Known(Append(s, e), u, t)
  BY <1>1, <1>6, <1>11, <1>12, <1>13, <1>14, KnownFrom, Zenon
<1> QED
  BY <1>15 DEF t, v, e, u, s

\* The document begins.
LEMMA KnownBegun ==
    ASSUME NEW w, NEW r, Known(<<>>, w, r)
    PROVE  Known(<<Obj({})>>, Pushed(w, "o"), Read(r, Punctuation("{")))
<1> DEFINE below == <<>>
           e == Obj({})
           t == Read(r, Punctuation("{"))
           u == Pushed(w, "o")
<1>1. below \in Stacks /\ Len(below) = 0
  BY WriterAssumption DEF Stacks
<1>2. /\ w \in Writers /\ w.depth = 0 /\ OpenAs(<<>>, r) /\ r.at = "start"
  BY DEF Known, Rests
<1>3. IsReader(r) /\ IsList(r.open) /\ Len(r.open) = 0 /\ WantsValue(r)
  BY <1>2 DEF OpenAs, WantsValue
<1>4. Counted(r.open) = r.open
  BY <1>3, ListParts DEF Counted
<1>5. Opens("{") /\ Opened("{") = e
  BY Zenon DEF Opens, Opened
<1> HIDE DEF t, e
<1>6. PICK o : IsMoved(t, Append(r.open, o), "first") /\ IsOpen(o, e) /\ o.length = 0
  <2>1. \E o : /\ IsMoved(t, Append(Counted(r.open), o), "first")
               /\ IsOpen(o, e) /\ o.length = 0
    BY <1>3, <1>5, ContainerEntered, Zenon DEF t
  <2> QED
    BY <1>4, <2>1, Zenon
<1>7. Stands(t, below, e, o.length, r, "first")
  BY <1>1, <1>2, <1>6, MovedPushed, Zenon
<1>8. e.kind = "o" /\ Append(below, e) = <<e>> /\ <<Obj({})>> = <<e>>
  BY DEF e, Obj
<1>9. OpenAs(Append(below, e), t) /\ t.at = "first" /\ Length(t, Len(below) + 1) = 0
  BY <1>6, <1>7, Zenon DEF Stands
<1>10. /\ u \in Writers /\ u.depth = 1 /\ u.kind[0] = "o" /\ u.first[0] = TRUE
  <2>1. IsPushed(u, w, "o")
    BY <1>2, WriterPushed, WriterAssumption
  <2> QED
    BY <1>2, <2>1 DEF IsPushed
<1> HIDE DEF u
<1>11. Len(below) + 1 = 1 /\ 1 - 1 = 0 /\ 1..Len(below) = {}
  BY <1>1
<1>12. MarkedAt(u, e, t, Len(below) + 1)
  BY <1>8, <1>9, <1>10, <1>11 DEF MarkedAt
<1>13. /\ u.depth = Len(below) + 1
       /\ \A d \in 1..Len(below) : MarkedAt(u, below[d], t, d) /\ Length(t, d) # 0
       /\ t.at = IF Length(t, Len(below) + 1) = 0 THEN "first" ELSE "after"
  BY <1>9, <1>10, <1>11
<1> HIDE DEF below
<1>14. Known(Append(below, e), u, t)
  BY <1>1, <1>9, <1>10, <1>12, <1>13, KnownFrom, Zenon
<1> QED
  BY <1>8, <1>14, Zenon DEF u, t

\* What an end leaves.
Ended(s, w, r) ==
    /\ w \in Writers /\ w.depth = Len(s) /\ OpenAs(s, r)
    /\ s # <<>> => Known(s, w, r)
    /\ s = <<>> => r.at = "end" /\ r.open = <<>>

\* A container is closed, in another one or as the last.
LEMMA KnownClosed ==
    ASSUME NEW s \in Stacks, NEW c, NEW w, NEW r, Known(Append(s, c), w, r),
           NEW b, Closes(b, c)
    PROVE  Ended(s, Popped(w), Read(r, Punctuation(b)))
<1> DEFINE t == Read(r, Punctuation(b))
           n == Len(s) + 1
           v == Popped(w)
<1>1. /\ w \in Writers /\ w.depth > 0 /\ w.depth - 1 = Len(s)
      /\ OpenAs(Append(s, c), r)
      /\ \A d \in 1..Len(s) : MarkedAt(w, s[d], r, d) /\ Length(r, d) # 0
      /\ r.at = IF Length(r, n) = 0 THEN "first" ELSE "after"
  BY KnownInner, Zenon
<1>2. r.at \in {"first", "after"}
  BY <1>1
<1>3. /\ OpenAs(s, t) /\ t.at = After(t.open)
      /\ \A d \in 1..Len(s) : Length(t, d) = Length(r, d)
  <2>1. Leaves(t, s, r)
    BY <1>1, <1>2, ContainerLeft
  <2> QED
    BY <2>1, Zenon DEF Leaves
<1>4. /\ v \in Writers /\ v.depth = Len(s) /\ v.kind = w.kind /\ v.first = w.first
  BY <1>1, WriterPopped
<1> HIDE DEF t, v
<1>5. \A d \in 1..Len(s) : MarkedAt(v, s[d], t, d) /\ Length(t, d) # 0
  BY <1>1, <1>3, <1>4, Zenon DEF MarkedAt
<1>6. /\ IsList(t.open) /\ Len(t.open) = Len(s) /\ Len(s) \in Nat
      /\ s = <<>> <=> Len(s) = 0
      /\ t.open = <<>> <=> Len(t.open) = 0
  <2>1. IsList(t.open) /\ Len(t.open) = Len(s)
    BY <1>3, Zenon DEF OpenAs
  <2> DEFINE open == t.open
  <2>2. IsList(open)
    BY <2>1
  <2> HIDE DEF open
  <2>3. open = <<>> <=> Len(open) = 0
    BY <2>2, ListParts
  <2>4. Len(s) \in Nat /\ (s = <<>> <=> Len(s) = 0)
    BY StackList
  <2> QED
    BY <2>1, <2>3, <2>4 DEF open
<1>7. ASSUME s # <<>> PROVE Known(s, v, t)
  <2>1. t.at = "after" /\ Len(s) \in 1..Len(s)
    BY <1>3, <1>6, <1>7 DEF After
  <2>2. Rests(s, t)
    BY <1>5, <1>7, <2>1, Zenon DEF Rests
  <2> QED
    BY <1>3, <1>4, <1>5, <2>2, Zenon DEF Known
<1>8. ASSUME s = <<>> PROVE t.at = "end" /\ t.open = <<>>
  BY <1>3, <1>6, <1>8 DEF After
<1> QED
  BY <1>3, <1>4, <1>7, <1>8, Zenon DEF t, v, Ended

-----------------------------------------------------------------------------
(* Each call of the writer, made where it may be, keeps them in step.      *)

LEMMA BracketFacts ==
    /\ Opens("{") /\ Opened("{") = Obj({}) /\ Obj({}).kind = "o"
    /\ Opens("[") /\ Opened("[") = Arr /\ Arr.kind = "a"
    /\ \A K : Closes("}", Obj(K)) /\ Obj(K).kind = "o"
    /\ Closes("]", Arr)
<1>1. Arr.kind = "a" /\ \A K : Obj(K).kind = "o"
  BY DEF Arr, Obj
<1>2. Opens("{") /\ Opens("[")
  BY Zenon DEF Opens
<1>3. Opened("{") = Obj({})
  BY Zenon DEF Opened
<1>4. Opened("[") = Arr
  BY Zenon DEF Opened
<1>5. (\A K : Closes("}", Obj(K))) /\ Closes("]", Arr)
  BY <1>1, Zenon DEF Closes
<1> QED
  BY <1>1, <1>2, <1>3, <1>4, <1>5, Zenon

LEMMA WriteCases ==
    ASSUME NEW call, Write(call)
    PROVE  /\ call.op = "begin_object" => BeginObject
           /\ call.op = "end_object" => EndObject
           /\ call.op = "prop_object_begin" => PropObjectBegin(call.name)
           /\ call.op = "prop_array_begin" => PropArrayBegin(call.name)
           /\ call.op = "array_object_begin" => ArrayObjectBegin
           /\ call.op = "end_array" => EndArray
           /\ call.op = "prop" => Prop(call.name, call.value)
BY DEF Write

\* The room there is for a container that is opened in another one.
LEMMA RoomInside ==
    ASSUME NEW below \in Stacks, NEW c, NEW e, Append(Append(below, c), e) \in Stacks,
           c \in Container
    PROVE  Append(below, c) \in Stacks /\ Len(below) + 1 < MaxJsonDepth
<1> DEFINE s == Append(below, c)
           t == Append(s, e)
<1>1. IsList(below) /\ Len(below) \in Nat /\ Len(s) = Len(below) + 1 /\ IsList(s)
  BY StackList, ListAppend DEF OneMore
<1> HIDE DEF s
<1>2. Len(t) = Len(s) + 1
  BY <1>1, ListAppend DEF OneMore
<1>3. Len(t) <= MaxJsonDepth
  BY DEF Stacks, s
<1>4. Len(below) + 1 < MaxJsonDepth /\ Len(below) < MaxJsonDepth
  BY <1>1, <1>2, <1>3, WriterAssumption
<1> QED
  BY <1>4, Deeper DEF s

LEMMA WriteProperty ==
    ASSUME NEW below \in Stacks, NEW K \in SUBSET Names,
           Known(Inside(below, K), json, stdout),
           NEW call, call.name \in Names \ K, Write(call), NEW t \in Stacks,
           \/ call.op = "prop" /\ t = Append(below, Obj(K \cup {call.name}))
           \/ /\ call.op = "prop_object_begin"
              /\ t = Append(Append(below, Obj(K \cup {call.name})), Obj({}))
           \/ /\ call.op = "prop_array_begin"
              /\ t = Append(Append(below, Obj(K \cup {call.name})), Arr)
    PROVE  Known(t, json', stdout')
<1> DEFINE name == call.name
           c0 == Obj(K)
           c == Obj(K \cup {name})
           q == Read(Separated(json, stdout), Key(name))
<1>1. Expects(q, below, c, stdout)
  BY ExpectsProperty
<1>2. Known(Append(below, c0), json, stdout) /\ c.kind = c0.kind
  BY DEF Inside, Obj
<1>3. c \in Container
  BY DEF Container
<1>4. CASE call.op = "prop" /\ t = Append(below, c)
  <2>1. Prop(name, call.value)
    BY <1>4, WriteCases
  <2>2. json' = Taken(json) /\ stdout' = Read(q, Literal(call.value))
    BY <2>1, Zenon DEF Prop
  <2> HIDE DEF c0, c, q
  <2>3. Known(Append(below, c), Taken(json), Read(q, Literal(call.value)))
    BY <1>1, <1>2, KnownTold, Zenon
  <2> QED
    BY <1>4, <2>2, <2>3, Zenon
<1>5. CASE call.op = "prop_object_begin" /\ t = Append(Append(below, c), Obj({}))
  <2>1. PropObjectBegin(name)
    BY <1>5, WriteCases
  <2>2. json' = Pushed(Taken(json), "o") /\ stdout' = Read(q, Punctuation("{"))
    BY <2>1, Zenon DEF PropObjectBegin
  <2> HIDE DEF c0, c, q
  <2>3. Append(below, c) \in Stacks /\ Len(below) + 1 < MaxJsonDepth
    BY <1>3, <1>5, RoomInside
  <2>4. Known(Append(Append(below, c), Opened("{")), Pushed(Taken(json), Opened("{").kind),
              Read(q, Punctuation("{")))
    BY <1>1, <1>2, <2>3, BracketFacts, KnownOpened, Zenon
  <2> QED
    BY <1>5, <2>2, <2>4, BracketFacts, Zenon
<1>6. CASE call.op = "prop_array_begin" /\ t = Append(Append(below, c), Arr)
  <2>1. PropArrayBegin(name)
    BY <1>6, WriteCases
  <2>2. json' = Pushed(Taken(json), "a") /\ stdout' = Read(q, Punctuation("["))
    BY <2>1, Zenon DEF PropArrayBegin
  <2> HIDE DEF c0, c, q
  <2>3. Append(below, c) \in Stacks /\ Len(below) + 1 < MaxJsonDepth
    BY <1>3, <1>6, RoomInside
  <2>4. Known(Append(Append(below, c), Opened("[")), Pushed(Taken(json), Opened("[").kind),
              Read(q, Punctuation("[")))
    BY <1>1, <1>2, <2>3, BracketFacts, KnownOpened, Zenon
  <2> QED
    BY <1>6, <2>2, <2>4, BracketFacts, Zenon
<1> QED
  BY <1>4, <1>5, <1>6

LEMMA WriteElement ==
    ASSUME NEW below \in Stacks, Known(Append(below, Arr), json, stdout),
           NEW call, call.op = "array_object_begin", Write(call),
           Append(Append(below, Arr), Obj({})) \in Stacks
    PROVE  Known(Append(Append(below, Arr), Obj({})), json', stdout')
<1> DEFINE c == Arr
           q == Separated(json, stdout)
<1>1. Expects(q, below, c, stdout)
  BY ExpectsElement
<1>2. Known(Append(below, c), json, stdout)
  OBVIOUS
<1>3. c \in Container
  BY DEF Container
<1>4. ArrayObjectBegin
  BY WriteCases
<1>5. json' = Pushed(Taken(json), "o") /\ stdout' = Read(q, Punctuation("{"))
  BY <1>4, Zenon DEF ArrayObjectBegin
<1>6. Append(Append(below, c), Obj({})) \in Stacks
  OBVIOUS
<1> HIDE DEF c, q
<1>7. Append(below, c) \in Stacks /\ Len(below) + 1 < MaxJsonDepth
  BY <1>3, <1>6, RoomInside
<1>8. Known(Append(Append(below, c), Opened("{")), Pushed(Taken(json), Opened("{").kind),
            Read(q, Punctuation("{")))
  BY <1>1, <1>2, <1>7, BracketFacts, KnownOpened, Zenon
<1>9. Known(Append(Append(below, c), Obj({})), json', stdout')
  BY <1>5, <1>8, BracketFacts, Zenon
<1> QED
  BY <1>9, Zenon DEF c

LEMMA WriteEnd ==
    ASSUME NEW t \in Stacks, NEW c, Known(Append(t, c), json, stdout),
           NEW call, Write(call),
           \/ call.op = "end_object" /\ \E K : c = Obj(K)
           \/ call.op = "end_array" /\ c = Arr
    PROVE  Ended(t, json', stdout')
<1>1. ~(json.depth <= 0)
  <2>1. json \in Writers /\ json.depth > 0
    BY KnownInner, Zenon
  <2> QED
    BY <2>1 DEF Writers
<1>2. CASE call.op = "end_object" /\ \E K : c = Obj(K)
  <2>1. EndObject
    BY <1>2, WriteCases
  <2>2. json' = Popped(json) /\ stdout' = Read(stdout, Punctuation("}"))
    BY <1>1, <2>1, Zenon DEF EndObject, End
  <2>3. Closes("}", c)
    BY <1>2, BracketFacts, Zenon
  <2>4. Ended(t, Popped(json), Read(stdout, Punctuation("}")))
    BY <2>3, KnownClosed, Zenon
  <2> QED
    BY <2>2, <2>4, Zenon
<1>3. CASE call.op = "end_array" /\ c = Arr
  <2>1. EndArray
    BY <1>3, WriteCases
  <2>2. json' = Popped(json) /\ stdout' = Read(stdout, Punctuation("]"))
    BY <1>1, <2>1, Zenon DEF EndArray, End
  <2>3. Closes("]", c)
    BY <1>3, BracketFacts, Zenon
  <2>4. Ended(t, Popped(json), Read(stdout, Punctuation("]")))
    BY <2>3, KnownClosed, Zenon
  <2> QED
    BY <2>2, <2>4, Zenon
<1> QED
  BY <1>2, <1>3

\* A call that steps to a stack with something open.
LEMMA WriteKnown ==
    ASSUME NEW s \in Stacks, NEW t \in Stacks, NEW call, Step(call, s, t),
           Known(s, json, stdout), Write(call)
    PROVE  Known(t, json', stdout') /\ t # <<>>
<1>1. CASE call.op = "begin_object" /\ s = <<>> /\ t = <<Obj({})>>
  <2>1. BeginObject
    BY <1>1, WriteCases
  <2>2. json' = Pushed(json, "o") /\ stdout' = Read(stdout, Punctuation("{"))
    BY <2>1, Zenon DEF BeginObject
  <2>3. Known(<<Obj({})>>, Pushed(json, "o"), Read(stdout, Punctuation("{")))
    BY <1>1, KnownBegun, Zenon
  <2>4. t # <<>>
    BY <1>1
  <2> QED
    BY <1>1, <2>2, <2>3, <2>4, Zenon
<1>2. ASSUME NEW below \in Stacks, NEW K \in SUBSET Names,
             s = Append(below, Obj(K)), call.name \in Names \ K,
             \/ call.op = "prop" /\ t = Append(below, Obj(K \cup {call.name}))
             \/ /\ call.op = "prop_object_begin"
                /\ t = Append(Append(below, Obj(K \cup {call.name})), Obj({}))
             \/ /\ call.op = "prop_array_begin"
                /\ t = Append(Append(below, Obj(K \cup {call.name})), Arr)
      PROVE  Known(t, json', stdout') /\ t # <<>>
  <2>1. Known(Inside(below, K), json, stdout)
    BY <1>2, Zenon DEF Inside
  <2>2. Known(t, json', stdout')
    BY <1>2, <2>1, WriteProperty
  <2>3. t # <<>>
    <3> DEFINE c == Obj(K \cup {call.name})
    <3>1. c \in Container
      BY <1>2 DEF Container
    <3> HIDE DEF c
    <3>2. Append(below, c) # <<>>
      BY StackList
    <3>3. ASSUME NEW e, t = Append(Append(below, c), e) PROVE t # <<>>
      <4>1. Append(below, c) \in Stacks
        BY <3>1, <3>3, RoomInside
      <4> QED
        BY <3>3, <4>1, StackList
    <3> QED
      BY <1>2, <3>2, <3>3, Zenon DEF c
  <2> QED
    BY <2>2, <2>3
<1>3. ASSUME NEW below \in Stacks, call.op = "array_object_begin",
             s = Append(below, Arr), t = Append(s, Obj({}))
      PROVE  Known(t, json', stdout') /\ t # <<>>
  <2>1. Known(Append(below, Arr), json, stdout) /\ Append(Append(below, Arr), Obj({})) \in Stacks
    BY <1>3, Zenon
  <2>2. Known(Append(Append(below, Arr), Obj({})), json', stdout')
    BY <1>3, <2>1, WriteElement, Zenon
  <2>3. t # <<>>
    BY <1>3, StackList
  <2> QED
    BY <1>3, <2>2, <2>3, Zenon
<1>4. ASSUME t # <<>>, NEW c, s = Append(t, c),
             \/ call.op = "end_object" /\ \E K : c = Obj(K)
             \/ call.op = "end_array" /\ c = Arr
      PROVE  Known(t, json', stdout') /\ t # <<>>
  <2>1. Known(Append(t, c), json, stdout)
    BY <1>4, Zenon
  <2>2. Ended(t, json', stdout')
    BY <1>4, <2>1, WriteEnd, Zenon
  <2> QED
    BY <1>4, <2>2, Zenon DEF Ended
<1> QED
  BY <1>1, <1>2, <1>3, <1>4, Zenon DEF Step

-----------------------------------------------------------------------------
(* What the report needs of the ledger, whatever is called.                *)

Countable == receipt_count \in Nat /\ IsList(journal) /\ Len(journal) <= MaxJournal

LEMMA EntryLists ==
    ASSUME NEW x, NEW y
    PROVE  IsList(<<x>>) /\ IsList(<<x, y>>)
<1>1. <<x, y>> = [k \in 1..2 |-> <<x, y>>[k]]
  OBVIOUS
<1>2. IsList(<<x, y>>)
  BY <1>1, FunctionList
<1> QED
  BY <1>2, ListParts, Zenon

LEMMA AppendKeepsList ==
    ASSUME IsList(journal), Len(journal) <= MaxJournal,
           NEW entries, IsList(entries), AppendJournal(entries)
    PROVE  (IsList(journal) /\ Len(journal) <= MaxJournal)'
<1> DEFINE room == MaxJournal - Len(journal)
           taken == IF Len(entries) <= room THEN Len(entries) ELSE room
           more == SubSeq(entries, 1, taken)
<1>1. PICK S : entries \in Seq(S)
  BY DEF IsList
<1>2. Len(entries) \in Nat /\ Len(journal) \in Nat
  BY <1>1 DEF IsList
<1>3. taken \in 0..Len(entries) /\ Len(journal) + taken <= MaxJournal /\ 1 - 1 = 0
  BY <1>2, LedgerAssumption
<1>4. more \in Seq(S) /\ Len(more) = taken
  BY <1>1, <1>3, SubSeqProperties
<1>5. journal' = journal \o more
  BY DEF AppendJournal
<1> HIDE DEF more, taken
<1>6. IsList(more)
  BY <1>4 DEF IsList
<1>7. IsList(journal') /\ Len(journal') = Len(journal) + Len(more)
  BY <1>5, <1>6, ListConcat
<1> QED
  BY <1>3, <1>4, <1>7

LEMMA CallKeepsCountable ==
    ASSUME Countable, NEW op, NEW a, CallLedger(op, a)
    PROVE  Countable'
<1>1. ASSUME UNCHANGED <<receipt_count, journal>> PROVE Countable'
  BY <1>1 DEF Countable
<1>2. ASSUME NEW entries, IsList(entries), AppendJournal(entries), receipt_count' \in Nat
      PROVE  Countable'
  BY <1>2, AppendKeepsList DEF Countable
<1>3. ASSUME NEW error, Reject(error) PROVE Countable'
  BY <1>1, <1>3 DEF Reject
<1>4. receipt_count \in Nat /\ receipt_count + 1 \in Nat
  BY DEF Countable
<1>5. CASE AddPolicy(a.name, a.flags, a.min_reserve, a.max_exit_bps)
  BY <1>1, <1>3, <1>5 DEF AddPolicy
<1>6. CASE AddRoute(a.name, Asset, a.policy, a.fee_bps, FeeCell(a.fee_role))
  BY <1>1, <1>3, <1>6 DEF AddRoute
<1>7. CASE CreateCell(a.owner, Asset, a.route, a.policy)
  BY <1>2, <1>3, <1>4, <1>7, EntryLists, Zenon DEF CreateCell
<1>8. CASE DepositGenesis(handles[a.role], a.amount)
  BY <1>2, <1>3, <1>4, <1>8, EntryLists, Zenon DEF DepositGenesis
<1>9. CASE TransferBetweenCells(handles[a.from], handles[a.to], a.amount)
  BY <1>2, <1>3, <1>4, <1>9, EntryLists, Zenon DEF TransferBetweenCells
<1>10. CASE ConsolidateCell(handles[a.to], handles[a.from])
  BY <1>2, <1>3, <1>4, <1>10, EntryLists, Zenon DEF ConsolidateCell
<1>11. CASE Withdraw(handles[a.role], a.amount)
  BY <1>2, <1>3, <1>4, <1>11, EntryLists, Zenon DEF Withdraw
<1>12. CASE IssueReceipt(handles[a.from], handles[a.to], a.gross)
  BY <1>2, <1>3, <1>4, <1>12, EntryLists, Zenon DEF IssueReceipt
<1>13. CASE SettleReceipt(handles["receipt"], handles[a.payer])
  <2>1. ASSUME NEW x, NEW y, NEW z, NEW c
        PROVE  IsList(<<x, y>> \o IF c THEN <<z>> ELSE <<>>)
    BY EntryLists, ListParts, ListConcat
  <2> QED
    BY <1>2, <1>3, <1>4, <1>13, <2>1, Zenon DEF SettleReceipt
<1>14. CASE CancelReceipt(handles["receipt"])
  BY <1>2, <1>3, <1>4, <1>14, EntryLists, Zenon DEF CancelReceipt
<1>15. CASE UpdateRouteFee(a.route, a.fee_bps, handles["treasury"])
  BY <1>2, <1>3, <1>4, <1>15, EntryLists, Zenon DEF UpdateRouteFee
<1>16. CASE CloseRoute(a.route)
  <2>1. UNCHANGED vars => UNCHANGED <<receipt_count, journal>>
    BY DEF vars
  <2> QED
    BY <1>1, <1>2, <1>3, <1>4, <1>16, <2>1, EntryLists, Zenon DEF CloseRoute
<1>17. CASE UNCHANGED vars
  BY <1>1, <1>17 DEF vars
<1> QED
  BY <1>5, <1>6, <1>7, <1>8, <1>9, <1>10, <1>11, <1>12, <1>13, <1>14, <1>15, <1>16, <1>17, Zenon
     DEF CallLedger

-----------------------------------------------------------------------------
(* The program, step by step.                                              *)

\* Nothing has been printed on stdout.
Silent == json = NoJson /\ stdout = Reader

\* The calls still to make are those that lead to the end of the document, but for the last.
LastCall == [op |-> "end_object"]

Writing ==
    \E rest : \E s \in Stacks : \E K \in SUBSET Names :
       /\ todo = rest \o <<LastCall>>
       /\ Runs(rest, s, Inside(<<>>, K))
       /\ Known(s, json, stdout)

Finished ==
    \/ exit_code = 2 /\ Silent /\ stderr = "usage" /\ last_error = "PDTL_OK"
    \/ exit_code = 1 /\ Silent /\ stderr = "error" /\ last_error # "PDTL_OK"
    \/ /\ exit_code = 0 /\ stderr = "nothing" /\ last_error = "PDTL_OK"
       /\ \/ AsksForHelp /\ json = NoJson /\ stdout.at = "error"
          \/ Ended(<<>>, json, stdout)

ProgramInv ==
    /\ Countable
    /\ phase \in {"start", "calls", "failed", "report", "writes", "exit"}
    /\ phase # "exit" => exit_code = Running /\ stderr = "nothing"
    /\ phase \in {"start", "calls", "failed", "report"} => Silent
    /\ phase \in {"start", "calls", "report", "writes"} => last_error = "PDTL_OK"
    /\ phase = "failed" => last_error # "PDTL_OK"
    /\ phase \in {"calls", "report"} => Scenario \in KnownScenarios
    /\ phase = "writes" => Writing
    /\ phase = "exit" => Finished

LEMMA SilentKnown == Known(<<>>, NoJson, Reader)
<1>1. NoJson \in Writers /\ NoJson.depth = 0
  BY WriterAssumption DEF NoJson, Writers, Levels
<1>2. IsReader(Reader) /\ Reader.open = <<>> /\ Reader.at = "start"
  BY DEF IsReader, Reader
<1>3. Len(<<>>) = 0 /\ IsList(<<>>)
  BY ListParts
<1>4. OpenAs(<<>>, Reader)
  BY <1>2, <1>3 DEF OpenAs
<1> QED
  BY <1>1, <1>2, <1>3, <1>4 DEF Known, Rests

\* The head and the tail of a list with one call more.
LEMMA ListLast ==
    ASSUME NEW a, IsList(a), NEW x
    PROVE  /\ a = <<>> => Head(a \o <<x>>) = x /\ Tail(a \o <<x>>) = <<>>
           /\ a # <<>> => /\ Head(a \o <<x>>) = Head(a)
                          /\ Tail(a \o <<x>>) = Tail(a) \o <<x>>
                          /\ Tail(a) \o <<x>> # <<>>
<1>1. PICK S : a \in Seq(S)
  BY DEF IsList
<1> DEFINE T == S \cup {x}
<1>2. a \in Seq(T) /\ x \in T
  BY <1>1
<1> HIDE DEF T
<1>3. Append(a, x) = a \o <<x>>
  BY <1>2, AppendIsConcat
<1>4. /\ Head(Append(a, x)) = IF a = <<>> THEN x ELSE Head(a)
      /\ Tail(Append(a, x)) = IF a = <<>> THEN <<>> ELSE Append(Tail(a), x)
  BY <1>2, HeadTailAppend
<1>5. ASSUME a # <<>>
      PROVE  Append(Tail(a), x) = Tail(a) \o <<x>> /\ Append(Tail(a), x) # <<>>
  <2>1. Tail(a) \in Seq(T)
    BY <1>2, <1>5, HeadTailProperties
  <2> DEFINE b == Tail(a)
  <2> HIDE DEF b
  <2>2. b \in Seq(T)
    BY <2>1 DEF b
  <2>3. Append(b, x) = b \o <<x>>
    BY <1>2, <2>2, AppendIsConcat
  <2>4. Append(b, x) # <<>>
    BY <1>2, <2>2, AppendProperties
  <2> QED
    BY <2>3, <2>4 DEF b
<1> QED
  BY <1>3, <1>4, <1>5, Zenon

\* The invariant holds at first.
LEMMA ProgramInitInv == ProgramInit => ProgramInv
<1> SUFFICES ASSUME ProgramInit PROVE ProgramInv
  OBVIOUS
<1>1. receipt_count = 0 /\ journal = <<>> /\ last_error = "PDTL_OK"
  BY DEF ProgramInit, Init
<1>2. phase = "start" /\ exit_code = Running /\ stderr = "nothing" /\ Silent
  BY DEF ProgramInit, WriterInit, Silent
<1>3. Countable
  BY <1>1, ListParts, LedgerAssumption DEF Countable
<1> QED
  BY <1>1, <1>2, <1>3 DEF ProgramInv

LEMMA CountableFrame ==
    ASSUME Countable, UNCHANGED vars
    PROVE  Countable'
BY DEF Countable, vars

\* One call of the ledger.
LEMMA NextCallInv ==
    ASSUME ProgramInv, NextCall
    PROVE  ProgramInv'
<1>1. /\ phase = "calls" /\ phase' = AfterCall
      /\ UNCHANGED <<writerVars, argv, stderr, exit_code>>
      /\ Perform(Head(todo))
  BY DEF NextCall
<1>2. CallLedger(Head(todo).op, Head(todo).args)
  BY <1>1 DEF Perform
<1>3. Countable'
  BY <1>2, CallKeepsCountable DEF ProgramInv
<1>4. Scenario' = Scenario
  BY <1>1 DEF Scenario, ScenarioName
<1>5. Silent' /\ exit_code' = Running /\ stderr' = "nothing" /\ Scenario \in KnownScenarios
  BY <1>1 DEF ProgramInv, Silent, writerVars
<1>6. \/ phase' = "failed" /\ last_error' # "PDTL_OK"
      \/ phase' \in {"calls", "report"} /\ last_error' = "PDTL_OK"
  BY <1>1 DEF AfterCall
<1>7. KnownScenarios' = KnownScenarios
  BY DEF KnownScenarios
<1>8. /\ phase' \in {"start", "calls", "failed", "report", "writes", "exit"}
      /\ phase' # "exit" /\ phase' # "writes"
      /\ phase' \in {"start", "calls", "report", "writes"} => last_error' = "PDTL_OK"
      /\ phase' = "failed" => last_error' # "PDTL_OK"
  BY <1>6
<1> QED
  BY <1>3, <1>4, <1>5, <1>7, <1>8, Zenon DEF ProgramInv

\* The report begins: what is printed is still nothing, and the calls lead to the end.
LEMMA BeginReportInv ==
    ASSUME MaxJsonDepth >= 3, ProgramInv, BeginReport
    PROVE  ProgramInv'
<1>1. /\ phase = "report" /\ phase' = "writes" /\ json' = NoJson /\ stdout' = stdout
      /\ todo' = ReportCalls(RoutesAdded)
      /\ UNCHANGED <<vars, scenarioVars, argv, stderr, exit_code>>
  BY DEF BeginReport, JsonInit
<1>2. /\ Countable /\ Silent /\ Scenario \in KnownScenarios /\ last_error = "PDTL_OK"
      /\ exit_code = Running /\ stderr = "nothing"
  BY <1>1 DEF ProgramInv
<1>3. PICK n \in Nat : DOMAIN RoutesAdded = 1..n
  BY <1>2, RoutesAddedList
<1>4. PICK rest : \E K \in SUBSET Names :
         /\ ReportCalls(RoutesAdded) = rest \o <<LastCall>>
         /\ Runs(rest, <<>>, Inside(<<>>, K))
  <2> DEFINE order == RoutesAdded
  <2>1. DOMAIN order = 1..n /\ receipt_count \in Nat /\ IsList(journal)
    BY <1>2, <1>3 DEF Countable
  <2> HIDE DEF order
  <2>2. \E rest : \E K \in SUBSET Names :
           /\ ReportCalls(order) = rest \o <<[op |-> "end_object"]>>
           /\ Runs(rest, <<>>, Inside(<<>>, K))
    BY <2>1, ReportRuns, Zenon
  <2> QED
    BY <2>2, Zenon DEF order, LastCall
<1>5. Known(<<>>, json', stdout')
  <2>1. json' = NoJson /\ stdout' = Reader
    BY <1>1, <1>2 DEF Silent
  <2> QED
    BY <2>1, SilentKnown, Zenon
<1>6. <<>> \in Stacks
  BY WriterAssumption DEF Stacks
<1>7. \E q : \E s \in Stacks : \E K \in SUBSET Names :
         /\ todo' = q \o <<LastCall>> /\ Runs(q, s, Inside(<<>>, K))
         /\ Known(s, json', stdout')
  BY <1>1, <1>4, <1>5, <1>6, Zenon
<1>8. Writing'
  BY <1>7, Zenon DEF Writing
<1>9. Countable'
  BY <1>1, <1>2, CountableFrame
<1>10. last_error' = "PDTL_OK" /\ exit_code' = Running /\ stderr' = "nothing"
  BY <1>1, <1>2 DEF vars
<1> QED
  BY <1>1, <1>8, <1>9, <1>10 DEF ProgramInv

\* One call of the writer: it may be made, and the last ends the document.
LEMMA NextWriteInv ==
    ASSUME ProgramInv, NextWrite
    PROVE  ProgramInv'
<1>1. /\ phase = "writes" /\ Write(Head(todo)) /\ todo' = Tail(todo)
      /\ IF todo' = <<>> THEN Exit(0) ELSE UNCHANGED <<phase, exit_code>>
      /\ UNCHANGED <<vars, scenarioVars, argv, stderr>>
  BY DEF NextWrite
<1>2. /\ Countable /\ Writing /\ last_error = "PDTL_OK"
      /\ exit_code = Running /\ stderr = "nothing"
  BY <1>1 DEF ProgramInv
<1>3. PICK rest : \E s \in Stacks : \E K \in SUBSET Names :
         todo = rest \o <<LastCall>> /\ Runs(rest, s, Inside(<<>>, K)) /\ Known(s, json, stdout)
  BY <1>2, Zenon DEF Writing
<1>4. PICK s \in Stacks : \E K \in SUBSET Names :
         todo = rest \o <<LastCall>> /\ Runs(rest, s, Inside(<<>>, K)) /\ Known(s, json, stdout)
  BY <1>3, Zenon
<1>5. PICK K \in SUBSET Names :
         todo = rest \o <<LastCall>> /\ Runs(rest, s, Inside(<<>>, K)) /\ Known(s, json, stdout)
  BY <1>4, Zenon
<1>6. IsList(rest)
  BY <1>5, Zenon DEF Runs
<1>7. Countable' /\ last_error' = "PDTL_OK" /\ stderr' = "nothing"
  <2>1. UNCHANGED vars /\ stderr' = stderr
    BY <1>1
  <2>2. last_error' = last_error
    BY <2>1 DEF vars
  <2> QED
    BY <1>2, <2>1, <2>2, CountableFrame
<1>8. CASE rest = <<>>
  <2>1. Head(todo) = LastCall /\ todo' = <<>>
    BY <1>1, <1>5, <1>6, <1>8, ListLast, Zenon
  <2>2. s = Inside(<<>>, K)
    BY <1>5, <1>8, RunsNowhere, Zenon
  <2>3. Known(Append(<<>>, Obj(K)), json, stdout)
    BY <1>5, <2>2, Zenon DEF Inside
  <2>4. LastCall.op = "end_object" /\ Write(LastCall)
    BY <1>1, <2>1 DEF LastCall
  <2>5. <<>> \in Stacks
    BY WriterAssumption DEF Stacks
  <2>6. Ended(<<>>, json', stdout')
    BY <2>3, <2>4, <2>5, WriteEnd, Zenon
  <2>7. phase' = "exit" /\ exit_code' = 0
    BY <1>1, <2>1 DEF Exit
  <2>8. Finished'
    BY <1>7, <2>6, <2>7 DEF Finished
  <2> QED
    BY <1>7, <2>7, <2>8 DEF ProgramInv
<1>9. CASE rest # <<>>
  <2>1. /\ Head(todo) = Head(rest) /\ todo' = Tail(rest) \o <<LastCall>>
        /\ todo' # <<>>
    BY <1>1, <1>5, <1>6, <1>9, ListLast, Zenon
  <2>2. PICK u \in Stacks : Step(Head(rest), s, u) /\ Runs(Tail(rest), u, Inside(<<>>, K))
    BY <1>5, <1>9, RunsTail, Zenon
  <2>3. Write(Head(rest))
    BY <1>1, <2>1, Zenon
  <2>4. Known(u, json', stdout')
    BY <1>5, <2>2, <2>3, WriteKnown, Zenon
  <2>5. Writing'
    <3>1. \E q : \E v \in Stacks : \E L \in SUBSET Names :
             /\ todo' = q \o <<LastCall>> /\ Runs(q, v, Inside(<<>>, L))
             /\ Known(v, json', stdout')
      BY <2>1, <2>2, <2>4, Zenon
    <3> QED
      BY <3>1, Zenon DEF Writing
  <2>6. phase' = "writes" /\ exit_code' = Running
    BY <1>1, <1>2, <2>1
  <2> QED
    BY <1>7, <2>5, <2>6 DEF ProgramInv
<1> QED
  BY <1>8, <1>9

\* Every other step of main.
LEMMA OtherStepsInv ==
    ASSUME ProgramInv, TooManyArguments \/ Help \/ Choose \/ ReportError
    PROVE  ProgramInv'
<1>1. CASE TooManyArguments
  <2>1. /\ phase = "start" /\ phase' = "exit" /\ exit_code' = 2 /\ stderr' = "usage"
        /\ UNCHANGED <<vars, scenarioVars, writerVars, argv, todo>>
    BY <1>1 DEF TooManyArguments, Exit
  <2>2. Silent' /\ last_error' = "PDTL_OK"
    BY <2>1 DEF ProgramInv, Silent, writerVars, vars
  <2>3. Countable'
    BY <2>1, CountableFrame DEF ProgramInv
  <2> QED
    BY <2>1, <2>2, <2>3 DEF ProgramInv, Finished
<1>2. CASE Help
  <2>1. /\ phase = "start" /\ AsksForHelp /\ phase' = "exit" /\ exit_code' = 0
        /\ stdout' = Read(stdout, Prose)
        /\ UNCHANGED <<vars, scenarioVars, json, argv, todo, stderr>>
    BY <1>2 DEF Help, Exit
  <2>2. json' = NoJson /\ last_error' = "PDTL_OK" /\ stderr' = "nothing" /\ stdout = Reader
    BY <2>1 DEF ProgramInv, Silent, vars
  <2>3. Countable'
    BY <2>1, CountableFrame DEF ProgramInv
  <2>4. stdout'.at = "error"
    <3>1. Read(Reader, Prose) = [Reader EXCEPT !.at = "error"]
      BY ReadCases, Zenon
    <3>2. Reader.at = "start" /\ [Reader EXCEPT !.at = "error"].at = "error"
      BY DEF Reader
    <3> QED
      BY <2>1, <2>2, <3>1, <3>2, Zenon
  <2>5. AsksForHelp'
    BY <2>1 DEF AsksForHelp
  <2>6. Finished'
    BY <2>1, <2>2, <2>4, <2>5 DEF Finished
  <2> QED
    BY <2>1, <2>3, <2>6 DEF ProgramInv
<1>3. CASE Choose
  <2>1. /\ phase = "start"
        /\ UNCHANGED <<receipt_count, journal, writerVars, argv, stderr, exit_code>>
        /\ \/ /\ Scenario \in KnownScenarios /\ phase' = "calls" /\ last_error' = last_error
           \/ /\ phase' = "failed" /\ last_error' = "PDTL_ERR_ARGUMENT"
    BY <1>3 DEF Choose
  <2>2. Silent' /\ exit_code' = Running /\ stderr' = "nothing" /\ last_error = "PDTL_OK"
    BY <2>1 DEF ProgramInv, Silent, writerVars
  <2>3. Countable'
    BY <2>1 DEF ProgramInv, Countable
  <2>4. Scenario' = Scenario /\ KnownScenarios' = KnownScenarios
    BY <2>1 DEF Scenario, ScenarioName, KnownScenarios
  <2> QED
    BY <2>1, <2>2, <2>3, <2>4 DEF ProgramInv
<1>4. CASE ReportError
  <2>1. /\ phase = "failed" /\ phase' = "exit" /\ exit_code' = 1 /\ stderr' = "error"
        /\ UNCHANGED <<vars, scenarioVars, writerVars, argv, todo>>
    BY <1>4 DEF ReportError, Exit
  <2>2. Silent' /\ last_error' # "PDTL_OK"
    BY <2>1 DEF ProgramInv, Silent, writerVars, vars
  <2>3. Countable'
    BY <2>1, CountableFrame DEF ProgramInv
  <2> QED
    BY <2>1, <2>2, <2>3 DEF ProgramInv, Finished
<1> QED
  BY <1>1, <1>2, <1>3, <1>4

LEMMA ProgramStepInv ==
    ASSUME MaxJsonDepth >= 3, ProgramInv, [ProgramNext]_programVars
    PROVE  ProgramInv'
<1>1. CASE NextCall
  BY <1>1, NextCallInv
<1>2. CASE BeginReport
  BY <1>2, BeginReportInv
<1>3. CASE NextWrite
  BY <1>3, NextWriteInv
<1>4. CASE TooManyArguments \/ Help \/ Choose \/ ReportError
  BY <1>4, OtherStepsInv
<1>5. CASE UNCHANGED programVars
  <2>1. /\ UNCHANGED <<vars, handles, result, json, stdout, argv, phase, todo, stderr, exit_code>>
    BY <1>5 DEF programVars, scenarioVars, writerVars, mainVars
  <2>2. Countable' /\ last_error' = last_error
    BY <2>1, CountableFrame DEF ProgramInv, vars
  <2>3. Silent' = Silent /\ Scenario' = Scenario /\ KnownScenarios' = KnownScenarios
    BY <2>1 DEF Silent, Scenario, ScenarioName, KnownScenarios
  <2>4. Writing' = Writing
    BY <2>1 DEF Writing
  <2>5. AsksForHelp' = AsksForHelp
    BY <2>1 DEF AsksForHelp
  <2>6. Finished' = Finished
    BY <2>1, <2>2, <2>3, <2>5 DEF Finished
  <2> QED
    BY <2>1, <2>2, <2>3, <2>4, <2>6 DEF ProgramInv
<1> QED
  BY <1>1, <1>2, <1>3, <1>4, <1>5 DEF ProgramNext

(***************************************************************************)
(* The invariant of main: until the report it is silent, and while it      *)
(* writes, the calls to come lead from the containers that are open to     *)
(* the end of the document (pdtl_print_report).                            *)
(***************************************************************************)
THEOREM ProgramInvariant ==
    ASSUME MaxJsonDepth >= 3
    PROVE  ProgramSpec => []ProgramInv
<1>1. ProgramInv /\ [ProgramNext]_programVars => ProgramInv'
  BY ProgramStepInv
<1> QED
  BY <1>1, ProgramInitInv, PTL DEF ProgramSpec

\* What is known of the document says that the writer's bookkeeping is right.
LEMMA KnownSays ==
    ASSUME NEW s, Known(s, json, stdout)
    PROVE  WriterInBounds /\ WriterKnowsDocument /\ stdout.at # "error"
<1>1. /\ json \in Writers /\ json.depth = Len(s) /\ OpenAs(s, stdout) /\ Rests(s, stdout)
      /\ \A d \in 1..Len(s) : MarkedAt(json, s[d], stdout, d)
  BY DEF Known
<1>2. WriterInBounds
  BY <1>1 DEF WriterInBounds, Writers
<1>3. Depth(stdout) = Len(s) /\ \A d \in 1..Len(s) : IsOpen(stdout.open[d], s[d])
  BY <1>1 DEF OpenAs, Depth
<1>4. json.depth \in Nat
  BY <1>1, WriterAssumption DEF Writers
<1>5. ASSUME NEW d \in 0..(json.depth - 1)
      PROVE  /\ json.kind[d] = stdout.open[d + 1].kind
             /\ json.first[d] <=> stdout.open[d + 1].length = 0
  <2> DEFINE e == d + 1
  <2>1. e \in 1..Len(s) /\ e - 1 = d
    BY <1>1, <1>4
  <2> HIDE DEF e
  <2>2. MarkedAt(json, s[e], stdout, e) /\ IsOpen(stdout.open[e], s[e])
    BY <1>1, <1>3, <2>1, Zenon
  <2>3. stdout.open[e].kind = s[e].kind
    BY <2>2, OpenFields, Zenon
  <2>4. json.kind[d] = stdout.open[e].kind /\ (json.first[d] <=> stdout.open[e].length = 0)
    BY <2>1, <2>2, <2>3, Zenon DEF MarkedAt, Length
  <2> QED
    BY <2>4 DEF e
<1>6. WriterKnowsDocument
  BY <1>1, <1>3, <1>5 DEF WriterKnowsDocument
<1>7. stdout.at # "error"
  <2>1. CASE s = <<>>
    BY <1>1, <2>1 DEF Rests
  <2>2. CASE s # <<>>
    BY <1>1, <2>2 DEF Rests
  <2> QED
    BY <2>1, <2>2
<1> QED
  BY <1>2, <1>6, <1>7

\* What the invariant says of the writer and of the document.
LEMMA InvSays ==
    ASSUME ProgramInv
    PROVE  WriterInBounds /\ WriterKnowsDocument /\ DocumentReadable
<1>1. CASE Silent
  <2>1. Known(<<>>, json, stdout)
    BY <1>1, SilentKnown DEF Silent
  <2> QED
    BY <2>1, KnownSays DEF DocumentReadable
<1>2. CASE Writing
  <2>1. \E s : Known(s, json, stdout)
    BY <1>2, Zenon DEF Writing
  <2> QED
    BY <2>1, KnownSays DEF DocumentReadable
<1>3. CASE AsksForHelp /\ json = NoJson /\ stdout.at = "error"
  <2>1. Known(<<>>, NoJson, Reader)
    BY SilentKnown
  <2>2. json \in Writers
    BY <1>3, <2>1 DEF Known
  <2> QED
    BY <1>3, <2>2 DEF WriterInBounds, Writers, WriterKnowsDocument, DocumentReadable
<1>4. CASE Ended(<<>>, json, stdout)
  <2>1. /\ json \in Writers /\ json.depth = 0 /\ stdout.open = <<>> /\ stdout.at = "end"
    BY <1>4, ListParts DEF Ended
  <2>2. Depth(stdout) = 0 /\ 0..(json.depth - 1) = {}
    BY <2>1, ListParts DEF Depth
  <2> QED
    BY <2>1, <2>2 DEF WriterInBounds, Writers, WriterKnowsDocument, DocumentReadable
<1> QED
  BY <1>1, <1>2, <1>3, <1>4 DEF ProgramInv, Finished

\* What the invariant says of how the program ends.
LEMMA InvTells ==
    ASSUME ProgramInv
    PROVE  ExitCodeTells
<1>1. CASE phase # "exit"
  <2>1. exit_code = Running /\ Running = -1
    BY <1>1 DEF ProgramInv, Running
  <2> QED
    BY <1>1, <2>1 DEF ExitCodeTells, Reported, Done
<1>2. CASE phase = "exit"
  <2>1. Finished
    BY <1>2 DEF ProgramInv
  <2>2. CASE exit_code \in {1, 2}
    BY <1>2, <2>1, <2>2 DEF Finished, ExitCodeTells, Reported, Done, Silent
  <2>3. CASE exit_code = 0
    <3>1. stderr = "nothing" /\ last_error = "PDTL_OK"
          /\ (AsksForHelp \/ Ended(<<>>, json, stdout))
      BY <2>1, <2>3 DEF Finished
    <3>2. ~AsksForHelp => stdout.at = "end"
      BY <3>1 DEF Ended
    <3> QED
      BY <1>2, <2>3, <3>1, <3>2 DEF ExitCodeTells, Reported, Done
  <2> QED
    BY <2>1, <2>2, <2>3 DEF Finished
<1> QED
  BY <1>1, <1>2

-----------------------------------------------------------------------------
(* What the program promises, for any depth that the report fits in.       *)

(***************************************************************************)
(* The writer never uses its arrays out of bounds: nothing checks its      *)
(* depth (src/pdtl_json.c), and the report never needs more than three     *)
(* levels.                                                                 *)
(***************************************************************************)
THEOREM WriterStaysInBounds ==
    ASSUME MaxJsonDepth >= 3
    PROVE  ProgramSpec => []WriterInBounds
<1>1. ProgramInv => WriterInBounds
  BY InvSays
<1> QED
  BY <1>1, ProgramInvariant, PTL

(***************************************************************************)
(* The writer's depth, kinds and marks describe the document that a reader *)
(* of stdout has understood (the calls of src/pdtl_json.c).                *)
(***************************************************************************)
THEOREM WriterKnowsWhatItWrote ==
    ASSUME MaxJsonDepth >= 3
    PROVE  ProgramSpec => []WriterKnowsDocument
<1>1. ProgramInv => WriterKnowsDocument
  BY InvSays
<1> QED
  BY <1>1, ProgramInvariant, PTL

(***************************************************************************)
(* Whatever cells, receipts and journal entries there are, what is printed *)
(* is at every moment the beginning of a document with every comma and     *)
(* bracket in place and no key twice in an object.  Only help is prose.    *)
(***************************************************************************)
THEOREM DocumentStaysReadable ==
    ASSUME MaxJsonDepth >= 3
    PROVE  ProgramSpec => []DocumentReadable
<1>1. ProgramInv => DocumentReadable
  BY InvSays
<1> QED
  BY <1>1, ProgramInvariant, PTL

(***************************************************************************)
(* The exit code tells what happened (main in src/main.c): 0 is help or    *)
(* a whole document, 1 an error of the ledger with a message, 2 a wrong    *)
(* command line, and nothing on stdout but in the first case.              *)
(***************************************************************************)
THEOREM ExitCodesTell ==
    ASSUME MaxJsonDepth >= 3
    PROVE  ProgramSpec => []ExitCodeTells
<1>1. ProgramInv => ExitCodeTells
  BY InvTells
<1> QED
  BY <1>1, ProgramInvariant, PTL

-----------------------------------------------------------------------------
(* The program is one of the callers of the ledger.                        *)

\* The callers that Ledger describes include the scenarios.
ScriptArguments ==
    /\ {"treasury-policy", "retail-exit"} \subseteq PolicyNames
    /\ {"treasury", "blue-route"} \subseteq RouteNames
    /\ Asset \in AssetNames
    /\ {"protocol-fees", "alice", "sponsor-pool", "merchant"} \subseteq OwnerNames
    /\ {{"TREASURY", "WITHDRAW"}, {"WITHDRAW", "CONSOLIDATE", "ALLOW_ROUTE_CLOSE"}}
          \subseteq Flags
    /\ {0, 20} \subseteq MinReserves
    /\ {0, 200, 350, 9000, 10000} \subseteq BpsValues
    /\ {100, 180, 200, 280, 300, 700, 800, 1000, 2000} \subseteq CallAmounts
    /\ MaxSupply >= 3200

\* A route's fee cell is that of a role, or none.
FeeRole(role) == role = "" \/ role \in Roles

\* The arguments of a call are those of Ledger's callers, with roles for cells.
Fits(op, a) ==
    \/ /\ op = "add_policy" /\ a.name \in PolicyNames /\ a.flags \in Flags
       /\ a.min_reserve \in MinReserves /\ a.max_exit_bps \in BpsValues
    \/ /\ op = "add_route" /\ a.name \in RouteNames /\ a.policy \in PolicyNames
       /\ a.fee_bps \in BpsValues /\ FeeRole(a.fee_role)
    \/ /\ op = "create_cell" /\ a.role \in Roles /\ a.owner \in OwnerNames
       /\ a.route \in RouteNames /\ a.policy \in PolicyNames
    \/ op = "deposit" /\ a.role \in Roles /\ a.amount \in CallAmounts
    \/ op = "transfer" /\ a.from \in Roles /\ a.to \in Roles /\ a.amount \in CallAmounts
    \/ op = "consolidate" /\ a.from \in Roles /\ a.to \in Roles
    \/ op = "withdraw" /\ a.role \in Roles /\ a.amount \in CallAmounts
    \/ op = "issue" /\ a.from \in Roles /\ a.to \in Roles /\ a.gross \in CallAmounts
    \/ op = "settle" /\ a.payer \in Roles
    \/ op = "cancel"
    \/ op = "update_fee" /\ a.route \in RouteNames /\ a.fee_bps \in BpsValues
    \/ op = "close" /\ a.route \in RouteNames
    \/ op = "capture"

\* What the first k calls of a script deposit at most.
Paid(k) == IF k < 10 THEN 0 ELSE IF k = 10 THEN 1000 ELSE IF k = 11 THEN 1200 ELSE 3200

\* A call, the kth of its script, that makes a deposit stays within what is paid.
Affords(k, call) ==
    call.op = "deposit" => Paid(k - 1) + call.args.amount <= Paid(k)

Planned(k, call) == Fits(call.op, call.args) /\ Affords(k, call)

\* A call that makes no deposit.
Calm(call) ==
    /\ {"op", "args"} \subseteq DOMAIN call
    /\ Fits(call.op, call.args) /\ call.op # "deposit"

LEMMA CalmCalls ==
    /\ \A n \in PolicyNames, f \in Flags, m \in MinReserves, b \in BpsValues :
          Calm(Policy(n, f, m, b))
    /\ \A n \in RouteNames, p \in PolicyNames, b \in BpsValues : \A r :
          FeeRole(r) => Calm(Route(n, p, b, r))
    /\ \A r \in Roles, o \in OwnerNames, n \in RouteNames, p \in PolicyNames :
          Calm(Cell(r, o, n, p))
    /\ Calm(Capture) /\ Calm(Cancel)
    /\ \A from, to \in Roles : Calm(Consolidate(to, from))
    /\ \A from, to \in Roles, a \in CallAmounts : Calm(Transfer(from, to, a))
    /\ \A r \in Roles, a \in CallAmounts : Calm(Withdrawal(r, a))
    /\ \A from, to \in Roles, a \in CallAmounts : Calm(Issue(from, to, a))
    /\ \A r \in Roles : Calm(Settle(r))
    /\ \A n \in RouteNames : Calm(Close(n))
    /\ \A n \in RouteNames, b \in BpsValues : Calm(Reprice(n, b))
<1>1. Calm(Capture) /\ Calm(Cancel)
  BY DEF Calm, Fits, Capture, Cancel, Call
<1>2. \A from, to \in Roles : Calm(Consolidate(to, from))
  BY DEF Calm, Fits, Consolidate, Call
<1>3. \A from, to \in Roles, a \in CallAmounts : Calm(Transfer(from, to, a))
  BY DEF Calm, Fits, Transfer, Call
<1>4. \A r \in Roles, a \in CallAmounts : Calm(Withdrawal(r, a))
  BY DEF Calm, Fits, Withdrawal, Call
<1>5. \A from, to \in Roles, a \in CallAmounts : Calm(Issue(from, to, a))
  BY DEF Calm, Fits, Issue, Call
<1>6. \A r \in Roles : Calm(Settle(r))
  BY DEF Calm, Fits, Settle, Call
<1>7. \A n \in RouteNames : Calm(Close(n))
  BY DEF Calm, Fits, Close, Call
<1>8. \A n \in RouteNames, b \in BpsValues : Calm(Reprice(n, b))
  BY DEF Calm, Fits, Reprice, Call
<1>9. \A n \in PolicyNames, f \in Flags, m \in MinReserves, b \in BpsValues :
        Calm(Policy(n, f, m, b))
  BY DEF Calm, Fits, Policy, Call
<1>10. \A n \in RouteNames, p \in PolicyNames, b \in BpsValues : \A r :
         FeeRole(r) => Calm(Route(n, p, b, r))
  BY DEF Calm, Fits, Route, Call
<1>11. \A r \in Roles, o \in OwnerNames, n \in RouteNames, p \in PolicyNames :
         Calm(Cell(r, o, n, p))
  BY DEF Calm, Fits, Cell, Call
<1> QED
  BY <1>1, <1>2, <1>3, <1>4, <1>5, <1>6, <1>7, <1>8, <1>9, <1>10, <1>11

LEMMA SurfacePlanned ==
    ASSUME ScriptArguments, NEW k \in 1..12
    PROVE  Planned(k, Surface[k])
<1>1. \A call : Calm(call) => Planned(k, call)
  BY DEF Calm, Affords, Planned
<1>2. \A role \in Roles, amount \in CallAmounts :
        Paid(k - 1) + amount <= Paid(k) => Planned(k, Deposit(role, amount))
  BY DEF Fits, Affords, Planned, Deposit, Call
<1>3. /\ {"treasury-policy", "retail-exit"} \subseteq PolicyNames
      /\ {"treasury", "blue-route"} \subseteq RouteNames
      /\ {"protocol-fees", "alice", "sponsor-pool", "merchant"} \subseteq OwnerNames
      /\ {0, 200, 10000} \subseteq BpsValues
      /\ {"treasury", "origin", "aux", "sponsor", "beneficiary"} = Roles
  BY DEF ScriptArguments, Roles
<1>4. FeeRole("") /\ FeeRole("treasury")
  BY DEF FeeRole, Roles
<1>5. CASE k \in 1..2
  <2>1. /\ Surface[1] = Policy("treasury-policy", {"TREASURY", "WITHDRAW"}, 0, 10000)
        /\ Surface[2] = Policy("retail-exit", {"WITHDRAW", "CONSOLIDATE", "ALLOW_ROUTE_CLOSE"},
                               20, 9000)
    BY DEF Surface
  <2>2. Calm(Surface[1]) /\ Calm(Surface[2])
    BY CalmCalls, <2>1 DEF ScriptArguments
  <2> QED
    BY <1>1, <1>5, <2>2
<1>6. CASE k = 3
  <2>1. Surface[3] = Route("treasury", "treasury-policy", 0, "")
    BY DEF Surface
  <2>2. /\ "treasury" \in RouteNames /\ "treasury-policy" \in PolicyNames /\ 0 \in BpsValues
    BY <1>3
  <2>3. Calm(Surface[3])
    BY CalmCalls, <1>4, <2>1, <2>2, Zenon
  <2> QED
    BY <1>1, <1>6, <2>3, Zenon
<1>7. CASE k = 5
  <2> DEFINE rate == 200
  <2>1. Surface[5] = Route("blue-route", "retail-exit", rate, "treasury")
    BY DEF Surface
  <2>2. "blue-route" \in RouteNames /\ "retail-exit" \in PolicyNames /\ rate \in BpsValues
    BY <1>3
  <2> HIDE DEF rate
  <2>3. Calm(Surface[5])
    BY CalmCalls, <1>4, <2>1, <2>2, Zenon
  <2> QED
    BY <1>1, <1>7, <2>3, Zenon
<1>8. CASE k \in {4, 6, 7, 8, 9}
  <2>1. /\ Surface[4] = Cell("treasury", "protocol-fees", "treasury", "treasury-policy")
        /\ Surface[6] = Cell("origin", "alice", "blue-route", "retail-exit")
        /\ Surface[7] = Cell("aux", "alice", "blue-route", "retail-exit")
        /\ Surface[8] = Cell("sponsor", "sponsor-pool", "blue-route", "retail-exit")
        /\ Surface[9] = Cell("beneficiary", "merchant", "blue-route", "retail-exit")
    BY DEF Surface
  <2>2. /\ "treasury" \in RouteNames /\ "blue-route" \in RouteNames
        /\ "treasury-policy" \in PolicyNames /\ "retail-exit" \in PolicyNames
        /\ "protocol-fees" \in OwnerNames /\ "alice" \in OwnerNames
        /\ "sponsor-pool" \in OwnerNames /\ "merchant" \in OwnerNames
        /\ "treasury" \in Roles /\ "origin" \in Roles /\ "aux" \in Roles
        /\ "sponsor" \in Roles /\ "beneficiary" \in Roles
    BY <1>3
  <2>3. /\ Calm(Surface[4]) /\ Calm(Surface[6]) /\ Calm(Surface[7])
        /\ Calm(Surface[8]) /\ Calm(Surface[9])
    BY CalmCalls, <2>1, <2>2, Zenon
  <2> QED
    BY <1>1, <1>8, <2>3
<1>9. CASE k \in 10..12
  <2>1. /\ Surface[10] = Deposit("origin", 1000)
        /\ Surface[11] = Deposit("aux", 200)
        /\ Surface[12] = Deposit("sponsor", 2000)
    BY DEF Surface
  <2>2. /\ Paid(9) + 1000 <= Paid(10)
        /\ Paid(10) + 200 <= Paid(11)
        /\ Paid(11) + 2000 <= Paid(12)
    BY DEF Paid
  <2>3. {1000, 200, 2000} \subseteq CallAmounts
    BY DEF ScriptArguments
  <2> QED
    BY <1>2, <1>3, <1>9, <2>1, <2>2, <2>3
<1> QED
  BY <1>5, <1>6, <1>7, <1>8, <1>9

\* What a call records does not matter.
LEMMA CalmRecording ==
    ASSUME NEW call, Calm(call), NEW sets, NEW field, NEW role
    PROVE  Calm(Setting(call, sets)) /\ Calm(Gauging(call, field, role))
<1>1. ASSUME NEW c, DOMAIN c = DOMAIN call, c.op = call.op, c.args = call.args
      PROVE  Calm(c)
  BY <1>1, Zenon DEF Calm
<1>2. {"op", "args"} \subseteq DOMAIN call
  BY DEF Calm
<1> DEFINE g == [call EXCEPT !.gauge = field]
<1>3. DOMAIN g = DOMAIN call /\ g.op = call.op /\ g.args = call.args
  BY <1>2
<1> HIDE DEF g
<1>4. LET d == [g EXCEPT !.of = role]
      IN  DOMAIN d = DOMAIN call /\ d.op = call.op /\ d.args = call.args
  BY <1>2, <1>3
<1>5. Gauging(call, field, role) = [g EXCEPT !.of = role]
  BY DEF Gauging, g
<1>6. LET d == [call EXCEPT !.sets = sets]
      IN  DOMAIN d = DOMAIN call /\ d.op = call.op /\ d.args = call.args
  BY <1>2
<1> QED
  BY <1>1, <1>4, <1>5, <1>6, Zenon DEF Setting

\* Lists of such calls.
AllCalm(list) == IsList(list) /\ \A k \in 1..Len(list) : Calm(list[k])

LEMMA CalmLists ==
    ASSUME NEW a, Calm(a), NEW b, Calm(b), NEW c, Calm(c), NEW d, Calm(d),
           NEW e, Calm(e), NEW f, Calm(f), NEW g, Calm(g)
    PROVE  /\ AllCalm(<<a>>) /\ AllCalm(<<a, b, c, d>>) /\ AllCalm(<<a, b, c, d, e>>)
           /\ AllCalm(<<a, b, c, d, e, f, g>>)
<1>1. ASSUME NEW list, NEW n \in Nat, list = [k \in 1..n |-> list[k]],
             \A k \in 1..n : list[k] \in {a, b, c, d, e, f, g}
      PROVE  AllCalm(list)
  <2>1. IsList(list) /\ Len(list) = n
    BY <1>1, FunctionList, Zenon
  <2>2. \A x \in {a, b, c, d, e, f, g} : Calm(x)
    OBVIOUS
  <2> QED
    BY <1>1, <2>1, <2>2, Zenon DEF AllCalm
<1>2. /\ 4 \in Nat /\ <<a, b, c, d>> = [k \in 1..4 |-> <<a, b, c, d>>[k]]
      /\ \A k \in 1..4 : <<a, b, c, d>>[k] \in {a, b, c, d, e, f, g}
  OBVIOUS
<1>3. /\ 5 \in Nat /\ <<a, b, c, d, e>> = [k \in 1..5 |-> <<a, b, c, d, e>>[k]]
      /\ \A k \in 1..5 : <<a, b, c, d, e>>[k] \in {a, b, c, d, e, f, g}
  OBVIOUS
<1>4. /\ 7 \in Nat /\ <<a, b, c, d, e, f, g>> = [k \in 1..7 |-> <<a, b, c, d, e, f, g>>[k]]
      /\ \A k \in 1..7 : <<a, b, c, d, e, f, g>>[k] \in {a, b, c, d, e, f, g}
  OBVIOUS
<1>5. /\ 1 \in Nat /\ <<a>> = [k \in 1..1 |-> <<a>>[k]]
      /\ \A k \in 1..1 : <<a>>[k] \in {a, b, c, d, e, f, g}
  OBVIOUS
<1> QED
  BY <1>1, <1>2, <1>3, <1>4, <1>5, Zenon

\* What follows the surface in a script.
Rest(name) ==
    CASE name = "snapshot"     -> Snapshot
      [] name = "flow"         -> Flow
      [] name = "cancel"       -> Cancellation
      [] name = "fee-rotation" -> FeeRotation

LEMMA RestCalm ==
    ASSUME ScriptArguments, NEW name \in KnownScenarios
    PROVE  AllCalm(Rest(name))
<1> DEFINE n100 == 100
           n180 == 180
           n200 == 200
           n280 == 280
           n300 == 300
           n350 == 350
           n700 == 700
           n800 == 800
<1>1. "blue-route" \in RouteNames /\ n350 \in BpsValues
  BY DEF ScriptArguments
<1>2. /\ n100 \in CallAmounts /\ n180 \in CallAmounts /\ n280 \in CallAmounts
      /\ n300 \in CallAmounts /\ n700 \in CallAmounts /\ n800 \in CallAmounts
  BY DEF ScriptArguments
<1> HIDE DEF n100, n180, n200, n280, n300, n350, n700, n800
<1>3. "origin" \in Roles /\ "aux" \in Roles /\ "sponsor" \in Roles /\ "beneficiary" \in Roles
  BY DEF Roles
<1>4. Calm(Capture) /\ Calm(Cancel)
  BY CalmCalls, Zenon
<1>5. /\ Calm(Transfer("aux", "origin", n100)) /\ Calm(Consolidate("origin", "aux"))
      /\ Calm(Withdrawal("origin", n280)) /\ Calm(Withdrawal("origin", n180))
      /\ Calm(Close("blue-route")) /\ Calm(Reprice("blue-route", n350))
  BY CalmCalls, <1>1, <1>2, <1>3, Zenon
<1>6. /\ Calm(Issue("origin", "beneficiary", n700)) /\ Calm(Settle("origin"))
      /\ Calm(Issue("origin", "beneficiary", n300))
      /\ Calm(Issue("sponsor", "beneficiary", n800)) /\ Calm(Settle("sponsor"))
  BY CalmCalls, <1>1, <1>2, <1>3, Zenon
<1>7. AllCalm(Snapshot)
  BY <1>4, CalmLists, Zenon DEF Snapshot
<1>8. AllCalm(Flow)
  <2>1. Calm(Gauging(Issue("origin", "beneficiary", n700), "available_before", "origin"))
    BY <1>6, CalmRecording, Zenon
  <2>2. Calm(Gauging(Setting(Settle("origin"), [settlement_accepted |-> TRUE]),
                     "available_after", "origin"))
    BY <1>6, CalmRecording, Zenon
  <2>3. /\ Calm(Setting(Withdrawal("origin", n280), [withdrawn |-> n280]))
        /\ Calm(Setting(Close("blue-route"), [route_closed |-> TRUE]))
    BY <1>5, CalmRecording, Zenon
  <2>4. AllCalm(<<Capture, Transfer("aux", "origin", n100), Consolidate("origin", "aux"),
                  Gauging(Issue("origin", "beneficiary", n700), "available_before", "origin"),
                  Gauging(Setting(Settle("origin"), [settlement_accepted |-> TRUE]),
                          "available_after", "origin"),
                  Setting(Withdrawal("origin", n280), [withdrawn |-> n280]),
                  Setting(Close("blue-route"), [route_closed |-> TRUE])>>)
    BY <1>4, <1>5, <2>1, <2>2, <2>3, CalmLists, Zenon
  <2> QED
    BY <2>4 DEF Flow, n100, n280, n700
<1>9. AllCalm(Cancellation)
  <2>1. Calm(Gauging(Issue("origin", "beneficiary", n300), "available_before", "origin"))
    BY <1>6, CalmRecording, Zenon
  <2>2. Calm(Gauging(Setting(Cancel, [cancelled_gross |-> n300]), "available_after", "origin"))
    BY <1>4, CalmRecording, Zenon
  <2>3. /\ Calm(Setting(Withdrawal("origin", n180), [withdrawn |-> n180]))
        /\ Calm(Setting(Close("blue-route"), [route_closed |-> TRUE]))
    BY <1>5, CalmRecording, Zenon
  <2>4. AllCalm(<<Capture,
                  Gauging(Issue("origin", "beneficiary", n300), "available_before", "origin"),
                  Gauging(Setting(Cancel, [cancelled_gross |-> n300]),
                          "available_after", "origin"),
                  Setting(Withdrawal("origin", n180), [withdrawn |-> n180]),
                  Setting(Close("blue-route"), [route_closed |-> TRUE])>>)
    BY <1>4, <2>1, <2>2, <2>3, CalmLists, Zenon
  <2> QED
    BY <2>4 DEF Cancellation, n180, n300
<1>10. AllCalm(FeeRotation)
  <2>1. Calm(Setting(Capture, [fee_before_bps |-> n200]))
    BY <1>4, CalmRecording, Zenon
  <2>2. Calm(Setting(Reprice("blue-route", n350),
                     [fee_after_bps |-> n350, fee_update_applied |-> TRUE]))
    BY <1>5, CalmRecording, Zenon
  <2>3. Calm(Gauging(Issue("sponsor", "beneficiary", n800), "available_before", "sponsor"))
    BY <1>6, CalmRecording, Zenon
  <2>4. Calm(Gauging(Setting(Settle("sponsor"), [settlement_accepted |-> TRUE]),
                     "available_after", "sponsor"))
    BY <1>6, CalmRecording, Zenon
  <2>5. AllCalm(<<Setting(Capture, [fee_before_bps |-> n200]),
                  Setting(Reprice("blue-route", n350),
                          [fee_after_bps |-> n350, fee_update_applied |-> TRUE]),
                  Gauging(Issue("sponsor", "beneficiary", n800), "available_before", "sponsor"),
                  Gauging(Setting(Settle("sponsor"), [settlement_accepted |-> TRUE]),
                          "available_after", "sponsor")>>)
    BY <2>1, <2>2, <2>3, <2>4, CalmLists, Zenon
  <2> QED
    BY <2>5 DEF FeeRotation, n200, n350, n800
<1>11. \/ Rest(name) = Snapshot \/ Rest(name) = Flow
       \/ Rest(name) = Cancellation \/ Rest(name) = FeeRotation
  BY DEF Rest, KnownScenarios
<1> QED
  BY <1>7, <1>8, <1>9, <1>10, <1>11, Zenon

\* Every call of a script has arguments of Ledger's callers, and a deposit is as planned.
LEMMA ScriptPlanned ==
    ASSUME ScriptArguments, NEW name \in KnownScenarios
    PROVE  /\ IsList(Script(name)) /\ Len(Script(name)) \in Nat
           /\ \A k \in 1..Len(Script(name)) : Planned(k, Script(name)[k])
<1>1. Script(name) = Surface \o Rest(name)
  BY Zenon DEF Script, Rest
<1>2. IsList(Rest(name)) /\ \A k \in 1..Len(Rest(name)) : Calm(Rest(name)[k])
  BY RestCalm, Zenon DEF AllCalm
<1>3. IsList(Surface) /\ Len(Surface) = 12
  <2>1. Surface = [k \in 1..12 |-> Surface[k]]
    BY DEF Surface
  <2> QED
    BY <2>1, FunctionList
<1>4. \A k \in 1..12 : Planned(k, Surface[k])
  BY SurfacePlanned
<1>5. \A k, call : Calm(call) => Planned(k, call)
  BY DEF Calm, Planned, Affords
<1>6. Len(Rest(name)) \in Nat
  BY <1>2 DEF IsList
<1> DEFINE s == Surface
           r == Rest(name)
<1> HIDE DEF s, r
<1> DEFINE t == s \o r
           ns == Len(s)
           nr == Len(r)
<1>7. ns = 12 /\ IsList(s) /\ IsList(r)
  BY <1>2, <1>3, Zenon DEF s, r
<1>8. /\ nr \in Nat /\ IsList(t) /\ Len(t) = ns + nr
      /\ \A k \in 1..ns : t[k] = s[k]
      /\ \A k \in (ns + 1)..(ns + nr) : t[k] = r[k - ns]
  BY <1>7, ListConcat, Zenon
<1>9. Script(name) = t
  BY <1>1, Zenon DEF s, r
<1>10. \A k \in 1..nr : Calm(r[k])
  BY <1>2, Zenon DEF r
<1> HIDE DEF t, ns, nr
<1>11. ASSUME NEW k \in 1..Len(t) PROVE Planned(k, t[k])
  <2>1. CASE k \in 1..12
    <3>1. t[k] = s[k]
      BY <1>7, <1>8, <2>1
    <3> QED
      BY <1>4, <2>1, <3>1, Zenon DEF s
  <2>2. CASE k \notin 1..12
    <3> DEFINE j == k - ns
    <3>1. j \in 1..nr /\ k \in (ns + 1)..(ns + nr)
      BY <1>7, <1>8, <2>2
    <3>2. t[k] = r[j]
      BY <1>8, <3>1, Zenon
    <3> HIDE DEF j
    <3> QED
      BY <1>5, <1>10, <3>1, <3>2, Zenon
  <2> QED
    BY <2>1, <2>2
<1>12. Len(t) \in Nat
  BY <1>7, <1>8
<1> QED
  BY <1>8, <1>9, <1>11, <1>12, Zenon

\* The handles are indexes that callers of the ledger have.
HandlesOK ==
    /\ DOMAIN handles = Roles \cup {"receipt"}
    /\ \A r \in Roles : handles[r] \in CellArgs
    /\ handles["receipt"] \in ReceiptArgs

\* A deposit, if the call is one, that Ledger's callers may make.
WithinSupply(op, a) == op = "deposit" => totals.initial_supply + a.amount <= MaxSupply

(***************************************************************************)
(* Whatever a scenario calls is a step of Ledger.                          *)
(***************************************************************************)
LEMMA CallIsNext ==
    ASSUME ScriptArguments, HandlesOK, NEW op, NEW a, Fits(op, a), WithinSupply(op, a),
           CallLedger(op, a)
    PROVE  [Next]_vars
<1>1. Asset \in AssetNames
  BY DEF ScriptArguments
<1>2. ASSUME op = "add_policy"
      PROVE  Setup \/ ~AddPolicy(a.name, a.flags, a.min_reserve, a.max_exit_bps)
  <2>1. /\ a.name \in PolicyNames /\ a.flags \in Flags
        /\ a.min_reserve \in MinReserves /\ a.max_exit_bps \in BpsValues
    BY <1>2 DEF Fits
  <2> QED
    BY <2>1, Zenon DEF Setup
<1>3. ASSUME op = "add_route"
      PROVE  Setup \/ ~AddRoute(a.name, Asset, a.policy, a.fee_bps, FeeCell(a.fee_role))
  <2>1. /\ a.name \in RouteNames /\ a.policy \in PolicyNames
        /\ a.fee_bps \in BpsValues /\ FeeRole(a.fee_role)
    BY <1>3 DEF Fits
  <2>2. NoIndex \in CellArgs
    BY DEF CellArgs
  <2>3. FeeCell(a.fee_role) \in CellArgs
    BY <2>1, <2>2, Zenon DEF FeeRole, FeeCell, HandlesOK
  <2> QED
    BY <1>1, <2>1, <2>3, Zenon DEF Setup
<1>4. ASSUME op = "create_cell" PROVE Setup \/ ~CreateCell(a.owner, Asset, a.route, a.policy)
  <2>1. a.owner \in OwnerNames /\ a.route \in RouteNames /\ a.policy \in PolicyNames
    BY <1>4 DEF Fits
  <2> QED
    BY <1>1, <2>1, Zenon DEF Setup
<1>5. ASSUME op = "deposit" PROVE Movement \/ ~DepositGenesis(handles[a.role], a.amount)
  <2>1. a.role \in Roles /\ a.amount \in CallAmounts
    BY <1>5 DEF Fits
  <2> QED
    BY <1>5, <2>1, Zenon DEF Movement, HandlesOK, WithinSupply
<1>6. ASSUME op = "transfer"
      PROVE  Movement \/ ~TransferBetweenCells(handles[a.from], handles[a.to], a.amount)
  <2>1. a.from \in Roles /\ a.to \in Roles /\ a.amount \in CallAmounts
    BY <1>6 DEF Fits
  <2> QED
    BY <2>1, Zenon DEF Movement, HandlesOK
<1>7. ASSUME op = "consolidate" PROVE Movement \/ ~ConsolidateCell(handles[a.to], handles[a.from])
  <2>1. a.from \in Roles /\ a.to \in Roles
    BY <1>7 DEF Fits
  <2> QED
    BY <2>1, Zenon DEF Movement, HandlesOK
<1>8. ASSUME op = "withdraw" PROVE Movement \/ ~Withdraw(handles[a.role], a.amount)
  <2>1. a.role \in Roles /\ a.amount \in CallAmounts
    BY <1>8 DEF Fits
  <2> QED
    BY <2>1, Zenon DEF Movement, HandlesOK
<1>9. ASSUME op = "issue"
      PROVE  ReceiptLife \/ ~IssueReceipt(handles[a.from], handles[a.to], a.gross)
  <2>1. a.from \in Roles /\ a.to \in Roles /\ a.gross \in CallAmounts
    BY <1>9 DEF Fits
  <2> QED
    BY <2>1, Zenon DEF ReceiptLife, HandlesOK
<1>10. ASSUME op = "settle"
       PROVE  ReceiptLife \/ ~SettleReceipt(handles["receipt"], handles[a.payer])
  <2>1. a.payer \in Roles
    BY <1>10 DEF Fits
  <2> QED
    BY <2>1, Zenon DEF ReceiptLife, HandlesOK
<1>11. ReceiptLife \/ ~CancelReceipt(handles["receipt"])
  BY Zenon DEF ReceiptLife, HandlesOK
<1>12. ASSUME op = "update_fee"
       PROVE  RouteControl \/ ~UpdateRouteFee(a.route, a.fee_bps, handles["treasury"])
  <2>1. a.route \in RouteNames /\ a.fee_bps \in BpsValues /\ "treasury" \in Roles
    BY <1>12 DEF Fits, Roles
  <2> QED
    BY <2>1, Zenon DEF RouteControl, HandlesOK
<1>13. ASSUME op = "close" PROVE RouteControl \/ ~CloseRoute(a.route)
  <2>1. a.route \in RouteNames
    BY <1>13 DEF Fits
  <2> QED
    BY <2>1, Zenon DEF RouteControl
<1> QED
  BY <1>2, <1>3, <1>4, <1>5, <1>6, <1>7, <1>8, <1>9, <1>10, <1>11, <1>12, <1>13, Zenon
     DEF CallLedger, Next

\* The index that a call returns is a slot.
LEMMA CallKeepsHandles ==
    ASSUME TypeOK, HandlesOK, NEW op, NEW a, Fits(op, a), CallLedger(op, a),
           handles' = Returned(op, a)
    PROVE  HandlesOK'
<1>1. CASE last_error' # "PDTL_OK"
  <2>1. handles' = handles
    BY <1>1 DEF Returned
  <2> QED
    BY <2>1 DEF HandlesOK, CellArgs, ReceiptArgs, Roles
<1>2. \A error : Reject(error) => last_error' # "PDTL_OK"
  BY DEF Reject
<1>3. CASE last_error' = "PDTL_OK" /\ op = "create_cell"
  <2>1. CreateCell(a.owner, Asset, a.route, a.policy) /\ a.role \in Roles
    BY <1>3 DEF CallLedger, Fits
  <2>2. CreateCellError(a.owner, Asset, a.route, a.policy) = "PDTL_OK"
    BY <1>2, <1>3, <2>1, Zenon DEF CreateCell
  <2>3. cell_count < MaxCells
    <3>1. cell_count \in Nat /\ MaxCells \in Nat
      BY LedgerAssumption DEF TypeOK, CellsTyped
    <3> QED
      BY <2>2, <3>1 DEF CreateCellError
  <2>4. cell_count \in CellArgs
    BY <2>3, LedgerAssumption DEF TypeOK, CellsTyped, CellArgs, CellSlots
  <2>5. handles' = [handles EXCEPT ![a.role] = cell_count]
    BY <1>3 DEF Returned
  <2> QED
    BY <2>1, <2>4, <2>5 DEF HandlesOK, CellArgs, ReceiptArgs, Roles
<1>4. CASE last_error' = "PDTL_OK" /\ op = "issue"
  <2>1. IssueReceipt(handles[a.from], handles[a.to], a.gross)
    BY <1>4 DEF CallLedger
  <2>2. IssueError(handles[a.from], handles[a.to], a.gross) = "PDTL_OK"
    BY <1>2, <1>4, <2>1, Zenon DEF IssueReceipt
  <2>3. receipt_count < MaxReceipts
    <3>1. receipt_count \in Nat /\ MaxReceipts \in Nat
      BY LedgerAssumption DEF TypeOK, ReceiptsTyped
    <3> QED
      BY <2>2, <3>1 DEF IssueError
  <2>4. receipt_count \in ReceiptArgs
    BY <2>3, LedgerAssumption DEF TypeOK, ReceiptsTyped, ReceiptArgs, ReceiptSlots
  <2>5. handles' = [handles EXCEPT !["receipt"] = receipt_count]
    BY <1>4 DEF Returned
  <2> QED
    BY <2>4, <2>5 DEF HandlesOK, CellArgs, ReceiptArgs, Roles
<1>5. CASE last_error' = "PDTL_OK" /\ op \notin {"create_cell", "issue"}
  <2>1. handles' = handles
    BY <1>5 DEF Returned
  <2> QED
    BY <2>1 DEF HandlesOK, CellArgs, ReceiptArgs, Roles
<1> QED
  BY <1>1, <1>3, <1>4, <1>5

\* Only a deposit makes supply, and no more than it says.
LEMMA CallPays ==
    ASSUME TypeOK, NEW op, NEW a, Fits(op, a), CallLedger(op, a)
    PROVE  /\ totals.initial_supply \in Nat /\ totals'.initial_supply \in Int
           /\ op # "deposit" => totals'.initial_supply = totals.initial_supply
           /\ op = "deposit" => /\ a.amount \in Nat
                                /\ \/ totals'.initial_supply = totals.initial_supply
                                   \/ totals'.initial_supply <= totals.initial_supply + a.amount
<1>1. totals.initial_supply \in Amount /\ totals \in TotalsRecord
  BY DEF TypeOK, TotalsRecord
<1>2. totals.initial_supply \in Nat
  BY <1>1, AmountAssumption DEF Amount
<1>3. ASSUME UNCHANGED totals
      PROVE  totals'.initial_supply = totals.initial_supply
  BY <1>3
<1>4. \A error : Reject(error) => UNCHANGED totals
  BY DEF Reject
<1>5. CASE op = "deposit"
  <2>1. DepositGenesis(handles[a.role], a.amount) /\ a.amount \in Nat
    <3>1. DepositGenesis(handles[a.role], a.amount)
      BY <1>5 DEF CallLedger
    <3>2. a.amount \in CallAmounts
      BY <1>5 DEF Fits
    <3>3. CallAmounts \subseteq Amount
      BY LedgerAssumption
    <3>4. Amount \subseteq Nat
      BY AmountAssumption DEF Amount
    <3> QED
      BY <3>1, <3>2, <3>3, <3>4, Zenon
  <2>2. \/ UNCHANGED totals
        \/ totals' = [totals EXCEPT !.initial_supply = Plus(@, a.amount)]
    BY <1>4, <2>1, Zenon DEF DepositGenesis
  <2>3. /\ Plus(totals.initial_supply, a.amount) \in Nat
        /\ Plus(totals.initial_supply, a.amount) <= totals.initial_supply + a.amount
    <3> DEFINE n == totals.initial_supply + a.amount
    <3>1. n \in Nat
      BY <1>2, <2>1
    <3>2. AmountModulus \in Nat \ {0}
      BY AmountAssumption
    <3> HIDE DEF n
    <3>3. n % AmountModulus \in Nat /\ n % AmountModulus <= n
      BY <3>1, <3>2
    <3> QED
      BY <3>3 DEF Plus, n
  <2> QED
    BY <1>1, <1>2, <1>3, <1>5, <2>1, <2>2, <2>3 DEF TotalsRecord
<1>6. CASE op = "withdraw"
  <2>1. Withdraw(handles[a.role], a.amount)
    BY <1>6 DEF CallLedger
  <2>2. \/ UNCHANGED totals
        \/ totals' = [totals EXCEPT !.external_withdrawals = Plus(@, a.amount)]
    BY <1>4, <2>1, Zenon DEF Withdraw
  <2> QED
    BY <1>1, <1>2, <1>3, <1>6, <2>2 DEF TotalsRecord
<1>7. CASE op \notin {"deposit", "withdraw"}
  <2>1. UNCHANGED totals
    <3>1. UNCHANGED vars => UNCHANGED totals
      BY DEF vars
    <3>2. op # "deposit" /\ op # "withdraw"
      BY <1>7
    <3> QED
      BY <1>4, <3>1, <3>2, Zenon
         DEF CallLedger, AddPolicy, AddRoute, CreateCell, TransferBetweenCells, ConsolidateCell,
             IssueReceipt, SettleReceipt, CancelReceipt, UpdateRouteFee, CloseRoute
  <2> QED
    BY <1>2, <1>3, <1>7, <2>1
<1> QED
  BY <1>5, <1>6, <1>7

\* The calls made so far, and that the others are the rest of the script.
Made == Len(Script(Scenario)) - Len(todo)

FollowsScript ==
    /\ Scenario \in KnownScenarios
    /\ IsList(todo) /\ Len(todo) <= Len(Script(Scenario))
    /\ \A k \in 1..Len(todo) : todo[k] = Script(Scenario)[Made + k]
    /\ totals.initial_supply <= Paid(Made)

CallerInv ==
    /\ TypeOK /\ HandlesOK
    /\ phase = "start" => totals.initial_supply = 0
    /\ phase = "calls" => FollowsScript

LEMMA CallerInit == ProgramInit => CallerInv
<1> SUFFICES ASSUME ProgramInit PROVE CallerInv
  OBVIOUS
<1>1. TypeOK
  BY InitType DEF ProgramInit
<1>2. handles = NoHandles
  BY DEF ProgramInit
<1>3. HandlesOK
  BY <1>2 DEF HandlesOK, NoHandles, CellArgs, ReceiptArgs
<1>4. phase = "start" /\ totals.initial_supply = 0
  BY DEF ProgramInit, Init
<1> QED
  BY <1>1, <1>3, <1>4 DEF CallerInv

\* A deposit as planned leaves the supply within what is paid.
LEMMA AffordedPays ==
    ASSUME ScriptArguments, NEW k \in Nat, NEW j, j = k + 1, NEW call, Affords(j, call),
           NEW before \in Nat, before <= Paid(k), NEW after \in Int,
           call.op # "deposit" => after = before,
           call.op = "deposit" =>
              /\ call.args.amount \in Nat
              /\ after = before \/ after <= before + call.args.amount
    PROVE  /\ call.op = "deposit" => before + call.args.amount <= MaxSupply
           /\ after <= Paid(j)
<1> DEFINE amount == call.args.amount
           paid == Paid(k)
           due == Paid(j)
<1>1. j - 1 = k /\ paid <= due /\ paid \in Nat /\ due \in 0..3200
  BY DEF Paid
<1>2. 3200 <= MaxSupply /\ MaxSupply \in Nat
  BY LedgerAssumption DEF ScriptArguments
<1>3. call.op = "deposit" => paid + amount <= due
  <2>1. call.op = "deposit" => Paid(j - 1) + call.args.amount <= Paid(j)
    BY Zenon DEF Affords
  <2>2. Paid(j - 1) = Paid(k)
    BY <1>1
  <2> QED
    BY <2>1, <2>2, Zenon
<1>4. before <= paid
  OBVIOUS
<1>5. call.op = "deposit" => amount \in Nat /\ (after = before \/ after <= before + amount)
  OBVIOUS
<1> HIDE DEF amount, paid, due
<1>6. /\ call.op = "deposit" => before + amount <= MaxSupply
      /\ after <= due
  BY <1>1, <1>2, <1>3, <1>4, <1>5
<1> QED
  BY <1>6 DEF amount, due

\* One call of the script.
LEMMA NextCallCalls ==
    ASSUME ScriptArguments, CallerInv, NextCall
    PROVE  [Next]_vars /\ CallerInv'
<1> DEFINE call == Head(todo)
           script == Script(Scenario)
           n == Len(script)
           m == Len(todo)
<1>1. /\ phase = "calls" /\ todo # <<>> /\ todo' = Tail(todo) /\ phase' = AfterCall
      /\ argv' = argv /\ Perform(call)
  BY DEF NextCall
<1>2. TypeOK /\ HandlesOK /\ FollowsScript
  BY <1>1 DEF CallerInv
<1>3. CallLedger(call.op, call.args) /\ handles' = Returned(call.op, call.args)
  BY <1>1 DEF Perform
<1>4. IsList(script) /\ n \in Nat /\ \A k \in 1..n : Planned(k, script[k])
  BY <1>2, ScriptPlanned, Zenon DEF FollowsScript
<1>5. /\ IsList(todo) /\ m \in Nat /\ m > 0 /\ call = todo[1]
      /\ IsList(Tail(todo)) /\ Len(Tail(todo)) = m - 1
      /\ \A k \in 1..(m - 1) : Tail(todo)[k] = todo[k + 1]
  BY <1>1, <1>2, ListParts, Zenon DEF FollowsScript
<1>6. Scenario' = Scenario /\ KnownScenarios' = KnownScenarios
  BY <1>1 DEF Scenario, ScenarioName, KnownScenarios
<1>7. Made = n - m /\ m <= n /\ \A k \in 1..m : todo[k] = script[Made + k]
  BY <1>2 DEF FollowsScript, Made
<1>8. Made \in Nat /\ Made + 1 \in 1..n /\ call = script[Made + 1]
  <2> HIDE DEF script, n, m, call
  <2>1. Made \in Nat /\ Made + 1 \in 1..n /\ 1 \in 1..m
    BY <1>4, <1>5, <1>7
  <2> QED
    BY <1>5, <1>7, <2>1
<1>9. Fits(call.op, call.args) /\ Affords(Made + 1, call)
  BY <1>4, <1>8 DEF Planned
<1>10. totals.initial_supply <= Paid(Made) /\ totals.initial_supply \in Nat
  BY <1>2 DEF FollowsScript, TypeOK, TotalsRecord, Amount
<1>11. /\ totals'.initial_supply \in Int
       /\ call.op # "deposit" => totals'.initial_supply = totals.initial_supply
       /\ call.op = "deposit" =>
             /\ call.args.amount \in Nat
             /\ \/ totals'.initial_supply = totals.initial_supply
                \/ totals'.initial_supply <= totals.initial_supply + call.args.amount
  BY <1>2, <1>3, <1>9, CallPays, Zenon
<1>12. /\ call.op = "deposit" => totals.initial_supply + call.args.amount <= MaxSupply
       /\ totals'.initial_supply <= Paid(Made + 1)
  <2> HIDE DEF call
  <2> QED
    <3> DEFINE j == Made + 1
    <3>1. j = Made + 1
      OBVIOUS
    <3>2. Affords(j, call)
      BY <1>9
    <3> HIDE DEF j
    <3>3. Made \in Nat /\ totals.initial_supply \in Nat /\ totals.initial_supply <= Paid(Made)
      BY <1>8, <1>10
    <3>4. /\ call.op = "deposit" => totals.initial_supply + call.args.amount <= MaxSupply
          /\ totals'.initial_supply <= Paid(j)
      BY <3>1, <3>2, <3>3, <1>11, AffordedPays, Zenon
    <3> QED
      BY <3>4 DEF j
<1>13. WithinSupply(call.op, call.args)
  BY <1>12, Zenon DEF WithinSupply
<1>14. [Next]_vars
  BY <1>2, <1>3, <1>9, <1>13, CallIsNext, Zenon
<1>15. TypeOK'
  BY <1>2, <1>14, NextType
<1>16. HandlesOK'
  BY <1>2, <1>3, <1>9, CallKeepsHandles, Zenon
<1>17. Made' = Made + 1
  <2> DEFINE left == Len(Tail(todo))
  <2>1. Made' = n - left
    BY <1>1, <1>6, Zenon DEF Made
  <2>2. n \in Nat /\ m \in Nat /\ left = m - 1 /\ Made = n - m
    BY <1>4, <1>5, <1>7, Zenon
  <2> HIDE DEF script, n, m, left
  <2>3. n - left = Made + 1
    BY <2>2
  <2> QED
    BY <2>1, <2>3, Zenon
<1>18. \A k \in 1..(m - 1) : Tail(todo)[k] = script[Made + 1 + k]
  <2> HIDE DEF script, n, m
  <2> TAKE k \in 1..(m - 1)
  <2>1. k + 1 \in 1..m /\ Made + (k + 1) = Made + 1 + k
    BY <1>5, <1>8
  <2> QED
    BY <1>5, <1>7, <2>1
<1>19. FollowsScript'
  <2>1. /\ todo' = Tail(todo) /\ Len(Tail(todo)) = m - 1 /\ m - 1 <= n
        /\ Script(Scenario)' = script
    BY <1>1, <1>4, <1>5, <1>6, <1>7
  <2> QED
    BY <1>2, <1>5, <1>6, <1>12, <1>17, <1>18, <2>1 DEF FollowsScript
<1>20. phase' # "start"
  BY <1>1 DEF AfterCall
<1> QED
  BY <1>14, <1>15, <1>16, <1>19, <1>20 DEF CallerInv

\* What leaves the ledger and the handles alone keeps their part of the invariant.
LEMMA CallerFrame ==
    ASSUME CallerInv, UNCHANGED <<vars, handles>>
    PROVE  TypeOK' /\ HandlesOK'
<1>1. TypeOK'
  BY NextType DEF CallerInv
<1>2. HandlesOK'
  BY DEF CallerInv, HandlesOK, CellArgs, ReceiptArgs, Roles
<1> QED
  BY <1>1, <1>2

\* The choice of a scenario, and that of none, which Ledger's callers can make too.
LEMMA ChooseCalls ==
    ASSUME ScriptArguments, CallerInv, Choose
    PROVE  [Next]_vars /\ CallerInv'
<1>1. /\ phase = "start" /\ argv' = argv /\ handles' = handles
      /\ UNCHANGED <<policies, routes, cells, cell_count, receipts, receipt_count,
                     journal, totals>>
  BY DEF Choose
<1>2. CASE Scenario \in KnownScenarios
  <2>1. phase' = "calls" /\ todo' = Script(Scenario) /\ last_error' = last_error
    BY <1>2 DEF Choose
  <2>2. UNCHANGED vars
    BY <1>1, <2>1 DEF vars
  <2>3. TypeOK' /\ HandlesOK'
    BY <1>1, <2>2, CallerFrame
  <2>4. Scenario' = Scenario /\ KnownScenarios' = KnownScenarios
    BY <1>1 DEF Scenario, ScenarioName, KnownScenarios
  <2> DEFINE script == Script(Scenario)
             n == Len(script)
  <2>5. IsList(script) /\ n \in Nat
    BY <1>2, ScriptPlanned, Zenon
  <2>6. Made' = n - n
    BY <2>1, <2>4, Zenon DEF Made
  <2>7. todo' = script /\ Script(Scenario)' = script
    BY <2>1, <2>4
  <2> HIDE DEF script, n
  <2>8. Made' = 0
    BY <2>5, <2>6
  <2>9. n <= n /\ \A k \in 1..n : script[k] = script[0 + k]
    BY <2>5
  <2>10. totals'.initial_supply <= Paid(0)
    BY <1>1 DEF CallerInv, Paid
  <2>11. FollowsScript'
    <3>1. /\ IsList(todo') /\ Len(todo') <= Len(Script(Scenario)')
          /\ \A k \in 1..Len(todo') : todo'[k] = (Script(Scenario)')[Made' + k]
      BY <2>5, <2>7, <2>8, <2>9, Zenon DEF n
    <3> QED
      BY <1>2, <2>4, <2>8, <2>10, <3>1, Zenon DEF FollowsScript
  <2> QED
    BY <2>1, <2>2, <2>3, <2>11 DEF CallerInv
<1>3. CASE Scenario \notin KnownScenarios
  <2>1. phase' = "failed" /\ last_error' = "PDTL_ERR_ARGUMENT"
    BY <1>3 DEF Choose
  <2>2. Reject("PDTL_ERR_ARGUMENT")
    BY <1>1, <2>1 DEF Reject
  <2>3. \A f, m, b : AddPolicy(NoName, f, m, b)
    BY <2>2 DEF AddPolicy, AddPolicyError
  <2>4. {"TREASURY", "WITHDRAW"} \in Flags /\ 0 \in MinReserves /\ 0 \in BpsValues
    BY DEF ScriptArguments
  <2>5. [Next]_vars
    BY <2>3, <2>4, Zenon DEF Next, Setup
  <2>6. TypeOK'
    BY <2>5, NextType DEF CallerInv
  <2>7. HandlesOK'
    BY <1>1 DEF CallerInv, HandlesOK, CellArgs, ReceiptArgs, Roles
  <2> QED
    BY <2>1, <2>5, <2>6, <2>7 DEF CallerInv
<1> QED
  BY <1>2, <1>3

LEMMA ProgramStepCalls ==
    ASSUME ScriptArguments, CallerInv, [ProgramNext]_programVars
    PROVE  [Next]_vars /\ CallerInv'
<1>1. ASSUME UNCHANGED <<vars, handles>>, phase' \notin {"start", "calls"}
      PROVE  [Next]_vars /\ CallerInv'
  BY <1>1, CallerFrame DEF CallerInv
<1>2. CASE Choose
  BY <1>2, ChooseCalls
<1>3. CASE NextCall
  BY <1>3, NextCallCalls
<1>4. CASE TooManyArguments \/ Help \/ ReportError
  BY <1>1, <1>4 DEF TooManyArguments, Help, ReportError, Exit, scenarioVars
<1>5. CASE BeginReport
  BY <1>1, <1>5 DEF BeginReport, scenarioVars
<1>6. CASE NextWrite
  <2>1. /\ UNCHANGED <<vars, handles>> /\ phase = "writes"
        /\ phase' = "exit" \/ phase' = phase
    BY <1>6 DEF NextWrite, scenarioVars, Exit
  <2> QED
    BY <1>1, <2>1
<1>7. CASE UNCHANGED programVars
  <2>1. UNCHANGED <<vars, handles, phase, todo, argv>>
    BY <1>7 DEF programVars, scenarioVars, mainVars
  <2>2. TypeOK' /\ HandlesOK'
    BY <2>1, CallerFrame
  <2>3. UNCHANGED totals
    BY <2>1 DEF vars
  <2>4. FollowsScript' = FollowsScript
    BY <2>1, <2>3 DEF FollowsScript, Made, Scenario
  <2> QED
    BY <2>1, <2>2, <2>3, <2>4 DEF CallerInv
<1> QED
  BY <1>2, <1>3, <1>4, <1>5, <1>6, <1>7 DEF ProgramNext

(***************************************************************************)
(* The program is a caller of the ledger: whatever it does, its ledger     *)
(* goes through a behaviour of Ledger (pdtl_run_scenario makes calls of    *)
(* src/pdtl_ledger.c and touches no field of it).                          *)
(***************************************************************************)
THEOREM ProgramCallsLedger ==
    ASSUME ScriptArguments
    PROVE  ProgramSpec => Spec
<1>1. CallerInv /\ [ProgramNext]_programVars => [Next]_vars /\ CallerInv'
  BY ProgramStepCalls
<1>2. ProgramInit => Init
  BY DEF ProgramInit
<1> QED
  BY <1>1, <1>2, CallerInit, PTL DEF ProgramSpec, Spec

=============================================================================
