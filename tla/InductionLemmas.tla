--------------------------- MODULE InductionLemmas ---------------------------
(***************************************************************************)
(* Induction for the other proof modules, in the form of the least         *)
(* counterexample and stated of sets and functions, so that it can be      *)
(* used without an operator parameter; and what it gives: a recursive      *)
(* function over an interval exists; what a loop that filters a list       *)
(* returns; the laws of sums over finite sets, and the inequality of       *)
(* Cauchy and Schwarz; greatest elements; counts by value; and what the    *)
(* fold of a list, a recursion over the subsets of its places, computes.   *)
(***************************************************************************)
EXTENDS Integers, Sequences, FiniteSets, FiniteSetTheorems, FunctionTheorems, SequenceTheorems,
        WellFoundedInduction, TLAPS

(* The order of the numbers is a well-founded relation. *)
LEMMA NatOrderIsWellFounded ==
  \E R : IsWellFoundedOn(R, Nat) /\ \A x, y \in Nat : <<y, x>> \in R <=> y < x
<1>1. IsWellFoundedOn(OpToRel(<, Nat), Nat)
  BY NatLessThanWellFounded
<1>2. \A x, y \in Nat : <<y, x>> \in OpToRel(<, Nat) <=> y < x
  BY DEF OpToRel
<1> QED  BY <1>1, <1>2, Zenon

(* A set of numbers that is not empty has a least element. *)
LEMMA LeastElement ==
  ASSUME NEW T, T \subseteq Nat, T # {}
  PROVE  \E x \in T : \A y \in T : x <= y
<1>1. PICK R : IsWellFoundedOn(R, Nat) /\ \A x, y \in Nat : <<y, x>> \in R <=> y < x
  BY NatOrderIsWellFounded
<1>2. PICK x \in T : \A y \in T : ~(<<y, x>> \in R)
  BY <1>1, WFMin
<1>3. \A y \in T : ~(y < x)
  BY <1>1, <1>2
<1> QED  BY <1>3

(* Induction: a set that has 0, and with every number below n the next     *)
(* one, has all the numbers up to n.                                       *)
LEMMA UpTo ==
  ASSUME NEW n \in Nat, NEW T, 0 \in T, \A i \in 1..n : i - 1 \in T => i \in T
  PROVE  0..n \subseteq T
<1> SUFFICES ASSUME (0..n) \ T # {} PROVE FALSE
  OBVIOUS
<1>1. PICK x \in (0..n) \ T : \A y \in (0..n) \ T : x <= y
  <2>1. (0..n) \ T \subseteq Nat
    OBVIOUS
  <2> QED  BY <2>1, LeastElement
<1>2. x \in 1..n
  BY <1>1
<1>3. x - 1 \in T
  BY <1>1, <1>2
<1> QED  BY <1>1, <1>2, <1>3

(* f is the function on 0..n with this value at 0 and this step from each  *)
(* value to the next.                                                      *)
Iterates(f, n, S, base, step) ==
  f \in [0..n -> S] /\ f[0] = base /\ \A i \in 1..n : f[i] = step[<<f[i - 1], i>>]

(* A function on 0..n may be defined by its value at 0 and a step from     *)
(* each value to the next.                                                 *)
LEMMA RecursiveFunctionExists ==
  ASSUME NEW n \in Nat, NEW S, NEW base \in S, NEW step \in [S \X (1..n) -> S]
  PROVE  \E f : Iterates(f, n, S, base, step)
<1> DEFINE Good(k) == \E f \in [0..k -> S] :
                        f[0] = base /\ \A i \in 1..k : f[i] = step[<<f[i - 1], i>>]
           T == {k \in 0..n : Good(k)}
<1>1. 0 \in T
  <2> DEFINE f == [i \in 0..0 |-> base]
  <2>1. f \in [0..0 -> S] /\ f[0] = base /\ \A i \in 1..0 : f[i] = step[<<f[i - 1], i>>]
    OBVIOUS
  <2> HIDE DEF f
  <2>2. Good(0)
    BY <2>1
  <2> QED  BY <2>2
<1>2. ASSUME NEW k \in 1..n, k - 1 \in T PROVE k \in T
  <2>1. PICK g \in [0..(k - 1) -> S] :
               g[0] = base /\ \A i \in 1..(k - 1) : g[i] = step[<<g[i - 1], i>>]
    BY <1>2
  <2> DEFINE f == [i \in 0..k |-> IF i = k THEN step[<<g[k - 1], k>>] ELSE g[i]]
  <2>2. g[k - 1] \in S /\ step[<<g[k - 1], k>>] \in S
    BY <2>1
  <2>3. f \in [0..k -> S]
    BY <2>1, <2>2
  <2>4. f[0] = base
    BY <2>1
  <2>5. ASSUME NEW i \in 1..k PROVE f[i] = step[<<f[i - 1], i>>]
    <3>1. f[i - 1] = g[i - 1] /\ f[i] = IF i = k THEN step[<<g[k - 1], k>>] ELSE g[i]
      OBVIOUS
    <3> HIDE DEF f
    <3>2. CASE i = k
      BY <3>1, <3>2
    <3>3. CASE i # k
      <4>1. i \in 1..(k - 1)
        BY <3>3
      <4> QED  BY <2>1, <3>1, <3>3, <4>1
    <3> QED  BY <3>2, <3>3
  <2> HIDE DEF f
  <2>6. Good(k)
    BY <2>3, <2>4, <2>5
  <2> QED  BY <2>6
<1> HIDE DEF T
<1>3. 0..n \subseteq T
  BY <1>1, <1>2, UpTo
<1>4. n \in T
  <2>1. n \in 0..n
    OBVIOUS
  <2> QED  BY <1>3, <2>1
<1> QED  BY <1>4 DEF T, Iterates

(***************************************************************************)
(* A loop that appends the values it keeps: keep[i] tells whether the i-th *)
(* value stays.  Such a loop is written as a recursive function f, whose   *)
(* last value is the result.                                               *)
(***************************************************************************)
Filtered(f, n, keep, val) ==
  f = [i \in 0..n |-> IF i = 0 THEN <<>>
                      ELSE IF keep[i] THEN Append(f[i - 1], val[i]) ELSE f[i - 1]]

(* The recursive function exists.                                          *)
LEMMA FilterExists ==
  ASSUME NEW n \in Nat, NEW S, NEW keep, NEW val \in [1..n -> S]
  PROVE  \E f : Filtered(f, n, keep, val)
<1> DEFINE step == [x \in Seq(S) \X (1..n) |-> IF keep[x[2]] THEN Append(x[1], val[x[2]]) ELSE x[1]]
<1>1. \A s \in Seq(S), i \in 1..n : step[<<s, i>>] = IF keep[i] THEN Append(s, val[i]) ELSE s
  OBVIOUS
<1>2. step \in [Seq(S) \X (1..n) -> Seq(S)]
  <2>1. \A x \in Seq(S) \X (1..n) : x[1] \in Seq(S) /\ val[x[2]] \in S
    OBVIOUS
  <2>2. \A s \in Seq(S), v \in S : Append(s, v) \in Seq(S)
    OBVIOUS
  <2> QED  BY <2>1, <2>2, Zenon
<1> HIDE DEF step
<1>3. <<>> \in Seq(S)
  OBVIOUS
<1>4. PICK f \in [0..n -> Seq(S)] : f[0] = <<>> /\ \A i \in 1..n : f[i] = step[<<f[i - 1], i>>]
  <2>1. \E f : Iterates(f, n, Seq(S), <<>>, step)
    BY <1>2, <1>3, RecursiveFunctionExists
  <2> QED  BY <2>1 DEF Iterates
<1>5. \A i \in 1..n : f[i] = IF keep[i] THEN Append(f[i - 1], val[i]) ELSE f[i - 1]
  <2>1. \A i \in 1..n : i - 1 \in 0..n
    OBVIOUS
  <2> QED  BY <1>1, <1>4, <2>1
<1>6. f = [i \in 0..n |-> IF i = 0 THEN <<>>
                          ELSE IF keep[i] THEN Append(f[i - 1], val[i]) ELSE f[i - 1]]
  <2>1. \A i \in 0..n : i = 0 \/ i \in 1..n
    OBVIOUS
  <2>2. \A i \in 0..n : f[i] = IF i = 0 THEN <<>>
                               ELSE IF keep[i] THEN Append(f[i - 1], val[i]) ELSE f[i - 1]
    BY <1>4, <1>5, <2>1, Zenon
  <2> QED  BY <2>2, Zenon
<1> QED  BY <1>6 DEF Filtered

(* s lists kept values and all of them, and each of them once if the       *)
(* values are distinct.                                                    *)
Selects(s, n, S, keep, val) ==
  /\ s \in Seq(S)
  /\ \A j \in 1..Len(s) : \E m \in 1..n : keep[m] /\ s[j] = val[m]
  /\ \A m \in 1..n : keep[m] => \E j \in 1..Len(s) : s[j] = val[m]
  /\ Len(s) <= n
  /\ (\A k, m \in 1..n : val[k] = val[m] => k = m)
        => \A j, k \in 1..Len(s) : s[j] = s[k] => j = k

(* So does the result of the loop.                                         *)
LEMMA FilterResult ==
  ASSUME NEW n \in Nat, NEW S, NEW keep, NEW val \in [1..n -> S], NEW f, Filtered(f, n, keep, val)
  PROVE  Selects(f[n], n, S, keep, val)
<1>1. f[0] = <<>> /\ \A i \in 1..n : f[i] = IF keep[i] THEN Append(f[i - 1], val[i]) ELSE f[i - 1]
  <2>1. 0 \in 0..n /\ \A i \in 1..n : i \in 0..n /\ i # 0
    OBVIOUS
  <2>2. \A i \in 0..n : f[i] = IF i = 0 THEN <<>>
                               ELSE IF keep[i] THEN Append(f[i - 1], val[i]) ELSE f[i - 1]
    BY Zenon DEF Filtered
  <2> QED  BY <2>1, <2>2, Zenon
<1> DEFINE Fine(s, i) ==
             /\ s \in Seq(S)
             /\ \A j \in 1..Len(s) : \E m \in 1..i : keep[m] /\ s[j] = val[m]
             /\ \A m \in 1..i : keep[m] => \E j \in 1..Len(s) : s[j] = val[m]
             /\ Len(s) <= i
             /\ (\A k, m \in 1..n : val[k] = val[m] => k = m)
                   => \A j, k \in 1..Len(s) : s[j] = s[k] => j = k
           T == {i \in 0..n : Fine(f[i], i)}
<1>2. 0 \in T
  <2>1. Fine(<<>>, 0)
    OBVIOUS
  <2> HIDE DEF Fine
  <2> QED  BY <1>1, <2>1
<1>3. ASSUME NEW i \in 1..n, i - 1 \in T PROVE i \in T
  <2>1. PICK s : s = f[i - 1]
    OBVIOUS
  <2>2. Fine(s, i - 1) /\ f[i] = IF keep[i] THEN Append(s, val[i]) ELSE s
    BY <1>1, <1>3, <2>1
  <2>3. CASE ~keep[i]
    <3>1. f[i] = s
      BY <2>2, <2>3
    <3>2. Fine(s, i)
      <4>1. i \in Int /\ Len(s) <= i /\ \A m \in 1..(i - 1) : m \in 1..i
        BY <2>2
      <4>2. \A m \in 1..i : keep[m] => m \in 1..(i - 1)
        BY <2>3
      <4> QED  BY <2>2, <4>1, <4>2
    <3> HIDE DEF Fine
    <3> QED  BY <3>1, <3>2
  <2>4. CASE keep[i]
    <3>1. PICK t : t = Append(s, val[i])
      OBVIOUS
    <3>2. s \in Seq(S) /\ val[i] \in S
      BY <2>2
    <3>3. t \in Seq(S) /\ Len(t) = Len(s) + 1 /\ Len(s) \in Nat
          /\ t[Len(s) + 1] = val[i] /\ \A j \in 1..Len(s) : t[j] = s[j]
      BY <3>1, <3>2
    <3>4. \A j \in 1..Len(t) : \E m \in 1..i : keep[m] /\ t[j] = val[m]
      <4> TAKE j \in 1..Len(t)
      <4>1. CASE j = Len(s) + 1
        BY <2>4, <3>3, <4>1
      <4>2. CASE j \in 1..Len(s)
        BY <2>2, <3>3, <4>2
      <4> QED  BY <3>3, <4>1, <4>2
    <3>5. \A m \in 1..i : keep[m] => \E j \in 1..Len(t) : t[j] = val[m]
      <4> SUFFICES ASSUME NEW m \in 1..i, keep[m] PROVE \E j \in 1..Len(t) : t[j] = val[m]
        OBVIOUS
      <4>1. CASE m = i
        BY <3>3, <4>1
      <4>2. CASE m \in 1..(i - 1)
        <5>1. PICK j \in 1..Len(s) : s[j] = val[m]
          BY <2>2, <4>2
        <5> QED  BY <3>3, <5>1
      <4> QED  BY <4>1, <4>2
    <3>6. ASSUME \A k, m \in 1..n : val[k] = val[m] => k = m,
                 NEW j \in 1..Len(t), NEW k \in 1..Len(t), t[j] = t[k]
          PROVE  j = k
      <4>1. \A l \in 1..Len(s) : s[l] # val[i]
        BY <2>2, <3>6
      <4>2. CASE j \in 1..Len(s) /\ k \in 1..Len(s)
        BY <2>2, <3>3, <3>6, <4>2
      <4>3. CASE j = Len(s) + 1 \/ k = Len(s) + 1
        BY <3>3, <3>6, <4>1, <4>3
      <4> QED  BY <3>3, <4>2, <4>3
    <3>7. Len(t) <= i
      BY <2>2, <3>3
    <3>8. Fine(t, i)
      BY <3>3, <3>4, <3>5, <3>6, <3>7
    <3> HIDE DEF Fine
    <3>9. f[i] = t
      BY <2>2, <2>4, <3>1
    <3> QED  BY <3>8, <3>9
  <2> QED  BY <2>3, <2>4
<1> HIDE DEF T
<1>4. 0..n \subseteq T
  BY <1>2, <1>3, UpTo
<1>5. n \in T
  BY <1>4
<1> USE DEF T
<1> QED  BY <1>5 DEF Selects

(***************************************************************************)
(* Sums.  The sum of f over a finite set is computed by taking away one    *)
(* element after the other, whichever comes; g does so for all the subsets *)
(* of D.  The order makes no difference.                                   *)
(***************************************************************************)
Pick(s) == CHOOSE x \in s : TRUE

Totals(g, f, D) ==
  g = [s \in SUBSET D |-> IF s = {} THEN 0 ELSE f[Pick(s)] + g[s \ {Pick(s)}]]

Total(f, D) == (CHOOSE g : Totals(g, f, D))[D]

(* What is picked is an element.                                           *)
LEMMA Picked ==
  ASSUME NEW s, s # {}
  PROVE  Pick(s) \in s
BY DEF Pick

(* A subset loses one element at a time.                                   *)
LEMMA OneLess ==
  ASSUME NEW D, IsFiniteSet(D), NEW s \in SUBSET D, NEW x \in s
  PROVE  /\ IsFiniteSet(s) /\ Cardinality(s) \in 1..Cardinality(D)
         /\ s \ {x} \in SUBSET D /\ Cardinality(s \ {x}) = Cardinality(s) - 1
<1>1. IsFiniteSet(s) /\ Cardinality(s) <= Cardinality(D) /\ Cardinality(D) \in Nat /\ Cardinality(s) \in Nat
  BY FS_Subset, FS_CardinalityType
<1>2. Cardinality(s \ {x}) = Cardinality(s) - 1 /\ IsFiniteSet(s \ {x})
  BY <1>1, FS_RemoveElement
<1>3. Cardinality(s \ {x}) \in Nat
  BY <1>2, FS_CardinalityType
<1>4. \A n, d \in Nat : n <= d /\ n - 1 \in Nat => n \in 1..d
  OBVIOUS
<1> QED  BY <1>1, <1>2, <1>3, <1>4

(* The sums of all subsets, by their sizes.                                *)
LEMMA TotalsExist ==
  ASSUME NEW D, IsFiniteSet(D), NEW f, \A x \in D : f[x] \in Nat
  PROVE  \E g : Totals(g, f, D)
<1> DEFINE F    == [SUBSET D -> Nat]
           n    == Cardinality(D)
           next(h) == [s \in SUBSET D |-> IF s = {} THEN 0 ELSE f[Pick(s)] + h[s \ {Pick(s)}]]
           step == [p \in F \X (1..n) |-> next(p[1])]
           base == [s \in SUBSET D |-> 0]
<1>1. n \in Nat
  BY FS_CardinalityType
<1>2. \A s \in SUBSET D : s # {} => Pick(s) \in D /\ f[Pick(s)] \in Nat /\ s \ {Pick(s)} \in SUBSET D
  BY Picked
<1>3. ASSUME NEW h \in F PROVE next(h) \in F
  <2>1. ASSUME NEW s \in SUBSET D PROVE next(h)[s] \in Nat
    <3>1. CASE s = {}
      BY <3>1
    <3>2. CASE s # {}
      <4>1. f[Pick(s)] \in Nat /\ h[s \ {Pick(s)}] \in Nat
        BY <1>2, <3>2
      <4> QED  BY <3>2, <4>1
    <3> QED  BY <3>1, <3>2
  <2> QED  BY <2>1
<1>4. step \in [F \X (1..n) -> F]
  <2>1. \A p \in F \X (1..n) : p[1] \in F
    OBVIOUS
  <2> HIDE DEF F, next
  <2> QED  BY <1>3, <2>1
<1>5. base \in F
  OBVIOUS
<1>6. \A h \in F, i \in 1..n : step[<<h, i>>] = next(h)
  <2> HIDE DEF F, next
  <2> QED  OBVIOUS
<1> HIDE DEF step, base
<1>7. PICK h : Iterates(h, n, F, base, step)
  <2> HIDE DEF F, n, next
  <2> QED  BY <1>1, <1>4, <1>5, RecursiveFunctionExists
<1>8. h \in [0..n -> F] /\ \A i \in 1..n : i - 1 \in 0..n /\ h[i] = next(h[i - 1])
  <2>1. h \in [0..n -> F] /\ \A i \in 1..n : h[i] = step[<<h[i - 1], i>>]
    BY <1>7 DEF Iterates
  <2>2. \A i \in 1..n : i - 1 \in 0..n
    BY <1>1
  <2> HIDE DEF F, n, next
  <2> QED  BY <1>6, <2>1, <2>2
<1> DEFINE g == [s \in SUBSET D |-> IF s = {} THEN 0 ELSE h[Cardinality(s)][s]]
<1>9. ASSUME NEW s \in SUBSET D, s # {}
      PROVE  g[s] = f[Pick(s)] + g[s \ {Pick(s)}]
  <2> DEFINE t == s \ {Pick(s)}
  <2>1. Pick(s) \in s /\ t \in SUBSET D
    BY <1>2, <1>9, Picked
  <2>2. Cardinality(s) \in 1..n /\ Cardinality(t) = Cardinality(s) - 1
    BY <2>1, OneLess
  <2>3. g[s] = next(h[Cardinality(s) - 1])[s]
    <3>1. g[s] = h[Cardinality(s)][s]
      BY <1>9
    <3> HIDE DEF g, next, F
    <3> QED  BY <1>8, <2>2, <3>1
  <2>4. next(h[Cardinality(s) - 1])[s] = f[Pick(s)] + h[Cardinality(t)][t]
    BY <1>9, <2>2
  <2>5. h[Cardinality(t)][t] = g[t]
    <3>1. CASE t = {}
      <4>1. Cardinality(t) = 0
        BY <3>1, FS_EmptySet
      <4>2. Cardinality(s) = 1
        BY <2>2, <4>1
      <4>3. h[0][t] = 0
        <5>1. h[0] = base
          BY <1>7 DEF Iterates
        <5> QED  BY <2>1, <5>1 DEF base
      <4> QED  BY <2>1, <3>1, <4>1, <4>3
    <3>2. CASE t # {}
      BY <2>1, <3>2
    <3> QED  BY <3>1, <3>2
  <2> HIDE DEF g, next, t
  <2>6. g[s] = f[Pick(s)] + g[t]
    BY <2>3, <2>4, <2>5
  <2> QED  BY <2>6 DEF t
<1>10. g = [s \in SUBSET D |-> IF s = {} THEN 0 ELSE f[Pick(s)] + g[s \ {Pick(s)}]]
  <2>1. \A s \in SUBSET D : g[s] = IF s = {} THEN 0 ELSE f[Pick(s)] + g[s \ {Pick(s)}]
    <3>1. ASSUME NEW s \in SUBSET D, s = {} PROVE g[s] = 0
      BY <3>1
    <3> HIDE DEF g
    <3> QED  BY <1>9, <3>1
  <2>2. g = [s \in SUBSET D |-> g[s]]
    OBVIOUS
  <2> HIDE DEF g
  <2> QED  BY <2>1, <2>2, Zenon
<1> QED  BY <1>10 DEF Totals

(* Induction on the subsets of a finite set, by their sizes.               *)
LEMMA SubsetInduction ==
  ASSUME NEW D, IsFiniteSet(D), NEW Good,
         {} \in Good,
         \A s \in SUBSET D : s # {} /\ (\A x \in s : s \ {x} \in Good) => s \in Good
  PROVE  SUBSET D \subseteq Good
<1> DEFINE n == Cardinality(D)
           T == {i \in 0..n : \A s \in SUBSET D : Cardinality(s) = i => s \in Good}
<1>1. n \in Nat
  BY FS_CardinalityType
<1>2. 0 \in T
  <2>1. \A s \in SUBSET D : Cardinality(s) = 0 => s = {}
    BY FS_Subset, FS_EmptySet
  <2> QED  BY <1>1, <2>1
<1>3. ASSUME NEW i \in 1..n, i - 1 \in T PROVE i \in T
  <2>1. ASSUME NEW s \in SUBSET D, Cardinality(s) = i PROVE s \in Good
    <3>1. s # {}
      <4>1. Cardinality({}) = 0
        BY FS_EmptySet
      <4> QED  BY <1>1, <2>1, <4>1
    <3>2. ASSUME NEW x \in s PROVE s \ {x} \in Good
      <4>1. s \ {x} \in SUBSET D /\ Cardinality(s \ {x}) = i - 1
        BY <2>1, OneLess
      <4> QED  BY <1>3, <4>1
    <3> QED  BY <3>1, <3>2
  <2>2. i \in 0..n
    BY <1>1
  <2> QED  BY <2>1, <2>2
<1> HIDE DEF T, n
<1>4. 0..n \subseteq T
  BY <1>1, <1>2, <1>3, UpTo
<1>5. ASSUME NEW s \in SUBSET D PROVE s \in Good
  <2>1. Cardinality(s) \in 0..n
    <3>1. Cardinality(s) <= n /\ Cardinality(s) \in Nat
      BY FS_Subset, FS_CardinalityType DEF n
    <3> QED  BY <1>1, <3>1
  <2> QED  BY <1>4, <2>1 DEF T
<1> QED  BY <1>5

(* Whichever element is taken away first.                                  *)
LEMMA TotalsAdd ==
  ASSUME NEW D, IsFiniteSet(D), NEW f, \A x \in D : f[x] \in Nat, NEW g, Totals(g, f, D)
  PROVE  /\ g[{}] = 0
         /\ \A s \in SUBSET D : g[s] \in Nat /\ \A x \in s : g[s] = f[x] + g[s \ {x}]
<1>1. \A s \in SUBSET D : g[s] = IF s = {} THEN 0 ELSE f[Pick(s)] + g[s \ {Pick(s)}]
  BY Zenon DEF Totals
<1>2. g[{}] = 0
  <2>1. {} \in SUBSET D
    OBVIOUS
  <2> QED  BY <1>1, <2>1
<1>3. \A s \in SUBSET D : g[s] \in Nat
  <2> DEFINE Good == {s \in SUBSET D : g[s] \in Nat}
  <2>1. {} \in Good
    BY <1>2
  <2>2. ASSUME NEW s \in SUBSET D, s # {}, \A x \in s : s \ {x} \in Good
        PROVE  s \in Good
    <3>1. PICK x \in s : x = Pick(s)
      BY <2>2, Picked
    <3>2. g[s] = f[x] + g[s \ {x}] /\ g[s \ {x}] \in Nat /\ f[x] \in Nat
      BY <1>1, <2>2, <3>1
    <3> QED  BY <3>2
  <2> HIDE DEF Good
  <2>3. SUBSET D \subseteq Good
    BY <2>1, <2>2, SubsetInduction
  <2> QED  BY <2>3 DEF Good
<1> DEFINE Good == {s \in SUBSET D : \A x \in s : g[s] = f[x] + g[s \ {x}]}
<1>4. {} \in Good
  OBVIOUS
<1>5. ASSUME NEW s \in SUBSET D, s # {}, \A x \in s : s \ {x} \in Good
      PROVE  s \in Good
  <2>1. PICK c \in s : g[s] = f[c] + g[s \ {c}]
    BY <1>1, <1>5, Picked
  <2>2. ASSUME NEW x \in s PROVE g[s] = f[x] + g[s \ {x}]
    <3>1. CASE x = c
      BY <2>1, <3>1
    <3>2. CASE x # c
      <4> DEFINE rest == (s \ {c}) \ {x}
      <4>1. rest = (s \ {x}) \ {c} /\ rest \in SUBSET D /\ s \ {c} \in SUBSET D /\ s \ {x} \in SUBSET D
        OBVIOUS
      <4>2. g[s \ {c}] = f[x] + g[rest]
        BY <1>5, <3>2
      <4>3. g[s \ {x}] = f[c] + g[rest]
        BY <1>5, <3>2, <4>1
      <4>4. g[rest] \in Nat /\ f[x] \in Nat /\ f[c] \in Nat /\ g[s \ {c}] \in Nat /\ g[s \ {x}] \in Nat
        BY <1>3, <4>1
      <4> HIDE DEF rest
      <4> QED  BY <2>1, <4>2, <4>3, <4>4
    <3> QED  BY <3>1, <3>2
  <2> QED  BY <2>2
<1> HIDE DEF Good
<1>6. SUBSET D \subseteq Good
  BY <1>4, <1>5, SubsetInduction
<1> QED  BY <1>2, <1>3, <1>6 DEF Good

(* The sum over a smaller set is the same in a larger one.                 *)
LEMMA TotalsAgree ==
  ASSUME NEW D, IsFiniteSet(D), NEW f, \A x \in D : f[x] \in Nat, NEW g, Totals(g, f, D),
         NEW E \in SUBSET D, NEW e, NEW h, \A x \in E : e[x] = f[x], Totals(h, e, E)
  PROVE  h[E] = g[E]
<1> DEFINE Good == {s \in SUBSET E : h[s] = g[s]}
<1>1. IsFiniteSet(E)
  BY FS_Subset
<1> HIDE DEF Good
<1>2. /\ g[{}] = 0
      /\ \A s \in SUBSET D : g[s] \in Nat /\ \A x \in s : g[s] = f[x] + g[s \ {x}]
  BY TotalsAdd
<1>3. /\ h[{}] = 0
      /\ \A s \in SUBSET E : \A x \in s : h[s] = e[x] + h[s \ {x}]
  <2>1. \A x \in E : e[x] \in Nat
    OBVIOUS
  <2> QED  BY <1>1, <2>1, TotalsAdd, SMTT(20)
<1>4. {} \in Good
  BY <1>2, <1>3 DEF Good
<1>5. ASSUME NEW s \in SUBSET E, s # {}, \A x \in s : s \ {x} \in Good
      PROVE  s \in Good
  <2>1. PICK x \in s : TRUE
    BY <1>5
  <2>2. h[s] = e[x] + h[s \ {x}] /\ g[s] = f[x] + g[s \ {x}] /\ e[x] = f[x] /\ h[s \ {x}] = g[s \ {x}]
    BY <1>2, <1>3, <1>5 DEF Good
  <2> QED  BY <2>2 DEF Good
<1>6. SUBSET E \subseteq Good
  BY <1>1, <1>4, <1>5, SubsetInduction
<1> QED  BY <1>6 DEF Good

(* Sums are numbers; the empty one is 0, and any element can be taken out. *)
LEMMA TotalLaws ==
  ASSUME NEW D, IsFiniteSet(D), NEW f, \A x \in D : f[x] \in Nat
  PROVE  /\ Total(f, D) \in Nat
         /\ D = {} => Total(f, D) = 0
         /\ \A x \in D : Total(f, D) = f[x] + Total(f, D \ {x}) /\ Total(f, D \ {x}) \in Nat
<1> DEFINE g == CHOOSE g : Totals(g, f, D)
<1>1. Totals(g, f, D)
  BY TotalsExist
<1>2. Total(f, D) = g[D]
  BY DEF Total
<1> HIDE DEF g
<1>3. /\ g[{}] = 0
      /\ \A s \in SUBSET D : g[s] \in Nat /\ \A x \in s : g[s] = f[x] + g[s \ {x}]
  BY <1>1, TotalsAdd
<1>4. ASSUME NEW E \in SUBSET D PROVE Total(f, E) = g[E]
  <2> DEFINE h == CHOOSE h : Totals(h, f, E)
  <2>1. IsFiniteSet(E)
    BY FS_Subset
  <2>2. Totals(h, f, E)
    BY <2>1, TotalsExist
  <2>3. Total(f, E) = h[E]
    BY DEF Total
  <2> HIDE DEF h
  <2> QED  BY <1>1, <2>2, <2>3, TotalsAgree
<1>5. D \in SUBSET D /\ \A x \in D : D \ {x} \in SUBSET D
  OBVIOUS
<1> QED  BY <1>2, <1>3, <1>4, <1>5

(* Only the values over the set count.                                     *)
LEMMA TotalOfEqual ==
  ASSUME NEW D, IsFiniteSet(D), NEW f, NEW e, \A x \in D : f[x] \in Nat, \A x \in D : e[x] = f[x]
  PROVE  Total(e, D) = Total(f, D)
<1> DEFINE g == CHOOSE g : Totals(g, f, D)
           h == CHOOSE h : Totals(h, e, D)
<1>1. Totals(g, f, D) /\ Totals(h, e, D)
  <2>1. Totals(g, f, D)
    BY TotalsExist
  <2>2. \A x \in D : e[x] \in Nat
    OBVIOUS
  <2>3. \E k : Totals(k, e, D)
    BY <2>2, TotalsExist
  <2> QED  BY <2>1, <2>3
<1>2. Total(f, D) = g[D] /\ Total(e, D) = h[D]
  BY DEF Total
<1> HIDE DEF g, h
<1>3. D \in SUBSET D
  OBVIOUS
<1> QED  BY <1>1, <1>2, <1>3, TotalsAgree

(* A sum in which one value changes.                                       *)
LEMMA TotalChanges ==
  ASSUME NEW D, IsFiniteSet(D), NEW f, NEW e, NEW x \in D, \A y \in D : f[y] \in Nat,
         e[x] \in Nat, \A y \in D \ {x} : e[y] = f[y]
  PROVE  Total(e, D) + f[x] = Total(f, D) + e[x]
<1>1. IsFiniteSet(D \ {x}) /\ \A y \in D : e[y] \in Nat
  BY FS_RemoveElement
<1>2. Total(f, D) = f[x] + Total(f, D \ {x}) /\ Total(f, D \ {x}) \in Nat
  BY TotalLaws
<1>3. Total(e, D) = e[x] + Total(e, D \ {x}) /\ Total(e, D \ {x}) \in Nat
  BY <1>1, TotalLaws
<1>4. Total(e, D \ {x}) = Total(f, D \ {x})
  <2>1. \A y \in D \ {x} : f[y] \in Nat
    OBVIOUS
  <2> QED  BY <1>1, <2>1, TotalOfEqual
<1> QED  BY <1>2, <1>3, <1>4

(* A sum over one element more.                                            *)
LEMMA TotalGrows ==
  ASSUME NEW D, IsFiniteSet(D), NEW f, NEW x, x \notin D, \A y \in D \cup {x} : f[y] \in Nat
  PROVE  Total(f, D \cup {x}) = Total(f, D) + f[x]
<1>1. IsFiniteSet(D \cup {x}) /\ (D \cup {x}) \ {x} = D /\ x \in D \cup {x}
  BY FS_AddElement
<1>3. f[x] \in Nat
  OBVIOUS
<1>2. Total(f, D \cup {x}) = f[x] + Total(f, (D \cup {x}) \ {x}) /\ Total(f, (D \cup {x}) \ {x}) \in Nat
  BY <1>1, TotalLaws
<1>4. Total(f, D) \in Nat /\ Total(f, D \cup {x}) = f[x] + Total(f, D)
  BY <1>1, <1>2
<1> QED  BY <1>3, <1>4

(* A sum is that of the terms that are not zero.                           *)
LEMMA TotalOfSome ==
  ASSUME NEW D, IsFiniteSet(D), NEW S \in SUBSET D, NEW f, \A x \in D : f[x] \in Nat,
         \A x \in D \ S : f[x] = 0
  PROVE  Total(f, D) = Total(f, S)
<1> DEFINE Good == {s \in SUBSET (D \ S) : Total(f, S \cup s) = Total(f, S)}
<1>1. IsFiniteSet(S) /\ IsFiniteSet(D \ S)
  BY FS_Subset
<1>2. {} \in Good
  <2>1. S \cup {} = S
    OBVIOUS
  <2> QED  BY <2>1
<1>3. ASSUME NEW s \in SUBSET (D \ S), s # {}, \A x \in s : s \ {x} \in Good
      PROVE  s \in Good
  <2>1. PICK x \in s : TRUE
    BY <1>3
  <2>2. Total(f, S \cup (s \ {x})) = Total(f, S)
    BY <1>3
  <2> DEFINE E == S \cup (s \ {x})
  <2>3. E \in SUBSET D /\ x \notin E /\ E \cup {x} = S \cup s /\ x \in D \ S
    OBVIOUS
  <2>4. IsFiniteSet(E) /\ \A y \in E \cup {x} : f[y] \in Nat
    BY <2>3, FS_Subset
  <2>5. Total(f, E) \in Nat
    <3>1. \A y \in E : f[y] \in Nat
      BY <2>4
    <3> HIDE DEF E
    <3> QED  BY <2>4, <3>1, TotalLaws
  <2>6. Total(f, E \cup {x}) = Total(f, E) + f[x]
    <3> HIDE DEF E
    <3> QED  BY <2>3, <2>4, TotalGrows
  <2>7. f[x] = 0
    BY <2>3
  <2>8. Total(f, E) = Total(f, S)
    BY <2>2
  <2>9. E \cup {x} = S \cup s
    BY <2>3
  <2> HIDE DEF E
  <2>11. Total(f, E \cup {x}) = Total(f, S)
    BY <2>5, <2>6, <2>7, <2>8
  <2>10. Total(f, S \cup s) = Total(f, S)
    BY <2>9, <2>11, Zenon
  <2> QED  BY <2>10
<1> HIDE DEF Good
<1>4. SUBSET (D \ S) \subseteq Good
  BY <1>1, <1>2, <1>3, SubsetInduction
<1>5. D \ S \in Good /\ S \cup (D \ S) = D
  BY <1>4
<1> QED  BY <1>5 DEF Good

(* The number of elements is the sum of ones.                              *)
LEMMA TotalOfOnes ==
  ASSUME NEW D, IsFiniteSet(D), NEW f, \A x \in D : f[x] = 1
  PROVE  Total(f, D) = Cardinality(D)
<1> DEFINE Good == {s \in SUBSET D : Total(f, s) = Cardinality(s)}
<1>1. {} \in Good
  <2>1. IsFiniteSet({}) /\ Cardinality({}) = 0 /\ \A x \in {} : f[x] \in Nat
    BY FS_EmptySet
  <2> QED  BY <2>1, TotalLaws
<1>2. ASSUME NEW s \in SUBSET D, s # {}, \A x \in s : s \ {x} \in Good
      PROVE  s \in Good
  <2>1. PICK x \in s : TRUE
    BY <1>2
  <2>2. IsFiniteSet(s) /\ Cardinality(s) \in Nat /\ Cardinality(s \ {x}) = Cardinality(s) - 1
    BY OneLess, FS_CardinalityType
  <2>3. Total(f, s) = f[x] + Total(f, s \ {x})
    <3>1. \A y \in s : f[y] \in Nat
      OBVIOUS
    <3> QED  BY <2>2, <3>1, TotalLaws
  <2>4. f[x] = 1 /\ Total(f, s \ {x}) = Cardinality(s \ {x})
    BY <1>2
  <2> QED  BY <2>2, <2>3, <2>4
<1> HIDE DEF Good
<1>3. SUBSET D \subseteq Good
  BY <1>1, <1>2, SubsetInduction
<1> QED  BY <1>3 DEF Good

(* A sum of values that are not above m.                                   *)
LEMMA TotalIsBounded ==
  ASSUME NEW D, IsFiniteSet(D), NEW m \in Nat, NEW f, \A x \in D : f[x] \in 0..m
  PROVE  Total(f, D) \in 0..(m * Cardinality(D))
<1> DEFINE Good == {s \in SUBSET D : Total(f, s) \in Nat /\ Total(f, s) <= m * Cardinality(s)}
<1>1. {} \in Good
  <2>1. IsFiniteSet({}) /\ Cardinality({}) = 0 /\ \A x \in {} : f[x] \in Nat
    BY FS_EmptySet
  <2>2. Total(f, {}) = 0
    BY <2>1, TotalLaws
  <2> QED  BY <2>1, <2>2
<1>2. ASSUME NEW s \in SUBSET D, s # {}, \A x \in s : s \ {x} \in Good
      PROVE  s \in Good
  <2>1. PICK x \in s : TRUE
    BY <1>2
  <2>2. IsFiniteSet(s) /\ Cardinality(s) \in Nat /\ Cardinality(s \ {x}) = Cardinality(s) - 1
    BY OneLess, FS_CardinalityType
  <2>3. Total(f, s) = f[x] + Total(f, s \ {x})
    <3>1. \A y \in s : f[y] \in Nat
      OBVIOUS
    <3> QED  BY <2>2, <3>1, TotalLaws
  <2>4. Total(f, s \ {x}) \in Nat /\ Total(f, s \ {x}) <= m * (Cardinality(s) - 1) /\ f[x] \in 0..m
    BY <1>2, <2>2
  <2>5. m * (Cardinality(s) - 1) + m = m * Cardinality(s)
    BY <2>2
  <2>6. m * (Cardinality(s) - 1) \in Int /\ m * Cardinality(s) \in Int
    BY <2>2
  <2>7. Total(f, s) \in Nat /\ Total(f, s) <= m * Cardinality(s)
    BY <2>3, <2>4, <2>5, <2>6
  <2> QED  BY <2>7
<1> HIDE DEF Good
<1>3. SUBSET D \subseteq Good
  BY <1>1, <1>2, SubsetInduction
<1>4. D \in Good
  BY <1>3
<1>5. m * Cardinality(D) \in Nat
  BY FS_CardinalityType
<1> QED  BY <1>4, <1>5 DEF Good

(* The products of the values of two functions.                            *)
Product(a, b, D) == [x \in D |-> a[x] * b[x]]

(* The inequality of Cauchy and Schwarz, one term at a time.               *)
LEMMA OneTermMore ==
  ASSUME NEW c \in Nat, NEW p \in Nat, NEW q \in Nat, c * c <= p * q, NEW a \in Nat, NEW b \in Nat
  PROVE  (a * b + c) * (a * b + c) <= (a * a + p) * (b * b + q)
<1> DEFINE u == p * (b * b)
           v == q * (a * a)
           w == a * b * c
<1>1. u \in Nat /\ v \in Nat /\ w \in Nat
  OBVIOUS
<1>2. w * w <= u * v
  <2>1. (c * c) * ((a * b) * (a * b)) <= (p * q) * ((a * b) * (a * b))
    <3>1. \A x, y, z \in Nat : x <= y => x * z <= y * z
      OBVIOUS
    <3>2. c * c \in Nat /\ p * q \in Nat /\ (a * b) * (a * b) \in Nat
      OBVIOUS
    <3> QED  BY <3>1, <3>2
  <2>2. w * w = (c * c) * ((a * b) * (a * b))
    OBVIOUS
  <2>3. u * v = (p * q) * ((a * b) * (a * b))
    OBVIOUS
  <2> QED  BY <2>1, <2>2, <2>3
<1>3. 2 * w <= u + v
  <2> HIDE DEF u, v, w
  <2>1. 4 * (u * v) <= (u + v) * (u + v)
    <3>1. (u + v) * (u + v) = 4 * (u * v) + (u - v) * (u - v)
      BY <1>1
    <3>2. (u - v) * (u - v) >= 0
      BY <1>1
    <3> QED  BY <1>1, <3>1, <3>2
  <2>2. (2 * w) * (2 * w) <= (u + v) * (u + v)
    BY <1>1, <1>2, <2>1
  <2>3. \A x, y \in Nat : x * x <= y * y => x <= y
    OBVIOUS
  <2> QED  BY <1>1, <2>2, <2>3
<1>4. (a * b + c) * (a * b + c) = (a * b) * (a * b) + 2 * w + c * c
  OBVIOUS
<1>5. (a * a + p) * (b * b + q) = (a * b) * (a * b) + u + v + p * q
  OBVIOUS
<1> HIDE DEF u, v, w
<1>6. (a * b) * (a * b) \in Nat /\ c * c \in Nat /\ p * q \in Nat
  OBVIOUS
<1> QED  BY <1>1, <1>3, <1>4, <1>5, <1>6

(* The square of a product of vectors is at most that of their lengths.    *)
LEMMA CauchySchwarz ==
  ASSUME NEW D, IsFiniteSet(D), NEW a \in [D -> Nat], NEW b \in [D -> Nat]
  PROVE  /\ Total(Product(a, b, D), D) \in Nat
         /\ Total(Product(a, a, D), D) \in Nat /\ Total(Product(b, b, D), D) \in Nat
         /\ Total(Product(a, b, D), D) * Total(Product(a, b, D), D)
              <= Total(Product(a, a, D), D) * Total(Product(b, b, D), D)
<1> DEFINE ab == Product(a, b, D)
           aa == Product(a, a, D)
           bb == Product(b, b, D)
           Fine(c, p, q) == c \in Nat /\ p \in Nat /\ q \in Nat /\ c * c <= p * q
           Good == {s \in SUBSET D : Fine(Total(ab, s), Total(aa, s), Total(bb, s))}
<1>1. \A x \in D : /\ ab[x] = a[x] * b[x] /\ aa[x] = a[x] * a[x] /\ bb[x] = b[x] * b[x]
                   /\ ab[x] \in Nat /\ aa[x] \in Nat /\ bb[x] \in Nat
  BY DEF Product
<1> HIDE DEF ab, aa, bb
<1>2. {} \in Good
  <2>1. IsFiniteSet({}) /\ (\A x \in {} : ab[x] \in Nat) /\ (\A x \in {} : aa[x] \in Nat) /\ (\A x \in {} : bb[x] \in Nat)
    BY FS_EmptySet
  <2>2. Total(ab, {}) = 0 /\ Total(aa, {}) = 0 /\ Total(bb, {}) = 0
    BY <2>1, TotalLaws
  <2> QED  BY <2>2
<1>3. ASSUME NEW s \in SUBSET D, s # {}, \A x \in s : s \ {x} \in Good
      PROVE  s \in Good
  <2>1. PICK x \in s : TRUE
    BY <1>3
  <2>2. IsFiniteSet(s)
    BY FS_Subset
  <2>3. /\ Total(ab, s) = ab[x] + Total(ab, s \ {x})
        /\ Total(aa, s) = aa[x] + Total(aa, s \ {x})
        /\ Total(bb, s) = bb[x] + Total(bb, s \ {x})
    <3>1. (\A y \in s : ab[y] \in Nat) /\ (\A y \in s : aa[y] \in Nat) /\ (\A y \in s : bb[y] \in Nat)
      BY <1>1
    <3> QED  BY <2>2, <3>1, TotalLaws
  <2>4. Fine(Total(ab, s \ {x}), Total(aa, s \ {x}), Total(bb, s \ {x}))
    BY <1>3
  <2>5. PICK c, p, q : c = Total(ab, s \ {x}) /\ p = Total(aa, s \ {x}) /\ q = Total(bb, s \ {x})
    OBVIOUS
  <2>6. c \in Nat /\ p \in Nat /\ q \in Nat /\ c * c <= p * q /\ a[x] \in Nat /\ b[x] \in Nat
    BY <2>4, <2>5
  <2>7. (a[x] * b[x] + c) * (a[x] * b[x] + c) <= (a[x] * a[x] + p) * (b[x] * b[x] + q)
    BY <2>6, OneTermMore
  <2>8. a[x] * b[x] + c \in Nat /\ a[x] * a[x] + p \in Nat /\ b[x] * b[x] + q \in Nat
    BY <2>6
  <2>9. Total(ab, s) = a[x] * b[x] + c /\ Total(aa, s) = a[x] * a[x] + p /\ Total(bb, s) = b[x] * b[x] + q
    BY <1>1, <2>3, <2>5
  <2>10. Fine(Total(ab, s), Total(aa, s), Total(bb, s))
    BY <2>7, <2>8, <2>9
  <2> QED  BY <2>10
<1>4. SUBSET D \subseteq Good
  <2> HIDE DEF Good
  <2> QED  BY <1>2, <1>3, SubsetInduction
<1>5. D \in Good
  BY <1>4
<1> QED  BY <1>5 DEF ab, aa, bb

(* A set of numbers that is not empty and has a bound has a greatest one.  *)
LEMMA GreatestElement ==
  ASSUME NEW m \in Nat, NEW T, T \subseteq 0..m, T # {}
  PROVE  \E x \in T : \A y \in T : x >= y
<1> DEFINE U == {m - x : x \in T}
<1>1. U \subseteq Nat /\ U # {}
  <2>1. \A x \in T : m - x \in Nat
    OBVIOUS
  <2>2. PICK x \in T : TRUE
    OBVIOUS
  <2>3. m - x \in U
    OBVIOUS
  <2> QED  BY <2>1, <2>3
<1>2. PICK u \in U : \A v \in U : u <= v
  <2> HIDE DEF U
  <2> QED  BY <1>1, LeastElement
<1>3. PICK x \in T : u = m - x
  OBVIOUS
<1>4. \A y \in T : m - x <= m - y
  BY <1>2, <1>3
<1> QED  BY <1>4

(* Where the elements of a filtered list come from: p tells the place of   *)
(* each, in order, and no kept place is left out.                          *)
KeptAt(s, p, n, keep, val) ==
  /\ p \in [1..Len(s) -> {m \in 1..n : keep[m]}]
  /\ \A j \in 1..Len(s) : s[j] = val[p[j]]
  /\ \A j, k \in 1..Len(s) : j < k => p[j] < p[k]
  /\ \A m \in 1..n : keep[m] => \E j \in 1..Len(s) : p[j] = m

(* What a filter has kept can be traced to where it was.                   *)
LEMMA FilterTraces ==
  ASSUME NEW n \in Nat, NEW S, NEW keep, NEW val \in [1..n -> S], NEW f, Filtered(f, n, keep, val)
  PROVE  f[n] \in Seq(S) /\ \E p : KeptAt(f[n], p, n, keep, val)
<1>1. f[0] = <<>> /\ \A i \in 1..n : f[i] = IF keep[i] THEN Append(f[i - 1], val[i]) ELSE f[i - 1]
  <2>1. 0 \in 0..n /\ \A i \in 1..n : i \in 0..n /\ i # 0
    OBVIOUS
  <2>2. \A i \in 0..n : f[i] = IF i = 0 THEN <<>>
                               ELSE IF keep[i] THEN Append(f[i - 1], val[i]) ELSE f[i - 1]
    BY Zenon DEF Filtered
  <2> QED  BY <2>1, <2>2, Zenon
<1> DEFINE T == {i \in 0..n : f[i] \in Seq(S) /\ \E p : KeptAt(f[i], p, i, keep, val)}
<1>2. 0 \in T
  <2>1. Len(<<>>) = 0 /\ 1..0 = {} /\ <<>> \in Seq(S) /\ 0 \in 0..n
    OBVIOUS
  <2>2. KeptAt(<<>>, [j \in {} |-> j], 0, keep, val)
    <3>1. [j \in {} |-> j] \in [{} -> {m \in 1..0 : keep[m]}]
      OBVIOUS
    <3> QED  BY <2>1, <3>1 DEF KeptAt
  <2>3. PICK s : s = f[0]
    OBVIOUS
  <2>4. s = <<>>
    BY <1>1, <2>3
  <2>5. s \in Seq(S) /\ \E p : KeptAt(s, p, 0, keep, val)
    BY <2>1, <2>2, <2>4
  <2> QED  BY <2>1, <2>3, <2>5
<1>3. ASSUME NEW i \in 1..n, i - 1 \in T PROVE i \in T
  <2>1. PICK s : s = f[i - 1]
    OBVIOUS
  <2>2. PICK p : s \in Seq(S) /\ KeptAt(s, p, i - 1, keep, val)
    BY <1>3, <2>1
  <2>3. /\ p \in [1..Len(s) -> {m \in 1..(i - 1) : keep[m]}]
        /\ \A j \in 1..Len(s) : s[j] = val[p[j]] /\ p[j] \in 1..(i - 1) /\ keep[p[j]] /\ p[j] \in 1..i
        /\ \A j, k \in 1..Len(s) : j < k => p[j] < p[k]
        /\ \A m \in 1..(i - 1) : keep[m] => \E j \in 1..Len(s) : p[j] = m
    BY <2>2 DEF KeptAt
  <2>4. CASE ~keep[i]
    <3>1. f[i] = s
      BY <1>1, <2>1, <2>4
    <3>2. p \in [1..Len(s) -> {m \in 1..i : keep[m]}]
      BY <2>3
    <3>3. \A m \in 1..i : keep[m] => m \in 1..(i - 1)
      BY <2>4
    <3>4. KeptAt(s, p, i, keep, val)
      BY <2>3, <3>2, <3>3 DEF KeptAt
    <3> QED  BY <2>2, <3>1, <3>4
  <2>5. CASE keep[i]
    <3>1. PICK t : t = Append(s, val[i])
      OBVIOUS
    <3>2. t \in Seq(S) /\ Len(t) = Len(s) + 1 /\ Len(s) \in Nat
          /\ t[Len(s) + 1] = val[i] /\ \A j \in 1..Len(s) : t[j] = s[j]
      BY <2>2, <3>1
    <3> DEFINE q == [j \in 1..Len(t) |-> IF j = Len(s) + 1 THEN i ELSE p[j]]
    <3>3. \A j \in 1..Len(t) : j = Len(s) + 1 \/ j \in 1..Len(s)
      BY <3>2
    <3>4. q \in [1..Len(t) -> {m \in 1..i : keep[m]}]
      BY <2>3, <2>5, <3>2, <3>3
    <3>5. q[Len(s) + 1] = i /\ \A j \in 1..Len(s) : q[j] = p[j] /\ j \in 1..Len(t)
      BY <3>2
    <3> HIDE DEF q
    <3>6. \A j \in 1..Len(t) : t[j] = val[q[j]]
      BY <2>3, <3>2, <3>3, <3>5
    <3>7. ASSUME NEW j \in 1..Len(t), NEW k \in 1..Len(t), j < k PROVE q[j] < q[k]
      <4>1. j \in 1..Len(s)
        BY <3>2, <3>7
      <4>2. p[j] \in 1..(i - 1)
        BY <2>3, <4>1
      <4>3. CASE k = Len(s) + 1
        BY <3>5, <4>1, <4>2, <4>3
      <4>4. CASE k \in 1..Len(s)
        BY <2>3, <3>5, <3>7, <4>1, <4>4
      <4> QED  BY <3>3, <4>3, <4>4
    <3>8. ASSUME NEW m \in 1..i, keep[m] PROVE \E j \in 1..Len(t) : q[j] = m
      <4>1. CASE m = i
        BY <3>2, <3>5, <4>1
      <4>2. CASE m \in 1..(i - 1)
        <5>1. PICK j \in 1..Len(s) : p[j] = m
          BY <2>3, <3>8, <4>2
        <5> QED  BY <3>5, <5>1
      <4> QED  BY <4>1, <4>2
    <3>9. KeptAt(t, q, i, keep, val)
      BY <3>4, <3>6, <3>7, <3>8 DEF KeptAt
    <3>10. f[i] = t
      BY <1>1, <2>1, <2>5, <3>1
    <3> QED  BY <3>2, <3>9, <3>10
  <2> QED  BY <2>4, <2>5
<1> HIDE DEF T
<1>4. 0..n \subseteq T
  BY <1>2, <1>3, UpTo
<1> QED  BY <1>4 DEF T

(* As many elements of the list s are in A as values that were kept.       *)
AsMany(s, n, keep, val, A) ==
  Cardinality({j \in 1..Len(s) : s[j] \in A}) = Cardinality({m \in 1..n : keep[m] /\ val[m] \in A})

(* So it is of a filtered list.                                            *)
LEMMA FilterCounts ==
  ASSUME NEW n \in Nat, NEW s, NEW p, NEW keep, NEW val, KeptAt(s, p, n, keep, val), Len(s) \in Nat, NEW A
  PROVE  AsMany(s, n, keep, val, A)
<1> DEFINE J == {j \in 1..Len(s) : s[j] \in A}
           M == {m \in 1..n : keep[m] /\ val[m] \in A}
           q == [j \in J |-> p[j]]
<1>1. /\ \A j \in 1..Len(s) : s[j] = val[p[j]] /\ p[j] \in 1..n /\ keep[p[j]]
      /\ \A j, k \in 1..Len(s) : j < k => p[j] < p[k]
      /\ \A m \in 1..n : keep[m] => \E j \in 1..Len(s) : p[j] = m
  BY DEF KeptAt
<1>2. \A j \in J : q[j] \in M
  BY <1>1
<1>3. \A j, k \in J : q[j] = q[k] => j = k
  <2> SUFFICES ASSUME NEW j \in J, NEW k \in J, j # k PROVE p[j] # p[k]
    OBVIOUS
  <2>1. j < k \/ k < j
    OBVIOUS
  <2>2. p[j] < p[k] \/ p[k] < p[j]
    BY <1>1, <2>1
  <2>3. p[j] \in Int /\ p[k] \in Int
    BY <1>1
  <2> QED  BY <2>2, <2>3
<1>4. \A m \in M : \E j \in J : q[j] = m
  <2> SUFFICES ASSUME NEW m \in M PROVE \E j \in J : q[j] = m
    OBVIOUS
  <2>1. PICK j \in 1..Len(s) : p[j] = m
    BY <1>1
  <2>2. s[j] = val[m]
    BY <1>1, <2>1
  <2> QED  BY <2>1, <2>2
<1>5. q \in [J -> M]
  BY <1>2
<1>6. ExistsBijection(J, M)
  <2> HIDE DEF J, M, q
  <2>1. q \in Bijection(J, M)
    BY <1>3, <1>4, <1>5 DEF Bijection, Injection, Surjection, IsInjective
  <2> QED  BY <2>1 DEF ExistsBijection
<1>7. IsFiniteSet(J)
  <2>1. IsFiniteSet(1..Len(s))
    BY FS_Interval
  <2> QED  BY <2>1, FS_Subset
<1> HIDE DEF J, M
<1>8. Cardinality(M) = Cardinality(J)
  BY <1>6, <1>7, FS_Bijection
<1> QED  BY <1>8 DEF J, M, AsMany

(* c counts the elements of D by their value h.                            *)
CountsEach(c, D, h, A) == \A a \in A : c[a] = Cardinality({i \in D : h[i] = a})

(* A finite set is counted by its parts: those with each value in A.       *)
LEMMA CountedByValue ==
  ASSUME NEW D, IsFiniteSet(D), NEW h, NEW A, IsFiniteSet(A),
         NEW f, CountsEach(f, D, h, A)
  PROVE  Total(f, A) = Cardinality({i \in D : h[i] \in A})
<1> DEFINE Of(B) == {i \in D : h[i] \in B}
           Good == {B \in SUBSET A : Total(f, B) = Cardinality(Of(B))}
<1>1. \A a \in A : f[a] \in Nat
  <2> TAKE a \in A
  <2>1. IsFiniteSet({i \in D : h[i] = a})
    BY FS_Subset
  <2> QED  BY <2>1, FS_CardinalityType DEF CountsEach
<1>2. {} \in Good
  <2>1. Of({}) = {} /\ Cardinality({}) = 0 /\ IsFiniteSet({})
    BY FS_EmptySet
  <2>2. Total(f, {}) = 0
    BY <2>1, TotalLaws
  <2> QED  BY <2>1, <2>2
<1>3. ASSUME NEW B \in SUBSET A, B # {}, \A a \in B : B \ {a} \in Good
      PROVE  B \in Good
  <2>1. PICK a \in B : TRUE
    BY <1>3
  <2>2. IsFiniteSet(B)
    BY FS_Subset
  <2>3. Total(f, B) = f[a] + Total(f, B \ {a})
    BY <1>1, <2>2, TotalLaws
  <2> DEFINE those == {i \in D : h[i] = a}
             rest  == Of(B \ {a})
  <2>4. Of(B) = those \cup rest /\ those \cap rest = {}
    OBVIOUS
  <2>5. IsFiniteSet(those) /\ IsFiniteSet(rest)
    BY FS_Subset
  <2>6. Total(f, B \ {a}) = Cardinality(rest) /\ f[a] = Cardinality(those)
    BY <1>3 DEF CountsEach
  <2> HIDE DEF those, rest, Of
  <2>7. Cardinality(those) \in Nat /\ Cardinality(rest) \in Nat
    BY <2>5, FS_CardinalityType
  <2>8. Cardinality(those \cup rest) = Cardinality(those) + Cardinality(rest) - Cardinality({})
    BY <2>4, <2>5, FS_Union
  <2>9. Cardinality(Of(B)) = Cardinality(those) + Cardinality(rest)
    BY <2>4, <2>7, <2>8, FS_EmptySet
  <2>10. Total(f, B) = Cardinality(Of(B))
    BY <2>3, <2>6, <2>9
  <2> QED  BY <2>10
<1> HIDE DEF Good
<1>4. SUBSET A \subseteq Good
  BY <1>2, <1>3, SubsetInduction
<1> QED  BY <1>4 DEF Good

----------------------------------------------------------------------------
(* g is the function on the subsets of D with this value at {} and this    *)
(* step from each set without the element picked from it.                  *)
Recurs(g, D, S, base, pick, step) ==
  /\ g \in [SUBSET D -> S] /\ g[{}] = base
  /\ \A s \in SUBSET D : s # {} => g[s] = step[<<g[s \ {pick[s]}], pick[s]>>]

(* What is picked from each set that is not empty is one of its elements.  *)
Picks(pick, D) == \A s \in SUBSET D : s # {} => pick[s] \in s

(* A function on the subsets of a finite set may be defined by recursion,  *)
(* leaving out one element at a time.                                      *)
LEMMA SubsetRecursion ==
  ASSUME NEW D, IsFiniteSet(D), NEW S, NEW base \in S, NEW pick, Picks(pick, D),
         NEW step \in [S \X D -> S]
  PROVE  \E g : Recurs(g, D, S, base, pick, step)
<1> DEFINE F       == [SUBSET D -> S]
           n       == Cardinality(D)
           next(h) == [s \in SUBSET D |-> IF s = {} THEN base ELSE step[<<h[s \ {pick[s]}], pick[s]>>]]
           more    == [p \in F \X (1..n) |-> next(p[1])]
           first   == [s \in SUBSET D |-> base]
<1>1. n \in Nat
  BY FS_CardinalityType
<1>2. \A s \in SUBSET D : s # {} => pick[s] \in s /\ pick[s] \in D /\ s \ {pick[s]} \in SUBSET D
  BY DEF Picks
<1>3. ASSUME NEW h \in F PROVE next(h) \in F
  <2>1. ASSUME NEW s \in SUBSET D PROVE next(h)[s] \in S
    <3>1. CASE s = {}
      BY <3>1
    <3>2. CASE s # {}
      <4>1. pick[s] \in D /\ h[s \ {pick[s]}] \in S
        BY <1>2, <3>2
      <4> QED  BY <3>2, <4>1
    <3> QED  BY <3>1, <3>2
  <2> QED  BY <2>1
<1>4. more \in [F \X (1..n) -> F]
  <2>1. \A p \in F \X (1..n) : p[1] \in F
    OBVIOUS
  <2> HIDE DEF F, next
  <2> QED  BY <1>3, <2>1
<1>5. first \in F
  OBVIOUS
<1>6. \A h \in F, i \in 1..n : more[<<h, i>>] = next(h)
  <2> HIDE DEF F, next
  <2> QED  OBVIOUS
<1> HIDE DEF more, first
<1>7. PICK h : Iterates(h, n, F, first, more)
  <2> HIDE DEF F, n, next
  <2> QED  BY <1>1, <1>4, <1>5, RecursiveFunctionExists
<1>8. h \in [0..n -> F] /\ \A i \in 1..n : i - 1 \in 0..n /\ h[i] = next(h[i - 1])
  <2>1. h \in [0..n -> F] /\ \A i \in 1..n : h[i] = more[<<h[i - 1], i>>]
    BY <1>7 DEF Iterates
  <2>2. \A i \in 1..n : i - 1 \in 0..n
    BY <1>1
  <2> HIDE DEF F, n, next
  <2> QED  BY <1>6, <2>1, <2>2
<1> DEFINE g == [s \in SUBSET D |-> h[Cardinality(s)][s]]
<1>9. \A s \in SUBSET D : Cardinality(s) \in 0..n
  BY <1>1, FS_Subset, FS_CardinalityType
<1>10. g \in [SUBSET D -> S]
  <2> HIDE DEF n
  <2> QED  BY <1>8, <1>9
<1>11. g[{}] = base
  <2>1. Cardinality({}) = 0 /\ {} \in SUBSET D
    BY FS_EmptySet
  <2>2. h[0] = first
    BY <1>7 DEF Iterates
  <2>3. g[{}] = h[0][{}]
    BY <2>1
  <2>4. first[{}] = base
    BY <2>1 DEF first
  <2> QED  BY <2>2, <2>3, <2>4
<1>12. ASSUME NEW s \in SUBSET D, s # {}
       PROVE  g[s] = step[<<g[s \ {pick[s]}], pick[s]>>]
  <2> DEFINE t == s \ {pick[s]}
  <2>1. pick[s] \in s /\ t \in SUBSET D
    BY <1>2, <1>12
  <2>2. Cardinality(s) \in 1..n /\ Cardinality(t) = Cardinality(s) - 1
    BY <2>1, OneLess
  <2>3. g[s] = next(h[Cardinality(s) - 1])[s]
    <3>1. g[s] = h[Cardinality(s)][s]
      OBVIOUS
    <3> HIDE DEF g, next, F
    <3> QED  BY <1>8, <2>2, <3>1
  <2>4. next(h[Cardinality(s) - 1])[s] = step[<<h[Cardinality(t)][t], pick[s]>>]
    BY <1>12, <2>2
  <2>5. h[Cardinality(t)][t] = g[t]
    BY <2>1
  <2> HIDE DEF g, next
  <2> QED  BY <2>3, <2>4, <2>5
<1> HIDE DEF g
<1>13. Recurs(g, D, S, base, pick, step)
  BY <1>10, <1>11, <1>12 DEF Recurs
<1> QED  BY <1>13

----------------------------------------------------------------------------
(* What a loop over a list makes of base: the value after each place.      *)
Loops(h, w, S, base, step) ==
  /\ h \in [0..Len(w) -> S] /\ h[0] = base
  /\ \A i \in 1..Len(w) : h[i] = step[<<h[i - 1], w[i]>>]

Folded(w, S, base, step) == (CHOOSE h : Loops(h, w, S, base, step))[Len(w)]

(* The loop over a list has its values.                                    *)
LEMMA LoopExists ==
  ASSUME NEW E, NEW w \in Seq(E), NEW S, NEW base \in S, NEW step \in [S \X E -> S]
  PROVE  \E h : Loops(h, w, S, base, step)
<1> DEFINE n    == Len(w)
           move == [p \in S \X (1..n) |-> step[<<p[1], w[p[2]]>>]]
<1>1. n \in Nat /\ \A i \in 1..n : w[i] \in E
  OBVIOUS
<1>2. move \in [S \X (1..n) -> S]
  <2>1. \A p \in S \X (1..n) : <<p[1], w[p[2]]>> \in S \X E
    BY <1>1
  <2>2. \A p \in S \X (1..n) : step[<<p[1], w[p[2]]>>] \in S
    BY <2>1
  <2> QED  BY <2>2
<1>3. \A a \in S, i \in 1..n : move[<<a, i>>] = step[<<a, w[i]>>]
  OBVIOUS
<1> HIDE DEF move
<1>4. PICK h : Iterates(h, n, S, base, move)
  <2> HIDE DEF n
  <2> QED  BY <1>1, <1>2, RecursiveFunctionExists
<1>5. h \in [0..n -> S] /\ h[0] = base /\ \A i \in 1..n : h[i] = move[<<h[i - 1], i>>]
  BY <1>4 DEF Iterates
<1>6. \A i \in 1..n : i - 1 \in 0..n /\ h[i - 1] \in S
  <2>1. \A i \in 1..n : i - 1 \in 0..n
    BY <1>1
  <2> QED  BY <1>5, <2>1
<1>7. \A i \in 1..n : h[i] = step[<<h[i - 1], w[i]>>]
  BY <1>3, <1>5, <1>6
<1> QED  BY <1>5, <1>7 DEF Loops

(* Two lists begin with the same n elements.                               *)
SameLoop(w, v, n) ==
  /\ Len(w) \in Nat /\ Len(v) \in Nat /\ n \in 0..Len(w) /\ n \in 0..Len(v)
  /\ \A i \in 1..n : w[i] = v[i]

(* And no others.                                                          *)
LEMMA LoopsAgree ==
  ASSUME NEW w, NEW v, NEW S, NEW base, NEW step, NEW g, NEW h, NEW n,
         Loops(g, w, S, base, step), Loops(h, v, S, base, step), SameLoop(w, v, n)
  PROVE  g[n] = h[n]
<1> DEFINE T == {k \in 0..n : g[k] = h[k]}
<1>0. n \in Nat
  BY DEF SameLoop
<1>1. 0 \in T
  BY <1>0 DEF Loops
<1>2. ASSUME NEW k \in 1..n, k - 1 \in T PROVE k \in T
  <2>1. k \in 1..Len(w) /\ k \in 1..Len(v) /\ w[k] = v[k]
    BY <1>0 DEF SameLoop
  <2>2. g[k] = step[<<g[k - 1], w[k]>>] /\ h[k] = step[<<h[k - 1], v[k]>>]
    BY <2>1 DEF Loops
  <2> QED  BY <1>2, <2>1, <2>2
<1> HIDE DEF T
<1>3. 0..n \subseteq T
  BY <1>0, <1>1, <1>2, UpTo
<1>4. n \in T
  BY <1>0, <1>3
<1> QED  BY <1>4 DEF T

(* A step takes a value and an element to a value.                         *)
Steps(step, S, E) == step \in [S \X E -> S]

(* What a loop over a list returns.                                        *)
LoopLaws(E, S, base, step) ==
  /\ Folded(<<>>, S, base, step) = base
  /\ \A w \in Seq(E) : Folded(w, S, base, step) \in S
  /\ \A w \in Seq(E), e \in E :
       Folded(Append(w, e), S, base, step) = step[<<Folded(w, S, base, step), e>>]

(* The laws of a loop over a list.                                         *)
LEMMA FoldedLaws ==
  ASSUME NEW E, NEW S, NEW base, base \in S, NEW step, Steps(step, S, E)
  PROVE  LoopLaws(E, S, base, step)
<1>0. step \in [S \X E -> S]
  BY DEF Steps
<1> DEFINE Loop(w) == CHOOSE h : Loops(h, w, S, base, step)
<1>1. ASSUME NEW w \in Seq(E) PROVE Loops(Loop(w), w, S, base, step)
  <2>1. \E h : Loops(h, w, S, base, step)
    BY <1>0, LoopExists
  <2> QED  BY <2>1, Zenon
<1>2. ASSUME NEW w PROVE Folded(w, S, base, step) = Loop(w)[Len(w)]
  BY Zenon DEF Folded
<1> HIDE DEF Loop
<1>3. Folded(<<>>, S, base, step) = base
  <2>1. <<>> \in Seq(E) /\ Len(<<>>) = 0
    OBVIOUS
  <2>2. Loops(Loop(<<>>), <<>>, S, base, step)
    BY <1>1, <2>1
  <2> QED  BY <1>2, <2>1, <2>2 DEF Loops
<1>4. ASSUME NEW w \in Seq(E) PROVE Folded(w, S, base, step) \in S
  <2>1. Loop(w) \in [0..Len(w) -> S] /\ Len(w) \in 0..Len(w)
    BY <1>1 DEF Loops
  <2> QED  BY <1>2, <2>1
<1>5. ASSUME NEW w \in Seq(E), NEW e \in E
      PROVE  Folded(Append(w, e), S, base, step) = step[<<Folded(w, S, base, step), e>>]
  <2>1. PICK v : v = Append(w, e)
    OBVIOUS
  <2>2. PICK n : n = Len(w)
    OBVIOUS
  <2>3. /\ n \in Nat /\ v \in Seq(E) /\ Len(v) = n + 1 /\ v[n + 1] = e
        /\ \A i \in 1..n : w[i] = v[i]
    BY <2>1, <2>2, AppendProperties
  <2>4. Loops(Loop(w), w, S, base, step) /\ Loops(Loop(v), v, S, base, step)
    BY <1>1, <2>3
  <2>5. Loop(w)[n] = Loop(v)[n]
    <3>1. PICK g : g = Loop(w)
      OBVIOUS
    <3>2. PICK h : h = Loop(v)
      OBVIOUS
    <3>3. n \in Nat /\ v \in Seq(E) /\ SameLoop(w, v, n)
      BY <2>1, <2>2, <2>3 DEF SameLoop
    <3>4. Loops(g, w, S, base, step) /\ Loops(h, v, S, base, step)
      BY <2>4, <3>1, <3>2
    <3>5. g[n] = h[n]
      BY <3>3, <3>4, LoopsAgree
    <3> QED  BY <3>1, <3>2, <3>5
  <2>6. Loop(v)[n + 1] = step[<<Loop(v)[n], e>>]
    <3>1. n + 1 \in 1..Len(v) /\ (n + 1) - 1 = n
      BY <2>3
    <3>2. \A i \in 1..Len(v) : Loop(v)[i] = step[<<Loop(v)[i - 1], v[i]>>]
      BY <2>4 DEF Loops
    <3> QED  BY <2>3, <3>1, <3>2
  <2> QED  BY <1>2, <2>1, <2>2, <2>3, <2>5, <2>6
<1> QED  BY <1>3, <1>4, <1>5 DEF LoopLaws

(* g is a fold over the subsets of the places of w, which takes the last   *)
(* place of each first.                                                    *)
Greatest(s) == CHOOSE x \in s : \A y \in s : x >= y
FoldsBack(g, w, S, base, step) ==
  /\ g[{}] = base
  /\ \A s \in SUBSET (DOMAIN w) :
       s # {} /\ g[s \ {Greatest(s)}] \in S => g[s] = step[<<g[s \ {Greatest(s)}], w[Greatest(s)]>>]

(* The last of the first places.                                           *)
LEMMA LastOfFirst ==
  ASSUME NEW n \in Nat, NEW k \in 1..n
  PROVE  1..k # {} /\ 1..k \in SUBSET (1..n) /\ Greatest(1..k) = k /\ (1..k) \ {k} = 1..(k - 1)
<1>1. k \in 1..k /\ \A y \in 1..k : k >= y
  OBVIOUS
<1>2. \A x \in 1..k : (\A y \in 1..k : x >= y) => x = k
  BY <1>1
<1>3. Greatest(1..k) = k
  BY <1>1, <1>2, Zenon DEF Greatest
<1> QED  BY <1>3

(* A set of places that is not empty has a last one.                       *)
LEMMA HasGreatest ==
  ASSUME NEW E, NEW w \in Seq(E), NEW s \in SUBSET (DOMAIN w), s # {}
  PROVE  Greatest(s) \in s
<1>1. Len(w) \in Nat /\ s \subseteq 0..Len(w)
  OBVIOUS
<1>2. \E x \in s : \A y \in s : x >= y
  BY <1>1, GreatestElement
<1> QED  BY <1>2, Zenon DEF Greatest

(* Such a fold exists.                                                     *)
LEMMA FoldExists ==
  ASSUME NEW E, NEW w \in Seq(E), NEW S, NEW base \in S, NEW step \in [S \X E -> S]
  PROVE  \E g \in [SUBSET (DOMAIN w) -> S] : FoldsBack(g, w, S, base, step)
<1> DEFINE D    == DOMAIN w
           pick == [s \in SUBSET D |-> Greatest(s)]
           move == [p \in S \X D |-> step[<<p[1], w[p[2]]>>]]
<1>1. D = 1..Len(w) /\ Len(w) \in Nat /\ IsFiniteSet(D)
  <2>1. D = 1..Len(w) /\ Len(w) \in Nat
    OBVIOUS
  <2> QED  BY <2>1, FS_Interval
<1>2. \A s \in SUBSET D : s # {} => Greatest(s) \in s
  BY HasGreatest
<1>3. Picks(pick, D)
  BY <1>2 DEF Picks
<1>4. move \in [S \X D -> S]
  <2>1. \A p \in S \X D : <<p[1], w[p[2]]>> \in S \X E
    OBVIOUS
  <2> QED  BY <2>1
<1>5. \A a \in S, x \in D : move[<<a, x>>] = step[<<a, w[x]>>]
  OBVIOUS
<1>6. \A s \in SUBSET D : pick[s] = Greatest(s)
  OBVIOUS
<1> HIDE DEF pick, move, D
<1>7. PICK g : Recurs(g, D, S, base, pick, move)
  BY <1>1, <1>3, <1>4, SubsetRecursion
<1>8. g \in [SUBSET D -> S] /\ g[{}] = base
  BY <1>7 DEF Recurs
<1>9. ASSUME NEW s \in SUBSET D, s # {}
      PROVE  g[s] = step[<<g[s \ {Greatest(s)}], w[Greatest(s)]>>]
  <2>1. g[s] = move[<<g[s \ {Greatest(s)}], Greatest(s)>>]
    BY <1>6, <1>7, <1>9 DEF Recurs
  <2>2. Greatest(s) \in D /\ s \ {Greatest(s)} \in SUBSET D
    BY <1>2, <1>9
  <2>3. g[s \ {Greatest(s)}] \in S
    BY <1>8, <2>2
  <2> QED  BY <1>5, <2>1, <2>2, <2>3
<1>10. FoldsBack(g, w, S, base, step)
  BY <1>8, <1>9 DEF FoldsBack, D
<1> QED  BY <1>8, <1>10 DEF D

(* And is what the loop returns.                                           *)
LEMMA FoldIsLoop ==
  ASSUME NEW E, NEW w \in Seq(E), NEW S, NEW base, base \in S, NEW step, Steps(step, S, E),
         NEW g, FoldsBack(g, w, S, base, step)
  PROVE  g[DOMAIN w] = Folded(w, S, base, step)
<1>0. step \in [S \X E -> S]
  BY DEF Steps
<1> DEFINE h == CHOOSE h : Loops(h, w, S, base, step)
           n == Len(w)
           T == {k \in 0..n : g[1..k] = h[k]}
<1>1. Loops(h, w, S, base, step)
  <2>1. \E l : Loops(l, w, S, base, step)
    BY <1>0, LoopExists
  <2> QED  BY <2>1, Zenon
<1>2. Folded(w, S, base, step) = h[n]
  BY Zenon DEF Folded
<1> HIDE DEF h
<1>3. n \in Nat /\ DOMAIN w = 1..n
  OBVIOUS
<1>4. 0 \in T
  <2>1. 1..0 = {}
    OBVIOUS
  <2> QED  BY <1>1, <1>3, <2>1 DEF Loops, FoldsBack
<1>5. ASSUME NEW k \in 1..n, k - 1 \in T PROVE k \in T
  <2>1. k - 1 \in 0..n /\ h[k - 1] \in S /\ h[k] = step[<<h[k - 1], w[k]>>]
    <3>1. h \in [0..n -> S] /\ \A i \in 1..n : h[i] = step[<<h[i - 1], w[i]>>]
      BY <1>1 DEF Loops
    <3>2. k - 1 \in 0..n
      BY <1>3
    <3> HIDE DEF n
    <3> QED  BY <3>1, <3>2
  <2>2. g[1..(k - 1)] = h[k - 1]
    BY <1>5
  <2>3. 1..k # {} /\ 1..k \in SUBSET (DOMAIN w) /\ Greatest(1..k) = k /\ (1..k) \ {k} = 1..(k - 1)
    BY <1>3, LastOfFirst
  <2>4. g[1..k] = step[<<g[1..(k - 1)], w[k]>>]
    <3>1. g[(1..k) \ {Greatest(1..k)}] = h[k - 1]
      BY <2>2, <2>3
    <3>2. g[1..k] = step[<<g[(1..k) \ {Greatest(1..k)}], w[Greatest(1..k)]>>]
      BY <2>1, <2>3, <3>1 DEF FoldsBack
    <3> QED  BY <2>2, <2>3, <3>1, <3>2
  <2>5. k \in 0..n
    BY <1>3
  <2> QED  BY <2>1, <2>2, <2>4, <2>5
<1> HIDE DEF T, n
<1>6. 0..n \subseteq T
  BY <1>3, <1>4, <1>5, UpTo
<1>7. n \in T
  BY <1>3, <1>6
<1>8. g[1..n] = h[n]
  BY <1>7 DEF T
<1> QED  BY <1>2, <1>3, <1>8
=============================================================================
