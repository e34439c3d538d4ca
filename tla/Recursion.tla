------------------------------ MODULE Recursion ------------------------------
(***************************************************************************)
(* Induction, and why a definition by recursion defines something: for     *)
(* the provers f[v \in S] == ... is the choice of a function that has the  *)
(* property, if there is one.                                              *)
(*                                                                         *)
(* The library's induction theorems take an operator, which the provers    *)
(* cannot instantiate.  LeastNumber and Induction take a set instead, and  *)
(* the step of a recursion is a constant of this module: a module that has *)
(* a recursion instantiates this one with its step.                        *)
(***************************************************************************)
EXTENDS Naturals, WellFoundedInduction, TLAPS

CONSTANT Step(_, _, _)   \* of a context, an argument and the function so far

\* f is what the recursion defines on S
Solves(a, S, f) == f = [v \in S |-> Step(a, v, f)]

\* The value at v is made from values at arguments of lower height
LooksLower(a, S, h) ==
    \A v \in S : \A f, g :
       (\A p \in S : h[p] < h[v] => f[p] = g[p]) => Step(a, v, f) = Step(a, v, g)

\* ... at a number, from the value at the one before
LooksBack(a, n) ==
    \A k \in 0..n : \A f, g :
       (k # 0 => f[k - 1] = g[k - 1]) => Step(a, k, f) = Step(a, k, g)

LEMMA LeastNumber ==
    ASSUME NEW T, T \subseteq Nat, T # {}
    PROVE  \E x \in T : \A y \in T : x <= y
<1> DEFINE Less == {ss \in Nat \X Nat : ss[1] < ss[2]}
<1>1. IsWellFoundedOn(Less, Nat)
  BY NatLessThanWellFounded DEF OpToRel
<1> HIDE DEF Less
<1>2. \E x \in T : \A y \in T : <<y, x>> \notin Less
  BY <1>1, WFMin
<1>3. PICK x \in T : \A y \in T : <<y, x>> \notin Less
  BY <1>2
<1>4. ASSUME NEW y \in T PROVE x <= y
  <2>1. x \in Nat /\ y \in Nat
    OBVIOUS
  <2>2. ~ (y < x)
    BY <1>3, <2>1 DEF Less
  <2>3. QED
    BY <2>1, <2>2
<1>5. QED
  BY <1>4

LEMMA Induction ==
    ASSUME NEW T, 0 \in T, \A n \in Nat : n \in T => n + 1 \in T
    PROVE  Nat \subseteq T
<1> SUFFICES ASSUME Nat \ T # {} PROVE FALSE
  OBVIOUS
<1>1. PICK x \in Nat \ T : \A y \in Nat \ T : x <= y
  BY LeastNumber
<1>2. x # 0 /\ x - 1 \in Nat
  BY <1>1
<1>3. x - 1 \in T
  BY <1>1, <1>2
<1>4. QED
  BY <1>1, <1>2, <1>3

\* The same over anything that has a height
LEMMA HeightInduction ==
    ASSUME NEW S, NEW h \in [S -> Nat], NEW T,
           \A v \in S : (\A p \in S : h[p] < h[v] => p \in T) => v \in T
    PROVE  S \subseteq T
<1> DEFINE U == {n \in Nat : \A v \in S : h[v] < n => v \in T}
<1>1. 0 \in U
  OBVIOUS
<1>2. ASSUME NEW n \in Nat, n \in U PROVE n + 1 \in U
  <2> SUFFICES ASSUME NEW v \in S, h[v] < n + 1 PROVE v \in T
    OBVIOUS
  <2>1. \A p \in S : h[p] < h[v] => h[p] < n
    <3>1. h[v] \in Nat /\ \A p \in S : h[p] \in Nat
      OBVIOUS
    <3>2. QED
      BY <3>1
  <2>2. QED
    BY <1>2, <2>1
<1> HIDE DEF U
<1>3. Nat \subseteq U
  BY <1>1, <1>2, Induction
<1>4. ASSUME NEW v \in S PROVE v \in T
  <2>1. h[v] + 1 \in Nat /\ h[v] < h[v] + 1
    OBVIOUS
  <2>2. h[v] + 1 \in U
    BY <1>3, <2>1
  <2>3. QED
    BY <2>1, <2>2 DEF U
<1>5. QED
  BY <1>4

----------------------------------------------------------------------------
\* A step that looks at lower arguments only defines a function: it is put
\* together from functions that are right up to a height, which all agree.
LEMMA RecursionExists ==
    ASSUME NEW a, NEW S, NEW h \in [S -> Nat], LooksLower(a, S, h)
    PROVE  \E f : Solves(a, S, f)
<1> DEFINE Fits(n, f) == \A v \in S : h[v] < n => f[v] = Step(a, v, f)
           T == {n \in Nat : \E f : Fits(n, f)}
<1>0. \A v \in S : h[v] \in Nat
  OBVIOUS
<1> USE DEF LooksLower
<1>1. 0 \in T
  BY <1>0
<1>2. ASSUME NEW n \in Nat, n \in T PROVE n + 1 \in T
  <2>1. PICK f : Fits(n, f)
    BY <1>2
  <2> DEFINE g == [v \in S |-> IF h[v] < n THEN f[v] ELSE Step(a, v, f)]
  <2>2. \A v \in S : h[v] < n => g[v] = f[v]
    OBVIOUS
  <2>3. \A v \in S : ~ (h[v] < n) => g[v] = Step(a, v, f)
    OBVIOUS
  <2> HIDE DEF g
  <2>4. ASSUME NEW v \in S, h[v] < n + 1 PROVE g[v] = Step(a, v, g)
    <3>1. \A p \in S : h[p] < h[v] => h[p] < n
      BY <1>0, <2>4
    <3>2. Step(a, v, f) = Step(a, v, g)
      BY <2>2, <3>1
    <3>3. QED
      BY <2>1, <2>2, <2>3, <3>2
  <2>5. Fits(n + 1, g)
    BY <2>4
  <2>6. QED
    BY <2>5
<1> HIDE DEF T
<1>3. Nat \subseteq T
  BY <1>1, <1>2, Induction
<1>4. \A n \in Nat : \E f : Fits(n, f)
  BY <1>3 DEF T
<1>5. ASSUME NEW m \in Nat, NEW n \in Nat, NEW f, NEW g, Fits(m, f), Fits(n, g)
      PROVE  \A v \in S : h[v] < m /\ h[v] < n => f[v] = g[v]
  <2> DEFINE U == {v \in S : h[v] < m /\ h[v] < n => f[v] = g[v]}
  <2>1. ASSUME NEW v \in S, \A p \in S : h[p] < h[v] => p \in U
        PROVE  v \in U
    <3> SUFFICES ASSUME h[v] < m, h[v] < n PROVE f[v] = g[v]
      OBVIOUS
    <3>1. \A p \in S : h[p] < h[v] => h[p] < m /\ h[p] < n
      BY <1>0
    <3>2. \A p \in S : h[p] < h[v] => f[p] = g[p]
      BY <2>1, <3>1
    <3>3. Step(a, v, f) = Step(a, v, g)
      BY <3>2
    <3>4. QED
      BY <1>5, <3>3
  <2> HIDE DEF U
  <2>2. S \subseteq U
    BY <2>1, HeightInduction
  <2>3. QED
    BY <2>2 DEF U
<1> DEFINE At(v) == CHOOSE f : Fits(h[v] + 1, f)
           F == [v \in S |-> At(v)[v]]
<1>6. \A v \in S : h[v] + 1 \in Nat /\ h[v] < h[v] + 1
  BY <1>0
<1>7. \A v \in S : Fits(h[v] + 1, At(v))
  BY <1>4, <1>6
<1> HIDE DEF At
<1>8. \A v \in S : F[v] = At(v)[v]
  OBVIOUS
<1>9. F = [v \in S |-> F[v]]
  OBVIOUS
<1> HIDE DEF F
<1>10. ASSUME NEW v \in S PROVE F[v] = Step(a, v, F)
  <2>1. At(v)[v] = Step(a, v, At(v))
    BY <1>6, <1>7
  <2>2. ASSUME NEW p \in S, h[p] < h[v] PROVE F[p] = At(v)[p]
    <3>1. h[p] < h[p] + 1 /\ h[p] < h[v] + 1
      BY <1>0, <2>2
    <3>2. At(p)[p] = At(v)[p]
      BY <1>5, <1>6, <1>7, <3>1
    <3>3. QED
      BY <1>8, <3>2
  <2>3. Step(a, v, At(v)) = Step(a, v, F)
    BY <2>2
  <2>4. QED
    BY <1>8, <2>1, <2>3
<1>11. Solves(a, S, F)
  BY <1>9, <1>10 DEF Solves
<1>12. QED
  BY <1>11

\* A count: each number's value is made from the one before.
LEMMA CountExists ==
    ASSUME NEW a, NEW n \in Nat, LooksBack(a, n)
    PROVE  \E f : Solves(a, 0..n, f)
<1> DEFINE S == 0..n
           h == [k \in S |-> k]
<1>1. h \in [S -> Nat] /\ \A k \in S : h[k] = k
  OBVIOUS
<1>2. \A k \in S : k # 0 => k - 1 \in S /\ k - 1 < k
  OBVIOUS
<1>3. \A k \in S : \A f, g :
         (k # 0 => f[k - 1] = g[k - 1]) => Step(a, k, f) = Step(a, k, g)
  BY DEF LooksBack
<1> HIDE DEF h, S
<1>4. LooksLower(a, S, h)
  <2> SUFFICES ASSUME NEW k \in S, NEW f, NEW g,
                      \A j \in S : h[j] < h[k] => f[j] = g[j]
               PROVE  Step(a, k, f) = Step(a, k, g)
    BY DEF LooksLower
  <2>1. k # 0 => f[k - 1] = g[k - 1]
    BY <1>1, <1>2
  <2>2. QED
    BY <1>3, <2>1
<1>5. \E f : Solves(a, S, f)
  BY <1>1, <1>4, RecursionExists
<1>6. QED
  BY <1>5 DEF S
=============================================================================
