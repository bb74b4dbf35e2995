------------------------- MODULE SerializationProofs -------------------------
(* For any byte width, any values and any payload: what was serialized is   *)
(* read back, a payload that lost its end is noticed, and nothing outside   *)
(* the payload is read.                                                     *)
(*                                                                          *)
(* The formats are recursive functions.  Facts about them are proved by     *)
(* looking at a smallest counterexample (LeastNatural).                     *)
EXTENDS Serialization, SequenceTheorems, WellFoundedInduction, TLAPS

LEMMA LeastNatural ==
  ASSUME NEW T \in SUBSET Nat, T # {}
  PROVE  \E x \in T : \A y \in T : x <= y
<1>1. PICK x \in T : \A y \in T : ~ (<<y, x>> \in OpToRel(<, Nat))
  BY NatLessThanWellFounded, WFMin
<1>2. ASSUME NEW y \in T PROVE x <= y
  <2>1. x \in Nat /\ y \in Nat /\ <<y, x>> \in Nat \X Nat
    OBVIOUS
  <2>2. ~(<<y, x>> \in {ss \in Nat \X Nat : ss[1] < ss[2]})
    BY <1>1 DEF OpToRel
  <2>3. ~(y < x)
    BY <2>1, <2>2
  <2>. QED BY <2>1, <2>3
<1>. QED BY <1>2

(* A function whose value at x depends only on its values at arguments of   *)
(* smaller size exists: D[<<f, x>>] is the body of its definition.          *)
Depends(D, X, S, size) ==
  \A f, g \in [X -> S], x \in X :
     (\A y \in X : size[y] < size[x] => f[y] = g[y]) => D[<<f, x>>] = D[<<g, x>>]

(* f satisfies the definition below size k.                                 *)
Solves(f, D, X, S, size, k) ==
  f \in [X -> S] /\ \A x \in X : size[x] < k => f[x] = D[<<f, x>>]

Solvable(D, X, S) == \E f \in [X -> S] : \A x \in X : f[x] = D[<<f, x>>]

Agree(D, X, S, size) ==
  \A j, k \in Nat : \A f, g :
     Solves(f, D, X, S, size, j) /\ Solves(g, D, X, S, size, k) =>
       \A x \in X : size[x] < j /\ size[x] < k => f[x] = g[x]

LEMMA SolutionExists ==
  ASSUME NEW X, NEW S, S # {}, NEW size \in [X -> Nat],
         NEW D \in [[X -> S] \X X -> S], Depends(D, X, S, size)
  PROVE  \A k \in Nat : \E f : Solves(f, D, X, S, size, k)
<1> DEFINE T == {k \in Nat : ~ \E f : Solves(f, D, X, S, size, k)}
<1> SUFFICES ASSUME T # {} PROVE FALSE
  OBVIOUS
<1>1. PICK k \in T : \A j \in T : k <= j
  BY LeastNatural
<1>2. k # 0
  <2>1. PICK s \in S : TRUE
    OBVIOUS
  <2>2. Solves([x \in X |-> s], D, X, S, size, 0)
    BY DEF Solves
  <2>. QED BY <1>1, <2>2
<1>3. k - 1 \in Nat /\ k - 1 \notin T
  BY <1>1, <1>2
<1>4. PICK f : Solves(f, D, X, S, size, k - 1)
  BY <1>3
<1> DEFINE g == [x \in X |-> D[<<f, x>>]]
<1>5. g \in [X -> S]
  BY <1>4 DEF Solves
<1>6. ASSUME NEW x \in X, size[x] < k PROVE g[x] = D[<<g, x>>]
  <2>1. ASSUME NEW y \in X, size[y] < size[x] PROVE f[y] = g[y]
    <3>1. size[y] < k - 1
      BY <1>1, <1>6, <2>1
    <3>. QED BY <1>4, <3>1 DEF Solves
  <2>2. D[<<f, x>>] = D[<<g, x>>]
    <3>1. f \in [X -> S]
      BY <1>4 DEF Solves
    <3> HIDE DEF g
    <3>. QED BY <1>5, <2>1, <3>1 DEF Depends
  <2>. QED BY <2>2
<1>7. Solves(g, D, X, S, size, k)
  BY <1>5, <1>6 DEF Solves
<1>. QED BY <1>1, <1>7

LEMMA SolutionsAgree ==
  ASSUME NEW X, NEW S, NEW size \in [X -> Nat],
         NEW D \in [[X -> S] \X X -> S], Depends(D, X, S, size)
  PROVE  Agree(D, X, S, size)
<1> SUFFICES ASSUME NEW j \in Nat, NEW k \in Nat, NEW f, NEW g,
                    Solves(f, D, X, S, size, j), Solves(g, D, X, S, size, k)
             PROVE  \A x \in X : size[x] < j /\ size[x] < k => f[x] = g[x]
  BY DEF Agree
<1> DEFINE T == {n \in Nat : \E x \in X : size[x] = n /\ n < j /\ n < k /\ f[x] # g[x]}
<1> SUFFICES ASSUME T # {} PROVE FALSE
  OBVIOUS
<1>1. PICK n \in T : \A m \in T : n <= m
  BY LeastNatural
<1>2. PICK x \in X : size[x] = n /\ n < j /\ n < k /\ f[x] # g[x]
  BY <1>1
<1>3. ASSUME NEW y \in X, size[y] < size[x] PROVE f[y] = g[y]
  <2>1. size[y] \notin T
    BY <1>1, <1>2, <1>3
  <2>. QED BY <1>2, <1>3, <2>1
<1>4. f \in [X -> S] /\ g \in [X -> S]
  BY DEF Solves
<1>5. D[<<f, x>>] = D[<<g, x>>]
  BY <1>3, <1>4 DEF Depends
<1>. QED BY <1>2, <1>5 DEF Solves

LEMMA Recursion ==
  ASSUME NEW X, NEW S, S # {}, NEW size \in [X -> Nat],
         NEW D \in [[X -> S] \X X -> S], Depends(D, X, S, size)
  PROVE  Solvable(D, X, S)
<1> DEFINE F(k) == CHOOSE f : Solves(f, D, X, S, size, k)
<1>1. \A k \in Nat : Solves(F(k), D, X, S, size, k)
  BY SolutionExists
<1>0. Agree(D, X, S, size)
  BY SolutionsAgree
<1> HIDE DEF F
<1> DEFINE f == [x \in X |-> F(size[x] + 1)[x]]
<1>2. \A x \in X : size[x] \in Nat /\ size[x] + 1 \in Nat
  OBVIOUS
<1>3. \A k \in Nat : F(k) \in [X -> S]
  BY <1>1 DEF Solves
<1>4. f \in [X -> S]
  BY <1>2, <1>3
<1>5. ASSUME NEW x \in X PROVE f[x] = D[<<f, x>>]
  <2> DEFINE h == F(size[x] + 1)
  <2>1. h \in [X -> S] /\ Solves(h, D, X, S, size, size[x] + 1)
    BY <1>1, <1>2, <1>3
  <2>2. f[x] = h[x]
    OBVIOUS
  <2> HIDE DEF h
  <2>3. h[x] = D[<<h, x>>]
    <3>1. size[x] < size[x] + 1
      BY <1>2
    <3>. QED BY <2>1, <3>1 DEF Solves
  <2>4. ASSUME NEW y \in X, size[y] < size[x] PROVE f[y] = h[y]
    <3>1. Solves(F(size[y] + 1), D, X, S, size, size[y] + 1)
      BY <1>1, <1>2
    <3>2. size[y] < size[y] + 1 /\ size[y] < size[x] + 1
      BY <1>2, <2>4
    <3>3. PICK g : g = F(size[y] + 1)
      OBVIOUS
    <3>4. PICK j \in Nat : j = size[y] + 1
      BY <1>2
    <3>5. PICK k \in Nat : k = size[x] + 1
      BY <1>2
    <3>6. g[y] = h[y]
      <4>1. Solves(g, D, X, S, size, j) /\ Solves(h, D, X, S, size, k)
        BY <2>1, <3>1, <3>3, <3>4, <3>5
      <4>2. \A z \in X : size[z] < j /\ size[z] < k => g[z] = h[z]
        BY <1>0, <4>1 DEF Agree
      <4>. QED BY <3>2, <3>4, <3>5, <4>2
    <3>. QED BY <3>3, <3>6
  <2> HIDE DEF f
  <2>5. D[<<f, x>>] = D[<<h, x>>]
    BY <1>4, <2>1, <2>4 DEF Depends
  <2>. QED BY <2>2, <2>3, <2>5
<1>. QED BY <1>4, <1>5 DEF Solvable

------------------------------------------------------------------------------
(* Bytes and the groups of a variable-length integer.                       *)
LEMMA HalfFacts == Half \in Nat /\ Half >= 2 /\ Base = 2 * Half /\ Base \in Nat
  BY BaseAssumption DEF Half

LEMMA DivMod ==
  ASSUME NEW n \in Nat
  PROVE  /\ n % Half \in 0..(Half - 1)
         /\ n \div Half \in Nat
         /\ n = Half * (n \div Half) + (n % Half)
         /\ n >= Half => n \div Half < n
  BY HalfFacts

LEMMA Groups ==
  /\ \A n \in Nat : n < Half => <<n>> \in Seq(Byte)
  /\ \A n \in Nat : <<Half + (n % Half)>> \in Seq(Byte)
<1>1. ASSUME NEW n \in Nat, n < Half PROVE <<n>> \in Seq(Byte)
  <2>1. n \in Byte
    BY <1>1, HalfFacts DEF Byte
  <2>. QED BY <2>1
<1>2. ASSUME NEW n \in Nat PROVE <<Half + (n % Half)>> \in Seq(Byte)
  <2>1. n % Half \in 0..(Half - 1)
    BY DivMod
  <2>2. Half + (n % Half) \in Byte
    BY <2>1, HalfFacts DEF Byte
  <2>. QED BY <2>2
<1>. QED BY <1>1, <1>2

(* The definition of VarInt determines a function.                          *)
LEMMA VarIntDefined ==
  VarInt = [n \in Nat |-> IF n < Half THEN <<n>>
                          ELSE <<Half + (n % Half)>> \o VarInt[n \div Half]]
<1> DEFINE S == Seq(Byte)
<1> DEFINE size == [n \in Nat |-> n]
<1> DEFINE D == [fx \in [Nat -> S] \X Nat |->
                   IF fx[2] < Half THEN <<fx[2]>>
                   ELSE <<Half + (fx[2] % Half)>> \o fx[1][fx[2] \div Half]]
<1>1. \A f \in [Nat -> S], n \in Nat :
         D[<<f, n>>] = IF n < Half THEN <<n>> ELSE <<Half + (n % Half)>> \o f[n \div Half]
  OBVIOUS
<1>2. ASSUME NEW f \in [Nat -> S], NEW n \in Nat PROVE D[<<f, n>>] \in S
  <2>1. <<Half + (n % Half)>> \in S /\ f[n \div Half] \in S
    BY Groups, DivMod
  <2>2. <<Half + (n % Half)>> \o f[n \div Half] \in S
    BY <2>1, ConcatProperties
  <2>. QED BY <1>1, <2>2, Groups
<1>3. D \in [[Nat -> S] \X Nat -> S]
  BY <1>2
<1>4. Depends(D, Nat, S, size)
  <2> SUFFICES ASSUME NEW f \in [Nat -> S], NEW g \in [Nat -> S], NEW n \in Nat,
                      \A m \in Nat : size[m] < size[n] => f[m] = g[m]
               PROVE  D[<<f, n>>] = D[<<g, n>>]
    BY DEF Depends
  <2>1. n >= Half => f[n \div Half] = g[n \div Half]
    BY DivMod
  <2>2. n < Half \/ n >= Half
    BY HalfFacts
  <2>. QED BY <1>1, <2>1, <2>2
<1>5. size \in [Nat -> Nat] /\ S # {}
  <2>1. <<>> \in S
    OBVIOUS
  <2>. QED BY <2>1
<1> HIDE DEF D, size, S
<1>6. PICK f \in [Nat -> S] : \A n \in Nat : f[n] = D[<<f, n>>]
  <2>1. Solvable(D, Nat, S)
    BY <1>3, <1>4, <1>5, Recursion
  <2>. QED BY <2>1 DEF Solvable
<1>7. f = [n \in Nat |-> IF n < Half THEN <<n>> ELSE <<Half + (n % Half)>> \o f[n \div Half]]
  BY <1>1, <1>6
<1>. QED BY <1>7 DEF VarInt

LEMMA ValueDefined ==
  Value = [g \in Seq(Byte) |-> IF g = <<>> THEN 0 ELSE (g[1] % Half) + Half * Value[Tail(g)]]
<1> DEFINE X == Seq(Byte)
<1> DEFINE size == [g \in X |-> Len(g)]
<1> DEFINE D == [fx \in [X -> Nat] \X X |->
                   IF fx[2] = <<>> THEN 0
                   ELSE (fx[2][1] % Half) + Half * fx[1][Tail(fx[2])]]
<1>1. \A f \in [X -> Nat], g \in X :
         D[<<f, g>>] = IF g = <<>> THEN 0 ELSE (g[1] % Half) + Half * f[Tail(g)]
  OBVIOUS
<1>2. ASSUME NEW g \in X, g # <<>> PROVE g[1] \in Nat /\ Tail(g) \in X /\ Len(Tail(g)) < Len(g)
  <2>1. Head(g) \in Byte /\ Tail(g) \in X /\ Len(Tail(g)) = Len(g) - 1 /\ Len(g) \in Nat
    BY <1>2, HeadTailProperties
  <2>2. g[1] \in Byte
    BY <1>2, EmptySeq, ElementOfSeq
  <2>. QED BY <2>1, <2>2, HalfFacts DEF Byte
<1>3. ASSUME NEW f \in [X -> Nat], NEW g \in X PROVE D[<<f, g>>] \in Nat
  <2>1. CASE g = <<>>
    BY <1>1, <2>1
  <2>2. CASE g # <<>>
    <3>1. g[1] \in Nat /\ f[Tail(g)] \in Nat
      BY <1>2, <2>2
    <3>2. PICK a \in Nat, b \in Nat : a = g[1] /\ b = f[Tail(g)]
      BY <3>1
    <3>3. (a % Half) + Half * b \in Nat
      <4>1. a % Half \in 0..(Half - 1)
        BY DivMod
      <4>2. Half * b \in Nat
        BY HalfFacts
      <4>. QED BY <4>1, <4>2, HalfFacts
    <3>. QED BY <1>1, <2>2, <3>2, <3>3
  <2>. QED BY <2>1, <2>2
<1>4. D \in [[X -> Nat] \X X -> Nat]
  BY <1>3
<1>5. Depends(D, X, Nat, size)
  <2> SUFFICES ASSUME NEW f \in [X -> Nat], NEW h \in [X -> Nat], NEW g \in X,
                      \A y \in X : size[y] < size[g] => f[y] = h[y]
               PROVE  D[<<f, g>>] = D[<<h, g>>]
    BY DEF Depends
  <2>1. g # <<>> => f[Tail(g)] = h[Tail(g)]
    BY <1>2
  <2>. QED BY <1>1, <2>1
<1>6. size \in [X -> Nat]
  OBVIOUS
<1> HIDE DEF D, size, X
<1>7. PICK f \in [X -> Nat] : \A g \in X : f[g] = D[<<f, g>>]
  <2>1. Solvable(D, X, Nat)
    BY <1>4, <1>5, <1>6, Recursion
  <2>. QED BY <2>1 DEF Solvable
<1>8. f = [g \in X |-> IF g = <<>> THEN 0 ELSE (g[1] % Half) + Half * f[Tail(g)]]
  BY <1>1, <1>7
<1>. QED BY <1>8 DEF Value, X

(* Marked groups and then one that is not.                                  *)
Framed(v) ==
  /\ v \in Seq(Byte) /\ Len(v) >= 1 /\ v[Len(v)] < Half
  /\ \A i \in 1..Len(v) - 1 : v[i] >= Half

LEMMA VarIntEquation ==
  ASSUME NEW n \in Nat
  PROVE  VarInt[n] = IF n < Half THEN <<n>> ELSE <<Half + (n % Half)>> \o VarInt[n \div Half]
  BY VarIntDefined

LEMMA FramedStep ==
  ASSUME NEW w, Framed(w), NEW n \in Nat
  PROVE  /\ Framed(<<Half + (n % Half)>> \o w)
         /\ (<<Half + (n % Half)>> \o w)[1] = Half + (n % Half)
         /\ Tail(<<Half + (n % Half)>> \o w) = w
<1>1. PICK a : a = Half + (n % Half)
  OBVIOUS
<1>2. a \in Byte /\ a >= Half /\ Half \in Nat
  BY <1>1, HalfFacts, DivMod DEF Byte
<1>3. PICK s : s = <<a>>
  OBVIOUS
<1>4. s \in Seq(Byte) /\ Len(s) = 1 /\ s[1] = a /\ w \in Seq(Byte) /\ Len(w) \in Nat
  BY <1>2, <1>3 DEF Framed
<1> DEFINE v == s \o w
<1>5. v \in Seq(Byte)
  BY <1>4, ConcatProperties
<1>6. Len(v) = Len(s) + Len(w)
  BY <1>4, ConcatProperties
<1>7. \A i \in 1..Len(s) + Len(w) : v[i] = IF i <= Len(s) THEN s[i] ELSE w[i - Len(s)]
  BY <1>4, ConcatProperties
<1> HIDE DEF v
<1>8. Len(v) = Len(w) + 1 /\ v[1] = a /\ \A i \in 2..Len(w) + 1 : v[i] = w[i - 1]
  BY <1>4, <1>6, <1>7
<1>9. Framed(v)
  <2>1. v[Len(v)] = w[Len(w)] /\ Len(v) >= 1
    BY <1>4, <1>8 DEF Framed
  <2>2. ASSUME NEW i \in 1..Len(v) - 1 PROVE v[i] >= Half
    <3>1. CASE i = 1
      BY <1>2, <1>8, <3>1
    <3>2. CASE i # 1
      <4>1. i - 1 \in 1..Len(w) - 1 /\ i \in 2..Len(w) + 1
        BY <1>4, <1>8, <3>2
      <4>. QED BY <1>8, <4>1 DEF Framed
    <3>. QED BY <3>1, <3>2
  <2>. QED BY <1>5, <2>1, <2>2 DEF Framed
<1>10. Tail(v) = w
  <2>1. v # <<>>
    BY <1>8, <1>4, EmptySeq
  <2>2. Tail(v) \in Seq(Byte) /\ Len(Tail(v)) = Len(v) - 1
        /\ \A i \in 1..Len(Tail(v)) : Tail(v)[i] = v[i + 1]
    BY <1>5, <2>1, HeadTailProperties
  <2>3. Len(Tail(v)) = Len(w)
    BY <1>4, <1>8, <2>2
  <2>4. \A i \in 1..Len(w) : Tail(v)[i] = w[i]
    BY <1>4, <1>8, <2>2
  <2>. QED BY <1>4, <2>2, <2>3, <2>4, SeqEqual
<1>. QED BY <1>1, <1>3, <1>8, <1>9, <1>10 DEF v

LEMMA VarIntFramed == \A n \in Nat : Framed(VarInt[n])
<1> DEFINE T == {n \in Nat : ~Framed(VarInt[n])}
<1> SUFFICES ASSUME T # {} PROVE FALSE
  OBVIOUS
<1>1. PICK n \in T : \A m \in T : n <= m
  BY LeastNatural
<1>2. CASE n < Half
  <2>1. VarInt[n] = <<n>> /\ <<n>> \in Seq(Byte)
    BY <1>2, VarIntEquation, Groups
  <2>2. Framed(<<n>>)
    BY <1>2, <2>1 DEF Framed
  <2>. QED BY <1>1, <2>1, <2>2
<1>3. CASE ~(n < Half)
  <2>1. n \div Half \in Nat /\ n \div Half < n
    BY <1>3, DivMod, HalfFacts
  <2>2. Framed(VarInt[n \div Half])
    BY <1>1, <2>1
  <2>3. VarInt[n] = <<Half + (n % Half)>> \o VarInt[n \div Half]
    BY <1>3, VarIntEquation
  <2>. QED BY <1>1, <2>2, <2>3, FramedStep
<1>. QED BY <1>2, <1>3

LEMMA ModFacts ==
  ASSUME NEW n \in Nat, n < Half
  PROVE  n % Half = n /\ (Half + n) % Half = n
<1>1. n % Half = n
  BY HalfFacts
<1>2. (Half + n) % Half = n
  BY HalfFacts
<1>. QED BY <1>1, <1>2

LEMMA ValueEquation ==
  ASSUME NEW g \in Seq(Byte), g # <<>>
  PROVE  Value[g] = (g[1] % Half) + Half * Value[Tail(g)]
  BY ValueDefined

LEMMA ValueEmpty == Value[<<>>] = 0
<1>1. <<>> \in Seq(Byte)
  OBVIOUS
<1>. QED BY <1>1, ValueDefined

LEMMA ValueType == \A g \in Seq(Byte) : Value[g] \in Nat
<1> DEFINE T == {k \in Nat : \E g \in Seq(Byte) : Len(g) = k /\ Value[g] \notin Nat}
<1> SUFFICES ASSUME T # {} PROVE FALSE
  OBVIOUS
<1>1. PICK k \in T : \A j \in T : k <= j
  BY LeastNatural
<1>2. PICK g \in Seq(Byte) : Len(g) = k /\ Value[g] \notin Nat
  BY <1>1
<1>3. g # <<>>
  BY <1>2, ValueEmpty
<1>4. Tail(g) \in Seq(Byte) /\ Len(Tail(g)) = Len(g) - 1 /\ g[1] \in Byte
  BY <1>3, HeadTailProperties, EmptySeq, ElementOfSeq
<1>5. Value[Tail(g)] \in Nat
  <2>1. Len(Tail(g)) \in Nat /\ Len(Tail(g)) < k
    BY <1>2, <1>4
  <2>2. Len(Tail(g)) \notin T
    BY <1>1, <2>1
  <2>. QED BY <1>4, <2>1, <2>2
<1>6. g[1] % Half \in 0..(Half - 1)
  <2>1. g[1] \in Nat
    BY <1>4, HalfFacts DEF Byte
  <2>. QED BY <2>1, DivMod
<1>7. PICK b \in Nat : b = Value[Tail(g)]
  BY <1>5
<1>8. Half * b \in Nat
  BY HalfFacts
<1>9. Value[g] = (g[1] % Half) + Half * b
  BY <1>3, <1>7, ValueEquation
<1>. QED BY <1>2, <1>6, <1>8, <1>9, HalfFacts

(* A number is the value of its groups.                                     *)
LEMMA ValueOfVarInt == \A n \in Nat : Value[VarInt[n]] = n
<1> DEFINE T == {n \in Nat : Value[VarInt[n]] # n}
<1> SUFFICES ASSUME T # {} PROVE FALSE
  OBVIOUS
<1>1. PICK n \in T : \A m \in T : n <= m
  BY LeastNatural
<1>2. CASE n < Half
  <2>1. VarInt[n] = <<n>> /\ <<n>> \in Seq(Byte) /\ <<n>> # <<>>
    BY <1>2, VarIntEquation, Groups
  <2>2. Tail(<<n>>) = <<>> /\ <<n>>[1] = n
    OBVIOUS
  <2>3. Value[<<n>>] = (n % Half) + Half * Value[<<>>]
    BY <2>1, <2>2, ValueEquation
  <2>4. Value[<<n>>] = n
    BY <1>2, <2>3, ValueEmpty, ModFacts, HalfFacts
  <2>. QED BY <1>1, <2>1, <2>4
<1>3. CASE ~(n < Half)
  <2>1. n \div Half \in Nat /\ n \div Half < n
    BY <1>3, DivMod, HalfFacts
  <2>2. Value[VarInt[n \div Half]] = n \div Half
    BY <1>1, <2>1
  <2>3. PICK v : v = <<Half + (n % Half)>> \o VarInt[n \div Half]
    OBVIOUS
  <2>4. VarInt[n] = v
    BY <1>3, <2>3, VarIntEquation
  <2>5. Framed(v) /\ v[1] = Half + (n % Half) /\ Tail(v) = VarInt[n \div Half]
    BY <2>1, <2>3, VarIntFramed, FramedStep
  <2>6. v \in Seq(Byte) /\ v # <<>>
    BY <2>5 DEF Framed
  <2>7. Value[v] = ((Half + (n % Half)) % Half) + Half * (n \div Half)
    BY <2>2, <2>5, <2>6, ValueEquation
  <2>8. PICK r \in Nat : r = n % Half /\ r < Half
    <3>1. n % Half \in 0..(Half - 1)
      BY DivMod
    <3>. QED BY <3>1, HalfFacts
  <2>9. Value[v] = r + Half * (n \div Half)
    BY <2>7, <2>8, ModFacts
  <2>10. Value[v] = n
    BY <2>8, <2>9, DivMod, HalfFacts
  <2>. QED BY <1>1, <2>4, <2>10
<1>. QED BY <1>2, <1>3

------------------------------------------------------------------------------
(* Decoding.  b starts with the bytes e, or is a part of e that lost its    *)
(* end.                                                                     *)
Starts(b, e) == Len(e) <= Len(b) /\ \A i \in 1..Len(e) : b[i] = e[i]
Cut(b, e) == Len(b) < Len(e) /\ \A i \in 1..Len(b) : b[i] = e[i]

LEMMA MinIs ==
  ASSUME NEW T \in SUBSET Int, NEW m \in T, \A x \in T : m <= x
  PROVE  Min(T) = m
<1>1. \A x \in T : (\A y \in T : x <= y) => x = m
  OBVIOUS
<1>. QED BY <1>1 DEF Min

LEMMA MinExists ==
  ASSUME NEW T \in SUBSET Nat, T # {}
  PROVE  Min(T) \in T /\ \A x \in T : Min(T) <= x
  BY LeastNatural DEF Min

LEMMA ByteFacts ==
  ASSUME NEW b \in Seq(Byte)
  PROVE  /\ Len(b) \in Nat /\ DOMAIN b = 1..Len(b)
         /\ \A i \in 1..Len(b) : b[i] \in Byte /\ b[i] \in Nat
<1>1. Len(b) \in Nat /\ DOMAIN b = 1..Len(b)
  BY LenProperties
<1>2. \A i \in 1..Len(b) : b[i] \in Byte
  BY ElementOfSeq
<1>3. \A x \in Byte : x \in Nat
  BY HalfFacts DEF Byte
<1>. QED BY <1>1, <1>2, <1>3

(* The first bytes of a sequence.                                           *)
LEMMA FirstBytes ==
  ASSUME NEW b \in Seq(Byte), NEW n \in 0..Len(b)
  PROVE  /\ SubSeq(b, 1, n) \in Seq(Byte) /\ Len(SubSeq(b, 1, n)) = n
         /\ \A i \in 1..n : SubSeq(b, 1, n)[i] = b[i]
<1>1. Len(b) \in Nat /\ n \in Nat /\ \A i \in 1..n : b[i] \in Byte
  BY ByteFacts
<1>2. /\ SubSeq(b, 1, n) \in Seq(Byte)
      /\ Len(SubSeq(b, 1, n)) = IF 1 <= n THEN n - 1 + 1 ELSE 0
      /\ \A i \in 1..n - 1 + 1 : SubSeq(b, 1, n)[i] = b[1 + i - 1]
  BY <1>1, SubSeqProperties
<1>3. ASSUME NEW i \in 1..n PROVE SubSeq(b, 1, n)[i] = b[i]
  <2>1. i \in 1..n - 1 + 1 /\ 1 + i - 1 = i
    BY <1>1
  <2>. QED BY <1>2, <2>1
<1>. QED BY <1>1, <1>2, <1>3

LEMMA DecodeVarIntBounds ==
  ASSUME NEW b \in Seq(Byte)
  PROVE  \/ DecodeVarInt(b) = Error
         \/ \E v \in Nat, n \in 1..Len(b) : DecodeVarInt(b) = Decoded(v, n)
<1> DEFINE last == {i \in DOMAIN b : b[i] < Half}
<1>1. CASE last = {} \/ Min(last) > MaxVarInt
  BY <1>1 DEF DecodeVarInt
<1>2. CASE ~(last = {} \/ Min(last) > MaxVarInt)
  <2>1. last \in SUBSET Nat /\ last \in SUBSET (1..Len(b))
    BY ByteFacts
  <2>2. Min(last) \in 1..Len(b)
    <3> HIDE DEF last
    <3>. QED BY <1>2, <2>1, MinExists
  <2>3. DecodeVarInt(b) = Decoded(Value[SubSeq(b, 1, Min(last))], Min(last))
    BY <1>2 DEF DecodeVarInt
  <2> HIDE DEF last
  <2>4. PICK n \in 1..Len(b) : n = Min(last)
    BY <2>2
  <2>5. Value[SubSeq(b, 1, n)] \in Nat
    <3>1. n \in 0..Len(b)
      BY ByteFacts
    <3>2. SubSeq(b, 1, n) \in Seq(Byte)
      BY <3>1, FirstBytes
    <3>. QED BY <3>2, ValueType
  <2>. QED BY <2>3, <2>4, <2>5
<1>. QED BY <1>1, <1>2

LEMMA DecodeVarIntWhole ==
  ASSUME NEW b \in Seq(Byte), NEW n \in Nat, Starts(b, VarInt[n]), Len(VarInt[n]) <= MaxVarInt
  PROVE  DecodeVarInt(b) = Decoded(n, Len(VarInt[n]))
<1> DEFINE last == {i \in DOMAIN b : b[i] < Half}
<1>1. PICK v : v = VarInt[n]
  OBVIOUS
<1>2. Framed(v) /\ v \in Seq(Byte) /\ Value[v] = n /\ Starts(b, v)
  BY <1>1, VarIntFramed, ValueOfVarInt DEF Framed
<1>3. Len(v) \in 1..Len(b) /\ Len(v) \in Nat /\ Len(b) \in Nat /\ MaxVarInt \in Nat
  BY <1>2, ByteFacts, LimitsAssumption DEF Framed, Starts
<1>4. last \in SUBSET Int /\ Len(v) \in last
  BY <1>2, <1>3, ByteFacts DEF Framed, Starts
<1>5. ASSUME NEW i \in last PROVE Len(v) <= i
  <2>1. i \in 1..Len(b) /\ b[i] \in Nat /\ b[i] < Half
    BY ByteFacts
  <2>2. CASE i < Len(v)
    <3>1. v[i] >= Half /\ b[i] = v[i]
      BY <1>2, <1>3, <2>1, <2>2 DEF Framed, Starts
    <3>. QED BY <2>1, <3>1, HalfFacts
  <2>. QED BY <1>3, <2>1, <2>2
<1>6. Min(last) = Len(v)
  <2> HIDE DEF last
  <2>. QED BY <1>4, <1>5, MinIs
<1>7. SubSeq(b, 1, Len(v)) = v
  <2>1. Len(v) \in 0..Len(b)
    BY <1>3
  <2>2. /\ SubSeq(b, 1, Len(v)) \in Seq(Byte) /\ Len(SubSeq(b, 1, Len(v))) = Len(v)
        /\ \A i \in 1..Len(v) : SubSeq(b, 1, Len(v))[i] = b[i]
    BY <2>1, FirstBytes
  <2>3. \A i \in 1..Len(v) : SubSeq(b, 1, Len(v))[i] = v[i]
    BY <1>2, <2>2 DEF Starts
  <2>. QED BY <1>2, <2>2, <2>3, SeqEqual
<1>8. last # {} /\ ~(Min(last) > MaxVarInt)
  BY <1>1, <1>3, <1>4, <1>6
<1>9. DecodeVarInt(b) = Decoded(Value[SubSeq(b, 1, Min(last))], Min(last))
  BY <1>8 DEF DecodeVarInt
<1>. QED BY <1>1, <1>2, <1>6, <1>7, <1>9

LEMMA DecodeVarIntCut ==
  ASSUME NEW b \in Seq(Byte), NEW n \in Nat, Cut(b, VarInt[n])
  PROVE  DecodeVarInt(b) = Error
<1> DEFINE last == {i \in DOMAIN b : b[i] < Half}
<1>1. ASSUME NEW i \in 1..Len(b) PROVE ~(b[i] < Half)
  <2>1. PICK v : v = VarInt[n] /\ Framed(v)
    BY VarIntFramed
  <2>2. Len(v) \in Nat /\ Len(b) \in Nat /\ b[i] \in Nat
    BY <2>1, ByteFacts DEF Framed
  <2>3. v[i] >= Half /\ b[i] = v[i]
    BY <2>1, <2>2 DEF Framed, Cut
  <2>. QED BY <2>2, <2>3, HalfFacts
<1>2. last = {}
  BY <1>1, ByteFacts
<1>. QED BY <1>2 DEF DecodeVarInt

(* n bytes of b after the first m.                                          *)
LEMMA PartOf ==
  ASSUME NEW b \in Seq(Byte), NEW m \in Nat, NEW n \in Nat, m + n <= Len(b)
  PROVE  /\ SubSeq(b, m + 1, m + n) \in Seq(Byte) /\ Len(SubSeq(b, m + 1, m + n)) = n
         /\ \A i \in 1..n : SubSeq(b, m + 1, m + n)[i] = b[m + i]
<1>1. Len(b) \in Nat /\ m + 1 \in Int /\ m + n \in Int /\ \A i \in m + 1..m + n : b[i] \in Byte
  BY ByteFacts
<1> DEFINE lo == m + 1
<1> DEFINE hi == m + n
<1>2. lo \in Int /\ hi \in Int /\ \A i \in lo..hi : b[i] \in Byte
  BY <1>1
<1> HIDE DEF lo, hi
<1>3. /\ SubSeq(b, lo, hi) \in Seq(Byte)
      /\ Len(SubSeq(b, lo, hi)) = IF lo <= hi THEN hi - lo + 1 ELSE 0
      /\ \A i \in 1..hi - lo + 1 : SubSeq(b, lo, hi)[i] = b[lo + i - 1]
  BY <1>2, SubSeqProperties
<1>4. (IF lo <= hi THEN hi - lo + 1 ELSE 0) = n /\ hi - lo + 1 = n
  BY DEF lo, hi
<1>5. ASSUME NEW i \in 1..n PROVE SubSeq(b, lo, hi)[i] = b[m + i]
  <2>1. i \in 1..hi - lo + 1
    BY <1>4
  <2>2. lo + i - 1 = m + i
    BY DEF lo
  <2>3. SubSeq(b, lo, hi)[i] = b[lo + i - 1]
    BY <1>3, <2>1
  <2>. QED BY <2>2, <2>3
<1>6. SubSeq(b, lo, hi) \in Seq(Byte) /\ Len(SubSeq(b, lo, hi)) = n
  BY <1>3, <1>4
<1>. QED BY <1>5, <1>6 DEF lo, hi

LEMMA ItemCases ==
  ASSUME NEW item \in Items
  PROVE  \/ item.kind = "uint8" /\ item.val \in Byte
         \/ item.kind = "uint16" /\ item.val \in 0..(Base * Base - 1)
         \/ item.kind = "bool" /\ item.val \in BOOLEAN
         \/ /\ item.kind \in OwnedKind /\ item.val \in Seq(Byte)
            /\ Len(VarInt[Len(item.val)]) <= MaxVarInt
         \/ item.kind = "length" /\ item.val \in Nat /\ Len(VarInt[item.val]) <= MaxVarInt
  BY ItemsAssumption DEF Item

LEMMA BaseDivMod ==
  ASSUME NEW n \in 0..(Base * Base - 1)
  PROVE  /\ n % Base \in Byte /\ n \div Base \in Byte
         /\ (n % Base) + Base * (n \div Base) = n
<1>1. Base \in Nat /\ Base >= 4 /\ n \in Nat /\ n < Base * Base
  BY BaseAssumption
<1>2. n % Base \in 0..(Base - 1) /\ n \div Base \in Nat /\ n = Base * (n \div Base) + (n % Base)
  BY <1>1
<1>3. PICK q \in Nat : q = n \div Base
  BY <1>2
<1>4. q < Base
  <2>1. Base * q <= n
    BY <1>1, <1>2, <1>3
  <2>2. CASE q >= Base
    <3>1. Base * q >= Base * Base
      BY <1>1, <2>2
    <3>. QED BY <1>1, <2>1, <3>1
  <2>. QED BY <1>1, <2>2
<1>. QED BY <1>1, <1>2, <1>3, <1>4 DEF Byte

(* A length and the bytes it counts.                                        *)
LEMMA Counted ==
  ASSUME NEW s \in Seq(Byte)
  PROVE  LET v == VarInt[Len(s)]
         IN  /\ v \o s \in Seq(Byte) /\ Len(v) \in Nat /\ Len(v) >= 1
             /\ Len(v \o s) = Len(v) + Len(s)
             /\ \A i \in 1..Len(v) : (v \o s)[i] = v[i]
             /\ \A i \in 1..Len(s) : (v \o s)[Len(v) + i] = s[i]
<1>1. PICK v : v = VarInt[Len(s)]
  OBVIOUS
<1>2. v \in Seq(Byte) /\ Len(v) >= 1 /\ Len(v) \in Nat /\ Len(s) \in Nat
  BY <1>1, VarIntFramed, ByteFacts DEF Framed
<1>3. v \o s \in Seq(Byte)
  BY <1>2, ConcatProperties
<1>4. Len(v \o s) = Len(v) + Len(s)
  BY <1>2, ConcatProperties
<1>5. \A i \in 1..Len(v) + Len(s) : (v \o s)[i] = IF i <= Len(v) THEN v[i] ELSE s[i - Len(v)]
  BY <1>2, ConcatProperties
<1>6. \A i \in 1..Len(v) : (v \o s)[i] = v[i]
  BY <1>2, <1>5
<1>7. ASSUME NEW i \in 1..Len(s) PROVE (v \o s)[Len(v) + i] = s[i]
  <2>1. /\ Len(v) + i \in 1..Len(v) + Len(s) /\ ~(Len(v) + i <= Len(v))
        /\ (Len(v) + i) - Len(v) = i
    BY <1>2
  <2>. QED BY <1>5, <2>1
<1>. QED BY <1>1, <1>2, <1>3, <1>4, <1>6, <1>7

LEMMA EncodeBytes ==
  ASSUME NEW item \in Items
  PROVE  Encode(item) \in Seq(Byte) /\ Len(Encode(item)) \in Nat /\ Len(Encode(item)) >= 1
<1>1. CASE item.kind = "uint8" /\ item.val \in Byte
  BY <1>1 DEF Encode, OwnedKind
<1>2. CASE item.kind = "uint16" /\ item.val \in 0..(Base * Base - 1)
  <2>1. Encode(item) = <<item.val % Base, item.val \div Base>>
    BY <1>2 DEF Encode, OwnedKind
  <2>2. item.val % Base \in Byte /\ item.val \div Base \in Byte
    BY <1>2, BaseDivMod
  <2>. QED BY <2>1, <2>2
<1>3. CASE item.kind = "bool" /\ item.val \in BOOLEAN
  <2>1. Encode(item) \in {<<0>>, <<1>>}
    BY <1>3 DEF Encode, OwnedKind
  <2>2. 0 \in Byte /\ 1 \in Byte
    BY BaseAssumption DEF Byte
  <2>3. CASE Encode(item) = <<0>>
    BY <2>2, <2>3
  <2>4. CASE Encode(item) = <<1>>
    BY <2>2, <2>4
  <2>. QED BY <2>1, <2>3, <2>4
<1>4. CASE item.kind \in OwnedKind /\ item.val \in Seq(Byte)
  <2>1. Encode(item) = VarInt[Len(item.val)] \o item.val
    BY <1>4 DEF Encode, OwnedKind
  <2>2. PICK e, v : e = Encode(item) /\ v = VarInt[Len(item.val)]
    OBVIOUS
  <2>3. e \in Seq(Byte) /\ Len(v) \in Nat /\ Len(v) >= 1 /\ Len(e) = Len(v) + Len(item.val)
    BY <1>4, <2>1, <2>2, Counted
  <2>4. Len(item.val) \in Nat
    BY <1>4, ByteFacts
  <2>5. Len(e) \in Nat /\ Len(e) >= 1
    <3>1. \A x, y \in Nat : x >= 1 => x + y \in Nat /\ x + y >= 1
      OBVIOUS
    <3>. QED BY <2>3, <2>4, <3>1
  <2>. QED BY <2>2, <2>3, <2>5
<1>5. CASE item.kind = "length" /\ item.val \in Nat
  <2>1. Encode(item) = VarInt[item.val]
    BY <1>5 DEF Encode, OwnedKind
  <2>2. VarInt[item.val] \in Seq(Byte) /\ Len(VarInt[item.val]) >= 1
    BY <1>5, VarIntFramed DEF Framed
  <2>. QED BY <2>1, <2>2, ByteFacts
<1>. QED BY <1>1, <1>2, <1>3, <1>4, <1>5, ItemCases

LEMMA DecodeBytesWhole ==
  ASSUME NEW b \in Seq(Byte), NEW s \in Seq(Byte), Len(VarInt[Len(s)]) <= MaxVarInt,
         Starts(b, VarInt[Len(s)] \o s)
  PROVE  DecodeBytes(b) = Decoded(s, Len(VarInt[Len(s)] \o s))
<1>1. PICK v, e : v = VarInt[Len(s)] /\ e = v \o s
  OBVIOUS
<1>2. /\ e \in Seq(Byte) /\ Len(v) \in Nat /\ Len(e) = Len(v) + Len(s) /\ Len(s) \in Nat
      /\ \A i \in 1..Len(v) : e[i] = v[i]
      /\ \A i \in 1..Len(s) : e[Len(v) + i] = s[i]
      /\ Len(b) \in Nat /\ Starts(b, e)
  BY <1>1, Counted, ByteFacts
<1>3. Starts(b, v)
  BY <1>2 DEF Starts
<1>4. DecodeVarInt(b) = Decoded(Len(s), Len(v))
  BY <1>1, <1>2, <1>3, DecodeVarIntWhole
<1>5. Len(v) + Len(s) <= Len(b)
  BY <1>2 DEF Starts
<1>6. DecodeBytes(b) = Decoded(SubSeq(b, Len(v) + 1, Len(v) + Len(s)), Len(v) + Len(s))
  <2>1. ~(Len(v) + Len(s) > Len(b))
    BY <1>2, <1>5
  <2>. QED BY <1>4, <2>1 DEF DecodeBytes, Decoded
<1>7. SubSeq(b, Len(v) + 1, Len(v) + Len(s)) = s
  <2>1. PICK p : p = SubSeq(b, Len(v) + 1, Len(v) + Len(s))
    OBVIOUS
  <2>2. p \in Seq(Byte) /\ Len(p) = Len(s) /\ \A i \in 1..Len(s) : p[i] = b[Len(v) + i]
    BY <1>2, <1>5, <2>1, PartOf
  <2>3. ASSUME NEW i \in 1..Len(s) PROVE p[i] = s[i]
    <3>1. Len(v) + i \in 1..Len(e)
      BY <1>2
    <3>2. b[Len(v) + i] = e[Len(v) + i]
      BY <1>2, <3>1 DEF Starts
    <3>. QED BY <1>2, <2>2, <3>2
  <2>. QED BY <2>1, <2>2, <2>3, SeqEqual
<1>. QED BY <1>1, <1>2, <1>6, <1>7

LEMMA DecodeBytesCut ==
  ASSUME NEW b \in Seq(Byte), NEW s \in Seq(Byte), Len(VarInt[Len(s)]) <= MaxVarInt,
         Cut(b, VarInt[Len(s)] \o s)
  PROVE  DecodeBytes(b) = Error
<1>1. PICK v, e : v = VarInt[Len(s)] /\ e = v \o s
  OBVIOUS
<1>2. /\ e \in Seq(Byte) /\ Len(v) \in Nat /\ Len(e) = Len(v) + Len(s) /\ Len(s) \in Nat
      /\ \A i \in 1..Len(v) : e[i] = v[i]
      /\ Len(b) \in Nat /\ Cut(b, e)
  BY <1>1, Counted, ByteFacts
<1>3. CASE Len(b) < Len(v)
  <2>1. Cut(b, v)
    BY <1>2, <1>3 DEF Cut
  <2>2. DecodeVarInt(b) = Error
    BY <1>1, <1>2, <2>1, DecodeVarIntCut
  <2>. QED BY <2>2 DEF DecodeBytes, Error
<1>4. CASE ~(Len(b) < Len(v))
  <2>1. Starts(b, v)
    BY <1>2, <1>4 DEF Cut, Starts
  <2>2. DecodeVarInt(b) = Decoded(Len(s), Len(v))
    BY <1>1, <1>2, <2>1, DecodeVarIntWhole
  <2>3. Len(v) + Len(s) > Len(b)
    BY <1>2 DEF Cut
  <2>. QED BY <2>2, <2>3 DEF DecodeBytes, Decoded
<1>. QED BY <1>3, <1>4

(* A value that was written, and perhaps something after it.                *)
LEMMA DecodeWhole ==
  ASSUME NEW item \in Items, ~Refused(item), NEW b \in Seq(Byte), Starts(b, Encode(item))
  PROVE  Decode(item.kind, b) = Decoded(item.val, Len(Encode(item)))
<1>0. Len(b) \in Nat
  BY ByteFacts
<1>1. CASE item.kind = "uint8" /\ item.val \in Byte
  <2>1. Encode(item) = <<item.val>>
    BY <1>1 DEF Encode, OwnedKind
  <2>2. Len(b) >= 1 /\ b[1] = item.val /\ Len(Encode(item)) = 1
    BY <2>1 DEF Starts
  <2>3. DecodeNumber(b, 1) = Decoded(item.val, 1)
    BY <1>0, <2>2 DEF DecodeNumber
  <2>. QED BY <1>1, <2>2, <2>3 DEF Decode
<1>2. CASE item.kind = "uint16" /\ item.val \in 0..(Base * Base - 1)
  <2>1. Encode(item) = <<item.val % Base, item.val \div Base>>
    BY <1>2 DEF Encode, OwnedKind
  <2>2. /\ Len(b) >= 2 /\ b[1] = item.val % Base /\ b[2] = item.val \div Base
        /\ Len(Encode(item)) = 2
    BY <2>1 DEF Starts
  <2>3. b[1] + Base * b[2] = item.val
    BY <1>2, <2>2, BaseDivMod
  <2>4. DecodeNumber(b, 2) = Decoded(item.val, 2)
    BY <1>0, <2>2, <2>3 DEF DecodeNumber
  <2>. QED BY <1>2, <2>2, <2>4 DEF Decode
<1>3. CASE item.kind = "bool" /\ item.val \in BOOLEAN
  <2>1. Encode(item) = IF item.val THEN <<1>> ELSE <<0>>
    BY <1>3 DEF Encode, OwnedKind
  <2>2. Len(b) >= 1 /\ b[1] = (IF item.val THEN 1 ELSE 0) /\ Len(Encode(item)) = 1
    BY <1>3, <2>1 DEF Starts
  <2>3. DecodeNumber(b, 1) = Decoded(b[1], 1)
    BY <1>0, <2>2 DEF DecodeNumber
  <2>4. b[1] \in {0, 1} /\ (b[1] = 1) = item.val
    BY <1>3, <2>2
  <2>5. /\ DecodeNumber(b, 1).ok /\ DecodeNumber(b, 1).val \in {0, 1}
        /\ (DecodeNumber(b, 1).val = 1) = item.val
    <3>1. DecodeNumber(b, 1).ok /\ DecodeNumber(b, 1).val = b[1]
      BY <2>3 DEF Decoded
    <3>. QED BY <2>4, <3>1
  <2>6. DecodeBool(b) = Decoded(item.val, 1)
    <3>1. DecodeBool(b) = Decoded(DecodeNumber(b, 1).val = 1, 1)
      BY <2>5, Zenon DEF DecodeBool
    <3>. QED BY <2>5, <3>1, Zenon
  <2>. QED BY <1>3, <2>2, <2>6 DEF Decode
<1>4. CASE /\ item.kind \in OwnedKind /\ item.val \in Seq(Byte)
           /\ Len(VarInt[Len(item.val)]) <= MaxVarInt
  <2>1. Encode(item) = VarInt[Len(item.val)] \o item.val
    BY <1>4 DEF Encode, OwnedKind
  <2>2. DecodeBytes(b) = Decoded(item.val, Len(Encode(item)))
    BY <1>4, <2>1, DecodeBytesWhole
  <2>3. CASE item.kind = "slice"
    BY <2>2, <2>3 DEF Decode
  <2>4. CASE item.kind = "string"
    <3>1. IsText(item.val)
      BY <2>4 DEF Refused
    <3>2. DecodeText(b) = Decoded(item.val, Len(Encode(item)))
      BY <2>2, <3>1 DEF DecodeText, Decoded
    <3>. QED BY <2>4, <3>2 DEF Decode
  <2>. QED BY <1>4, <2>3, <2>4 DEF OwnedKind
<1>5. CASE item.kind = "length" /\ item.val \in Nat /\ Len(VarInt[item.val]) <= MaxVarInt
  <2>1. Encode(item) = VarInt[item.val]
    BY <1>5 DEF Encode, OwnedKind
  <2>2. DecodeVarInt(b) = Decoded(item.val, Len(Encode(item)))
    BY <1>5, <2>1, DecodeVarIntWhole
  <2>. QED BY <1>5, <2>2 DEF Decode
<1>. QED BY <1>1, <1>2, <1>3, <1>4, <1>5, ItemCases

(* A value that lost its end.                                               *)
LEMMA DecodeCut ==
  ASSUME NEW item \in Items, NEW b \in Seq(Byte), Cut(b, Encode(item))
  PROVE  Decode(item.kind, b) = Error
<1>0. Len(b) \in Nat
  BY ByteFacts
<1>1. CASE item.kind = "uint8" /\ item.val \in Byte
  <2>1. Encode(item) = <<item.val>>
    BY <1>1 DEF Encode, OwnedKind
  <2>2. Len(b) < 1
    BY <2>1 DEF Cut
  <2>. QED BY <1>1, <2>2 DEF Decode, DecodeNumber
<1>2. CASE item.kind = "uint16" /\ item.val \in 0..(Base * Base - 1)
  <2>1. Encode(item) = <<item.val % Base, item.val \div Base>>
    BY <1>2 DEF Encode, OwnedKind
  <2>2. Len(b) < 2
    BY <2>1 DEF Cut
  <2>. QED BY <1>2, <2>2 DEF Decode, DecodeNumber
<1>3. CASE item.kind = "bool" /\ item.val \in BOOLEAN
  <2>1. Encode(item) \in {<<1>>, <<0>>}
    BY <1>3 DEF Encode, OwnedKind
  <2>2. Len(b) < 1
    BY <2>1 DEF Cut
  <2>3. DecodeNumber(b, 1) = Error
    BY <2>2 DEF DecodeNumber
  <2>4. DecodeBool(b) = Error
    BY <2>3 DEF DecodeBool, Error
  <2>. QED BY <1>3, <2>4 DEF Decode
<1>4. CASE /\ item.kind \in OwnedKind /\ item.val \in Seq(Byte)
           /\ Len(VarInt[Len(item.val)]) <= MaxVarInt
  <2>1. Encode(item) = VarInt[Len(item.val)] \o item.val
    BY <1>4 DEF Encode, OwnedKind
  <2>2. DecodeBytes(b) = Error
    BY <1>4, <2>1, DecodeBytesCut
  <2>3. DecodeText(b) = Error
    BY <2>2 DEF DecodeText, Error
  <2>. QED BY <1>4, <2>2, <2>3 DEF Decode, OwnedKind
<1>5. CASE item.kind = "length" /\ item.val \in Nat
  <2>1. Encode(item) = VarInt[item.val]
    BY <1>5 DEF Encode, OwnedKind
  <2>2. DecodeVarInt(b) = Error
    BY <1>5, <2>1, DecodeVarIntCut
  <2>. QED BY <1>5, <2>2 DEF Decode
<1>. QED BY <1>1, <1>2, <1>3, <1>4, <1>5, ItemCases

------------------------------------------------------------------------------
(* Decoding what may be anything: a value uses bytes that are there.        *)
Kind == Number \cup OwnedKind \cup {"length"}

Part(v, b) == \E i \in 0..Len(b) : v = SubSeq(b, i + 1, i + Len(v))

(* What the call for `kind' may make of b.                                  *)
Within(kind, d, b) ==
  \/ d = Error
  \/ \E v, n : /\ n \in 0..Len(b) /\ d = Decoded(v, n)
               /\ kind \in OwnedKind =>
                    \E m \in Nat, k \in Nat : m + k <= Len(b) /\ v = SubSeq(b, m + 1, m + k)
               /\ kind = "string" => IsText(v)

LEMMA DecodeBytesWithin ==
  ASSUME NEW b \in Seq(Byte)
  PROVE  Within("slice", DecodeBytes(b), b)
<1>0. Len(b) \in Nat
  BY ByteFacts
<1>1. CASE DecodeVarInt(b) = Error
  BY <1>1 DEF DecodeBytes, Error, Within
<1>2. ASSUME NEW k \in Nat, NEW m \in 1..Len(b), DecodeVarInt(b) = Decoded(k, m)
      PROVE  Within("slice", DecodeBytes(b), b)
  <2>1. CASE m + k > Len(b)
    BY <1>2, <2>1 DEF DecodeBytes, Decoded, Within
  <2>2. CASE ~(m + k > Len(b))
    <3>1. DecodeBytes(b) = Decoded(SubSeq(b, m + 1, m + k), m + k)
      BY <1>2, <2>2 DEF DecodeBytes, Decoded
    <3>2. m \in Nat /\ m + k <= Len(b) /\ m + k \in 0..Len(b)
      BY <1>0, <2>2
    <3>. QED BY <3>1, <3>2 DEF Within
  <2>. QED BY <2>1, <2>2
<1>. QED BY <1>1, <1>2, DecodeVarIntBounds

LEMMA DecodeWithin ==
  ASSUME NEW b \in Seq(Byte), NEW kind \in Kind
  PROVE  Within(kind, Decode(kind, b), b)
<1>0. Len(b) \in Nat
  BY ByteFacts
<1>1. ASSUME NEW w \in {1, 2}
      PROVE  \/ DecodeNumber(b, w) = Error
             \/ \E v : DecodeNumber(b, w) = Decoded(v, w) /\ w \in 0..Len(b)
  BY <1>0 DEF DecodeNumber
<1>2. CASE kind = "uint8"
  BY <1>1, <1>2 DEF Decode, Within, OwnedKind
<1>3. CASE kind = "uint16"
  BY <1>1, <1>3 DEF Decode, Within, OwnedKind
<1>4. CASE kind = "bool"
  <2>1. DecodeBool(b) = Error \/ DecodeBool(b) = Decoded(DecodeNumber(b, 1).val = 1, 1)
    BY Zenon DEF DecodeBool
  <2>2. DecodeNumber(b, 1) = Error => DecodeBool(b) = Error
    BY DEF DecodeBool, Error
  <2>3. DecodeBool(b) = Error \/ \E v : DecodeBool(b) = Decoded(v, 1) /\ 1 \in 0..Len(b)
    BY <1>1, <2>1, <2>2
  <2>. QED BY <1>4, <2>3 DEF Decode, Within, OwnedKind
<1>5. CASE kind = "slice"
  BY <1>5, DecodeBytesWithin DEF Decode
<1>6. CASE kind = "string"
  <2>1. CASE DecodeText(b) = Error
    BY <1>6, <2>1 DEF Decode, Within
  <2>2. CASE DecodeText(b) # Error
    <3>1. DecodeText(b) = DecodeBytes(b) /\ DecodeBytes(b).ok /\ IsText(DecodeBytes(b).val)
      BY <2>2 DEF DecodeText
    <3>2. DecodeBytes(b) # Error
      BY <3>1 DEF Error
    <3>3. PICK v, n : /\ n \in 0..Len(b) /\ DecodeBytes(b) = Decoded(v, n)
                      /\ \E m \in Nat, k \in Nat : m + k <= Len(b) /\ v = SubSeq(b, m + 1, m + k)
      BY <3>2, DecodeBytesWithin DEF Within, OwnedKind
    <3>4. IsText(v)
      BY <3>1, <3>3 DEF Decoded
    <3>5. Decode(kind, b) = Decoded(v, n)
      BY <1>6, <3>1, <3>3 DEF Decode
    <3>. QED BY <3>3, <3>4, <3>5 DEF Within
  <2>. QED BY <2>1, <2>2
<1>7. CASE kind = "length"
  <2>1. Decode(kind, b) = DecodeVarInt(b)
    BY <1>7 DEF Decode
  <2>2. ASSUME NEW v \in Nat, NEW n \in 1..Len(b), DecodeVarInt(b) = Decoded(v, n)
        PROVE  Within(kind, Decode(kind, b), b)
    <3>1. n \in 0..Len(b)
      BY <1>0
    <3>. QED BY <1>7, <2>1, <2>2, <3>1 DEF Within, OwnedKind
  <2>. QED BY <2>1, <2>2, DecodeVarIntBounds DEF Within
<1>. QED BY <1>2, <1>3, <1>4, <1>5, <1>6, <1>7 DEF Kind, Number, OwnedKind

------------------------------------------------------------------------------
(* Payloads.  The values follow each other: off[k] is where the first k end.*)
Laid(off, b, items) ==
  /\ off \in [0..Len(items) -> Nat]
  /\ off[0] = 0 /\ off[Len(items)] = Len(b)
  /\ \A k \in 0..Len(items) : off[k] <= Len(b)
  /\ \A k \in 1..Len(items) :
       /\ off[k] = off[k - 1] + Len(Encode(items[k]))
       /\ \A j \in 1..Len(Encode(items[k])) : b[off[k - 1] + j] = Encode(items[k])[j]

Accepted(items) == items \in Seq(Items) /\ \A k \in 1..Len(items) : ~Refused(items[k])

Encoded(b, items) ==
  b \in Seq(Byte) /\ Accepted(items) /\ \E off : Laid(off, b, items)

LEMMA ItemFacts ==
  ASSUME NEW items \in Seq(Items)
  PROVE  /\ Len(items) \in Nat /\ DOMAIN items = 1..Len(items)
         /\ \A k \in 1..Len(items) : items[k] \in Items
  BY LenProperties, ElementOfSeq

LEMMA EncodedEmpty == Encoded(<<>>, <<>>)
<1>1. PICK e : e = <<>>
  OBVIOUS
<1>2. e \in Seq(Byte) /\ e \in Seq(Items) /\ Len(e) = 0
  BY <1>1, EmptySeq
<1>3. Accepted(e)
  BY <1>2 DEF Accepted
<1>4. Laid([k \in 0..Len(e) |-> 0], e, e)
  BY <1>2 DEF Laid
<1>. QED BY <1>1, <1>2, <1>3, <1>4 DEF Encoded

LEMMA EncodedAppend ==
  ASSUME NEW b, NEW items, Encoded(b, items), NEW item \in Items, ~Refused(item)
  PROVE  Encoded(b \o Encode(item), Append(items, item))
<1>1. PICK off : Laid(off, b, items)
  BY DEF Encoded
<1>2. PICK e : e = Encode(item)
  OBVIOUS
<1>3. PICK c : c = b \o e
  OBVIOUS
<1>4. PICK more : more = Append(items, item)
  OBVIOUS
<1>5. /\ b \in Seq(Byte) /\ items \in Seq(Items) /\ e \in Seq(Byte)
      /\ Len(b) \in Nat /\ Len(items) \in Nat /\ Len(e) \in Nat
  BY <1>2, EncodeBytes, ByteFacts, ItemFacts DEF Encoded, Accepted
<1>6. c \in Seq(Byte)
  BY <1>3, <1>5, ConcatProperties
<1>7. Len(c) = Len(b) + Len(e)
  BY <1>3, <1>5, ConcatProperties
<1>8. \A i \in 1..Len(b) + Len(e) : c[i] = IF i <= Len(b) THEN b[i] ELSE e[i - Len(b)]
  BY <1>3, <1>5, ConcatProperties
<1>9. more \in Seq(Items)
  BY <1>4, <1>5, AppendProperties
<1>10. Len(more) = Len(items) + 1
  BY <1>4, <1>5, AppendProperties
<1>11. \A k \in 1..Len(items) : more[k] = items[k]
  BY <1>4, <1>5, AppendProperties
<1>12. more[Len(items) + 1] = item
  BY <1>4, <1>5, AppendProperties
<1>13. Accepted(more)
  <2>1. \A k \in 1..Len(items) : ~Refused(items[k])
    BY DEF Encoded, Accepted
  <2>2. ASSUME NEW k \in 1..Len(more) PROVE ~Refused(more[k])
    <3>1. k \in 1..Len(items) \/ k = Len(items) + 1
      BY <1>5, <1>10
    <3>. QED BY <1>11, <1>12, <2>1, <3>1
  <2>. QED BY <1>9, <2>2 DEF Accepted
<1> DEFINE all == [k \in 0..Len(more) |-> IF k <= Len(items) THEN off[k] ELSE Len(c)]
<1>14. Laid(all, c, more)
  <2>0. /\ \A k \in 0..Len(items) : off[k] \in Nat /\ off[k] <= Len(b)
        /\ \A k \in 0..Len(items) : k \in 0..Len(more) /\ k <= Len(items)
        /\ Len(items) + 1 \in 0..Len(more) /\ ~(Len(items) + 1 <= Len(items))
    <3>1. \A k \in 0..Len(items) : off[k] \in Nat /\ off[k] <= Len(b)
      BY <1>1 DEF Laid
    <3>2. PICK n \in Nat : n = Len(items)
      BY <1>5
    <3>. QED BY <1>10, <3>1, <3>2
  <2>1. /\ \A k \in 0..Len(items) : all[k] = off[k] /\ off[k] \in Nat /\ off[k] <= Len(b)
        /\ all[Len(items) + 1] = Len(c)
    BY <2>0
  <2>2. all \in [0..Len(more) -> Nat]
    <3>1. Len(c) \in Nat
      BY <1>5, <1>7
    <3>2. ASSUME NEW k \in 0..Len(more)
          PROVE  (IF k <= Len(items) THEN off[k] ELSE Len(c)) \in Nat
      <4>1. k <= Len(items) => k \in 0..Len(items)
        BY <1>5, <1>10
      <4>. QED BY <2>0, <3>1, <4>1
    <3>. QED BY <3>2
  <2>3. all[0] = 0 /\ all[Len(more)] = Len(c)
    BY <1>1, <1>5, <1>10, <2>1 DEF Laid
  <2> HIDE DEF all
  <2>4. \A k \in 0..Len(more) : all[k] <= Len(c)
    BY <1>5, <1>7, <1>10, <2>1
  <2>5. ASSUME NEW k \in 1..Len(more)
        PROVE  /\ all[k] = all[k - 1] + Len(Encode(more[k]))
               /\ \A j \in 1..Len(Encode(more[k])) : c[all[k - 1] + j] = Encode(more[k])[j]
    <3>1. CASE k \in 1..Len(items)
      <4>1. PICK f : f = Encode(items[k])
        OBVIOUS
      <4>2. more[k] = items[k] /\ k - 1 \in 0..Len(items) /\ k \in 0..Len(items) /\ Len(f) \in Nat
        BY <1>5, <1>11, <3>1, <4>1, ItemFacts, EncodeBytes
      <4>3. off[k] = off[k - 1] + Len(f) /\ \A j \in 1..Len(f) : b[off[k - 1] + j] = f[j]
        BY <1>1, <3>1, <4>1 DEF Laid
      <4>4. ASSUME NEW j \in 1..Len(f) PROVE c[off[k - 1] + j] = f[j]
        <5>1. off[k - 1] + j \in 1..Len(b) + Len(e) /\ off[k - 1] + j <= Len(b)
          <6>1. PICK x \in Nat, y \in Nat : x = off[k - 1] /\ y = off[k] /\ y <= Len(b)
            BY <2>1, <4>2
          <6>2. PICK l \in Nat, m \in Nat, n \in Nat : l = Len(f) /\ m = Len(b) /\ n = Len(e)
            BY <1>5, <4>2, Zenon
          <6>3. j \in 1..l /\ y = x + l /\ y <= m
            BY <4>3, <6>1, <6>2, Zenon
          <6>4. x + j \in 1..m + n /\ x + j <= m
            BY <6>3
          <6>. QED BY <6>1, <6>2, <6>4, Zenon
        <5>2. PICK i \in 1..Len(b) + Len(e) : i = off[k - 1] + j /\ i <= Len(b)
          BY <5>1
        <5>3. c[i] = b[i]
          BY <1>8, <5>2
        <5>4. b[i] = f[j]
          BY <4>3, <5>2, Zenon
        <5>. QED BY <5>2, <5>3, <5>4, Zenon
      <4>5. all[k] = off[k] /\ all[k - 1] = off[k - 1]
        BY <2>1, <4>2, Zenon
      <4>. QED BY <4>1, <4>2, <4>3, <4>4, <4>5, Zenon
    <3>2. CASE k = Len(items) + 1
      <4>1. more[k] = item /\ k - 1 = Len(items) /\ all[k - 1] = Len(b) /\ all[k] = Len(c)
        BY <1>1, <1>5, <1>12, <2>1, <3>2 DEF Laid
      <4>2. ASSUME NEW j \in 1..Len(e) PROVE c[Len(b) + j] = e[j]
        <5>1. /\ Len(b) + j \in 1..Len(b) + Len(e) /\ ~(Len(b) + j <= Len(b))
              /\ (Len(b) + j) - Len(b) = j
          BY <1>5
        <5>. QED BY <1>8, <5>1
      <4>. QED BY <1>2, <1>7, <4>1, <4>2
    <3>. QED BY <1>5, <1>10, <3>1, <3>2
  <2>. QED BY <2>2, <2>3, <2>4, <2>5 DEF Laid
<1>. QED BY <1>2, <1>3, <1>4, <1>6, <1>13, <1>14 DEF Encoded

LEMMA EncodedOne ==
  ASSUME NEW item \in Items, ~Refused(item)
  PROVE  Encoded(Encode(item), <<item>>)
<1>1. <<>> \o Encode(item) = Encode(item)
  BY EncodeBytes, ConcatEmptySeq
<1>2. Append(<<>>, item) = <<item>>
  OBVIOUS
<1>. QED BY <1>1, <1>2, EncodedEmpty, EncodedAppend

(* What is left of b after its first p bytes.                               *)
LEMMA RestOf ==
  ASSUME NEW b \in Seq(Byte), NEW p \in 0..Len(b)
  PROVE  /\ SubSeq(b, p + 1, Len(b)) \in Seq(Byte)
         /\ Len(SubSeq(b, p + 1, Len(b))) = Len(b) - p
         /\ \A i \in 1..Len(b) - p : SubSeq(b, p + 1, Len(b))[i] = b[p + i]
<1>1. p \in Nat /\ Len(b) - p \in Nat /\ p + (Len(b) - p) = Len(b)
  BY ByteFacts
<1>2. PICK n \in Nat : n = Len(b) - p
  BY <1>1
<1>3. p + n = Len(b) /\ p + n <= Len(b)
  BY <1>1, <1>2
<1>4. /\ SubSeq(b, p + 1, p + n) \in Seq(Byte) /\ Len(SubSeq(b, p + 1, p + n)) = n
      /\ \A i \in 1..n : SubSeq(b, p + 1, p + n)[i] = b[p + i]
  BY <1>1, <1>3, PartOf
<1>. QED BY <1>2, <1>3, <1>4

LEMMA LaidFacts ==
  ASSUME NEW b \in Seq(Byte), NEW items \in Seq(Items), NEW off, Laid(off, b, items),
         NEW k \in 1..Len(items)
  PROVE  /\ items[k] \in Items /\ k - 1 \in 0..Len(items) /\ k \in 0..Len(items)
         /\ off[k - 1] \in Nat /\ off[k] \in Nat /\ Len(Encode(items[k])) \in Nat
         /\ off[k] = off[k - 1] + Len(Encode(items[k]))
         /\ off[k - 1] < off[k] /\ off[k] <= Len(b)
<1>1. items[k] \in Items /\ k - 1 \in 0..Len(items) /\ k \in 0..Len(items)
  BY ItemFacts
<1>2. PICK n \in Nat : n = Len(Encode(items[k])) /\ n >= 1
  BY <1>1, EncodeBytes
<1>3. off[k - 1] \in Nat /\ off[k] \in Nat /\ off[k] <= Len(b)
  BY <1>1 DEF Laid
<1>4. off[k] = off[k - 1] + n
  BY <1>2 DEF Laid
<1>5. off[k - 1] < off[k]
  BY <1>2, <1>3, <1>4
<1>. QED BY <1>1, <1>2, <1>3, <1>4, <1>5

(* The end is reached with the last value, and not before.                  *)
LEMMA LastOffset ==
  ASSUME NEW b \in Seq(Byte), NEW items \in Seq(Items), NEW off, Laid(off, b, items),
         NEW k \in 0..Len(items)
  PROVE  off[k] = Len(b) <=> k = Len(items)
<1>1. off[Len(items)] = Len(b) /\ Len(b) \in Nat
  BY ByteFacts DEF Laid
<1>2. CASE k # Len(items)
  <2>1. k + 1 \in 1..Len(items) /\ (k + 1) - 1 = k
    BY <1>2, ItemFacts
  <2>2. off[(k + 1) - 1] < off[k + 1] /\ off[k + 1] <= Len(b) /\ off[(k + 1) - 1] \in Nat
          /\ off[k + 1] \in Nat
    BY <2>1, LaidFacts
  <2>3. PICK x \in Nat, y \in Nat : x = off[k] /\ y = off[k + 1] /\ x < y /\ y <= Len(b)
    BY <2>1, <2>2
  <2>4. off[k] # Len(b)
    BY <1>1, <2>3
  <2>. QED BY <1>2, <2>4
<1>. QED BY <1>1, <1>2

(* A payload that holds w, or a part of it from its beginning.              *)
Sent(p, w, off) ==
  /\ w \in Seq(Byte) /\ p.bytes \in Seq(Byte) /\ Accepted(p.items) /\ Laid(off, w, p.items)
  /\ IF p.whole THEN p.bytes = w ELSE Cut(p.bytes, w)

LEMMA SentFacts ==
  ASSUME NEW p, NEW w, NEW off, Sent(p, w, off)
  PROVE  /\ w \in Seq(Byte) /\ Len(w) \in Nat /\ p.items \in Seq(Items) /\ Len(p.items) \in Nat
         /\ p.bytes \in Seq(Byte) /\ Len(p.bytes) \in Nat /\ Len(p.bytes) <= Len(w)
         /\ Laid(off, w, p.items) /\ \A i \in 1..Len(p.bytes) : p.bytes[i] = w[i]
         /\ \A k \in 0..Len(p.items) : off[k] \in Nat
<1>1. /\ w \in Seq(Byte) /\ p.items \in Seq(Items) /\ p.bytes \in Seq(Byte)
      /\ Laid(off, w, p.items)
  BY DEF Sent, Accepted
<1>2. Len(w) \in Nat /\ Len(p.items) \in Nat /\ Len(p.bytes) \in Nat
  BY <1>1, ByteFacts, ItemFacts
<1>3. Len(p.bytes) <= Len(w) /\ \A i \in 1..Len(p.bytes) : p.bytes[i] = w[i]
  BY <1>2 DEF Sent, Cut
<1>4. \A k \in 0..Len(p.items) : off[k] \in Nat
  BY <1>1 DEF Laid
<1>. QED BY <1>1, <1>2, <1>3, <1>4

(* The k-th value, read from where the (k - 1)-th ended.                    *)
LEMMA NextValue ==
  ASSUME NEW p, NEW w, NEW off, Sent(p, w, off), NEW k \in 1..Len(p.items),
         off[k - 1] <= Len(p.bytes),
         NEW d, d = Decode(p.items[k].kind, SubSeq(p.bytes, off[k - 1] + 1, Len(p.bytes)))
  PROVE  \/ d = Decoded(p.items[k].val, off[k] - off[k - 1])
         \/ ~p.whole /\ d = Error
<1>1. /\ w \in Seq(Byte) /\ Len(w) \in Nat /\ p.items \in Seq(Items) /\ Len(p.items) \in Nat
      /\ p.bytes \in Seq(Byte) /\ Len(p.bytes) \in Nat /\ Len(p.bytes) <= Len(w)
      /\ Laid(off, w, p.items) /\ \A i \in 1..Len(p.bytes) : p.bytes[i] = w[i]
  BY SentFacts
<1>2. PICK item, e : item = p.items[k] /\ e = Encode(p.items[k])
  OBVIOUS
<1>3. PICK x \in Nat, y \in Nat : x = off[k - 1] /\ y = off[k] /\ y <= Len(w)
  BY <1>1, LaidFacts
<1>4. item \in Items /\ Len(e) \in Nat /\ y = x + Len(e) /\ y - x = Len(e)
  <2>1. p.items[k] \in Items /\ Len(e) \in Nat /\ y = x + Len(e)
    BY <1>1, <1>2, <1>3, LaidFacts
  <2>. QED BY <1>2, <1>3, <2>1
<1>5. \A j \in 1..Len(e) : w[x + j] = e[j]
  BY <1>1, <1>2, <1>3 DEF Laid
<1>6. x \in 0..Len(p.bytes)
  BY <1>1, <1>3
<1>7. PICK r : r = SubSeq(p.bytes, x + 1, Len(p.bytes))
  OBVIOUS
<1>8. /\ r \in Seq(Byte) /\ Len(r) = Len(p.bytes) - x
      /\ \A i \in 1..Len(p.bytes) - x : r[i] = p.bytes[x + i]
  BY <1>1, <1>6, <1>7, RestOf
<1>9. ASSUME NEW i \in 1..Len(r), i <= Len(e) PROVE r[i] = e[i]
  <2>1. i \in 1..Len(p.bytes) - x /\ x + i \in 1..Len(p.bytes) /\ i \in 1..Len(e)
    BY <1>1, <1>4, <1>6, <1>8, <1>9
  <2>. QED BY <1>1, <1>5, <1>8, <2>1
<1>10. CASE y <= Len(p.bytes)
  <2>1. Len(e) <= Len(r)
    BY <1>1, <1>4, <1>6, <1>8, <1>10
  <2>2. Starts(r, e)
    BY <1>1, <1>4, <1>8, <1>9, <2>1 DEF Starts
  <2>3. ~Refused(item)
    BY <1>2 DEF Sent, Accepted
  <2>4. d = Decoded(item.val, Len(e))
    BY <1>2, <1>3, <1>4, <1>7, <1>8, <2>2, <2>3, DecodeWhole
  <2>. QED BY <1>2, <1>3, <1>4, <2>4
<1>11. CASE ~(y <= Len(p.bytes))
  <2>1. Len(r) < Len(e) /\ Len(r) \in Nat
    BY <1>1, <1>4, <1>6, <1>8, <1>11
  <2>2. Cut(r, e)
    BY <1>4, <1>8, <1>9, <2>1 DEF Cut
  <2>3. d = Error
    BY <1>2, <1>3, <1>4, <1>7, <1>8, <2>2, DecodeCut
  <2>4. ~p.whole
    <3>1. p.whole => p.bytes = w
      BY DEF Sent
    <3>2. p.bytes # w
      BY <1>1, <1>3, <1>11
    <3>. QED BY <3>1, <3>2
  <2>. QED BY <2>3, <2>4
<1>. QED BY <1>10, <1>11

------------------------------------------------------------------------------
(* The results of calls.                                                    *)
IsSeq(s) == \E S : s \in Seq(S)

LEMMA EmptyIsSeq == IsSeq(<<>>) /\ Len(<<>>) = 0
<1>1. <<>> \in Seq({}) /\ Len(<<>>) = 0
  BY EmptySeq
<1>. QED BY <1>1 DEF IsSeq

LEMMA SeqFacts ==
  ASSUME NEW s, IsSeq(s)
  PROVE  Len(s) \in Nat /\ DOMAIN s = 1..Len(s)
<1>1. PICK S : s \in Seq(S)
  BY DEF IsSeq
<1>. QED BY <1>1, LenProperties

LEMMA AppendFacts ==
  ASSUME NEW s, IsSeq(s), NEW r
  PROVE  /\ IsSeq(Append(s, r)) /\ Len(Append(s, r)) = Len(s) + 1
         /\ \A i \in 1..Len(s) : Append(s, r)[i] = s[i]
         /\ Append(s, r)[Len(s) + 1] = r
<1>1. PICK S : s \in Seq(S)
  BY DEF IsSeq
<1>2. s \in Seq(S \cup {r}) /\ r \in S \cup {r}
  BY <1>1
<1>3. Append(s, r) \in Seq(S \cup {r})
  BY <1>2, AppendProperties
<1>4. Len(Append(s, r)) = Len(s) + 1
  BY <1>2, AppendProperties
<1>5. \A i \in 1..Len(s) : Append(s, r)[i] = s[i]
  BY <1>2, AppendProperties
<1>6. Append(s, r)[Len(s) + 1] = r
  BY <1>2, AppendProperties
<1>. QED BY <1>3, <1>4, <1>5, <1>6 DEF IsSeq

LEMMA FailedResult ==
  ASSUME NEW kind, NEW code, NEW r, r = Result(kind, Error, code)
  PROVE  r.kind = kind /\ r.res = code /\ r.dst = OnError(kind)
  BY DEF Result, Error

LEMMA ReadResult ==
  ASSUME NEW kind, NEW code, NEW v, NEW n, NEW r, r = Result(kind, Decoded(v, n), code)
  PROVE  r.kind = kind /\ r.res = "Z_OK" /\ r.dst = v
  BY DEF Result, Decoded

(* The calls so far asked for the types that were written: the receiver has *)
(* seen an error, or has the values and stands behind the last of them.     *)
Match(p, off, rs, pos) ==
  Len(rs) <= Len(p.items) /\ (\A i \in 1..Len(rs) : rs[i].kind = p.items[i].kind) =>
    \/ ~p.whole /\ \E i \in 1..Len(rs) : rs[i].res # "Z_OK"
    \/ /\ \A i \in 1..Len(rs) : rs[i].res = "Z_OK" /\ rs[i].dst = p.items[i].val
       /\ pos = off[Len(rs)]

LEMMA MatchStep ==
  ASSUME NEW p, NEW w, NEW off, Sent(p, w, off), NEW rs, IsSeq(rs),
         NEW pos \in 0..Len(p.bytes), Match(p, off, rs, pos), NEW kind,
         NEW d, d = Decode(kind, SubSeq(p.bytes, pos + 1, Len(p.bytes))),
         NEW q, d.ok => q = pos + d.used
  PROVE  Match(p, off, Append(rs, Result(kind, d, "Z_EDESERIALIZE")), q)
<1>1. PICK r, more : r = Result(kind, d, "Z_EDESERIALIZE") /\ more = Append(rs, r)
  OBVIOUS
<1>2. PICK n \in Nat : n = Len(rs)
  BY SeqFacts
<1>3. Len(more) = n + 1 /\ (\A i \in 1..n : more[i] = rs[i]) /\ more[n + 1] = r
  BY <1>1, <1>2, AppendFacts
<1>4. SUFFICES ASSUME n + 1 <= Len(p.items),
                      \A i \in 1..n + 1 : more[i].kind = p.items[i].kind
               PROVE  \/ ~p.whole /\ \E i \in 1..n + 1 : more[i].res # "Z_OK"
                      \/ /\ \A i \in 1..n + 1 : /\ more[i].res = "Z_OK"
                                                /\ more[i].dst = p.items[i].val
                         /\ q = off[n + 1]
  BY <1>1, <1>3 DEF Match
<1>5. Len(p.items) \in Nat /\ Len(p.bytes) \in Nat /\ n + 1 \in 1..Len(p.items)
  BY <1>2, <1>4, SentFacts
<1>6. \A i \in 1..n : i \in 1..n + 1
  BY <1>2
<1>7. Len(rs) <= Len(p.items) /\ \A i \in 1..Len(rs) : rs[i].kind = p.items[i].kind
  BY <1>2, <1>3, <1>4, <1>5, <1>6
<1>8. CASE ~p.whole /\ \E i \in 1..Len(rs) : rs[i].res # "Z_OK"
  <2>1. PICK i \in 1..n : rs[i].res # "Z_OK"
    BY <1>2, <1>8
  <2>2. i \in 1..n + 1 /\ more[i].res # "Z_OK"
    BY <1>3, <1>6, <2>1
  <2>. QED BY <1>8, <2>2
<1>9. CASE /\ \A i \in 1..Len(rs) : rs[i].res = "Z_OK" /\ rs[i].dst = p.items[i].val
           /\ pos = off[Len(rs)]
  <2>1. PICK k \in 1..Len(p.items) : k = n + 1 /\ k - 1 = n
    BY <1>2, <1>5
  <2>2. pos = off[k - 1] /\ off[k - 1] <= Len(p.bytes) /\ pos \in Nat
    BY <1>2, <1>5, <1>9, <2>1
  <2>3. more[k] = r /\ r.kind = p.items[k].kind /\ r.kind = kind
    <3>1. n + 1 \in 1..n + 1 /\ r.kind = kind
      BY <1>1, <1>2 DEF Result
    <3>. QED BY <1>3, <1>4, <2>1, <3>1
  <2>4. d = Decode(p.items[k].kind, SubSeq(p.bytes, off[k - 1] + 1, Len(p.bytes)))
    BY <2>2, <2>3
  <2>5. \/ d = Decoded(p.items[k].val, off[k] - off[k - 1])
        \/ ~p.whole /\ d = Error
    BY <2>2, <2>4, NextValue
  <2>6. CASE d = Decoded(p.items[k].val, off[k] - off[k - 1])
    <3>1. r.res = "Z_OK" /\ r.dst = p.items[k].val
      BY <1>1, <2>6, ReadResult
    <3>2. q = pos + (off[k] - off[k - 1])
      BY <2>6 DEF Decoded
    <3>3. q = off[k]
      <4>1. off[k] \in Nat
        BY <1>5, <2>1, SentFacts
      <4>2. \A x, y \in Nat : x + (y - x) = y
        OBVIOUS
      <4>. QED BY <2>2, <3>2, <4>1, <4>2
    <3>4. ASSUME NEW i \in 1..n + 1
          PROVE  more[i].res = "Z_OK" /\ more[i].dst = p.items[i].val
      <4>1. i \in 1..n \/ i = k
        BY <1>2, <2>1
      <4>. QED BY <1>2, <1>3, <1>9, <2>3, <3>1, <4>1
    <3>. QED BY <2>1, <3>3, <3>4
  <2>7. CASE ~p.whole /\ d = Error
    <3>1. r.res = "Z_EDESERIALIZE"
      BY <1>1, <2>7, FailedResult
    <3>2. more[k].res # "Z_OK" /\ k \in 1..n + 1
      BY <2>1, <2>3, <3>1
    <3>. QED BY <2>7, <3>2
  <2>. QED BY <2>5, <2>6, <2>7
<1>. QED BY <1>7, <1>8, <1>9 DEF Match

(* The first value of a whole payload, read by one call that wants no more. *)
AllOf(b, d) == IF d.ok /\ d.used = Len(b) THEN d ELSE Error

LEMMA OneValue ==
  ASSUME NEW p, NEW w, NEW off, Sent(p, w, off), p.whole, p.items # <<>>,
         NEW code, code # "Z_OK",
         NEW r, r = Result(p.items[1].kind, AllOf(p.bytes, Decode(p.items[1].kind, p.bytes)), code)
  PROVE  IF Len(p.items) = 1 THEN r.res = "Z_OK" /\ r.dst = p.items[1].val
         ELSE r.res # "Z_OK"
<1>1. /\ p.items \in Seq(Items) /\ Len(p.items) \in Nat /\ p.bytes = w /\ w \in Seq(Byte)
      /\ Laid(off, w, p.items) /\ Len(w) \in Nat
  BY SentFacts DEF Sent
<1>2. Len(p.items) # 0
  BY <1>1, EmptySeq
<1>3. PICK k \in 1..Len(p.items) : k = 1 /\ k - 1 = 0 /\ k \in 0..Len(p.items)
  BY <1>1, <1>2
<1>4. off[k - 1] = 0 /\ off[k] \in Nat
  BY <1>1, <1>3 DEF Laid
<1>5. SubSeq(p.bytes, off[k - 1] + 1, Len(p.bytes)) = p.bytes
  <2>1. SubSeq(w, 1, Len(w)) = w
    BY <1>1, SubSeqFull
  <2>. QED BY <1>1, <1>4, <2>1
<1>6. off[k - 1] <= Len(p.bytes)
  BY <1>1, <1>4
<1>7. PICK d : d = Decode(p.items[k].kind, p.bytes)
  OBVIOUS
<1>8. d = Decoded(p.items[k].val, off[k] - off[k - 1])
  BY <1>5, <1>6, <1>7, NextValue
<1>9. d.ok /\ d.used = off[k]
  <2>1. d.ok /\ d.used = off[k] - off[k - 1]
    BY <1>8 DEF Decoded
  <2>. QED BY <1>4, <2>1
<1>10. off[k] = Len(w) <=> k = Len(p.items)
  <2>1. \A i \in 0..Len(p.items) : off[i] = Len(w) <=> i = Len(p.items)
    BY <1>1, LastOffset
  <2>. QED BY <1>3, <2>1
<1>11. CASE Len(p.items) = 1
  <2>1. AllOf(p.bytes, d) = d
    BY <1>1, <1>3, <1>9, <1>10, <1>11 DEF AllOf
  <2>2. r = Result(p.items[k].kind, Decoded(p.items[k].val, off[k] - off[k - 1]), code)
    BY <1>3, <1>7, <1>8, <2>1
  <2>3. r.res = "Z_OK" /\ r.dst = p.items[k].val
    BY <2>2, ReadResult
  <2>. QED BY <1>3, <1>11, <2>3
<1>12. CASE Len(p.items) # 1
  <2>1. AllOf(p.bytes, d) = Error
    BY <1>1, <1>3, <1>9, <1>10, <1>12 DEF AllOf
  <2>2. r.res = code
    BY <1>3, <1>7, <2>1, FailedResult
  <2>. QED BY <1>12, <2>2
<1>. QED BY <1>11, <1>12

(* A part of what is left is a part of the whole.                           *)
LEMMA PartOfRest ==
  ASSUME NEW b \in Seq(Byte), NEW p \in 0..Len(b), NEW m \in Nat, NEW n \in Nat,
         NEW rest, rest = SubSeq(b, p + 1, Len(b)), m + n <= Len(rest),
         NEW v, v = SubSeq(rest, m + 1, m + n)
  PROVE  v = SubSeq(b, (p + m) + 1, (p + m) + n) /\ Len(v) = n /\ p + m \in 0..Len(b)
<1>1. /\ rest \in Seq(Byte) /\ Len(rest) = Len(b) - p
      /\ \A i \in 1..Len(b) - p : rest[i] = b[p + i]
  BY RestOf
<1>2. v \in Seq(Byte) /\ Len(v) = n /\ \A i \in 1..n : v[i] = rest[m + i]
  BY <1>1, PartOf
<1>3. PICK o \in Nat : o = p + m /\ o + n <= Len(b) /\ o \in 0..Len(b)
  BY <1>1, ByteFacts
<1>4. PICK u : u = SubSeq(b, o + 1, o + n)
  OBVIOUS
<1>5. u \in Seq(Byte) /\ Len(u) = n /\ \A i \in 1..n : u[i] = b[o + i]
  BY <1>3, <1>4, PartOf
<1>6. ASSUME NEW i \in 1..n PROVE u[i] = v[i]
  <2>1. m + i \in 1..Len(b) - p /\ p + (m + i) = o + i
    BY <1>1, <1>3, ByteFacts
  <2>. QED BY <1>1, <1>2, <1>5, <2>1
<1>7. u = v
  BY <1>2, <1>5, <1>6, SeqEqual
<1>. QED BY <1>2, <1>3, <1>4, <1>7

(* What a call for a slice or a string leaves in its destination.           *)
Safe(r, b) ==
  r.kind \in OwnedKind =>
    IF r.res = "Z_OK" THEN Part(r.dst, b) /\ (r.kind = "string" => IsText(r.dst))
    ELSE r.dst = Gravestone

LEMMA SafeResult ==
  ASSUME NEW b \in Seq(Byte), NEW p \in 0..Len(b), NEW kind, NEW code, code # "Z_OK",
         NEW d, Within(kind, d, SubSeq(b, p + 1, Len(b)))
  PROVE  Safe(Result(kind, d, code), b)
<1>1. PICK r, rest : r = Result(kind, d, code) /\ rest = SubSeq(b, p + 1, Len(b))
  OBVIOUS
<1>2. SUFFICES ASSUME kind \in OwnedKind PROVE Safe(r, b)
  BY <1>1 DEF Safe, Result
<1>3. CASE d = Error
  <2>1. r.kind = kind /\ r.res = code /\ r.dst = OnError(kind)
    BY <1>1, <1>3, FailedResult
  <2>2. OnError(kind) = Gravestone
    BY <1>2 DEF OnError, OwnedKind
  <2>. QED BY <2>1, <2>2 DEF Safe
<1>4. ASSUME NEW v, NEW n, d = Decoded(v, n), kind = "string" => IsText(v),
             NEW m \in Nat, NEW k \in Nat, m + k <= Len(rest), v = SubSeq(rest, m + 1, m + k)
      PROVE  Safe(r, b)
  <2>0. r = Result(kind, Decoded(v, n), code)
    BY <1>1, <1>4
  <2>1. r.kind = kind /\ r.res = "Z_OK" /\ r.dst = v
    BY <2>0, ReadResult
  <2>2. v = SubSeq(b, (p + m) + 1, (p + m) + k) /\ Len(v) = k /\ p + m \in 0..Len(b)
    BY <1>1, <1>4, PartOfRest
  <2>3. Part(v, b)
    BY <2>2 DEF Part
  <2>. QED BY <1>4, <2>1, <2>3 DEF Safe
<1>. QED BY <1>1, <1>2, <1>3, <1>4 DEF Within

(* The same for a call that reads a payload whole.                          *)
LEMMA SafeOne ==
  ASSUME NEW b \in Seq(Byte), NEW kind \in Kind, NEW code, code # "Z_OK"
  PROVE  Safe(Result(kind, AllOf(b, Decode(kind, b)), code), b)
<1>1. PICK d : d = Decode(kind, b) /\ Within(kind, d, b)
  BY DecodeWithin
<1>2. Within(kind, AllOf(b, d), b)
  <2>1. CASE AllOf(b, d) = d
    BY <1>1, <2>1
  <2>2. CASE AllOf(b, d) = Error
    BY <2>2 DEF Within
  <2>. QED BY <2>1, <2>2 DEF AllOf
<1>3. PICK p \in 0..Len(b) : p = 0
  BY ByteFacts
<1>4. SubSeq(b, p + 1, Len(b)) = b
  BY <1>3, SubSeqFull
<1>. QED BY <1>1, <1>2, <1>4, SafeResult

------------------------------------------------------------------------------
(* The inductive invariant.                                                 *)

(* A serializer holds the encodings of the values that were accepted.       *)
Writing ==
  ser # None => /\ payload = None /\ ser = Written(ser.bytes, ser.items)
                /\ Encoded(ser.bytes, ser.items)

(* A payload that a serializer of this program made is still one, or has    *)
(* lost its end; a deserializer has read it up to the value it should.      *)
Holding ==
  payload # None => /\ payload.bytes \in Seq(Byte) /\ payload.whole \in BOOLEAN
                    /\ payload = [bytes |-> payload.bytes, items |-> payload.items,
                                  whole |-> payload.whole]

Delivered ==
  payload # None /\ (payload.whole \/ payload.items # None) =>
    \E w, off : /\ Sent(payload, w, off)
                /\ cur # None /\ cur.type = "deserializer" =>
                     Match(payload, off, reads, cur.pos)

(* Nothing is read without a payload, nor by a cursor without a cursor,     *)
(* which stays within its payload.                                          *)
Cursor == [type : {"deserializer", "reader"}, pos : Nat]
Waiting ==
  /\ payload = None => cur = None /\ one = None
  /\ cur = None => reads = <<>>
Placed == cur # None => cur \in Cursor /\ cur.pos \in 0..Len(payload.bytes)

(* The bytes a reader copied are the ones before its cursor.                *)
Copied(r, pos, b) ==
  r.kind = "read" => /\ r.res = Len(r.dst) /\ r.dst = SubSeq(b, pos - r.res + 1, pos)
                     /\ r.res < r.len => pos = Len(b)

Called ==
  /\ IsSeq(reads)
  /\ \A i \in 1..Len(reads) : /\ Safe(reads[i], payload.bytes)
                              /\ Copied(reads[i], cur.pos, payload.bytes)
                              /\ cur.type = "deserializer" => reads[i].kind \in Kind
                              /\ cur.type = "reader" => reads[i].kind = "read"

(* What ze_deserialize_<T> made of the payload.                             *)
Asked ==
  one # None =>
    /\ one.kind \in Kind /\ Safe(one, payload.bytes)
    /\ payload.whole /\ payload.items # <<>> /\ one.kind = payload.items[1].kind =>
         IF Len(payload.items) = 1
         THEN one.res = "Z_OK" /\ one.dst = payload.items[1].val
         ELSE one.res # "Z_OK"

Receiving == Holding /\ Delivered /\ Waiting /\ Placed /\ Called /\ Asked
SerializationInv == Writing /\ Receiving

LEMMA InitSerialization == Init => SerializationInv
  BY EmptyIsSeq DEF Init, SerializationInv, Receiving, Writing, Holding, Delivered, Waiting,
                    Placed, Called, Asked

(* The serializer's steps.                                                  *)
LEMMA ReceiverUntouched ==
  ASSUME Receiving, UNCHANGED <<payload, cur, reads, one>>
  PROVE  Receiving'
  BY DEF Receiving, Holding, Delivered, Waiting, Placed, Called, Asked

LEMMA SenderStep ==
  ASSUME SerializationInv, UNCHANGED <<payload, cur, reads, one>>,
         \/ ser' = ser \/ ser' = None
         \/ \E b, items : ser' = Written(b, items) /\ Encoded(b, items) /\ payload = None
  PROVE  SerializationInv'
<1>1. Receiving'
  BY ReceiverUntouched DEF SerializationInv
<1>2. CASE ser' = ser \/ ser' = None
  <2>1. Writing'
    BY <1>2 DEF SerializationInv, Writing
  <2>. QED BY <1>1, <2>1 DEF SerializationInv
<1>3. ASSUME NEW b, NEW items, ser' = Written(b, items), Encoded(b, items), payload = None
      PROVE  SerializationInv'
  <2>1. ser'.bytes = b /\ ser'.items = items
    BY <1>3 DEF Written
  <2>2. Writing'
    BY <1>3, <2>1 DEF Writing
  <2>. QED BY <1>1, <2>2 DEF SerializationInv
<1>. QED BY <1>2, <1>3

LEMMA SerializeStep ==
  ASSUME SerializationInv, NEW item \in Items, ~Refused(item), Serialize(item)
  PROVE  SerializationInv'
<1>1. payload = None /\ Encoded(ser.bytes, ser.items)
  BY DEF SerializationInv, Writing, Serialize
<1>2. Encoded(ser.bytes \o Encode(item), Append(ser.items, item))
  BY <1>1, EncodedAppend
<1>. QED BY <1>1, <1>2, SenderStep DEF Serialize

(* A payload comes from the sender.                                         *)
LEMMA PayloadStep ==
  ASSUME SerializationInv, payload = None, ser' = None, UNCHANGED <<cur, reads, one>>,
         NEW b, NEW items, payload' = Written(b, items), Encoded(b, items)
  PROVE  SerializationInv'
<1>1. cur' = None /\ one' = None /\ reads' = <<>>
  BY DEF SerializationInv, Receiving, Waiting
<1>2. payload'.bytes = b /\ payload'.items = items /\ payload'.whole = TRUE
  BY DEF Written
<1>3. b \in Seq(Byte) /\ Holding'
  BY <1>2 DEF Holding, Written, Encoded
<1>4. PICK off : Laid(off, b, items)
  BY DEF Encoded
<1>5. Sent(payload', b, off)
  BY <1>2, <1>4 DEF Sent, Encoded
<1>6. Delivered'
  BY <1>1, <1>5 DEF Delivered
<1>7. Writing' /\ Waiting' /\ Placed' /\ Called' /\ Asked'
  BY <1>1, EmptyIsSeq DEF Writing, Waiting, Placed, Called, Asked
<1>. QED BY <1>3, <1>6, <1>7 DEF SerializationInv, Receiving

LEMMA ReplaceStep ==
  ASSUME SerializationInv, NEW b \in Foreign, Replace(b)
  PROVE  SerializationInv'
<1>1. cur' = None /\ one' = None /\ reads' = <<>> /\ ser' = None
  BY DEF SerializationInv, Receiving, Waiting, Replace
<1>2. payload' = [bytes |-> b, items |-> None, whole |-> FALSE] /\ b \in Seq(Byte)
  BY BytesAssumption DEF Replace
<1>3. payload'.bytes = b /\ payload'.items = None /\ payload'.whole = FALSE
  BY <1>2
<1>4. Holding' /\ Delivered'
  BY <1>2, <1>3 DEF Holding, Delivered
<1>5. Writing' /\ Waiting' /\ Placed' /\ Called' /\ Asked'
  BY <1>1, EmptyIsSeq DEF Writing, Waiting, Placed, Called, Asked
<1>. QED BY <1>4, <1>5 DEF SerializationInv, Receiving

LEMMA TruncateStep ==
  ASSUME SerializationInv, NEW n \in Nat, Truncate(n)
  PROVE  SerializationInv'
<1>1. /\ cur' = None /\ one' = None /\ reads' = <<>> /\ ser' = None
      /\ payload # None /\ payload.whole /\ cur = None
  BY DEF SerializationInv, Receiving, Writing, Waiting, Truncate
<1>2. /\ payload.bytes \in Seq(Byte)
      /\ payload = [bytes |-> payload.bytes, items |-> payload.items, whole |-> payload.whole]
  BY <1>1 DEF SerializationInv, Receiving, Holding
<1>3. n \in 0..Len(payload.bytes) /\ n < Len(payload.bytes)
  BY <1>2, ByteFacts DEF Truncate
<1>4. PICK c : c = SubSeq(payload.bytes, 1, n)
  OBVIOUS
<1>5. c \in Seq(Byte) /\ Len(c) = n /\ \A i \in 1..n : c[i] = payload.bytes[i]
  BY <1>2, <1>3, <1>4, FirstBytes
<1>6. payload' = [bytes |-> c, items |-> payload.items, whole |-> FALSE]
  BY <1>2, <1>4 DEF Truncate
<1>7. payload'.bytes = c /\ payload'.items = payload.items /\ payload'.whole = FALSE
  BY <1>6
<1>8. Holding'
  BY <1>5, <1>6, <1>7 DEF Holding
<1>9. PICK w, off : Sent(payload, w, off)
  BY <1>1 DEF SerializationInv, Receiving, Delivered
<1>10. Cut(c, w)
  BY <1>1, <1>3, <1>5, <1>9 DEF Sent, Cut
<1>11. Sent(payload', w, off)
  BY <1>5, <1>7, <1>9, <1>10 DEF Sent
<1>12. Delivered'
  BY <1>1, <1>11 DEF Delivered
<1>13. Writing' /\ Waiting' /\ Placed' /\ Called' /\ Asked'
  BY <1>1, EmptyIsSeq DEF Writing, Waiting, Placed, Called, Asked
<1>. QED BY <1>8, <1>12, <1>13 DEF SerializationInv, Receiving

(* The receiver's steps leave the payload alone.                            *)
LEMMA SenderUntouched ==
  ASSUME Writing, Holding, UNCHANGED <<ser, payload>>
  PROVE  Writing' /\ Holding'
  BY DEF Writing, Holding

LEMMA OneStep ==
  ASSUME SerializationInv, NEW kind \in Kind, NEW code, code # "Z_OK", z_deserialize(kind, code)
  PROVE  SerializationInv'
<1>1. /\ payload # None /\ cur = None /\ reads = <<>>
      /\ UNCHANGED <<ser, payload, cur, reads>>
      /\ Writing /\ Holding /\ Delivered /\ payload.bytes \in Seq(Byte)
  BY DEF SerializationInv, Receiving, Waiting, Holding, z_deserialize
<1>2. PICK d : d = Decode(kind, payload.bytes)
  OBVIOUS
<1>3. one' = Result(kind, AllOf(payload.bytes, d), code)
  BY <1>2 DEF z_deserialize, Whole, AllOf
<1>4. one'.kind = kind
  BY <1>3 DEF Result
<1>5. Safe(one', payload.bytes)
  BY <1>1, <1>2, <1>3, SafeOne
<1>6. ASSUME payload.whole, payload.items # <<>>, one'.kind = payload.items[1].kind
      PROVE  IF Len(payload.items) = 1
             THEN one'.res = "Z_OK" /\ one'.dst = payload.items[1].val
             ELSE one'.res # "Z_OK"
  <2>1. PICK w, off : Sent(payload, w, off)
    BY <1>1, <1>6 DEF Delivered
  <2>. QED BY <1>2, <1>3, <1>4, <1>6, <2>1, OneValue
<1>7. Asked'
  BY <1>1, <1>4, <1>5, <1>6 DEF Asked
<1>8. Delivered' /\ Waiting' /\ Placed' /\ Called'
  BY <1>1, EmptyIsSeq DEF Delivered, Waiting, Placed, Called
<1>. QED BY <1>1, <1>7, <1>8, SenderUntouched DEF SerializationInv, Receiving

LEMMA CursorStep ==
  ASSUME SerializationInv, NEW type \in {"deserializer", "reader"}, GetCursor(type)
  PROVE  SerializationInv'
<1>1. /\ payload # None /\ UNCHANGED <<ser, payload>> /\ one' = None /\ reads' = <<>>
      /\ cur' = [type |-> type, pos |-> 0]
      /\ Writing /\ Holding /\ Delivered /\ payload.bytes \in Seq(Byte)
  BY DEF SerializationInv, Receiving, Holding, GetCursor
<1>2. cur' \in Cursor /\ cur' # None /\ cur'.pos = 0 /\ 0 \in 0..Len(payload.bytes)
  BY <1>1, NoneAssumption, ByteFacts DEF Cursor
<1>3. ASSUME payload.whole \/ payload.items # None
      PROVE  \E w, off : Sent(payload, w, off) /\ Match(payload, off, reads', cur'.pos)
  <2>1. PICK w, off : Sent(payload, w, off)
    BY <1>1, <1>3 DEF Delivered
  <2>2. off[0] = 0
    BY <2>1, SentFacts DEF Laid
  <2>3. Len(reads') = 0
    BY <1>1, EmptyIsSeq
  <2>4. Match(payload, off, reads', cur'.pos)
    BY <1>2, <2>2, <2>3 DEF Match
  <2>. QED BY <2>1, <2>4
<1>4. Delivered'
  BY <1>1, <1>3 DEF Delivered
<1>5. Waiting' /\ Placed' /\ Called' /\ Asked'
  BY <1>1, <1>2, EmptyIsSeq DEF Waiting, Placed, Called, Asked
<1>. QED BY <1>1, <1>4, <1>5, SenderUntouched DEF SerializationInv, Receiving

(* What holds of a cursor, moved to another position of its payload.        *)
LEMMA CursorFacts ==
  ASSUME SerializationInv, cur # None
  PROVE  /\ payload # None /\ payload.bytes \in Seq(Byte) /\ Len(payload.bytes) \in Nat
         /\ cur \in Cursor /\ cur.pos \in 0..Len(payload.bytes) /\ cur.pos \in Nat
         /\ IsSeq(reads) /\ Len(reads) \in Nat
         /\ Writing /\ Holding /\ Delivered /\ Asked
<1>1. payload # None /\ payload.bytes \in Seq(Byte)
  BY DEF SerializationInv, Receiving, Waiting, Holding
<1>2. cur \in Cursor /\ cur.pos \in 0..Len(payload.bytes) /\ cur.pos \in Nat
  BY DEF SerializationInv, Receiving, Placed, Cursor
<1>3. IsSeq(reads) /\ Len(reads) \in Nat
  BY SeqFacts DEF SerializationInv, Receiving, Called
<1>. QED BY <1>1, <1>2, <1>3, ByteFacts DEF SerializationInv, Receiving

LEMMA Moved ==
  ASSUME cur \in Cursor, NEW p \in Nat
  PROVE  LET c == [cur EXCEPT !.pos = p]
         IN  c \in Cursor /\ c # None /\ c.pos = p /\ c.type = cur.type
<1>1. [cur EXCEPT !.pos = p] \in Cursor
  BY DEF Cursor
<1>2. [cur EXCEPT !.pos = p].pos = p /\ [cur EXCEPT !.pos = p].type = cur.type
  BY DEF Cursor
<1>. QED BY <1>1, <1>2, NoneAssumption DEF Cursor

LEMMA DeserializeStep ==
  ASSUME SerializationInv, NEW kind \in Kind, Deserialize(kind)
  PROVE  SerializationInv'
<1>1. PICK d : d = Decode(kind, Rest)
  OBVIOUS
<1>2. PICK r : r = Result(kind, d, "Z_EDESERIALIZE")
  OBVIOUS
<1>3. /\ cur # None /\ cur.type = "deserializer" /\ reads' = Append(reads, r)
      /\ UNCHANGED <<ser, payload, one>>
      /\ \E p \in Advanced(d) : cur' = [cur EXCEPT !.pos = p]
  BY <1>1, <1>2 DEF Deserialize
<1>4. /\ payload # None /\ payload.bytes \in Seq(Byte) /\ Len(payload.bytes) \in Nat
      /\ cur \in Cursor /\ cur.pos \in 0..Len(payload.bytes) /\ cur.pos \in Nat
      /\ IsSeq(reads) /\ Len(reads) \in Nat
      /\ Writing /\ Holding /\ Delivered /\ Asked
  BY <1>3, CursorFacts
<1>5. /\ Rest \in Seq(Byte) /\ Len(Rest) = Len(payload.bytes) - cur.pos
      /\ Rest = SubSeq(payload.bytes, cur.pos + 1, Len(payload.bytes))
  BY <1>4, RestOf DEF Rest
<1>6. Within(kind, d, Rest)
  BY <1>1, <1>5, DecodeWithin
<1>7. PICK p : /\ cur' = [cur EXCEPT !.pos = p] /\ p \in Advanced(d)
  BY <1>3
<1>8. p \in 0..Len(payload.bytes) /\ p \in Nat /\ (d.ok => p = cur.pos + d.used)
  <2>1. CASE d = Error
    <3>1. ~d.ok
      BY <2>1 DEF Error
    <3>2. p \in cur.pos..Len(payload.bytes)
      BY <1>7, <3>1 DEF Advanced
    <3>. QED BY <1>4, <3>1, <3>2
  <2>2. ASSUME NEW v, NEW n \in 0..Len(Rest), d = Decoded(v, n)
        PROVE  p \in 0..Len(payload.bytes) /\ p \in Nat /\ (d.ok => p = cur.pos + d.used)
    <3>1. d.ok /\ d.used = n
      BY <2>2 DEF Decoded
    <3>2. p = cur.pos + n
      BY <1>7, <3>1 DEF Advanced
    <3>3. cur.pos + n \in 0..Len(payload.bytes)
      <4>1. PICK x \in Nat, y \in Nat : x = cur.pos /\ y = Len(payload.bytes) /\ x <= y
        BY <1>4
      <4>2. n \in 0..(y - x)
        BY <1>5, <2>2, <4>1
      <4>3. x + n \in 0..y
        BY <4>1, <4>2
      <4>. QED BY <4>1, <4>3
    <3>. QED BY <3>1, <3>2, <3>3
  <2>. QED BY <1>6, <2>1, <2>2 DEF Within
<1>9. cur' \in Cursor /\ cur' # None /\ cur'.pos = p /\ cur'.type = "deserializer"
  BY <1>3, <1>4, <1>7, <1>8, Moved
<1>10. Safe(r, payload.bytes) /\ r.kind = kind
  <2>1. "Z_EDESERIALIZE" # "Z_OK"
    OBVIOUS
  <2>2. Safe(r, payload.bytes)
    BY <1>2, <1>4, <1>5, <1>6, <2>1, SafeResult
  <2>. QED BY <1>2, <2>2 DEF Result
<1>11. /\ IsSeq(reads') /\ Len(reads') = Len(reads) + 1
       /\ \A i \in 1..Len(reads) : reads'[i] = reads[i]
       /\ reads'[Len(reads) + 1] = r
  BY <1>3, <1>4, AppendFacts
<1>12. \A k \in Kind : k # "read"
  BY DEF Kind, Number, OwnedKind
<1>13. Called'
  <2>1. ASSUME NEW i \in 1..Len(reads')
        PROVE  Safe(reads'[i], payload.bytes) /\ reads'[i].kind \in Kind
    <3>1. i \in 1..Len(reads) \/ i = Len(reads) + 1
      BY <1>4, <1>11
    <3>2. CASE i \in 1..Len(reads)
      BY <1>3, <1>11, <3>2 DEF SerializationInv, Receiving, Called
    <3>. QED BY <1>10, <1>11, <3>1, <3>2
  <2>2. \A i \in 1..Len(reads') : Copied(reads'[i], cur'.pos, payload.bytes)
    BY <1>12, <2>1 DEF Copied
  <2>. QED BY <1>3, <1>9, <1>11, <2>1, <2>2 DEF Called
<1>14. Delivered'
  <2>1. ASSUME payload.whole \/ payload.items # None
        PROVE  \E w, off : Sent(payload, w, off) /\ Match(payload, off, reads', cur'.pos)
    <3>1. PICK w, off : Sent(payload, w, off) /\ Match(payload, off, reads, cur.pos)
      BY <1>3, <1>4, <2>1 DEF Delivered
    <3>2. Match(payload, off, Append(reads, Result(kind, d, "Z_EDESERIALIZE")), p)
      BY <1>1, <1>4, <1>5, <1>8, <3>1, MatchStep
    <3>. QED BY <1>2, <1>3, <1>9, <3>1, <3>2
  <2>. QED BY <1>3, <2>1 DEF Delivered
<1>15. Waiting' /\ Placed' /\ Asked'
  BY <1>3, <1>4, <1>8, <1>9 DEF Waiting, Placed, Asked
<1>. QED BY <1>3, <1>4, <1>13, <1>14, <1>15, SenderUntouched DEF SerializationInv, Receiving

(* A reader, wherever it goes, leaves one or no result.                     *)
LEMMA ReaderMoves ==
  ASSUME SerializationInv, cur # None, cur.type = "reader", UNCHANGED <<ser, payload, one>>,
         NEW p \in 0..Len(payload.bytes), cur' = [cur EXCEPT !.pos = p],
         \/ reads' = <<>>
         \/ \E r : reads' = <<r>> /\ r.kind = "read" /\ Copied(r, p, payload.bytes)
  PROVE  SerializationInv'
<1>1. /\ payload # None /\ payload.bytes \in Seq(Byte) /\ Len(payload.bytes) \in Nat
      /\ cur \in Cursor /\ Writing /\ Holding /\ Delivered /\ Asked
  BY CursorFacts
<1>2. cur' \in Cursor /\ cur' # None /\ cur'.pos = p /\ cur'.type = "reader"
  BY <1>1, Moved
<1>3. Called'
  <2>1. CASE reads' = <<>>
    BY <2>1, EmptyIsSeq DEF Called
  <2>2. ASSUME NEW r, reads' = <<r>>, r.kind = "read", Copied(r, p, payload.bytes)
        PROVE  Called'
    <3>1. IsSeq(<<r>>) /\ Len(<<r>>) = 1 /\ <<r>>[1] = r
      <4>1. <<r>> \in Seq({r})
        OBVIOUS
      <4>. QED BY <4>1 DEF IsSeq
    <3>2. Safe(r, payload.bytes)
      BY <2>2 DEF Safe, OwnedKind
    <3>3. ASSUME NEW i \in 1..Len(reads') PROVE reads'[i] = r
      BY <2>2, <3>1
    <3>. QED BY <1>2, <2>2, <3>1, <3>2, <3>3 DEF Called
  <2>. QED BY <2>1, <2>2
<1>4. Delivered' /\ Waiting' /\ Placed' /\ Asked'
  BY <1>1, <1>2 DEF Delivered, Waiting, Placed, Asked
<1>. QED BY <1>1, <1>3, <1>4, SenderUntouched DEF SerializationInv, Receiving

LEMMA ReadStep ==
  ASSUME SerializationInv, NEW n \in Nat, Read(n)
  PROVE  SerializationInv'
<1>1. cur # None /\ cur.type = "reader" /\ z_bytes_reader_read(n)
  BY DEF Read
<1>2. /\ payload.bytes \in Seq(Byte) /\ Len(payload.bytes) \in Nat /\ cur \in Cursor
      /\ cur.pos \in 0..Len(payload.bytes) /\ cur.pos \in Nat
  BY <1>1, CursorFacts
<1>3. PICK b, pos : b = payload.bytes /\ pos = cur.pos
  OBVIOUS
<1>4. PICK rem \in Nat : rem = z_bytes_reader_remaining /\ rem = Len(b) - pos
  BY <1>2, <1>3 DEF z_bytes_reader_remaining
<1>5. PICK got : got = Min({n, rem})
  OBVIOUS
<1>6. got \in Nat /\ got <= rem /\ (got < n => got = rem)
  <2>1. {n, rem} \in SUBSET Nat /\ {n, rem} # {}
    OBVIOUS
  <2>2. Min({n, rem}) \in {n, rem} /\ \A x \in {n, rem} : Min({n, rem}) <= x
    BY <2>1, MinExists
  <2>. QED BY <1>5, <2>2
<1>7. PICK v : v = SubSeq(Rest, 1, got)
  OBVIOUS
<1>8. v = SubSeq(b, pos + 1, pos + got) /\ Len(v) = got
  <2>1. Rest = SubSeq(b, pos + 1, Len(b)) /\ Len(Rest) = rem
    BY <1>2, <1>3, <1>4, RestOf DEF Rest
  <2>2. PICK m \in Nat : m = 0
    OBVIOUS
  <2>3. m + got <= Len(Rest) /\ m + 1 = 1 /\ m + got = got /\ pos + m = pos
    BY <1>2, <1>3, <1>6, <2>1, <2>2
  <2>4. v = SubSeq(Rest, m + 1, m + got)
    BY <1>7, <2>3
  <2>5. v = SubSeq(b, (pos + m) + 1, (pos + m) + got) /\ Len(v) = got
    <3>1. b \in Seq(Byte) /\ pos \in 0..Len(b) /\ got \in Nat
      BY <1>2, <1>3, <1>6
    <3>2. PICK rest : rest = Rest
      OBVIOUS
    <3>3. /\ rest = SubSeq(b, pos + 1, Len(b)) /\ m + got <= Len(rest)
          /\ v = SubSeq(rest, m + 1, m + got)
      BY <2>1, <2>3, <2>4, <3>2
    <3>4. v = SubSeq(b, (pos + m) + 1, (pos + m) + got)
      BY <3>1, <3>3, PartOfRest
    <3>. QED BY <3>1, <3>3, <3>4, PartOfRest
  <2>. QED BY <2>3, <2>5
<1>9. PICK r : r = [kind |-> "read", len |-> n, res |-> got, dst |-> v]
  OBVIOUS
<1>10. reads' = <<r>> /\ UNCHANGED <<ser, payload, one>>
  BY <1>1, <1>4, <1>5, <1>7, <1>9 DEF z_bytes_reader_read
<1>11. cur' = [cur EXCEPT !.pos = pos + got]
  BY <1>1, <1>2, <1>3, <1>4, <1>5 DEF z_bytes_reader_read, Cursor
<1>12. PICK p \in 0..Len(b) : p = pos + got
  BY <1>2, <1>3, <1>4, <1>6
<1>13. Copied(r, p, b)
  <2>1. p - got + 1 = pos + 1 /\ (got < n => p = Len(b))
    <3>1. PICK l \in Nat : l = Len(b)
      BY <1>2, <1>3, Zenon
    <3>2. pos \in Nat
      BY <1>2, <1>3, Zenon
    <3>3. p = pos + got /\ rem = l - pos
      BY <1>4, <1>12, <3>1, Zenon
    <3>4. p - got + 1 = pos + 1 /\ (got < n => p = l)
      BY <1>6, <3>2, <3>3
    <3>. QED BY <3>1, <3>4, Zenon
  <2>2. r.res = got /\ r.len = n /\ r.dst = v
    BY <1>9
  <2>3. v = SubSeq(b, p - got + 1, p) /\ Len(v) = got
    BY <1>8, <1>12, <2>1
  <2>. QED BY <2>1, <2>2, <2>3 DEF Copied
<1>14. r.kind = "read"
  BY <1>9
<1>. QED BY <1>1, <1>3, <1>10, <1>11, <1>12, <1>13, <1>14, ReaderMoves

LEMMA SeekStep ==
  ASSUME SerializationInv, NEW offset \in Offset,
         NEW origin \in {"SEEK_SET", "SEEK_CUR", "SEEK_END", "other"}, Seek(offset, origin)
  PROVE  SerializationInv'
<1>1. /\ cur # None /\ cur.type = "reader" /\ reads' = <<>>
      /\ UNCHANGED <<ser, payload, one>>
  BY DEF Seek, z_bytes_reader_seek
<1>2. cur \in Cursor /\ cur.pos \in 0..Len(payload.bytes)
  BY <1>1, CursorFacts
<1>3. cur' = cur \/ \E target : SeekTo(target)
  BY DEF Seek, z_bytes_reader_seek
<1>4. cur = [cur EXCEPT !.pos = cur.pos]
  BY <1>2 DEF Cursor
<1>5. \E p \in 0..Len(payload.bytes) : cur' = [cur EXCEPT !.pos = p]
  BY <1>2, <1>3, <1>4 DEF SeekTo
<1>. QED BY <1>1, <1>5, ReaderMoves

LEMMA DropStep ==
  ASSUME SerializationInv, z_bytes_drop
  PROVE  SerializationInv'
<1>1. ser' = None
  BY DEF SerializationInv, Writing, z_bytes_drop
<1>. QED BY <1>1, EmptyIsSeq
         DEF z_bytes_drop, SerializationInv, Receiving, Writing, Holding, Delivered, Waiting,
             Placed, Called, Asked

LEMMA ItemStep ==
  ASSUME SerializationInv, NEW item \in Items,
         \/ ze_serializer_serialize_arithmetic(item) \/ ze_serializer_serialize_slice(item)
         \/ ze_serializer_serialize_string(item)
         \/ ze_serializer_serialize_sequence_length(item)
         \/ ze_serialize_arithmetic(item) \/ ze_serialize_slice(item) \/ ze_serialize_string(item)
  PROVE  SerializationInv'
<1>1. ASSUME ~Refused(item), Serialize(item) PROVE SerializationInv'
  BY <1>1, SerializeStep
<1>2. ASSUME ~Refused(item), Produce(Written(Encode(item), <<item>>)) PROVE SerializationInv'
  BY <1>2, EncodedOne, PayloadStep DEF Produce
<1>3. ASSUME Produce(Empty) PROVE SerializationInv'
  BY <1>3, EncodedEmpty, PayloadStep DEF Produce, Empty
<1>4. ASSUME UNCHANGED vars PROVE SerializationInv'
  BY <1>4, SenderStep DEF vars
<1>5. item.kind # "string" => ~Refused(item)
  BY DEF Refused
<1>6. ASSUME item.kind # "string", Serialize(item) PROVE SerializationInv'
  BY <1>1, <1>5, <1>6
<1>7. ASSUME item.kind # "string", Produce(Written(Encode(item), <<item>>))
      PROVE  SerializationInv'
  BY <1>2, <1>5, <1>7
<1>8. CASE ze_serializer_serialize_arithmetic(item)
  BY <1>6, <1>8 DEF ze_serializer_serialize_arithmetic, Number
<1>9. CASE ze_serializer_serialize_slice(item)
  BY <1>6, <1>9 DEF ze_serializer_serialize_slice
<1>10. CASE ze_serializer_serialize_sequence_length(item)
  BY <1>6, <1>10 DEF ze_serializer_serialize_sequence_length
<1>11. CASE ze_serializer_serialize_string(item)
  BY <1>1, <1>4, <1>11 DEF ze_serializer_serialize_string
<1>12. CASE ze_serialize_arithmetic(item)
  BY <1>7, <1>12 DEF ze_serialize_arithmetic, Number
<1>13. CASE ze_serialize_slice(item)
  BY <1>7, <1>13 DEF ze_serialize_slice
<1>14. CASE ze_serialize_string(item)
  BY <1>2, <1>3, <1>14 DEF ze_serialize_string
<1>. QED BY <1>8, <1>9, <1>10, <1>11, <1>12, <1>13, <1>14

LEMMA SerializationStep ==
  ASSUME SerializationInv, [Next]_vars
  PROVE  SerializationInv'
<1>1. CASE ze_serializer_empty
  BY <1>1, EncodedEmpty, SenderStep DEF ze_serializer_empty, Empty
<1>2. CASE ze_serializer_finish
  <2>1. ser = Written(ser.bytes, ser.items) /\ Encoded(ser.bytes, ser.items) /\ payload = None
    BY <1>2 DEF ze_serializer_finish, SerializationInv, Writing
  <2>. QED BY <1>2, <2>1, PayloadStep DEF ze_serializer_finish
<1>3. CASE ze_serializer_drop
  BY <1>3, SenderStep DEF ze_serializer_drop
<1>4. ASSUME NEW n \in 0..(MaxItems * Base), Truncate(n) PROVE SerializationInv'
  <2>1. n \in Nat
    BY LimitsAssumption, BaseAssumption
  <2>. QED BY <1>4, <2>1, TruncateStep
<1>5. ASSUME NEW kind \in Number,
             ze_deserialize_arithmetic(kind) \/ ze_deserializer_deserialize_arithmetic(kind)
      PROVE  SerializationInv'
  <2>1. kind \in Kind
    BY DEF Kind
  <2>. QED BY <1>5, <2>1, OneStep, DeserializeStep
           DEF ze_deserialize_arithmetic, ze_deserializer_deserialize_arithmetic
<1>6. CASE ze_deserialize_slice \/ ze_deserialize_string
  BY <1>6, OneStep DEF ze_deserialize_slice, ze_deserialize_string, Kind, OwnedKind
<1>7. CASE \/ ze_deserializer_deserialize_slice \/ ze_deserializer_deserialize_string
           \/ ze_deserializer_deserialize_sequence_length
  BY <1>7, DeserializeStep
     DEF ze_deserializer_deserialize_slice, ze_deserializer_deserialize_string,
         ze_deserializer_deserialize_sequence_length, Kind, OwnedKind
<1>8. CASE ze_deserializer_from_bytes \/ z_bytes_get_reader
  BY <1>8, CursorStep DEF ze_deserializer_from_bytes, z_bytes_get_reader
<1>9. CASE z_bytes_drop
  BY <1>9, DropStep
<1>10. ASSUME NEW n \in 0..MaxLen, Read(n) PROVE SerializationInv'
  <2>1. n \in Nat
    BY LimitsAssumption
  <2>. QED BY <1>10, <2>1, ReadStep
<1>11. CASE UNCHANGED vars
  BY <1>11, SenderStep DEF vars
<1>. QED BY <1>1, <1>2, <1>3, <1>4, <1>5, <1>6, <1>7, <1>8, <1>9, <1>10, <1>11,
            ItemStep, ReplaceStep, SeekStep DEF Next

LEMMA Serialized == Spec => []SerializationInv
<1>1. SerializationInv /\ [Next]_vars => SerializationInv'
  BY SerializationStep
<1>. QED BY <1>1, InitSerialization, PTL DEF Spec

------------------------------------------------------------------------------
(* What serializer, payload and cursor hold: in every reachable state the   *)
(* cursor of ze_deserializer_deserialize_<T> and z_bytes_reader_read stands *)
(* within its payload.                                                      *)
THEOREM SerializationTypes == Spec => []TypeOK
<1>1. SerializationInv => TypeOK
  <2> SUFFICES ASSUME SerializationInv PROVE TypeOK
    OBVIOUS
  <2>1. ser = None \/ (ser.bytes \in Seq(Byte) /\ ser.items \in Seq(Items))
    BY DEF SerializationInv, Writing, Encoded, Accepted
  <2>2. payload = None \/ payload.bytes \in Seq(Byte)
    BY DEF SerializationInv, Receiving, Holding
  <2>3. cur = None => reads = <<>>
    BY DEF SerializationInv, Receiving, Waiting
  <2>4. cur # None => payload # None /\ cur.pos \in 0..Len(payload.bytes)
    BY CursorFacts
  <2>. QED BY <2>1, <2>2, <2>3, <2>4 DEF TypeOK
<1>. QED BY <1>1, Serialized, PTL

(* Whatever bytes a payload holds, ze_deserialize_slice and the calls like  *)
(* it give back a part of them or an error with a destination that can be   *)
(* dropped, and z_bytes_reader_read the bytes before its cursor.            *)
THEOREM NothingIsInvented == Spec => []NothingInvented
<1>1. SerializationInv => NothingInvented
  <2> SUFFICES ASSUME SerializationInv PROVE NothingInvented
    OBVIOUS
  <2>1. Called /\ Asked /\ Waiting
    BY DEF SerializationInv, Receiving
  <2>2. ASSUME NEW r, Safe(r, payload.bytes),
               r.kind = "read" => Copied(r, cur.pos, payload.bytes)
        PROVE  /\ r.kind \in OwnedKind =>
                    IF Succeeded(r)
                    THEN /\ \E i \in 0..Len(payload.bytes) :
                                r.dst = SubSeq(payload.bytes, i + 1, i + Len(r.dst))
                         /\ r.kind = "string" => IsText(r.dst)
                    ELSE r.dst = Gravestone
               /\ r.kind = "read" =>
                    /\ r.res = Len(r.dst)
                    /\ r.dst = SubSeq(payload.bytes, cur.pos - r.res + 1, cur.pos)
                    /\ r.res < r.len => ze_deserializer_is_done
    <3>1. ASSUME r.kind \in OwnedKind
          PROVE  IF Succeeded(r)
                 THEN /\ \E i \in 0..Len(payload.bytes) :
                             r.dst = SubSeq(payload.bytes, i + 1, i + Len(r.dst))
                      /\ r.kind = "string" => IsText(r.dst)
                 ELSE r.dst = Gravestone
      <4>1. Succeeded(r) <=> r.res = "Z_OK"
        BY <3>1 DEF Succeeded, OwnedKind
      <4>. QED BY <2>2, <3>1, <4>1 DEF Safe, Part
    <3>. QED BY <2>2, <3>1 DEF Copied, ze_deserializer_is_done
  <2>3. ASSUME NEW r \in Results
        PROVE  Safe(r, payload.bytes) /\ (r.kind = "read" => Copied(r, cur.pos, payload.bytes))
    <3>1. CASE r \in ToSet(reads)
      <4>1. PICK i \in DOMAIN reads : r = reads[i]
        BY <3>1 DEF ToSet
      <4>2. i \in 1..Len(reads)
        BY <2>1, <4>1, SeqFacts DEF Called
      <4>. QED BY <2>1, <4>1, <4>2 DEF Called
    <3>2. CASE one # None /\ r = one
      <4>1. r.kind # "read"
        BY <2>1, <3>2 DEF Asked, Kind, Number, OwnedKind
      <4>. QED BY <2>1, <3>2, <4>1 DEF Asked
    <3>. QED BY <3>1, <3>2 DEF Results
  <2>. QED BY <2>2, <2>3 DEF NothingInvented
<1>. QED BY <1>1, Serialized, PTL

(* The calls asked for the types that were written, with a cursor or none.  *)
LEMMA FollowsMatch ==
  ASSUME SerializationInv, Follows
  PROVE  \E w, off :
           /\ Sent(payload, w, off) /\ Len(reads) \in 0..Len(payload.items)
           /\ DOMAIN reads = 1..Len(reads)
           /\ \/ /\ cur # None /\ cur.type = "deserializer" /\ ~payload.whole
                 /\ \E i \in 1..Len(reads) : reads[i].res # "Z_OK"
              \/ /\ cur # None /\ cur.type = "deserializer"
                 /\ \A i \in 1..Len(reads) : /\ reads[i].res = "Z_OK"
                                             /\ reads[i].dst = payload.items[i].val
                 /\ cur.pos = off[Len(reads)] /\ cur.pos <= Len(payload.bytes)
              \/ (cur = None \/ cur.type = "reader") /\ Len(reads) = 0
<1>1. PICK w, off : /\ Sent(payload, w, off)
                    /\ cur # None /\ cur.type = "deserializer" =>
                         Match(payload, off, reads, cur.pos)
  BY DEF SerializationInv, Receiving, Delivered, Follows
<1>2. Called /\ Waiting /\ Placed
  BY DEF SerializationInv, Receiving
<1>3. Len(reads) \in Nat /\ DOMAIN reads = 1..Len(reads) /\ Len(payload.items) \in Nat
  BY <1>1, <1>2, SeqFacts, SentFacts DEF Called
<1>4. /\ Len(reads) \in 0..Len(payload.items) /\ Len(reads) <= Len(payload.items)
      /\ \A i \in 1..Len(reads) : reads[i].kind = payload.items[i].kind
  BY <1>3 DEF Follows
<1>5. CASE cur # None /\ cur.type = "deserializer"
  <2>1. cur.pos <= Len(payload.bytes)
    BY <1>5, CursorFacts
  <2>2. Match(payload, off, reads, cur.pos)
    BY <1>1, <1>5
  <2>3. \/ ~payload.whole /\ \E i \in 1..Len(reads) : reads[i].res # "Z_OK"
        \/ /\ \A i \in 1..Len(reads) : /\ reads[i].res = "Z_OK"
                                       /\ reads[i].dst = payload.items[i].val
           /\ cur.pos = off[Len(reads)]
    BY <1>4, <2>2 DEF Match
  <2>. QED BY <1>1, <1>3, <1>4, <1>5, <2>1, <2>3
<1>6. CASE cur = None
  <2>1. Len(reads) = 0
    BY <1>2, <1>6, EmptyIsSeq DEF Waiting
  <2>. QED BY <1>1, <1>3, <1>4, <1>6, <2>1
<1>7. CASE cur # None /\ cur.type = "reader"
  <2>1. ASSUME NEW i \in 1..Len(reads) PROVE FALSE
    <3>1. reads[i].kind = "read"
      BY <1>2, <1>7 DEF Called
    <3>2. payload.items[i] \in Items
      BY <1>1, <1>3, <1>4, SentFacts, ItemFacts
    <3>3. payload.items[i].kind # "read"
      BY <3>2, ItemCases DEF OwnedKind
    <3>. QED BY <1>4, <3>1, <3>3
  <2>2. Len(reads) = 0
    BY <1>3, <2>1
  <2>. QED BY <1>1, <1>3, <1>4, <1>7, <2>2
<1>8. cur = None \/ cur.type = "deserializer" \/ cur.type = "reader"
  BY <1>2 DEF Placed, Cursor
<1>. QED BY <1>5, <1>6, <1>7, <1>8

(* What a ze_owned_serializer_t wrote, a ze_deserializer_t that is asked    *)
(* for the same types gives back, and is done exactly after the last value; *)
(* ze_deserialize_<T> gives back a payload of one value and refuses a       *)
(* longer one.                                                              *)
THEOREM RoundTrips == Spec => []RoundTrip
<1>1. SerializationInv => RoundTrip
  <2> SUFFICES ASSUME SerializationInv, payload # None, payload.whole
               PROVE  /\ cur # None /\ cur.type = "deserializer" /\ Follows =>
                           /\ AllRead
                           /\ ze_deserializer_is_done <=> Len(reads) = Len(payload.items)
                      /\ one # None /\ payload.items # <<>>
                           /\ one.kind = payload.items[1].kind =>
                           IF Len(payload.items) = 1
                           THEN one.res = "Z_OK" /\ one.dst = payload.items[1].val
                           ELSE one.res # "Z_OK"
    BY DEF RoundTrip
  <2>1. ASSUME cur # None, cur.type = "deserializer", Follows
        PROVE  AllRead /\ (ze_deserializer_is_done <=> Len(reads) = Len(payload.items))
    <3>1. PICK w, off : /\ Sent(payload, w, off) /\ Len(reads) \in 0..Len(payload.items)
                        /\ DOMAIN reads = 1..Len(reads)
                        /\ \A i \in 1..Len(reads) : /\ reads[i].res = "Z_OK"
                                                    /\ reads[i].dst = payload.items[i].val
                        /\ cur.pos = off[Len(reads)]
      BY <2>1, FollowsMatch
    <3>2. AllRead
      BY <3>1 DEF AllRead
    <3>3. payload.bytes = w /\ w \in Seq(Byte) /\ Laid(off, w, payload.items)
            /\ payload.items \in Seq(Items)
      BY <3>1, SentFacts DEF Sent
    <3>4. \A k \in 0..Len(payload.items) : off[k] = Len(w) <=> k = Len(payload.items)
      BY <3>3, LastOffset
    <3>5. off[Len(reads)] = Len(w) <=> Len(reads) = Len(payload.items)
      BY <3>1, <3>4
    <3>. QED BY <3>1, <3>2, <3>3, <3>5 DEF ze_deserializer_is_done
  <2>2. Asked
    BY DEF SerializationInv, Receiving
  <2>. QED BY <2>1, <2>2 DEF Asked
<1>. QED BY <1>1, Serialized, PTL

(* A payload that lost its end is never taken for the whole: a deserializer *)
(* that is asked for the types that were written fails before the last.     *)
THEOREM TruncationIsDetected == Spec => []TruncationDetected
<1>1. SerializationInv => TruncationDetected
  <2> SUFFICES ASSUME SerializationInv, payload # None, ~payload.whole, Follows
               PROVE  \/ \E i \in DOMAIN reads : reads[i].res # "Z_OK"
                      \/ AllRead /\ Len(reads) < Len(payload.items)
    BY DEF TruncationDetected
  <2>1. PICK w, off :
           /\ Sent(payload, w, off) /\ Len(reads) \in 0..Len(payload.items)
           /\ DOMAIN reads = 1..Len(reads)
           /\ \/ \E i \in 1..Len(reads) : reads[i].res # "Z_OK"
              \/ /\ \A i \in 1..Len(reads) : /\ reads[i].res = "Z_OK"
                                             /\ reads[i].dst = payload.items[i].val
                 /\ cur.pos = off[Len(reads)] /\ cur.pos <= Len(payload.bytes)
              \/ Len(reads) = 0
    BY FollowsMatch
  <2>2. /\ Len(payload.items) \in Nat /\ Len(payload.bytes) \in Nat /\ Len(w) \in Nat
        /\ \A k \in 0..Len(payload.items) : off[k] \in Nat
        /\ off[0] = 0 /\ off[Len(payload.items)] = Len(w)
    BY <2>1, SentFacts DEF Laid
  <2>3. Len(payload.bytes) < Len(w)
    BY <2>1 DEF Sent, Cut
  <2>4. CASE /\ \A i \in 1..Len(reads) : /\ reads[i].res = "Z_OK"
                                         /\ reads[i].dst = payload.items[i].val
             /\ cur.pos = off[Len(reads)] /\ cur.pos <= Len(payload.bytes)
    <3>1. AllRead
      BY <2>1, <2>4 DEF AllRead
    <3>2. Len(reads) # Len(payload.items)
      BY <2>1, <2>2, <2>3, <2>4
    <3>. QED BY <2>1, <2>2, <3>1, <3>2
  <2>5. CASE Len(reads) = 0
    <3>1. AllRead
      BY <2>1, <2>5 DEF AllRead
    <3>2. Len(payload.items) # 0
      BY <2>2, <2>3
    <3>. QED BY <2>2, <2>5, <3>1, <3>2
  <2>. QED BY <2>1, <2>4, <2>5
<1>. QED BY <1>1, Serialized, PTL

=============================================================================
