---------------------------- MODULE Framing_proofs ----------------------------
(***************************************************************************)
(* The frames of a connection implement the packet stream, for packets of  *)
(* any lengths and any number of them, however TCP cuts them; and the      *)
(* VarInts in front of them are read back, for ints and digits of any      *)
(* width.                                                                  *)
(*                                                                         *)
(* WriteVarInt, SizeofVarInt, Value and Pow2 are defined by recursion.     *)
(* The induction they need is stated of sets, not of predicates (Descent,  *)
(* Ascent): the provers can use it then, and Recursion, which follows from *)
(* it, says that each of the four definitions has a solution.              *)
(***************************************************************************)
EXTENDS Framing, SequenceTheorems, WellFoundedInduction, TLAPS

Bytes == [digit : Int, more : BOOLEAN, at : {<<>>} \cup (Int \X Int)]

-----------------------------------------------------------------------------
(* Induction and recursion over numbers.                                   *)

\* A set that has every number whose predecessors it has is all numbers.
LEMMA Descent ==
    ASSUME NEW S, \A n \in Nat : (\A m \in 0 .. n - 1 : m \in S) => n \in S
    PROVE  Nat \subseteq S
<1> DEFINE T == Nat \ S
           R == {ss \in Nat \X Nat : ss[1] < ss[2]}
<1> SUFFICES ASSUME T # {} PROVE FALSE
    OBVIOUS
<1>1. IsWellFoundedOn(R, Nat)
    BY NatLessThanWellFounded DEF OpToRel
<1>2. T \subseteq Nat
    OBVIOUS
<1> HIDE DEF T, R
<1>3. PICK x \in T : \A y \in T : <<y, x>> \notin R
    BY <1>1, <1>2, WFMin, Zenon
<1>4. \A y \in Nat : y < x => <<y, x>> \in R
    BY <1>2 DEF R
<1>5. \A y \in 0 .. x - 1 : y \in S
  <2> SUFFICES ASSUME NEW y \in 0 .. x - 1 PROVE y \in S
    OBVIOUS
  <2>1. y \in Nat /\ y < x
    BY <1>2
  <2>2. y \notin T
    BY <1>3, <1>4, <2>1, Zenon
  <2> QED BY <2>1, <2>2 DEF T
<1> QED BY <1>2, <1>3, <1>5 DEF T

\* The same one step at a time.
LEMMA Ascent ==
    ASSUME NEW S, 0 \in S, \A n \in Nat : n \in S => n + 1 \in S
    PROVE  Nat \subseteq S
<1>1. ASSUME NEW n \in Nat, \A m \in 0 .. n - 1 : m \in S PROVE n \in S
  <2>1. CASE n = 0
    BY <2>1
  <2>2. CASE n # 0
    <3>1. n - 1 \in Nat /\ n - 1 \in 0 .. n - 1 /\ (n - 1) + 1 = n
      BY <2>2
    <3>2. n - 1 \in S
      BY <1>1, <3>1
    <3>3. (n - 1) + 1 \in S
      BY <3>1, <3>2
    <3> QED BY <3>1, <3>3
  <2> QED BY <2>1, <2>2
<1> QED BY <1>1, Descent

\* A definition by recursion over some numbers: on those that are done the value is
\* base's, on the others it is combined with the value at a smaller one.
Descends(D, T, done, base, next, comb) ==
    /\ D \subseteq Nat
    /\ base \in [D -> T]
    /\ \A v \in D \ done : next[v] \in D /\ next[v] < v
    /\ \A v \in D \ done, x \in T : comb[<<v, x>>] \in T

Solves(f, D, done, base, next, comb) ==
    \A v \in D : f[v] = IF v \in done THEN base[v] ELSE comb[<<v, f[next[v]]>>]

\* Such a definition has a solution: functions that solve it below n agree there,
\* and there is one for every n.
LEMMA Recursion ==
    ASSUME NEW D, NEW T, NEW done, NEW base, NEW next, NEW comb,
           Descends(D, T, done, base, next, comb)
    PROVE  \E f \in [D -> T] : Solves(f, D, done, base, next, comb)
<1> USE DEF Descends
<1> DEFINE Step(f, v) == IF v \in done THEN base[v] ELSE comb[<<v, f[next[v]]>>]
           Approx(f, n) == f \in [D -> T] /\ \A v \in D : v < n => f[v] = Step(f, v)
           Some == {n \in Nat : \E f \in [D -> T] : Approx(f, n)}
<1> HIDE DEF Approx, Some
<1>0. \A v \in D : v \in Nat /\ (v \notin done => next[v] \in D /\ next[v] \in Nat /\ next[v] < v)
  OBVIOUS
<1>1. ASSUME NEW f \in [D -> T], NEW v \in D PROVE Step(f, v) \in T
  BY <1>1
<1>2. ASSUME NEW f, NEW g, NEW v \in D, v \notin done => f[next[v]] = g[next[v]]
      PROVE  Step(f, v) = Step(g, v)
  BY <1>2
<1> HIDE DEF Step
<1>3. Nat \subseteq Some
  <2>1. 0 \in Some
    <3>1. Approx(base, 0)
      BY <1>0 DEF Approx
    <3> QED BY <3>1 DEF Some
  <2>2. ASSUME NEW n \in Nat, n \in Some PROVE n + 1 \in Some
    <3>1. PICK f \in [D -> T] : Approx(f, n)
      BY <2>2 DEF Some
    <3> DEFINE g == [v \in D |-> IF v = n THEN Step(f, n) ELSE f[v]]
    <3>2. g \in [D -> T]
      BY <1>1
    <3>3. ASSUME NEW v \in D PROVE g[v] = IF v = n THEN Step(f, n) ELSE f[v]
      OBVIOUS
    <3> HIDE DEF g
    <3>4. ASSUME NEW v \in D, v < n + 1 PROVE g[v] = Step(g, v)
      <4>1. v = n \/ (v < n /\ v # n)
        BY <1>0, <3>4
      <4>2. v \notin done => g[next[v]] = f[next[v]]
        BY <1>0, <3>3, <4>1
      <4>3. Step(g, v) = Step(f, v)
        BY <1>2, <4>2
      <4>4. CASE v = n
        BY <3>3, <4>3, <4>4
      <4>5. CASE v < n /\ v # n
        <5>1. f[v] = Step(f, v)
          BY <3>1, <4>5 DEF Approx
        <5> QED BY <3>3, <4>3, <4>5, <5>1
      <4> QED BY <4>1, <4>4, <4>5
    <3>5. Approx(g, n + 1)
      BY <3>2, <3>4 DEF Approx
    <3> QED BY <3>2, <3>5 DEF Some
  <2> QED BY <2>1, <2>2, Ascent
<1>4. ASSUME NEW f, NEW g, NEW n \in Nat, Approx(f, n), Approx(g, n), NEW v \in D, v < n
      PROVE  f[v] = g[v]
  <2> DEFINE Same == {k \in Nat : k \in D /\ k < n => f[k] = g[k]}
  <2>1. ASSUME NEW k \in Nat, \A m \in 0 .. k - 1 : m \in Same PROVE k \in Same
    <3> SUFFICES ASSUME k \in D, k < n PROVE f[k] = g[k]
      OBVIOUS
    <3>1. ASSUME k \notin done PROVE f[next[k]] = g[next[k]]
      <4>1. next[k] \in D /\ next[k] \in 0 .. k - 1 /\ next[k] < n
        BY <1>0, <3>1
      <4> QED BY <2>1, <4>1
    <3>2. Step(f, k) = Step(g, k)
      BY <1>2, <3>1
    <3> QED BY <1>4, <3>2 DEF Approx
  <2> HIDE DEF Same
  <2>2. Nat \subseteq Same
    BY <2>1, Descent
  <2> QED BY <1>0, <1>4, <2>2 DEF Same
<1> DEFINE at == [v \in D |-> CHOOSE f \in [D -> T] : Approx(f, v + 1)]
           h == [v \in D |-> at[v][v]]
<1>5. ASSUME NEW v \in D PROVE at[v] \in [D -> T] /\ Approx(at[v], v + 1)
  <2>1. v + 1 \in Nat
    BY <1>0
  <2>2. v + 1 \in Some
    BY <1>3, <2>1
  <2>3. \E f \in [D -> T] : Approx(f, v + 1)
    BY <2>2 DEF Some
  <2> QED BY <2>3
<1> HIDE DEF at
<1>6. h \in [D -> T] /\ \A v \in D : h[v] = at[v][v]
  BY <1>5
<1> HIDE DEF h
<1>7. ASSUME NEW v \in D PROVE h[v] = Step(h, v)
  <2>1. v \in Nat /\ at[v][v] = Step(at[v], v)
    <3>1. v \in Nat /\ v < v + 1
      BY <1>0
    <3> QED BY <1>5, <3>1 DEF Approx
  <2>2. ASSUME v \notin done PROVE at[v][next[v]] = h[next[v]]
    <3> DEFINE w == next[v]
    <3>1. w \in D /\ w \in Nat /\ w < v
      BY <1>0, <2>2
    <3> HIDE DEF w
    <3>2. Approx(at[v], v + 1) /\ Approx(at[w], w + 1)
      BY <1>5, <3>1
    <3>3. \A u \in D : u < w + 1 => u < v + 1
      BY <1>0, <2>1, <3>1
    <3>4. Approx(at[v], w + 1)
      BY <3>2, <3>3 DEF Approx
    <3>5. w + 1 \in Nat /\ w < w + 1
      BY <3>1
    <3>6. at[v][w] = at[w][w]
      BY <1>4, <3>1, <3>2, <3>4, <3>5
    <3> QED BY <1>6, <3>1, <3>6 DEF w
  <2>3. Step(at[v], v) = Step(h, v)
    BY <1>2, <2>2
  <2> QED BY <1>6, <2>1, <2>3
<1> QED BY <1>6, <1>7 DEF Step, Solves

-----------------------------------------------------------------------------
(* Powers of two.                                                          *)

\* The recursion that defines Pow2 holds.
LEMMA Pow2Def ==
    /\ Pow2 \in [Nat -> Nat]
    /\ Pow2[0] = 1
    /\ \A n \in Nat : Pow2[n + 1] = 2 * Pow2[n]
<1> DEFINE E(f) == [n \in Nat |-> IF n = 0 THEN 1 ELSE 2 * f[n - 1]]
           base == [n \in Nat |-> 1]
           next == [n \in Nat |-> n - 1]
           comb == [x \in Nat \X Nat |-> 2 * x[2]]
<1>1. PICK f \in [Nat -> Nat] : Solves(f, Nat, {0}, base, next, comb)
  <2>1. Descends(Nat, Nat, {0}, base, next, comb)
    BY DEF Descends
  <2> HIDE DEF base, next, comb
  <2> QED BY <2>1, Recursion
<1>2. f = E(f)
  <2>1. ASSUME NEW n \in Nat PROVE f[n] = IF n = 0 THEN 1 ELSE 2 * f[n - 1]
    <3>1. CASE n = 0
      BY <1>1, <3>1 DEF Solves
    <3>2. CASE n # 0
      <4>1. n - 1 \in Nat /\ next[n] = n - 1 /\ f[n - 1] \in Nat
        BY <3>2
      <4>2. f[n] = comb[<<n, f[n - 1]>>]
        BY <1>1, <3>2, <4>1 DEF Solves
      <4> QED BY <3>2, <4>1, <4>2
    <3> QED BY <3>1, <3>2
  <2> QED BY <2>1
<1>3. Pow2 = E(Pow2)
  <2>1. Pow2 = CHOOSE g : g = E(g)
    BY DEF Pow2
  <2> HIDE DEF E
  <2> QED BY <1>2, <2>1
<1>4. /\ Pow2[0] = 1
      /\ \A n \in Nat : Pow2[n + 1] = 2 * Pow2[n]
  <2>1. \A n \in Nat : Pow2[n] = IF n = 0 THEN 1 ELSE 2 * Pow2[n - 1]
    BY <1>3
  <2> QED BY <2>1
<1> DEFINE Typed == {n \in Nat : Pow2[n] \in Nat}
<1>5. 0 \in Typed /\ \A n \in Nat : n \in Typed => n + 1 \in Typed
  BY <1>4
<1>6. Nat \subseteq Typed
  <2> HIDE DEF Typed
  <2> QED BY <1>5, Ascent
<1> QED BY <1>3, <1>4, <1>6

LEMMA Pow2Positive == \A n \in Nat : Pow2[n] \in Nat /\ Pow2[n] >= 1
<1> DEFINE S == {n \in Nat : Pow2[n] >= 1}
<1>1. 0 \in S /\ \A n \in Nat : n \in S => n + 1 \in S
  BY Pow2Def
<1> HIDE DEF S
<1>2. Nat \subseteq S
  BY <1>1, Ascent
<1> QED BY <1>2, Pow2Def DEF S

\* Shifting twice adds up.
LEMMA Pow2Sum == \A m, n \in Nat : Pow2[m + n] = Pow2[m] * Pow2[n]
<1> SUFFICES ASSUME NEW m \in Nat PROVE \A n \in Nat : Pow2[m + n] = Pow2[m] * Pow2[n]
  OBVIOUS
<1> DEFINE S == {n \in Nat : Pow2[m + n] = Pow2[m] * Pow2[n]}
<1>1. 0 \in S
  <2>1. m + 0 = m /\ Pow2[m] \in Nat
    BY Pow2Def
  <2> QED BY <2>1, Pow2Def
<1>2. ASSUME NEW n \in Nat, n \in S PROVE n + 1 \in S
  <2>1. Pow2[(m + n) + 1] = 2 * Pow2[m + n] /\ Pow2[n + 1] = 2 * Pow2[n]
    BY Pow2Def
  <2>2. Pow2[m + n] = Pow2[m] * Pow2[n] /\ m + (n + 1) = (m + n) + 1
    BY <1>2
  <2>3. Pow2[m] \in Nat /\ Pow2[n] \in Nat
    BY Pow2Def
  <2>4. 2 * (Pow2[m] * Pow2[n]) = Pow2[m] * (2 * Pow2[n])
    BY <2>3
  <2> QED BY <2>1, <2>2, <2>4
<1> HIDE DEF S
<1>3. Nat \subseteq S
  BY <1>1, <1>2, Ascent
<1> QED BY <1>3 DEF S

LEMMA Pow2Grows == \A m, n \in Nat : m < n => 2 * Pow2[m] <= Pow2[n]
<1> SUFFICES ASSUME NEW m \in Nat, NEW n \in Nat, m < n PROVE 2 * Pow2[m] <= Pow2[n]
  OBVIOUS
<1> DEFINE k == n - (m + 1)
<1>1. k \in Nat /\ n = (m + 1) + k
  OBVIOUS
<1> HIDE DEF k
<1>2. Pow2[(m + 1) + k] = Pow2[m + 1] * Pow2[k] /\ Pow2[m + 1] = 2 * Pow2[m]
  <2>1. m + 1 \in Nat
    OBVIOUS
  <2>2. Pow2[(m + 1) + k] = Pow2[m + 1] * Pow2[k]
    BY <1>1, <2>1, Pow2Sum, Zenon
  <2> QED BY <2>2, Pow2Def
<1>3. Pow2[m] \in Nat /\ Pow2[k] \in Nat /\ Pow2[k] >= 1
  BY <1>1, Pow2Positive
<1>4. \A a, b \in Nat : b >= 1 => a <= a * b
  OBVIOUS
<1>5. 2 * Pow2[m] <= (2 * Pow2[m]) * Pow2[k]
  BY <1>3, <1>4
<1> QED BY <1>1, <1>2, <1>5

-----------------------------------------------------------------------------
(* Digits.                                                                 *)

LEMMA DivMod ==
    ASSUME NEW v \in Nat, NEW b \in Nat, b >= 1
    PROVE  /\ v \div b \in Nat /\ v % b \in 0 .. b - 1
           /\ v = b * (v \div b) + (v % b)
OBVIOUS

LEMMA DivUnique ==
    ASSUME NEW b \in Nat, NEW q \in Nat, NEW r \in 0 .. b - 1
    PROVE  (b * q + r) \div b = q /\ (b * q + r) % b = r
<1> DEFINE v == b * q + r
           p == v \div b
           s == v % b
<1>1. v \in Nat /\ b >= 1
  OBVIOUS
<1>2. p \in Nat /\ s \in 0 .. b - 1 /\ v = b * p + s
  BY <1>1, DivMod
<1> HIDE DEF p, s
<1>3. ~ p < q
  <2>1. p < q => b * p + b <= b * q
    BY <1>2
  <2> QED BY <1>2, <2>1
<1>4. ~ q < p
  <2>1. q < p => b * q + b <= b * p
    BY <1>2
  <2> QED BY <1>2, <2>1
<1>5. p = q /\ s = r
  <2>1. p = q
    BY <1>2, <1>3, <1>4
  <2> QED BY <1>2, <2>1
<1> QED BY <1>5 DEF p, s

LEMMA DivTwice ==
    ASSUME NEW v \in Nat, NEW a \in Nat, NEW b \in Nat, a >= 1, b >= 1
    PROVE  /\ v \div (a * b) = (v \div a) \div b
           /\ v % (a * b) = a * ((v \div a) % b) + (v % a)
<1> DEFINE q == (v \div a) \div b
           d == (v \div a) % b
           r == v % a
<1>1. v \div a \in Nat /\ r \in 0 .. a - 1 /\ v = a * (v \div a) + r
  BY DivMod
<1>2. q \in Nat /\ d \in 0 .. b - 1 /\ v \div a = b * q + d
  BY <1>1, DivMod
<1> HIDE DEF q, d, r
<1>3. v = (a * b) * q + (a * d + r)
  BY <1>1, <1>2
<1>4. a * d + r \in 0 .. a * b - 1 /\ a * b \in Nat
  <2>1. a * d + a <= a * b
    BY <1>2
  <2> QED BY <1>1, <1>2, <2>1
<1>5. v \div (a * b) = q /\ v % (a * b) = a * d + r
  BY <1>2, <1>3, <1>4, DivUnique
<1> QED BY <1>5 DEF q, d, r

LEMMA ModSmall ==
    ASSUME NEW v \in Nat, NEW b \in Nat, v < b
    PROVE  v % b = v /\ v \div b = 0
<1>1. b * 0 + v = v /\ v \in 0 .. b - 1
  OBVIOUS
<1> QED BY <1>1, DivUnique

-----------------------------------------------------------------------------
(* writeVarInt, sizeofVarInt and readVarInt.                               *)

LEMMA BaseIsBig == Base \in Nat /\ Base >= 2
<1>1. Pow2[0] = 1 /\ 0 < SegBits /\ SegBits \in Nat
  BY Pow2Def, WidthAssumption
<1>2. 2 * Pow2[0] <= Pow2[SegBits]
  BY <1>1, Pow2Grows
<1> QED BY <1>1, <1>2, Pow2Positive DEF Base

LEMMA IntsAreNat == Pow2[IntBits] \in Nat /\ Ints \subseteq Nat
BY Pow2Positive, WidthAssumption DEF Ints

\* What is left after a digit is a smaller int.
LEMMA RestIsSmaller ==
    ASSUME NEW v \in Ints, ~ v < Base
    PROVE  v \div Base \in Ints /\ v \div Base < v
<1>1. /\ v \in Nat /\ Base \in Nat /\ Base >= 2
      /\ v \div Base \in Nat /\ v % Base \in Nat
      /\ v = Base * (v \div Base) + (v % Base)
  <2>1. v \in Nat /\ Base \in Nat /\ Base >= 2 /\ Base >= 1
    BY IntsAreNat, BaseIsBig
  <2>2. /\ v \div Base \in Nat /\ v % Base \in 0 .. Base - 1
        /\ v = Base * (v \div Base) + (v % Base)
    BY <2>1, DivMod, Zenon
  <2> QED BY <2>1, <2>2
<1> DEFINE q == v \div Base
<1>2. 2 * q <= Base * q
  <2> HIDE DEF q
  <2>1. \A p \in Nat : 2 * p <= Base * p
    BY <1>1
  <2> QED BY <1>1, <2>1 DEF q
<1> HIDE DEF q
<1>3. q < v
  BY <1>1, <1>2 DEF q
<1> QED BY <1>1, <1>3, IntsAreNat DEF Ints, q

\* A round of writeVarInt, on the function that writes what is left.
WriteRound(f, v) ==
    IF v < Base THEN <<Byte(v, FALSE)>> ELSE <<Byte(v % Base, TRUE)>> \o f[v \div Base]

LEMMA ByteIsByte ==
    ASSUME NEW v \in Nat, NEW more \in BOOLEAN
    PROVE  v < Base => Byte(v, more) \in AllBytes
BY BaseIsBig DEF Byte, AllBytes

LEMMA Singleton ==
    ASSUME NEW S, NEW x \in S
    PROVE  <<x>> \in Seq(S) /\ Len(<<x>>) = 1 /\ <<x>>[1] = x
OBVIOUS

LEMMA RoundIsSeq ==
    ASSUME NEW v \in Ints, NEW w \in Seq(AllBytes)
    PROVE  /\ v < Base => <<Byte(v, FALSE)>> \in Seq(AllBytes)
           /\ <<Byte(v % Base, TRUE)>> \o w \in Seq(AllBytes)
<1>1. v \in Nat /\ v % Base \in Nat /\ v % Base < Base
  BY IntsAreNat, BaseIsBig, DivMod
<1>2. Byte(v % Base, TRUE) \in AllBytes
  BY <1>1, ByteIsByte
<1>3. v < Base => Byte(v, FALSE) \in AllBytes
  BY <1>1, ByteIsByte
<1>4. <<Byte(v % Base, TRUE)>> \in Seq(AllBytes)
  BY <1>2, Singleton, Zenon
<1>5. <<Byte(v % Base, TRUE)>> \o w \in Seq(AllBytes)
  BY <1>4, ConcatProperties, Zenon
<1>6. v < Base => <<Byte(v, FALSE)>> \in Seq(AllBytes)
  BY <1>3, Singleton, Zenon
<1> QED BY <1>5, <1>6, Zenon

\* writeVarInt ends, and its rounds are those of its definition.
LEMMA WriteDef ==
    /\ WriteVarInt \in [Ints -> Seq(AllBytes)]
    /\ \A v \in Ints : WriteVarInt[v] = WriteRound(WriteVarInt, v)
<1> DEFINE E(f) == [v \in Ints |-> WriteRound(f, v)]
           done == {v \in Ints : v < Base}
           base == [v \in Ints |-> IF v < Base THEN <<Byte(v, FALSE)>> ELSE <<>>]
           next == [v \in Ints |-> v \div Base]
           comb == [x \in Ints \X Seq(AllBytes) |-> <<Byte(x[1] % Base, TRUE)>> \o x[2]]
<1>1. PICK f \in [Ints -> Seq(AllBytes)] : Solves(f, Ints, done, base, next, comb)
  <2>1. base \in [Ints -> Seq(AllBytes)]
    <3>1. ASSUME NEW v \in Ints PROVE (IF v < Base THEN <<Byte(v, FALSE)>> ELSE <<>>) \in Seq(AllBytes)
      <4>1. <<>> \in Seq(AllBytes)
        BY EmptySeq
      <4> QED BY <4>1, RoundIsSeq
    <3> QED BY <3>1
  <2>2. \A v \in Ints \ done : next[v] \in Ints /\ next[v] < v
    BY RestIsSmaller
  <2>3. ASSUME NEW v \in Ints \ done, NEW x \in Seq(AllBytes) PROVE comb[<<v, x>>] \in Seq(AllBytes)
    <3>1. comb[<<v, x>>] = <<Byte(v % Base, TRUE)>> \o x
      OBVIOUS
    <3> QED BY <3>1, RoundIsSeq
  <2> HIDE DEF base, next, comb, done
  <2>4. Descends(Ints, Seq(AllBytes), done, base, next, comb)
    BY <2>1, <2>2, <2>3, IntsAreNat DEF Descends
  <2> QED BY <2>4, Recursion
<1>2. f = E(f)
  <2>1. ASSUME NEW v \in Ints PROVE f[v] = WriteRound(f, v)
    <3>1. CASE v < Base
      <4>1. f[v] = base[v]
        BY <1>1, <3>1 DEF Solves
      <4> QED BY <3>1, <4>1 DEF WriteRound
    <3>2. CASE ~ v < Base
      <4>1. v \div Base \in Ints /\ next[v] = v \div Base /\ f[v \div Base] \in Seq(AllBytes)
        BY <3>2, RestIsSmaller
      <4>2. f[v] = comb[<<v, f[v \div Base]>>]
        BY <1>1, <3>2, <4>1 DEF Solves
      <4>3. f[v] = <<Byte(v % Base, TRUE)>> \o f[v \div Base]
        BY <4>1, <4>2
      <4> QED BY <3>2, <4>3 DEF WriteRound
    <3> QED BY <3>1, <3>2
  <2> HIDE DEF done, base, next, comb
  <2> QED BY <2>1
<1> HIDE DEF done, base, next, comb
<1>3. WriteVarInt = E(WriteVarInt)
  <2>1. WriteVarInt = CHOOSE g : g = E(g)
    BY DEF WriteVarInt, WriteRound
  <2> HIDE DEF E
  <2> QED BY <1>2, <2>1
<1>4. \A v \in Ints : WriteVarInt[v] = WriteRound(WriteVarInt, v)
  BY <1>3
<1> DEFINE Typed == {v \in Nat : v \in Ints => WriteVarInt[v] \in Seq(AllBytes)}
<1>5. ASSUME NEW v \in Nat, \A u \in 0 .. v - 1 : u \in Typed PROVE v \in Typed
  <2> SUFFICES ASSUME v \in Ints PROVE WriteVarInt[v] \in Seq(AllBytes)
    OBVIOUS
  <2>1. CASE v < Base
    <3>1. <<>> \in Seq(AllBytes)
      BY EmptySeq
    <3>2. WriteVarInt[v] = <<Byte(v, FALSE)>>
      BY <1>4, <2>1 DEF WriteRound
    <3> QED BY <2>1, <3>1, <3>2, RoundIsSeq
  <2>2. CASE ~ v < Base
    <3>1. v \div Base \in Ints /\ v \div Base \in 0 .. v - 1
      <4>1. v \div Base \in Ints /\ v \div Base < v
        BY <2>2, RestIsSmaller
      <4>2. v \div Base \in Nat
        BY <4>1, IntsAreNat
      <4> QED BY <4>1, <4>2
    <3>2. WriteVarInt[v \div Base] \in Seq(AllBytes)
      BY <1>5, <3>1
    <3>3. WriteVarInt[v] = <<Byte(v % Base, TRUE)>> \o WriteVarInt[v \div Base]
      BY <1>4, <2>2 DEF WriteRound
    <3> QED BY <3>2, <3>3, RoundIsSeq
  <2> QED BY <2>1, <2>2
<1>6. Nat \subseteq Typed
  <2> HIDE DEF Typed
  <2> QED BY <1>5, Descent
<1>7. \A v \in Ints : WriteVarInt[v] \in Seq(AllBytes)
  BY <1>6, IntsAreNat
<1> QED BY <1>3, <1>4, <1>7

\* The same for sizeofVarInt.
SizeRound(f, v) == IF v < Base THEN 1 ELSE 1 + f[v \div Base]

LEMMA SizeDef == \A v \in Ints : SizeofVarInt[v] = SizeRound(SizeofVarInt, v)
<1> DEFINE E(f) == [v \in Ints |-> SizeRound(f, v)]
           done == {v \in Ints : v < Base}
           base == [v \in Ints |-> 1]
           next == [v \in Ints |-> v \div Base]
           comb == [x \in Ints \X Nat |-> 1 + x[2]]
<1>1. PICK f \in [Ints -> Nat] : Solves(f, Ints, done, base, next, comb)
  <2>1. base \in [Ints -> Nat]
    OBVIOUS
  <2>2. \A v \in Ints \ done : next[v] \in Ints /\ next[v] < v
    BY RestIsSmaller
  <2>3. \A v \in Ints \ done, x \in Nat : comb[<<v, x>>] \in Nat
    OBVIOUS
  <2> HIDE DEF base, next, comb, done
  <2>4. Descends(Ints, Nat, done, base, next, comb)
    BY <2>1, <2>2, <2>3, IntsAreNat DEF Descends
  <2> QED BY <2>4, Recursion
<1>2. f = E(f)
  <2>1. ASSUME NEW v \in Ints PROVE f[v] = SizeRound(f, v)
    <3>1. CASE v < Base
      BY <1>1, <3>1 DEF Solves, SizeRound
    <3>2. CASE ~ v < Base
      <4>1. v \div Base \in Ints /\ next[v] = v \div Base /\ f[v \div Base] \in Nat
        BY <3>2, RestIsSmaller
      <4>2. f[v] = comb[<<v, f[v \div Base]>>]
        BY <1>1, <3>2, <4>1 DEF Solves
      <4> QED BY <3>2, <4>1, <4>2 DEF SizeRound
    <3> QED BY <3>1, <3>2
  <2> HIDE DEF done, base, next, comb
  <2> QED BY <2>1
<1>3. SizeofVarInt = E(SizeofVarInt)
  <2>1. SizeofVarInt = CHOOSE g : g = E(g)
    BY DEF SizeofVarInt, SizeRound
  <2> HIDE DEF E
  <2> QED BY <1>2, <2>1
<1> HIDE DEF done, base, next, comb
<1> QED BY <1>3

\* The value after the rounds up to a byte.
LEMMA ValueDef ==
    ASSUME NEW b, Len(b) \in Nat, \A i \in 1 .. Len(b) : b[i].digit \in Int
    PROVE  /\ Value(b)[0] = 0
           /\ \A k \in 0 .. Len(b) - 1 :
                  Value(b)[k + 1] = Value(b)[k] + b[k + 1].digit * Pow2[SegBits * k]
<1> DEFINE D == 0 .. Len(b)
           Round(f, k) == IF k = 0 THEN 0
                          ELSE f[k - 1] + b[k].digit * Pow2[SegBits * (k - 1)]
           E(f) == [k \in D |-> Round(f, k)]
           done == {0}
           base == [k \in D |-> 0]
           next == [k \in D |-> k - 1]
           comb == [x \in D \X Int |-> x[2] + b[x[1]].digit * Pow2[SegBits * (x[1] - 1)]]
<1>1. PICK f \in [D -> Int] : Solves(f, D, done, base, next, comb)
  <2>1. base \in [D -> Int] /\ D \subseteq Nat
    OBVIOUS
  <2>2. \A k \in D \ done : next[k] \in D /\ next[k] < k
    OBVIOUS
  <2>3. ASSUME NEW k \in D \ done, NEW x \in Int PROVE comb[<<k, x>>] \in Int
    <3>1. comb[<<k, x>>] = x + b[k].digit * Pow2[SegBits * (k - 1)]
      OBVIOUS
    <3>2. SegBits * (k - 1) \in Nat
      BY WidthAssumption
    <3>3. Pow2[SegBits * (k - 1)] \in Int /\ b[k].digit \in Int
      BY <3>2, Pow2Positive
    <3> HIDE DEF comb
    <3> QED BY <3>1, <3>3
  <2> HIDE DEF base, next, comb, done, D
  <2>4. Descends(D, Int, done, base, next, comb)
    BY <2>1, <2>2, <2>3 DEF Descends
  <2> QED BY <2>4, Recursion
<1>2. f = E(f)
  <2>1. ASSUME NEW k \in D PROVE f[k] = Round(f, k)
    <3>1. CASE k = 0
      BY <1>1, <3>1 DEF Solves
    <3>2. CASE k # 0
      <4>1. k - 1 \in D /\ next[k] = k - 1 /\ f[k - 1] \in Int
        BY <3>2
      <4>2. f[k] = comb[<<k, f[k - 1]>>]
        BY <1>1, <3>2, <4>1 DEF Solves
      <4>3. f[k] = f[k - 1] + b[k].digit * Pow2[SegBits * (k - 1)]
        BY <4>1, <4>2
      <4> QED BY <3>2, <4>3
    <3> QED BY <3>1, <3>2
  <2> HIDE DEF done, base, next, comb
  <2> QED BY <2>1
<1>3. Value(b) = E(Value(b))
  <2>1. Value(b) = CHOOSE g : g = E(g)
    BY DEF Value
  <2> HIDE DEF E
  <2> QED BY <1>2, <2>1
<1>4. \A k \in D : Value(b)[k] = Round(Value(b), k)
  <2> HIDE DEF Round
  <2> QED BY <1>3
<1>5. Value(b)[0] = 0
  BY <1>4
<1>6. ASSUME NEW k \in 0 .. Len(b) - 1
      PROVE  Value(b)[k + 1] = Value(b)[k] + b[k + 1].digit * Pow2[SegBits * k]
  <2>1. k + 1 \in D /\ k + 1 # 0 /\ (k + 1) - 1 = k
    OBVIOUS
  <2>2. Value(b)[k + 1] = Round(Value(b), k + 1)
    BY <1>4, <2>1
  <2> QED BY <2>1, <2>2
<1> QED BY <1>5, <1>6

\* The weight of a digit.
Weight(i) == Pow2[SegBits * i]

LEMMA WeightDef ==
    /\ Weight(0) = 1
    /\ \A i \in Nat : /\ Weight(i) \in Nat /\ Weight(i) >= 1
                      /\ Weight(i + 1) = Base * Weight(i)
<1>1. SegBits * 0 = 0 /\ \A i \in Nat : SegBits * i \in Nat /\ SegBits * (i + 1) = SegBits + SegBits * i
  BY WidthAssumption
<1>2. SegBits \in Nat
  BY WidthAssumption
<1>3. \A i \in Nat : Pow2[SegBits + SegBits * i] = Pow2[SegBits] * Pow2[SegBits * i]
  BY <1>1, <1>2, Pow2Sum
<1> QED BY <1>1, <1>3, Pow2Def, Pow2Positive DEF Weight, Base

\* What writeVarInt writes: as many digits as v needs, each but the last marked.
Written(v, w) ==
    /\ Len(w) \in Nat \ {0}
    /\ SizeofVarInt[v] = Len(w)
    /\ v < Weight(Len(w))
    /\ Len(w) > 1 => Weight(Len(w) - 1) <= v
    /\ \A i \in 1 .. Len(w) : /\ w[i].digit = (v \div Weight(i - 1)) % Base
                              /\ (w[i].more <=> i < Len(w))

LEMMA WrittenLast ==
    ASSUME NEW v \in Ints, v < Base
    PROVE  Written(v, WriteVarInt[v])
<1>1. WriteVarInt[v] = <<Byte(v, FALSE)>> /\ SizeofVarInt[v] = 1
  BY WriteDef, SizeDef DEF WriteRound, SizeRound
<1>2. v \in Nat /\ Base \in Nat
  BY IntsAreNat, BaseIsBig
<1>3. Weight(0) = 1 /\ Weight(0 + 1) = Base * Weight(0)
  BY WeightDef
<1>4. Weight(1) = Base
  BY <1>2, <1>3
<1>5. v \div 1 = v
  BY <1>2
<1>6. v % Base = v
  BY <1>2, ModSmall
<1> DEFINE w == WriteVarInt[v]
<1>7. Len(w) = 1 /\ w[1] = Byte(v, FALSE)
  BY <1>1
<1> HIDE DEF w
<1>8. \A i \in 1 .. Len(w) : i = 1
  BY <1>7
<1>9. w[1].digit = v /\ ~w[1].more
  BY <1>7 DEF Byte
<1>10. w[1].digit = (v \div Weight(1 - 1)) % Base /\ (w[1].more <=> 1 < Len(w))
  <2>1. (v \div Weight(1 - 1)) % Base = v
    BY <1>3, <1>5, <1>6
  <2>2. ~ 1 < Len(w)
    BY <1>7
  <2> QED BY <1>9, <2>1, <2>2, Zenon
<1>11. \A i \in 1 .. Len(w) : /\ w[i].digit = (v \div Weight(i - 1)) % Base
                              /\ (w[i].more <=> i < Len(w))
  BY <1>8, <1>10
<1>12. Written(v, w)
  BY <1>1, <1>4, <1>7, <1>11 DEF Written
<1> QED BY <1>12 DEF w

LEMMA WrittenMore ==
    ASSUME NEW v \in Ints, ~ v < Base, Written(v \div Base, WriteVarInt[v \div Base])
    PROVE  Written(v, WriteVarInt[v])
<1> DEFINE q == v \div Base
           r == v % Base
           u == WriteVarInt[q]
           w == WriteVarInt[v]
           n == Len(u)
<1>1. w = <<Byte(r, TRUE)>> \o u /\ SizeofVarInt[v] = 1 + SizeofVarInt[q]
  BY WriteDef, SizeDef DEF WriteRound, SizeRound
<1>2. v \in Nat /\ Base \in Nat /\ Base >= 2 /\ Base >= 1
  BY IntsAreNat, BaseIsBig
<1>3. q \in Nat /\ q \in Ints /\ r \in 0 .. Base - 1 /\ v = Base * q + r
  <2>1. q \in Nat /\ r \in 0 .. Base - 1 /\ v = Base * q + r
    BY <1>2, DivMod, Zenon
  <2> QED BY <2>1, RestIsSmaller
<1>4. u \in Seq(AllBytes)
  BY <1>3, WriteDef
<1>5. Written(q, u)
  OBVIOUS
<1> HIDE DEF q, r, u, w
<1>6. n \in Nat /\ n >= 1 /\ SizeofVarInt[q] = n /\ q < Weight(n)
  BY <1>5 DEF Written
<1> HIDE DEF n
<1>7. Len(w) = n + 1 /\ w[1] = Byte(r, TRUE) /\ \A i \in 2 .. n + 1 : w[i] = u[i - 1]
  BY <1>1, <1>4, <1>6 DEF n
<1>8. v < Weight(n + 1)
  <2>1. q + 1 <= Weight(n) /\ Weight(n) \in Nat /\ Weight(n + 1) = Base * Weight(n)
    BY <1>3, <1>6, WeightDef
  <2>2. Base * (q + 1) <= Base * Weight(n)
    BY <1>2, <1>3, <2>1
  <2> QED BY <1>2, <1>3, <2>1, <2>2
<1>9. Weight(n) <= v
  <2>1. CASE n = 1
    <3>1. Weight(0 + 1) = Base * Weight(0) /\ Weight(0) = 1
      BY WeightDef
    <3> QED BY <1>2, <2>1, <3>1
  <2>2. CASE n > 1
    <3>1. Weight(n - 1) <= q
      BY <1>5, <2>2 DEF Written, n
    <3>2. n - 1 \in Nat /\ (n - 1) + 1 = n
      BY <1>6
    <3>3. Weight(n) = Base * Weight(n - 1) /\ Weight(n - 1) \in Nat
      BY <3>2, WeightDef
    <3>4. Base * Weight(n - 1) <= Base * q
      BY <1>2, <1>3, <3>1, <3>3
    <3> QED BY <1>2, <1>3, <3>3, <3>4
  <2> QED BY <1>6, <2>1, <2>2
<1>10. ASSUME NEW i \in 1 .. n + 1
       PROVE  w[i].digit = (v \div Weight(i - 1)) % Base /\ (w[i].more <=> i < n + 1)
  <2>1. CASE i = 1
    <3>1. w[1].digit = r /\ w[1].more
      BY <1>7 DEF Byte
    <3>2. Weight(1 - 1) = 1 /\ v \div 1 = v
      BY <1>2, WeightDef
    <3>3. (v \div Weight(1 - 1)) % Base = r
      BY <3>2 DEF r
    <3>4. 1 < n + 1
      BY <1>6
    <3> QED BY <2>1, <3>1, <3>3, <3>4
  <2>2. CASE i # 1
    <3>1. i - 1 \in 1 .. n /\ i - 2 \in Nat /\ (i - 2) + 1 = i - 1 /\ (i - 1) - 1 = i - 2 /\ i \in 2 .. n + 1
      BY <1>6, <2>2
    <3>2. w[i] = u[i - 1]
      BY <1>7, <3>1
    <3>3. u[i - 1].digit = (q \div Weight(i - 2)) % Base /\ (u[i - 1].more <=> i - 1 < n)
      BY <1>5, <3>1 DEF Written, n
    <3>4. Weight(i - 1) = Base * Weight(i - 2) /\ Weight(i - 2) \in Nat /\ Weight(i - 2) >= 1
      BY <3>1, WeightDef
    <3>5. v \div (Base * Weight(i - 2)) = q \div Weight(i - 2)
      BY <1>2, <3>4, DivTwice, Zenon DEF q
    <3>6. i - 1 < n <=> i < n + 1
      BY <1>6
    <3> QED BY <3>2, <3>3, <3>4, <3>5, <3>6
  <2> QED BY <2>1, <2>2
<1>11. Weight(Len(w) - 1) <= v /\ SizeofVarInt[v] = Len(w)
  BY <1>1, <1>6, <1>7, <1>9
<1>12. Written(v, w)
  BY <1>6, <1>7, <1>8, <1>10, <1>11 DEF Written
<1> QED BY <1>12 DEF w

LEMMA WritesDigits == \A v \in Ints : Written(v, WriteVarInt[v])
<1> DEFINE S == {v \in Nat : v \in Ints => Written(v, WriteVarInt[v])}
<1>1. ASSUME NEW v \in Nat, \A u \in 0 .. v - 1 : u \in S PROVE v \in S
  <2> SUFFICES ASSUME v \in Ints PROVE Written(v, WriteVarInt[v])
    OBVIOUS
  <2>1. CASE v < Base
    BY <2>1, WrittenLast
  <2>2. CASE ~ v < Base
    <3>1. v \div Base \in Ints /\ v \div Base < v
      BY <2>2, RestIsSmaller
    <3> DEFINE q == v \div Base
    <3>2. q \in 0 .. v - 1
      <4>1. q \in Nat /\ q < v
        BY <3>1, IntsAreNat
      <4> HIDE DEF q
      <4> QED BY <4>1
    <3>3. Written(v \div Base, WriteVarInt[v \div Base])
      BY <1>1, <3>1, <3>2
    <3> QED BY <2>2, <3>3, WrittenMore
  <2> QED BY <2>1, <2>2
<1>2. Nat \subseteq S
  <2> HIDE DEF S
  <2> QED BY <1>1, Descent
<1> QED BY <1>2, IntsAreNat

\* The rounds readVarInt may make are enough for every int.
LEMMA EnoughRounds ==
    ASSUME NEW v \in Ints, NEW n \in Nat \ {0}, n > 1 => Weight(n - 1) <= v
    PROVE  n <= MaxRounds
<1>1. SegBits \in Nat /\ SegBits >= 1 /\ IntBits \in Nat /\ IntBits >= 1
  BY WidthAssumption
<1>2. SegBits * (n - 1) \in Nat
  BY <1>1
<1>3. SegBits * (n - 1) < IntBits
  <2>1. CASE n = 1
    BY <1>1, <2>1
  <2>2. CASE n > 1
    <3> DEFINE p == SegBits * (n - 1)
    <3>1. Pow2[p] <= v /\ v < Pow2[IntBits] /\ v \in Nat /\ Pow2[IntBits] \in Nat
      BY <2>2, IntsAreNat DEF Ints, Weight
    <3>2. p \in Nat /\ Pow2[p] \in Nat
      BY <1>2, Pow2Positive
    <3> HIDE DEF p
    <3>3. ASSUME IntBits <= p PROVE FALSE
      <4>1. CASE IntBits = p
        BY <3>1, <3>2, <4>1
      <4>2. CASE IntBits < p
        <5>1. 2 * Pow2[IntBits] <= Pow2[p]
          BY <1>1, <3>2, <4>2, Pow2Grows
        <5> QED BY <3>1, <3>2, <5>1
      <4> QED BY <1>1, <3>2, <3>3, <4>1, <4>2
    <3>4. p < IntBits
      BY <1>1, <3>2, <3>3
    <3> QED BY <3>4 DEF p
  <2> QED BY <2>1, <2>2
<1> DEFINE x == IntBits + SegBits - 1
           m == x \div SegBits
           r == x % SegBits
<1>4. x \in Nat /\ SegBits * n <= x
  BY <1>1, <1>3
<1>5. m \in Nat /\ r \in 0 .. SegBits - 1 /\ x = SegBits * m + r
  BY <1>1, <1>4, DivMod, Zenon
<1> HIDE DEF x, m, r
<1>6. ~ m < n
  <2>1. m < n => SegBits * m + SegBits <= SegBits * n
    BY <1>1, <1>5
  <2> QED BY <1>1, <1>4, <1>5, <2>1
<1>7. n <= m
  BY <1>5, <1>6
<1> QED BY <1>7 DEF MaxRounds, m, x

\* b begins with the bytes of w.
Begins(b, w) ==
    /\ Len(b) \in Nat
    /\ Len(w) <= Len(b)
    /\ \A i \in 1 .. Len(b) : b[i].digit \in Int
    /\ \A i \in 1 .. Len(w) : b[i].digit = w[i].digit /\ (b[i].more <=> w[i].more)

\* After k rounds readVarInt has the k lowest digits.
LEMMA ValueOfDigits ==
    ASSUME NEW v \in Ints, NEW w, Written(v, w), NEW b, Begins(b, w)
    PROVE  Value(b)[Len(w)] = v
<1> DEFINE n == Len(w)
           S == {k \in Nat : k <= n => Value(b)[k] = v % Weight(k)}
<1>1. v \in Nat /\ Base \in Nat /\ Base >= 1 /\ n \in Nat /\ Len(b) \in Nat /\ n <= Len(b)
  <2>1. v \in Nat /\ Base \in Nat /\ Base >= 1
    BY IntsAreNat, BaseIsBig
  <2>2. n \in Nat
    BY DEF Written
  <2>3. Len(b) \in Nat /\ n <= Len(b)
    BY DEF Begins
  <2> QED BY <2>1, <2>2, <2>3
<1>2. /\ Value(b)[0] = 0
      /\ \A k \in 0 .. Len(b) - 1 :
             Value(b)[k + 1] = Value(b)[k] + b[k + 1].digit * Pow2[SegBits * k]
  BY ValueDef DEF Begins
<1>3. 0 \in S
  <2>1. v % 1 = 0
    BY <1>1
  <2> QED BY <1>2, <2>1, WeightDef
<1>4. ASSUME NEW k \in Nat, k \in S PROVE k + 1 \in S
  <2> SUFFICES ASSUME k + 1 <= n PROVE Value(b)[k + 1] = v % Weight(k + 1)
    OBVIOUS
  <2>1. k \in 0 .. Len(b) - 1 /\ k + 1 \in 1 .. n /\ k <= n /\ (k + 1) - 1 = k
    BY <1>1
  <2>2. Value(b)[k] = v % Weight(k)
    BY <1>4, <2>1
  <2>3. b[k + 1].digit = (v \div Weight(k)) % Base
    <3>1. b[k + 1].digit = w[k + 1].digit
      BY <2>1 DEF Begins
    <3>2. w[k + 1].digit = (v \div Weight((k + 1) - 1)) % Base
      BY <2>1 DEF Written
    <3> QED BY <2>1, <3>1, <3>2
  <2>4. Weight(k) \in Nat /\ Weight(k) >= 1 /\ Weight(k + 1) = Base * Weight(k)
    BY WeightDef
  <2>5. v % (Weight(k) * Base) = Weight(k) * ((v \div Weight(k)) % Base) + (v % Weight(k))
    BY <1>1, <2>4, DivTwice, Zenon
  <2> DEFINE a == Weight(k)
             d == (v \div a) % Base
             r == v % a
  <2>6. Value(b)[k + 1] = r + d * a
    BY <1>2, <2>1, <2>2, <2>3 DEF Weight
  <2>7. d \in Nat /\ r \in Nat /\ a \in Nat
    <3>1. v \div a \in Nat /\ r \in 0 .. a - 1
      BY <1>1, <2>4, DivMod, Zenon
    <3>2. d \in 0 .. Base - 1
      BY <1>1, <3>1, DivMod, Zenon
    <3> HIDE DEF d, r
    <3> QED BY <2>4, <3>1, <3>2
  <2>8. Weight(k + 1) = a * Base /\ v % (a * Base) = a * d + r
    <3>1. Base * a = a * Base
      BY <1>1, <2>4
    <3> QED BY <2>4, <2>5, <3>1
  <2> HIDE DEF a, d, r
  <2>9. r + d * a = a * d + r
    BY <2>7
  <2> QED BY <2>6, <2>8, <2>9
<1>5. Nat \subseteq S
  <2> HIDE DEF S
  <2> QED BY <1>3, <1>4, Ascent
<1>6. Value(b)[n] = v % Weight(n)
  BY <1>1, <1>5
<1>7. v % Weight(n) = v
  <2>1. v < Weight(n) /\ Weight(n) \in Nat
    BY <1>1, WeightDef DEF Written
  <2> QED BY <1>1, <2>1, ModSmall, Zenon
<1> QED BY <1>6, <1>7

\* readVarInt reads an int from any bytes that begin with what writeVarInt wrote.
LEMMA ReadsWritten ==
    ASSUME NEW v \in Ints, NEW b, Begins(b, WriteVarInt[v])
    PROVE  ReadVarInt(b) = [result |-> "ok", used |-> Len(WriteVarInt[v]), value |-> v]
<1> DEFINE w == WriteVarInt[v]
           n == Len(w)
           last == {i \in 1 .. Len(b) : i <= MaxRounds /\ ~b[i].more}
<1>1. Written(v, w)
  BY WritesDigits
<1> HIDE DEF w
<1>2. /\ n \in Nat \ {0} /\ Len(b) \in Nat /\ n <= Len(b) /\ n <= MaxRounds
      /\ \A i \in 1 .. n : b[i].more <=> i < n
  BY <1>1, EnoughRounds DEF Written, Begins, w
<1>3. n \in last
  BY <1>2
<1>4. \A i \in last : n <= i
  BY <1>2
<1>5. last \subseteq Nat
  OBVIOUS
<1> HIDE DEF last
<1>6. Min(last) = n
  <2>1. \A m \in last : (\A i \in last : m <= i) => m = n
    BY <1>2, <1>3, <1>4, <1>5
  <2> QED BY <1>3, <1>4, <2>1 DEF Min
<1>7. Value(b)[n] = v
  BY <1>1, ValueOfDigits DEF w
<1>8. v % Pow2[IntBits] = v
  <2>1. v \in Nat /\ Pow2[IntBits] \in Nat /\ v < Pow2[IntBits]
    BY IntsAreNat DEF Ints
  <2> QED BY <2>1, ModSmall
<1>9. last # {}
  BY <1>3
<1>10. ReadVarInt(b) = IF last # {}
          THEN [result |-> "ok", used |-> Min(last), value |-> Value(b)[Min(last)] % Pow2[IntBits]]
          ELSE IF Len(b) >= MaxRounds
               THEN [result |-> "too big", used |-> MaxRounds, value |-> 0]
               ELSE [result |-> "short", used |-> Len(b), value |-> 0]
  BY Zenon DEF ReadVarInt, last
<1> QED BY <1>6, <1>7, <1>8, <1>9, <1>10 DEF w

\* It fails on less than that.
LEMMA ShortFails ==
    ASSUME NEW v \in Ints, NEW b, Len(b) \in Nat, Len(b) < Len(WriteVarInt[v]),
           \A i \in 1 .. Len(b) : b[i].more
    PROVE  ReadVarInt(b).result = "short"
<1>1. Len(b) < MaxRounds
  <2> DEFINE n == Len(WriteVarInt[v])
  <2>1. n \in Nat \ {0} /\ n <= MaxRounds
    BY WritesDigits, EnoughRounds DEF Written
  <2> HIDE DEF n
  <2>2. MaxRounds \in Int
    BY WidthAssumption DEF MaxRounds
  <2> QED BY <2>1, <2>2 DEF n
<1>2. {i \in 1 .. Len(b) : i <= MaxRounds /\ ~b[i].more} = {}
  OBVIOUS
<1>3. ~ Len(b) >= MaxRounds
  <2>1. MaxRounds \in Int
    BY WidthAssumption DEF MaxRounds
  <2> QED BY <1>1, <2>1
<1> QED BY <1>2, <1>3 DEF ReadVarInt

\* The bytes before a position are all there is of some prefix.
LEMMA CutShort ==
    ASSUME NEW T, NEW w \in Seq(T), NEW k \in 0 .. Len(w) - 1
    PROVE  /\ Len(SubSeq(w, 1, k)) = k
           /\ \A i \in 1 .. k : SubSeq(w, 1, k)[i] = w[i]
<1>1. Len(w) \in Nat /\ \A i \in 1 .. k : w[i] \in T
  <2>1. Len(w) \in Nat
    BY LenProperties
  <2> QED BY <2>1, ElementOfSeq
<1> QED BY <1>1, SubSeqProperties

LEMMA WrittenIsSeq ==
    ASSUME NEW v \in Ints
    PROVE  /\ WriteVarInt[v] \in Seq(AllBytes)
           /\ \A i \in 1 .. Len(WriteVarInt[v]) :
                  WriteVarInt[v][i].digit \in Int /\ WriteVarInt[v][i].more \in BOOLEAN
<1>1. WriteVarInt[v] \in Seq(AllBytes)
  BY WriteDef
<1>2. \A i \in 1 .. Len(WriteVarInt[v]) : WriteVarInt[v][i] \in AllBytes
  BY <1>1, ElementOfSeq
<1>3. \A b \in AllBytes : b.digit \in Int /\ b.more \in BOOLEAN
  BY BaseIsBig DEF AllBytes
<1> QED BY <1>1, <1>2, <1>3

\* readVarInt reads back every int writeVarInt wrote, whatever bytes follow it, and
\* reports the end of the bytes when some of it are missing.
LEMMA ReadsAnywhere == RoundTripBefore(Seq(AllBytes))
<1> SUFFICES ASSUME NEW v \in Ints
             PROVE  /\ \A t \in Seq(AllBytes) :
                          ReadVarInt(WriteVarInt[v] \o t) =
                              [result |-> "ok", used |-> SizeofVarInt[v], value |-> v]
                    /\ \A k \in 0 .. Len(WriteVarInt[v]) - 1 :
                          ReadVarInt(SubSeq(WriteVarInt[v], 1, k)).result = "short"
  BY DEF RoundTripBefore
<1> DEFINE w == WriteVarInt[v]
           n == Len(w)
<1>1. w \in Seq(AllBytes) /\ n \in Nat \ {0} /\ SizeofVarInt[v] = n
      /\ \A i \in 1 .. n : w[i].more <=> i < n
  BY WrittenIsSeq, WritesDigits DEF Written
<1>2. \A b \in AllBytes : b.digit \in Int
  BY BaseIsBig DEF AllBytes
<1>3. ASSUME NEW t \in Seq(AllBytes)
      PROVE  ReadVarInt(w \o t) = [result |-> "ok", used |-> n, value |-> v]
  <2> DEFINE b == w \o t
  <2>1. b \in Seq(AllBytes) /\ Len(b) = n + Len(t) /\ \A i \in 1 .. n : b[i] = w[i]
    <3> HIDE DEF w
    <3>1. Len(t) \in Nat
      BY LenProperties
    <3> QED BY <1>1, <3>1, ConcatProperties
  <2>2. Len(b) \in Nat /\ Len(t) \in Nat /\ \A i \in 1 .. Len(b) : b[i].digit \in Int
    <3> HIDE DEF b
    <3>1. Len(b) \in Nat /\ Len(t) \in Nat
      BY <2>1, LenProperties
    <3>2. \A i \in 1 .. Len(b) : b[i] \in AllBytes
      BY <2>1, ElementOfSeq
    <3> QED BY <1>2, <3>1, <3>2
  <2> HIDE DEF b, w
  <2>3. Begins(b, w)
    BY <1>1, <2>1, <2>2 DEF Begins
  <2> QED BY <2>3, ReadsWritten DEF b, w
<1>4. ASSUME NEW k \in 0 .. n - 1 PROVE ReadVarInt(SubSeq(w, 1, k)).result = "short"
  <2> DEFINE b == SubSeq(w, 1, k)
  <2>1. Len(b) = k /\ \A i \in 1 .. k : b[i] = w[i]
    BY <1>1, CutShort, Zenon
  <2> HIDE DEF b
  <2>2. \A i \in 1 .. Len(b) : b[i].more
    BY <1>1, <2>1
  <2>3. Len(b) \in Nat /\ Len(b) < n
    BY <1>1, <2>1
  <2> QED BY <2>2, <2>3, ShortFails DEF b
<1> QED BY <1>1, <1>3, <1>4

\* readVarInt reads back every int writeVarInt wrote, in ints and digits of any
\* width, with any bytes behind it; and so whenever TLC evaluates RoundTrip.
THEOREM ReadsBack == RoundTripBefore(Seq(AllBytes)) /\ (Spec => []RoundTrip)
<1>1. {<<>>} \cup {<<b>> : b \in AllBytes} \subseteq Seq(AllBytes)
  <2>1. <<>> \in Seq(AllBytes)
    BY EmptySeq
  <2>2. \A b \in AllBytes : <<b>> \in Seq(AllBytes)
    BY Singleton
  <2> QED BY <2>1, <2>2
<1>2. ASSUME NEW S, S \subseteq Seq(AllBytes) PROVE RoundTripBefore(S)
  BY <1>2, ReadsAnywhere DEF RoundTripBefore
<1>3. RoundTrip
  BY <1>1, <1>2, Zenon DEF RoundTrip
<1>4. Spec => []RoundTrip
  BY <1>3, PTL
<1> QED BY <1>4, ReadsAnywhere

\* A length is read back from its prefix, whatever follows, and not from less.
Codec ==
    \A n \in Lengths :
        /\ Prefix(n) \in Seq(Bytes)
        /\ \A tail \in Seq(Bytes) :
               ReadVarInt(Prefix(n) \o tail) =
                   [result |-> "ok", used |-> Len(Prefix(n)), value |-> n]
        /\ \A k \in 0 .. Len(Prefix(n)) - 1 :
               ReadVarInt(SubSeq(Prefix(n), 1, k)).result # "ok"

LEMMA PrefixesAreRead == Codec
<1> SUFFICES ASSUME NEW n \in Lengths
             PROVE  /\ Prefix(n) \in Seq(Bytes)
                    /\ \A tail \in Seq(Bytes) :
                           ReadVarInt(Prefix(n) \o tail) =
                               [result |-> "ok", used |-> Len(Prefix(n)), value |-> n]
                    /\ \A k \in 0 .. Len(Prefix(n)) - 1 :
                           ReadVarInt(SubSeq(Prefix(n), 1, k)).result # "ok"
  BY DEF Codec
<1> DEFINE w == WriteVarInt[n]
           m == Len(w)
           p == Prefix(n)
<1>1. n \in Ints /\ w \in Seq(AllBytes) /\ m \in Nat
      /\ \A i \in 1 .. m : w[i].digit \in Int /\ w[i].more \in BOOLEAN
  <2>1. n \in Ints
    BY LengthsAssumption
  <2> HIDE DEF w
  <2>2. w \in Seq(AllBytes) /\ \A i \in 1 .. m : w[i].digit \in Int /\ w[i].more \in BOOLEAN
    BY <2>1, WrittenIsSeq DEF w
  <2> QED BY <2>1, <2>2, LenProperties
<1>2. \A i \in 1 .. m : w[i].more <=> i < m
  BY <1>1, WritesDigits DEF Written
<1>3. p = [j \in 1 .. m |-> [digit |-> w[j].digit, more |-> w[j].more, at |-> <<>>]]
  BY DEF Prefix
<1> HIDE DEF w, p
<1>4. ASSUME NEW j \in 1 .. m
      PROVE  p[j] \in Bytes /\ p[j].digit = w[j].digit /\ (p[j].more <=> w[j].more)
  <2>1. p[j] = [digit |-> w[j].digit, more |-> w[j].more, at |-> <<>>]
    BY <1>3
  <2> QED BY <1>1, <2>1 DEF Bytes
<1>5. p \in Seq(Bytes) /\ Len(p) = m
  <2>1. p \in [1 .. m -> Bytes]
    BY <1>3, <1>4
  <2> QED BY <1>1, <2>1, SeqDef
<1>6. \A b \in Bytes : b.digit \in Int
  BY DEF Bytes
<1>7. ASSUME NEW tail \in Seq(Bytes)
      PROVE  ReadVarInt(p \o tail) = [result |-> "ok", used |-> m, value |-> n]
  <2> DEFINE b == p \o tail
  <2>1. b \in Seq(Bytes) /\ Len(b) = m + Len(tail) /\ Len(tail) \in Nat
        /\ \A i \in 1 .. m : b[i] = p[i]
    <3>1. Len(tail) \in Nat
      BY LenProperties
    <3> QED BY <1>1, <1>5, <3>1, ConcatProperties
  <2> HIDE DEF b
  <2>2. \A i \in 1 .. Len(b) : b[i].digit \in Int
    <3>1. \A i \in 1 .. Len(b) : b[i] \in Bytes
      BY <2>1, ElementOfSeq
    <3> QED BY <1>6, <3>1
  <2>3. Begins(b, w)
    BY <1>1, <1>4, <2>1, <2>2 DEF Begins
  <2> QED BY <1>1, <2>3, ReadsWritten DEF b, w
<1>8. ASSUME NEW k \in 0 .. m - 1 PROVE ReadVarInt(SubSeq(p, 1, k)).result # "ok"
  <2> DEFINE b == SubSeq(p, 1, k)
  <2>1. Len(b) = k /\ \A i \in 1 .. k : b[i] = p[i]
    BY <1>5, CutShort, Zenon
  <2> HIDE DEF b
  <2>2. \A i \in 1 .. Len(b) : b[i].more
    BY <1>1, <1>2, <1>4, <2>1
  <2>3. Len(b) \in Nat /\ Len(b) < m
    BY <1>1, <2>1
  <2>4. ReadVarInt(b).result = "short"
    BY <1>1, <2>2, <2>3, ShortFails DEF w
  <2> QED BY <2>4 DEF b
<1> QED BY <1>5, <1>7, <1>8 DEF p

-----------------------------------------------------------------------------
(* Sequences.                                                              *)

LEMMA LengthsAreNat == Lengths \subseteq Nat
BY LengthsAssumption DEF Ints

LEMMA PacketIsSeq ==
    ASSUME NEW i \in Nat, NEW n \in Nat
    PROVE  Packet(i, n) \in Seq(Bytes) /\ Len(Packet(i, n)) = n
<1>1. \A j \in 1 .. n : DataByte(i, j) \in Bytes
      BY DEF DataByte, Bytes
<1>2. Packet(i, n) \in [1 .. n -> Bytes]
      BY <1>1 DEF Packet
<1> QED
    BY <1>2, SeqDef

\* a starts with c, and what follows c in a starts d.
Splits(a, b, c, d) ==
    a \o b = c \o d /\ Len(c) <= Len(a) =>
        \E r \in Seq(Bytes) :
            /\ r = SubSeq(a, Len(c) + 1, Len(a)) /\ Len(r) = Len(a) - Len(c)
            /\ SubSeq(a, 1, Len(c)) = c
            /\ a = c \o r
            /\ d = r \o b

LEMMA Split == \A a, b, c, d \in Seq(Bytes) : Splits(a, b, c, d)
<1> TAKE a, b, c, d \in Seq(Bytes)
<1> SUFFICES ASSUME a \o b = c \o d, Len(c) <= Len(a)
             PROVE  \E r \in Seq(Bytes) :
                       /\ r = SubSeq(a, Len(c) + 1, Len(a)) /\ Len(r) = Len(a) - Len(c)
                       /\ SubSeq(a, 1, Len(c)) = c
                       /\ a = c \o r
                       /\ d = r \o b
    BY DEF Splits
<1> DEFINE r == SubSeq(a, Len(c) + 1, Len(a))
<1>0. Len(a) \in Nat /\ Len(b) \in Nat /\ Len(c) \in Nat /\ Len(d) \in Nat
      OBVIOUS
<1>1. r \in Seq(Bytes) /\ Len(r) = Len(a) - Len(c) /\ \A i \in 1 .. Len(r) : r[i] = a[Len(c) + i]
  <2>1. \A i \in Len(c) + 1 .. Len(a) : a[i] \in Bytes
        BY <1>0, ElementOfSeq
  <2> QED
      BY <1>0, <2>1, SubSeqProperties
<1>2. Len(a) + Len(b) = Len(c) + Len(d)
      BY ConcatProperties
<1>3. \A i \in 1 .. Len(c) : a[i] = c[i]
  <2> SUFFICES ASSUME NEW i \in 1 .. Len(c) PROVE a[i] = c[i]
      OBVIOUS
  <2>1. (a \o b)[i] = a[i]
        BY <1>0, ConcatProperties
  <2>2. (c \o d)[i] = c[i]
        BY <1>0, ConcatProperties
  <2> QED
      BY <2>1, <2>2
<1>4. \A i \in 1 .. Len(d) : d[i] = (r \o b)[i]
  <2> SUFFICES ASSUME NEW i \in 1 .. Len(d) PROVE d[i] = (r \o b)[i]
      OBVIOUS
  <2>1. d[i] = (c \o d)[Len(c) + i]
        BY <1>0, ConcatProperties
  <2>2. (a \o b)[Len(c) + i] = IF Len(c) + i <= Len(a) THEN a[Len(c) + i]
                               ELSE b[Len(c) + i - Len(a)]
        BY <1>0, <1>2, ConcatProperties
  <2>3. (r \o b)[i] = IF i <= Len(r) THEN r[i] ELSE b[i - Len(r)]
        BY <1>0, <1>1, <1>2, ConcatProperties
  <2> HIDE DEF r
  <2>4. CASE i <= Len(r)
        BY <1>0, <1>1, <2>1, <2>2, <2>3, <2>4
  <2>5. CASE i > Len(r)
    <3>1. Len(c) + i - Len(a) = i - Len(r) /\ ~(Len(c) + i <= Len(a))
          BY <1>0, <1>1, <2>5
    <3> QED
        BY <1>0, <1>1, <2>1, <2>2, <2>3, <2>5, <3>1
  <2> QED
      BY <1>0, <1>1, <2>4, <2>5
<1>5. d = r \o b
  <2> HIDE DEF r
  <2>1. r \o b \in Seq(Bytes) /\ Len(r \o b) = Len(d)
        BY <1>0, <1>1, <1>2, ConcatProperties
  <2> QED
      BY <2>1, <1>4, SeqEqual
<1>6. SubSeq(a, 1, Len(c)) = c
  <2>1. \A i \in 1 .. Len(c) : a[i] \in Bytes
        BY <1>0, ElementOfSeq
  <2>2. /\ SubSeq(a, 1, Len(c)) \in Seq(Bytes) /\ Len(SubSeq(a, 1, Len(c))) = Len(c)
        /\ \A i \in 1 .. Len(c) : SubSeq(a, 1, Len(c))[i] = a[i]
        BY <1>0, <2>1, SubSeqProperties
  <2> QED
      BY <1>3, <2>2, SeqEqual
<1>7. a = c \o r
  <2> HIDE DEF r
  <2>1. c \o r \in Seq(Bytes) /\ Len(c \o r) = Len(a)
        BY <1>0, <1>1, ConcatProperties
  <2>2. \A i \in 1 .. Len(a) : (c \o r)[i] = a[i]
    <3> SUFFICES ASSUME NEW i \in 1 .. Len(a) PROVE (c \o r)[i] = a[i]
        OBVIOUS
    <3>1. (c \o r)[i] = IF i <= Len(c) THEN c[i] ELSE r[i - Len(c)]
          BY <1>0, <1>1, ConcatProperties
    <3>2. CASE i <= Len(c)
          BY <1>0, <1>3, <3>1, <3>2
    <3>3. CASE i > Len(c)
      <4>1. i - Len(c) \in 1 .. Len(r) /\ Len(c) + (i - Len(c)) = i
            BY <1>0, <1>1, <3>3
      <4>2. r[i - Len(c)] = a[Len(c) + (i - Len(c))]
            BY <1>1, <4>1
      <4>3. ~(i <= Len(c))
            BY <1>0, <3>3
      <4> QED
          BY <3>1, <4>1, <4>2, <4>3
    <3>4. i \in Int /\ Len(c) \in Int
          BY <1>0
    <3>5. i <= Len(c) \/ i > Len(c)
          BY <3>4
    <3> QED
        BY <3>2, <3>3, <3>5
  <2> QED
      BY <2>1, <2>2, SeqEqual
<1> QED
    BY <1>1, <1>5, <1>6, <1>7

Associates(a, b, c) == (a \o b) \o c = a \o (b \o c)

LEMMA Associative == \A a, b, c \in Seq(Bytes) : Associates(a, b, c)
<1> TAKE a, b, c \in Seq(Bytes)
<1>1. (a \o b) \o c = a \o (b \o c)
      BY ConcatAssociative, SMTT(20)
<1> QED
    BY <1>1 DEF Associates

\* What SubSeq takes from the front and leaves.
LEMMA Cut ==
    ASSUME NEW S, NEW a \in Seq(S), NEW k \in 0 .. Len(a)
    PROVE  /\ SubSeq(a, 1, k) \in Seq(S) /\ Len(SubSeq(a, 1, k)) = k
           /\ SubSeq(a, k + 1, Len(a)) \in Seq(S)
           /\ SubSeq(a, 1, k) \o SubSeq(a, k + 1, Len(a)) = a
<1>1. Len(a) \in Nat /\ k \in Nat /\ k <= Len(a)
      OBVIOUS
<1>2. \A i \in 1 .. Len(a) : a[i] \in S
      BY ElementOfSeq
<1>3. SubSeq(a, 1, k) \in Seq(S) /\ Len(SubSeq(a, 1, k)) = k
  <2>1. \A i \in 1 .. k : a[i] \in S
        BY <1>1, <1>2
  <2> QED
      BY <1>1, <2>1, SubSeqProperties
<1>4. SubSeq(a, k + 1, Len(a)) \in Seq(S)
  <2>1. \A i \in k + 1 .. Len(a) : a[i] \in S
        BY <1>1, <1>2
  <2> QED
      BY <1>1, <2>1, SubSeqProperties
<1>5. SubSeq(a, 1, k) \o SubSeq(a, k + 1, Len(a)) = a
  <2>0. 1 \in 1 .. Len(a) + 1 /\ k \in 1 - 1 .. Len(a) /\ Len(a) \in k .. Len(a)
        BY <1>1
  <2>1. SubSeq(a, 1, k) \o SubSeq(a, k + 1, Len(a)) = SubSeq(a, 1, Len(a))
        BY <2>0, ConcatAdjacentSubSeq, Zenon
  <2> QED
      BY <2>1, SubSeqFull
<1> QED
    BY <1>3, <1>4, <1>5

-----------------------------------------------------------------------------
(* The second half of a round.                                             *)

\* The packet is handed on, or all the bytes are taken.
Filled(b, q, w, rest) ==
    /\ in' \in Seq(Bytes)
    /\ \/ out' = Append(out, b \o q) /\ buf' = <<>> /\ in' \o w = rest
       \/ /\ UNCHANGED out
          /\ \E c, r \in Seq(Bytes) :
                /\ buf' = <<c>> /\ b \o q = c \o r /\ r # <<>>
                /\ remaining' = Len(r)
                /\ in' \o w = r \o rest

\* Fill on a packet b \o q of which b is there, with bytes in hand and w to
\* come: it hands on the packet, or takes all the bytes and waits for the rest.
LEMMA FillStep ==
    ASSUME NEW b \in Seq(Bytes), NEW q \in Seq(Bytes), NEW bytes \in Seq(Bytes),
           NEW w \in Seq(Bytes), NEW rest \in Seq(Bytes),
           bytes \o w = q \o rest,
           Fill(b, Len(q), bytes)
    PROVE  Filled(b, q, w, rest)
<1>0. Len(bytes) \in Nat /\ Len(q) \in Nat
      OBVIOUS
<1>1. CASE Len(q) <= Len(bytes)
  <2>1. Splits(bytes, w, q, rest)
        BY Split
  <2>2. PICK r \in Seq(Bytes) :
            /\ r = SubSeq(bytes, Len(q) + 1, Len(bytes))
            /\ SubSeq(bytes, 1, Len(q)) = q
            /\ rest = r \o w
        BY <1>1, <2>1 DEF Splits
  <2>3. /\ in' = SubSeq(bytes, Len(q) + 1, Len(bytes))
        /\ out' = Append(out, b \o SubSeq(bytes, 1, Len(q))) /\ buf' = <<>>
        BY <1>1 DEF Fill
  <2> QED
      BY <2>2, <2>3 DEF Filled
<1>2. CASE ~(Len(q) <= Len(bytes))
  <2>0. Len(bytes) <= Len(q) /\ q \o rest = bytes \o w
        BY <1>0, <1>2
  <2>1. Splits(q, rest, bytes, w)
        BY Split
  <2>2. PICK r \in Seq(Bytes) :
            Len(r) = Len(q) - Len(bytes) /\ q = bytes \o r /\ w = r \o rest
        BY <2>0, <2>1 DEF Splits
  <2>3. /\ SubSeq(bytes, 1, Len(bytes)) = bytes
        /\ SubSeq(bytes, Len(bytes) + 1, Len(bytes)) = <<>>
    <3>1. Len(bytes) + 1 \in Int /\ Len(bytes) \in Int /\ Len(bytes) < Len(bytes) + 1
          BY <1>0
    <3> QED
        BY <3>1, SubSeqFull, SubSeqEmpty
  <2>4. Len(bytes) # Len(q)
        BY <1>0, <1>2
  <2>5. /\ in' = SubSeq(bytes, Len(bytes) + 1, Len(bytes)) /\ UNCHANGED out
        /\ remaining' = Len(q) - Len(bytes) /\ buf' = <<b \o SubSeq(bytes, 1, Len(bytes))>>
        BY <1>2, <2>4, Zenon DEF Fill
  <2>6. b \o bytes \in Seq(Bytes) /\ b \o q = (b \o bytes) \o r
    <3>1. (b \o bytes) \o r = b \o (bytes \o r)
          BY Associative DEF Associates
    <3> QED
        BY <2>2, <3>1, ConcatProperties
  <2>7. <<>> \in Seq(Bytes) /\ <<>> \o w = w
        BY EmptySeq, ConcatEmptySeq
  <2>8. r # <<>>
        BY <1>0, <1>2, <2>2
  <2> QED
      BY <2>2, <2>3, <2>5, <2>6, <2>7, <2>8, Zenon DEF Filled
<1> QED
    BY <1>1, <1>2

-----------------------------------------------------------------------------
(* The inductive invariant.                                                *)

\* g[i] is what the sender writes from the i-th packet of s on.
Frames(s, g) ==
    /\ g \in [1 .. Len(s) + 1 -> Seq(Bytes)]
    /\ g[Len(s) + 1] = <<>>
    /\ \A i \in 1 .. Len(s) : g[i] = Prefix(Len(s[i])) \o (s[i] \o g[i + 1])

\* decode is between two packets: what is to come starts with a prefix.
AtPrefix(g) == buf = <<>> /\ in \o wire = g[Len(out) + 1]

\* decode has the bytes b of a packet and lacks the bytes q, one at least.
InPacket(g) ==
    /\ Len(out) < Len(sent)
    /\ \E b, q \in Seq(Bytes) :
           /\ buf = <<b>> /\ q # <<>>
           /\ sent[Len(out) + 1] = b \o q
           /\ remaining = Len(q)
           /\ in \o wire = q \o g[Len(out) + 2]

Shapes ==
    /\ in \in Seq(Bytes) /\ wire \in Seq(Bytes)
    /\ sent \in Seq(Seq(Bytes)) /\ out \in Seq(Seq(Bytes))
    /\ \A i \in 1 .. Len(sent) : Len(sent[i]) \in Lengths

OutIsPrefix == Len(out) <= Len(sent) /\ out = SubSeq(sent, 1, Len(out))

InStep == open => \E g \in [1 .. Len(sent) + 1 -> Seq(Bytes)] :
                     Frames(sent, g) /\ (AtPrefix(g) \/ InPacket(g))

IInv == Shapes /\ OutIsPrefix /\ InStep

LEMMA Begin == Init => IInv
<1> SUFFICES ASSUME Init PROVE IInv
    OBVIOUS
<1> USE DEF Init
<1>1. Shapes /\ OutIsPrefix
  <2>1. SubSeq(<<>>, 1, 0) = <<>>
        BY SubSeqEmpty
  <2> QED
      BY <2>1, EmptySeq DEF Shapes, OutIsPrefix
<1>2. InStep
  <2> DEFINE g == [i \in 1 .. 1 |-> <<>>]
  <2>0. <<>> \in Seq(Bytes) /\ Len(sent) = 0
        BY EmptySeq
  <2>1. g \in [1 .. Len(sent) + 1 -> Seq(Bytes)]
        BY <2>0
  <2>2. Frames(sent, g)
        BY <2>0, <2>1 DEF Frames
  <2>3. <<>> \o <<>> = <<>>
        BY <2>0, ConcatEmptySeq
  <2>4. AtPrefix(g)
        BY <2>0, <2>3 DEF AtPrefix
  <2> HIDE DEF g
  <2> QED
      BY <2>1, <2>2, <2>4 DEF InStep
<1> QED
    BY <1>1, <1>2 DEF IInv

\* What is written from each packet on grows by the frame of the new one.
Grow(s, g, p) ==
    \E h \in [1 .. Len(Append(s, p)) + 1 -> Seq(Bytes)] :
        /\ Frames(Append(s, p), h)
        /\ \A i \in 1 .. Len(s) + 1 : h[i] = g[i] \o (Prefix(Len(p)) \o p)

LEMMA MoreFrames ==
    ASSUME NEW s \in Seq(Seq(Bytes)), NEW g, Frames(s, g),
           \A i \in 1 .. Len(s) : Prefix(Len(s[i])) \in Seq(Bytes),
           NEW p \in Seq(Bytes), Prefix(Len(p)) \in Seq(Bytes)
    PROVE  Grow(s, g, p)
<1> DEFINE frame == Prefix(Len(p)) \o p
           t == Append(s, p)
           h == [i \in 1 .. Len(s) + 2 |-> IF i <= Len(s) + 1 THEN g[i] \o frame ELSE <<>>]
<1>0. Len(s) \in Nat
      BY LenProperties
<1>1. /\ Len(t) = Len(s) + 1
      /\ \A i \in 1 .. Len(s) : t[i] = s[i]
      /\ t[Len(s) + 1] = p
      BY AppendProperties
<1>2. frame \in Seq(Bytes)
      BY ConcatProperties
<1> HIDE DEF frame, t
<1>3. \A i \in 1 .. Len(s) + 1 : g[i] \in Seq(Bytes) /\ h[i] = g[i] \o frame /\ h[i] \in Seq(Bytes)
  <2> TAKE i \in 1 .. Len(s) + 1
  <2>1. g[i] \in Seq(Bytes)
        BY DEF Frames
  <2>2. h[i] = g[i] \o frame
        BY <1>0
  <2>3. g[i] \o frame \in Seq(Bytes)
        BY <1>2, <2>1, ConcatProperties
  <2> HIDE DEF h
  <2> QED
      BY <2>1, <2>2, <2>3
<1>4. h[Len(s) + 2] = <<>> /\ <<>> \in Seq(Bytes)
      BY <1>0, EmptySeq
<1>5. h \in [1 .. Len(t) + 1 -> Seq(Bytes)]
  <2>1. DOMAIN h = 1 .. Len(t) + 1 /\ h = [i \in DOMAIN h |-> h[i]]
        BY <1>0, <1>1
  <2>2. \A i \in 1 .. Len(t) + 1 : h[i] \in Seq(Bytes)
    <3> TAKE i \in 1 .. Len(t) + 1
    <3>1. i \in 1 .. Len(s) + 1 \/ i = Len(s) + 2
          BY <1>0, <1>1
    <3> HIDE DEF h
    <3> QED
        BY <1>3, <1>4, <3>1
  <2> HIDE DEF h
  <2> QED
      BY <2>1, <2>2
<1> HIDE DEF h
<1>6. \A i \in 1 .. Len(t) : h[i] = Prefix(Len(t[i])) \o (t[i] \o h[i + 1])
  <2> TAKE i \in 1 .. Len(t)
  <2>1. CASE i \in 1 .. Len(s)
    <3>0. i + 1 \in 1 .. Len(s) + 1 /\ i \in 1 .. Len(s) + 1
          BY <1>0, <2>1
    <3>1. /\ s[i] \in Seq(Bytes) /\ Prefix(Len(s[i])) \in Seq(Bytes) /\ g[i + 1] \in Seq(Bytes)
          /\ h[i] = g[i] \o frame /\ h[i + 1] = g[i + 1] \o frame
          BY <1>3, <2>1, <3>0, ElementOfSeq
    <3>2. g[i] = Prefix(Len(s[i])) \o (s[i] \o g[i + 1])
          BY <2>1 DEF Frames
    <3>3. s[i] \o g[i + 1] \in Seq(Bytes)
          BY <3>1, ConcatProperties
    <3>4. (Prefix(Len(s[i])) \o (s[i] \o g[i + 1])) \o frame
              = Prefix(Len(s[i])) \o ((s[i] \o g[i + 1]) \o frame)
      <4>1. Associates(Prefix(Len(s[i])), s[i] \o g[i + 1], frame)
            BY <1>2, <3>1, <3>3, Associative
      <4> QED
          BY <4>1 DEF Associates
    <3>5. (s[i] \o g[i + 1]) \o frame = s[i] \o (g[i + 1] \o frame)
      <4>1. Associates(s[i], g[i + 1], frame)
            BY <1>2, <3>1, Associative
      <4> QED
          BY <4>1 DEF Associates
    <3>6. t[i] = s[i]
          BY <1>1, <2>1
    <3> QED
        BY <3>1, <3>2, <3>4, <3>5, <3>6, Zenon
  <2>2. CASE i = Len(s) + 1
    <3>0. i \in 1 .. Len(s) + 1 /\ i + 1 = Len(s) + 2
          BY <1>0, <2>2
    <3>1. h[i] = g[i] \o frame /\ g[i] = <<>> /\ h[i + 1] = <<>> /\ t[i] = p
          BY <1>1, <1>3, <1>4, <2>2, <3>0, Zenon DEF Frames
    <3>2. <<>> \o frame = frame /\ p \o <<>> = p
          BY <1>2, ConcatEmptySeq
    <3> QED
        BY <3>1, <3>2 DEF frame
  <2>3. i \in 1 .. Len(s) \/ i = Len(s) + 1
        BY <1>0, <1>1
  <2> QED
      BY <2>1, <2>2, <2>3, Zenon
<1>7. Frames(t, h)
  <2>1. h[Len(t) + 1] = <<>>
        BY <1>0, <1>1, <1>4
  <2> QED
      BY <1>5, <1>6, <2>1 DEF Frames
<1> QED
    BY <1>3, <1>5, <1>7, Zenon DEF t, frame, Grow

\* A longer sequence still starts with out.
LEMMA PrefixStays ==
    ASSUME NEW s \in Seq(Seq(Bytes)), NEW p \in Seq(Bytes), NEW k \in 0 .. Len(s)
    PROVE  SubSeq(Append(s, p), 1, k) = SubSeq(s, 1, k)
<1> DEFINE t == Append(s, p)
<1>0. Len(s) \in Nat /\ k \in Nat /\ k <= Len(s)
      OBVIOUS
<1>1. \A i \in 1 .. Len(s) : t[i] = s[i] /\ s[i] \in Seq(Bytes)
      BY AppendProperties, ElementOfSeq
<1> HIDE DEF t
<1>2. \A i \in 1 .. k : t[i] = s[i] /\ s[i] \in Seq(Bytes) /\ t[i] \in Seq(Bytes)
      BY <1>0, <1>1
<1>3. /\ SubSeq(t, 1, k) \in Seq(Seq(Bytes)) /\ Len(SubSeq(t, 1, k)) = k
      /\ \A i \in 1 .. k : SubSeq(t, 1, k)[i] = t[i]
      BY <1>0, <1>2, SubSeqProperties
<1>4. /\ SubSeq(s, 1, k) \in Seq(Seq(Bytes)) /\ Len(SubSeq(s, 1, k)) = k
      /\ \A i \in 1 .. k : SubSeq(s, 1, k)[i] = s[i]
      BY <1>0, <1>2, SubSeqProperties
<1>5. \A i \in 1 .. k : SubSeq(t, 1, k)[i] = SubSeq(s, 1, k)[i]
      BY <1>2, <1>3, <1>4
<1>6. SubSeq(t, 1, k) = SubSeq(s, 1, k)
      BY <1>3, <1>4, <1>5, SeqEqual
<1> QED
    BY <1>6 DEF t

LEMMA SendStep ==
    ASSUME IInv, NEW n \in Lengths, SendPacket(n)
    PROVE  IInv'
<1> DEFINE p == Packet(Len(sent) + 1, n)
<1>0. n \in Nat /\ Len(sent) \in Nat /\ Len(out) \in Nat
      BY LengthsAreNat DEF IInv, Shapes
<1>1. p \in Seq(Bytes) /\ Len(p) = n
      BY <1>0, PacketIsSeq
<1> HIDE DEF p
<1>2. /\ Prefix(n) \in Seq(Bytes)
      /\ \A i \in 1 .. Len(sent) : Prefix(Len(sent[i])) \in Seq(Bytes)
      BY PrefixesAreRead DEF Codec, IInv, Shapes
<1>3. /\ sent' = Append(sent, p) /\ wire' = (wire \o Prefix(n)) \o p
      /\ UNCHANGED <<in, buf, remaining, out, open>>
      BY DEF SendPacket, p
<1>4. /\ in \in Seq(Bytes) /\ wire \in Seq(Bytes) /\ sent \in Seq(Seq(Bytes))
      /\ out \in Seq(Seq(Bytes))
      BY DEF IInv, Shapes
<1>5. /\ sent' \in Seq(Seq(Bytes)) /\ Len(sent') = Len(sent) + 1
      /\ \A i \in 1 .. Len(sent) : sent'[i] = sent[i]
      /\ sent'[Len(sent) + 1] = p
      BY <1>1, <1>3, <1>4, AppendProperties
<1> DEFINE frame == Prefix(n) \o p
<1>6. frame \in Seq(Bytes)
      BY <1>1, <1>2, ConcatProperties
<1>7. wire' = wire \o frame /\ wire' \in Seq(Bytes) /\ in \o wire \in Seq(Bytes)
      /\ in' \o wire' = (in \o wire) \o frame
  <2>1. Associates(wire, Prefix(n), p) /\ Associates(in, wire, frame)
        BY <1>1, <1>2, <1>4, <1>6, Associative
  <2>2. wire' = wire \o frame
        BY <1>3, <2>1 DEF Associates
  <2> HIDE DEF frame
  <2>3. wire \o frame \in Seq(Bytes) /\ in \o wire \in Seq(Bytes)
        BY <1>4, <1>6, ConcatProperties
  <2> QED
      BY <1>3, <2>1, <2>2, <2>3 DEF Associates
<1>8. Shapes'
  <2>1. \A i \in 1 .. Len(sent') : Len(sent'[i]) \in Lengths
    <3> TAKE i \in 1 .. Len(sent')
    <3>1. i \in 1 .. Len(sent) \/ i = Len(sent) + 1
          BY <1>0, <1>5
    <3> QED
        BY <1>1, <1>5, <3>1 DEF IInv, Shapes
  <2> QED
      BY <1>3, <1>4, <1>5, <1>7, <2>1 DEF Shapes
<1>9. OutIsPrefix'
  <2>1. Len(out) \in 0 .. Len(sent) /\ Len(out) <= Len(sent) + 1
        BY <1>0 DEF IInv, OutIsPrefix
  <2>2. SubSeq(sent', 1, Len(out)) = SubSeq(sent, 1, Len(out))
        BY <1>1, <1>3, <1>4, <2>1, PrefixStays
  <2> QED
      BY <1>3, <1>5, <2>1, <2>2 DEF IInv, OutIsPrefix
<1>10. InStep'
  <2> HIDE DEF frame
  <2> SUFFICES ASSUME open
               PROVE  \E h \in [1 .. Len(sent') + 1 -> Seq(Bytes)] :
                         Frames(sent', h) /\ (AtPrefix(h)' \/ InPacket(h)')
      BY <1>3 DEF InStep, AtPrefix, InPacket
  <2>1. PICK g \in [1 .. Len(sent) + 1 -> Seq(Bytes)] :
                Frames(sent, g) /\ (AtPrefix(g) \/ InPacket(g))
        BY DEF IInv, InStep
  <2>2. PICK h \in [1 .. Len(sent') + 1 -> Seq(Bytes)] :
              /\ Frames(sent', h)
              /\ \A i \in 1 .. Len(sent) + 1 : h[i] = g[i] \o frame
    <3>1. Prefix(Len(p)) \in Seq(Bytes)
          BY <1>1, <1>2
    <3>2. Grow(sent, g, p)
          BY <1>1, <1>2, <1>4, <2>1, <3>1, MoreFrames
    <3> QED
        BY <1>1, <1>3, <3>2, Zenon DEF frame, Grow
  <2>3. ASSUME AtPrefix(g) PROVE AtPrefix(h)'
    <3>1. Len(out) + 1 \in 1 .. Len(sent) + 1
          BY <1>0 DEF IInv, OutIsPrefix
    <3> QED
        BY <1>3, <1>7, <2>2, <2>3, <3>1 DEF AtPrefix
  <2>4. ASSUME InPacket(g) PROVE InPacket(h)'
    <3>0. Len(out) < Len(sent)
          BY <2>4 DEF InPacket
    <3>1. PICK b, q \in Seq(Bytes) :
              /\ buf = <<b>> /\ sent[Len(out) + 1] = b \o q /\ remaining = Len(q)
              /\ in \o wire = q \o g[Len(out) + 2] /\ q # <<>>
          BY <2>4 DEF InPacket
    <3>2. /\ Len(out) + 2 \in 1 .. Len(sent) + 1 /\ Len(out) + 1 \in 1 .. Len(sent)
          /\ Len(out) < Len(sent) + 1
          BY <1>0, <3>0
    <3>3. Associates(q, g[Len(out) + 2], frame)
          BY <1>6, <3>2, Associative
    <3>4. in' \o wire' = q \o h[Len(out) + 2]
          BY <1>7, <2>2, <3>1, <3>2, <3>3, Zenon DEF Associates
    <3>5. sent'[Len(out) + 1] = b \o q
          BY <1>5, <3>1, <3>2
    <3> QED
        BY <1>3, <1>5, <3>1, <3>2, <3>4, <3>5 DEF InPacket
  <2> QED
      BY <2>1, <2>2, <2>3, <2>4
<1> QED
    BY <1>8, <1>9, <1>10 DEF IInv

LEMMA SegmentStep ==
    ASSUME IInv, NEW k \in 1 .. Len(wire), Segment(k)
    PROVE  IInv'
<1>1. in \in Seq(Bytes) /\ wire \in Seq(Bytes)
      BY DEF IInv, Shapes
<1>2. k \in 0 .. Len(wire)
      BY <1>1
<1>3. /\ in = <<>> /\ in' = SubSeq(wire, 1, k) /\ wire' = SubSeq(wire, k + 1, Len(wire))
      /\ UNCHANGED <<sent, buf, remaining, out, open>>
      BY DEF Segment
<1>4. in' \in Seq(Bytes) /\ wire' \in Seq(Bytes) /\ in' \o wire' = wire
      BY <1>1, <1>2, <1>3, Cut
<1>5. in' \o wire' = in \o wire
      BY <1>1, <1>3, <1>4, ConcatEmptySeq
<1> QED
    BY <1>3, <1>4, <1>5 DEF IInv, Shapes, OutIsPrefix, InStep, AtPrefix, InPacket

\* A round of decode that goes on with the packet after those in out, of which
\* it has b and lacks q.
LEMMA RoundStep ==
    ASSUME Shapes, OutIsPrefix, open,
           NEW g \in [1 .. Len(sent) + 1 -> Seq(Bytes)], Frames(sent, g),
           Len(out) < Len(sent),
           NEW b \in Seq(Bytes), NEW q \in Seq(Bytes), NEW bytes \in Seq(Bytes),
           sent[Len(out) + 1] = b \o q,
           bytes \o wire = q \o g[Len(out) + 2],
           Fill(b, Len(q), bytes), UNCHANGED <<sent, wire, open>>
    PROVE  /\ IInv'
           /\ UNCHANGED out \/ out' = SubSeq(sent, 1, Len(out) + 1)
<1> DEFINE rest == g[Len(out) + 2]
<1>0. /\ Len(sent) \in Nat /\ Len(out) \in Nat
      /\ Len(out) + 1 \in 1 .. Len(sent) /\ Len(out) + 2 \in 1 .. Len(sent) + 1
      BY DEF Shapes
<1>1. /\ rest \in Seq(Bytes) /\ wire \in Seq(Bytes) /\ sent \in Seq(Seq(Bytes))
      /\ out \in Seq(Seq(Bytes))
      BY <1>0 DEF Shapes
<1> HIDE DEF rest
<1>2. /\ in' \in Seq(Bytes)
      /\ \/ out' = Append(out, b \o q) /\ buf' = <<>> /\ in' \o wire = rest
         \/ /\ UNCHANGED out
            /\ \E c, r \in Seq(Bytes) :
                  /\ buf' = <<c>> /\ b \o q = c \o r /\ r # <<>>
                  /\ remaining' = Len(r)
                  /\ in' \o wire = r \o rest
  <2>1. bytes \o wire = q \o rest
        BY DEF rest
  <2>2. Filled(b, q, wire, rest)
        BY <1>1, <2>1, FillStep
  <2> QED
      BY <2>2 DEF Filled
<1>3. CASE out' = Append(out, b \o q) /\ buf' = <<>> /\ in' \o wire = rest
  <2>1. out' = SubSeq(sent, 1, Len(out) + 1)
    <3>1. Append(out, sent[Len(out) + 1]) = out \o <<sent[Len(out) + 1]>>
          BY <1>0, <1>1, AppendIsConcat, ElementOfSeq
    <3>2. 1 \in 1 .. Len(sent) /\ Len(out) + 1 \in 1 .. Len(sent) /\ (Len(out) + 1) - 1 = Len(out)
          BY <1>0
    <3>3. SubSeq(sent, 1, Len(out) + 1)
              = SubSeq(sent, 1, (Len(out) + 1) - 1) \o <<sent[Len(out) + 1]>>
          BY <1>1, <3>2, SubSeqRecursiveSecond
    <3> QED
        BY <1>3, <3>1, <3>2, <3>3 DEF OutIsPrefix
  <2>2. out' \in Seq(Seq(Bytes)) /\ Len(out') = Len(out) + 1
    <3>1. b \o q \in Seq(Bytes)
          BY ConcatProperties
    <3> QED
        BY <1>1, <1>3, <3>1, AppendProperties
  <2>3. Shapes' /\ OutIsPrefix'
    <3>1. Len(out') <= Len(sent) /\ out' = SubSeq(sent, 1, Len(out'))
          BY <1>0, <2>1, <2>2
    <3> QED
        BY <1>2, <2>2, <3>1 DEF Shapes, OutIsPrefix
  <2>4. AtPrefix(g)'
        BY <1>0, <1>3, <2>2 DEF AtPrefix, rest
  <2>5. InStep'
        BY <2>4 DEF InStep, Frames
  <2> QED
      BY <2>1, <2>3, <2>5 DEF IInv
<1>4. CASE /\ UNCHANGED out
           /\ \E c, r \in Seq(Bytes) :
                 /\ buf' = <<c>> /\ b \o q = c \o r /\ r # <<>>
                 /\ remaining' = Len(r)
                 /\ in' \o wire = r \o rest
  <2>1. Shapes' /\ OutIsPrefix'
        BY <1>2, <1>4 DEF Shapes, OutIsPrefix
  <2>2. InPacket(g)'
        BY <1>4 DEF InPacket, rest
  <2>3. InStep'
        BY <2>2 DEF InStep, Frames
  <2> QED
      BY <1>4, <2>1, <2>3 DEF IInv
<1> QED
    BY <1>2, <1>3, <1>4, Zenon

\* A round hands on the next packet or none.
Handed == UNCHANGED out \/ (Len(out) < Len(sent) /\ out' = SubSeq(sent, 1, Len(out) + 1))

LEMMA DecodePrefixStep ==
    ASSUME IInv, DecodePrefix
    PROVE  IInv' /\ Handed
<1>1. /\ open /\ in # <<>> /\ buf = <<>> /\ ReadVarInt(in).result = "ok"
      /\ Fill(<<>>, ReadVarInt(in).value, SubSeq(in, ReadVarInt(in).used + 1, Len(in)))
      /\ UNCHANGED <<sent, wire, open>>
      BY DEF DecodePrefix
<1>2. PICK g \in [1 .. Len(sent) + 1 -> Seq(Bytes)] : Frames(sent, g) /\ AtPrefix(g)
      BY <1>1 DEF IInv, InStep, InPacket
<1>3. /\ in \in Seq(Bytes) /\ wire \in Seq(Bytes) /\ sent \in Seq(Seq(Bytes))
      /\ Len(sent) \in Nat /\ Len(out) \in Nat /\ Len(out) <= Len(sent)
      /\ in \o wire = g[Len(out) + 1]
      BY <1>2 DEF IInv, Shapes, OutIsPrefix, AtPrefix
<1>4. Len(out) < Len(sent)
  <2> SUFFICES ASSUME Len(out) = Len(sent) PROVE FALSE
      BY <1>3
  <2>1. in \o wire = <<>>
        BY <1>2, <1>3 DEF Frames
  <2> QED
      BY <1>1, <1>3, <2>1, ConcatEqualIffEmpty
<1> DEFINE k == Len(out) + 1
           n == Len(sent[k])
           later == sent[k] \o g[k + 1]
<1>5. /\ k \in 1 .. Len(sent) /\ k + 1 \in 1 .. Len(sent) + 1 /\ k + 1 = Len(out) + 2
      BY <1>3, <1>4
<1>6. sent[k] \in Seq(Bytes) /\ g[k + 1] \in Seq(Bytes) /\ n \in Lengths
      BY <1>3, <1>5, ElementOfSeq DEF IInv, Shapes
<1>7. /\ Prefix(n) \in Seq(Bytes)
      /\ \A tail \in Seq(Bytes) :
             ReadVarInt(Prefix(n) \o tail) = [result |-> "ok", used |-> Len(Prefix(n)), value |-> n]
      /\ \A j \in 0 .. Len(Prefix(n)) - 1 : ReadVarInt(SubSeq(Prefix(n), 1, j)).result # "ok"
      BY <1>6, PrefixesAreRead, Zenon DEF Codec
<1>8. later \in Seq(Bytes)
      BY <1>6, ConcatProperties
<1>9. in \o wire = Prefix(n) \o later
      BY <1>2, <1>3, <1>5 DEF Frames
<1> HIDE DEF k, n, later
<1>10. Len(Prefix(n)) \in Nat /\ Len(in) \in Nat
       BY <1>3, <1>7, LenProperties
<1>11. Len(Prefix(n)) <= Len(in)
  <2> SUFFICES ASSUME Len(in) < Len(Prefix(n)) PROVE FALSE
      BY <1>10
  <2>1. Splits(Prefix(n), later, in, wire)
        BY <1>3, <1>7, <1>8, Split
  <2>2. SubSeq(Prefix(n), 1, Len(in)) = in
        BY <1>9, <1>10, <2>1 DEF Splits
  <2>3. Len(in) \in 0 .. Len(Prefix(n)) - 1
        BY <1>10
  <2> QED
      BY <1>1, <1>7, <2>2, <2>3, Zenon
<1>12. Splits(in, wire, Prefix(n), later)
       BY <1>3, <1>7, <1>8, Split
<1>13. PICK r \in Seq(Bytes) : /\ r = SubSeq(in, Len(Prefix(n)) + 1, Len(in))
                               /\ in = Prefix(n) \o r
                               /\ later = r \o wire
       BY <1>9, <1>11, <1>12 DEF Splits
<1>14. ReadVarInt(in) = [result |-> "ok", used |-> Len(Prefix(n)), value |-> n]
       BY <1>7, <1>13, Zenon
<1>15. Fill(<<>>, n, r)
  <2>1. ReadVarInt(in).value = n /\ ReadVarInt(in).used = Len(Prefix(n))
        BY <1>14
  <2> QED
      BY <1>1, <1>13, <2>1, Zenon
<1>16. <<>> \in Seq(Bytes) /\ sent[k] = <<>> \o sent[k]
       BY <1>6, EmptySeq, ConcatEmptySeq
<1>17. r \o wire = sent[k] \o g[k + 1]
       BY <1>13 DEF later
<1>18. IInv' /\ (UNCHANGED out \/ out' = SubSeq(sent, 1, Len(out) + 1))
  <2>1. Shapes /\ OutIsPrefix
        BY DEF IInv
  <2>2. sent[Len(out) + 1] = <<>> \o sent[k] /\ r \o wire = sent[k] \o g[Len(out) + 2]
        BY <1>5, <1>16, <1>17 DEF k
  <2>3. Fill(<<>>, Len(sent[k]), r)
        BY <1>15 DEF n
  <2> QED
      BY <1>1, <1>2, <1>4, <1>6, <1>16, <2>1, <2>2, <2>3, RoundStep
<1> QED
    BY <1>4, <1>18 DEF Handed

LEMMA DecodeMoreStep ==
    ASSUME IInv, DecodeMore
    PROVE  IInv' /\ Handed
<1>1. /\ open /\ buf # <<>> /\ Fill(buf[1], remaining, in)
      /\ UNCHANGED <<sent, wire, open>>
      BY DEF DecodeMore
<1>2. PICK g \in [1 .. Len(sent) + 1 -> Seq(Bytes)] : Frames(sent, g) /\ InPacket(g)
      BY <1>1 DEF IInv, InStep, AtPrefix
<1>3. Len(out) < Len(sent)
      BY <1>2 DEF InPacket
<1>4. PICK b, q \in Seq(Bytes) :
          /\ buf = <<b>> /\ sent[Len(out) + 1] = b \o q /\ remaining = Len(q)
          /\ in \o wire = q \o g[Len(out) + 2]
      BY <1>2 DEF InPacket
<1>5. Fill(b, Len(q), in)
  <2>1. buf[1] = b
        BY <1>4
  <2> QED
      BY <1>1, <1>4, <2>1, Zenon
<1>6. Shapes /\ OutIsPrefix /\ in \in Seq(Bytes)
      BY DEF IInv, Shapes
<1>7. IInv' /\ (UNCHANGED out \/ out' = SubSeq(sent, 1, Len(out) + 1))
      BY <1>1, <1>2, <1>3, <1>4, <1>5, <1>6, RoundStep
<1> QED
    BY <1>3, <1>7 DEF Handed

LEMMA DecodeFailsStep ==
    ASSUME IInv, DecodeFails
    PROVE  IInv'
<1>1. <<>> \in Seq(Bytes)
      BY EmptySeq
<1> QED
    BY <1>1 DEF IInv, DecodeFails, Shapes, OutIsPrefix, InStep

LEMMA Preserved ==
    ASSUME IInv, [Next]_vars
    PROVE  IInv'
<1>1. ASSUME NEW n \in Lengths, SendPacket(n) PROVE IInv'
      BY <1>1, SendStep
<1>2. ASSUME NEW k \in 1 .. Len(wire), Segment(k) PROVE IInv'
      BY <1>2, SegmentStep
<1>3. CASE DecodePrefix
      BY <1>3, DecodePrefixStep
<1>4. CASE DecodeFails
      BY <1>4, DecodeFailsStep
<1>5. CASE DecodeMore
      BY <1>5, DecodeMoreStep
<1>6. CASE UNCHANGED vars
      BY <1>6 DEF vars, IInv, Shapes, OutIsPrefix, InStep, AtPrefix, InPacket
<1> QED
    BY <1>1, <1>2, <1>3, <1>4, <1>5, <1>6 DEF Next, Decode

-----------------------------------------------------------------------------
(* The refinement.                                                         *)

\* However TCP cuts the bytes of any packets, PacketDefragmentation.decode hands
\* on the packets that were sent, whole, in order and each once, until the
\* channel is closed.
THEOREM FramesReliable == Spec => FramesAreReliable
<1>1. Init => Stream!Init
      BY DEF Init, Stream!Init
<1>2. ASSUME IInv, [Next]_vars PROVE [Stream!Next]_<<sent, out, open>>
  <2>0. /\ Len(sent) \in Nat /\ Len(out) \in Nat
        BY <1>2 DEF IInv, Shapes
  <2>1. ASSUME NEW n \in Lengths, SendPacket(n) PROVE Stream!Send
    <3>1. Len(sent) + 1 \in 1 .. MaxPackets
          BY <2>0, <2>1, LengthsAssumption DEF SendPacket
    <3> QED
        BY <2>1, <3>1 DEF SendPacket, Stream!Send
  <2>2. ASSUME Handed, open, UNCHANGED <<sent, open>>
        PROVE  Stream!Receive \/ UNCHANGED <<sent, out, open>>
    <3>1. Len(out) < Len(sent) => Len(out) + 1 \in Len(out) + 1 .. Len(sent)
          BY <2>0
    <3> QED
        BY <2>2, <3>1 DEF Handed, Stream!Receive
  <2>3. CASE \E k \in 1 .. Len(wire) : Segment(k)
        BY <2>3 DEF Segment
  <2>4. CASE DecodePrefix
        BY <1>2, <2>2, <2>4, DecodePrefixStep DEF DecodePrefix, Stream!Next
  <2>5. CASE DecodeFails
        BY <2>5 DEF DecodeFails, Stream!Close, Stream!Next
  <2>6. CASE DecodeMore
        BY <1>2, <2>2, <2>6, DecodeMoreStep DEF DecodeMore, Stream!Next
  <2>7. CASE UNCHANGED vars
        BY <2>7 DEF vars
  <2> QED
      BY <1>2, <2>1, <2>3, <2>4, <2>5, <2>6, <2>7 DEF Next, Decode, Stream!Next
<1> QED
    BY Begin, Preserved, <1>1, <1>2, PTL DEF Spec, FramesAreReliable, Stream!Spec

-----------------------------------------------------------------------------
(* Nothing is held back.                                                   *)

LEMMA NothingInNothing ==
    ASSUME NEW a \in Seq(Bytes), NEW b \in Seq(Bytes), a \o b = <<>>
    PROVE  a = <<>>
<1>1. Len(a \o b) = Len(a) + Len(b)
      BY ConcatProperties
<1>2. Len(a) \in Nat /\ Len(b) \in Nat
      BY LenProperties
<1>3. Len(a) = 0
      BY <1>1, <1>2
<1> QED
    BY <1>3, EmptySeq

\* A VarInt has a byte at least, and so has what is written for each packet.
LEMMA FrameHasBytes ==
    ASSUME NEW n \in Lengths, NEW later \in Seq(Bytes)
    PROVE  Prefix(n) \o later # <<>>
<1>1. Len(WriteVarInt[n]) \in Nat \ {0}
      BY LengthsAssumption, WritesDigits DEF Written
<1>2. Prefix(n) # <<>>
      BY <1>1 DEF Prefix
<1>3. Prefix(n) \in Seq(Bytes)
      BY PrefixesAreRead DEF Codec
<1> QED
    BY <1>2, <1>3, ConcatEqualIffEmpty

\* When no byte is under way, every packet that was sent has been handed on, unless
\* the channel was closed: the end of a packet is the end of its last segment, also for
\* a packet without bytes, and for a prefix that ends with a segment.
THEOREM NothingStays == Spec => []NothingHeldBack
<1>1. ASSUME IInv PROVE NothingHeldBack
  <2> SUFFICES ASSUME open, in = <<>>, wire = <<>> PROVE out = sent
      BY DEF NothingHeldBack
  <2>1. PICK g \in [1 .. Len(sent) + 1 -> Seq(Bytes)] :
                Frames(sent, g) /\ (AtPrefix(g) \/ InPacket(g))
        BY <1>1 DEF IInv, InStep
  <2>2. /\ sent \in Seq(Seq(Bytes)) /\ Len(sent) \in Nat /\ Len(out) \in Nat
        /\ Len(out) <= Len(sent) /\ out = SubSeq(sent, 1, Len(out))
        /\ \A i \in 1 .. Len(sent) : Len(sent[i]) \in Lengths
        BY <1>1 DEF IInv, Shapes, OutIsPrefix
  <2>3. in \o wire = <<>>
        BY ConcatEmptySeq, EmptySeq
  <2>4. Len(out) = Len(sent)
    <3> DEFINE k == Len(out) + 1
    <3> SUFFICES ASSUME Len(out) < Len(sent) PROVE FALSE
        BY <2>2
    <3>0. k \in 1 .. Len(sent) /\ k + 1 \in 1 .. Len(sent) + 1 /\ k + 1 = Len(out) + 2
          BY <2>2
    <3>1. sent[k] \in Seq(Bytes) /\ g[k + 1] \in Seq(Bytes) /\ Len(sent[k]) \in Lengths
          BY <2>2, <3>0, ElementOfSeq
    <3>2. CASE AtPrefix(g)
      <4>1. Prefix(Len(sent[k])) \o (sent[k] \o g[k + 1]) = <<>>
            BY <2>1, <2>3, <3>0, <3>2 DEF AtPrefix, Frames
      <4>2. sent[k] \o g[k + 1] \in Seq(Bytes)
            BY <3>1, ConcatProperties
      <4> QED
          BY <3>1, <4>1, <4>2, FrameHasBytes
    <3>3. CASE InPacket(g)
      <4>1. PICK q \in Seq(Bytes) : q # <<>> /\ q \o g[k + 1] = <<>>
            BY <2>3, <3>0, <3>3 DEF InPacket
      <4> HIDE DEF k
      <4>2. q \in Seq(Bytes) /\ g[k + 1] \in Seq(Bytes)
            BY <3>1
      <4>3. q = <<>>
            BY <4>1, <4>2, NothingInNothing
      <4> QED
          BY <4>1, <4>3
    <3> QED
        BY <2>1, <3>2, <3>3
  <2> QED
      BY <2>2, <2>4, SubSeqFull
<1> QED
    BY Begin, Preserved, <1>1, PTL DEF Spec
=============================================================================
