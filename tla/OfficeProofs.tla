---------------------------- MODULE OfficeProofs -----------------------------
(***************************************************************************)
(* What holds of the card payments of a guest at the box office, for any   *)
(* number of sales the form starts: the card is charged once, and what is  *)
(* on record as cancelled was neither paid nor ticketed.                   *)
(*                                                                         *)
(* Of codes and gift cards, for any number of orders and releasers: unless *)
(* a release crosses another one or a payment, uses and balance are those  *)
(* of the orders, and tickets at a reduced price have used the promotion   *)
(* up, or staff is told.                                                   *)
(*                                                                         *)
(* Of prices, for any prices, campaigns, codes and fees: a code and a      *)
(* campaign never reduce the same ticket, and a bill adds up.              *)
(*                                                                         *)
(* And of the seats a cart gets, for any hall: a party sits together if it *)
(* can, and the search for pairs and companions finds what it should.      *)
(*                                                                         *)
(* Sums are the fold of the library.  Its recursion is unfolded once, and  *)
(* what is proved of it goes over finite sets by smallest counterexamples. *)
(***************************************************************************)
EXTENDS Promotions, TapSale, Pricing, SeatChoice, FiniteSetTheorems, SequenceTheorems, TLAPS

-----------------------------------------------------------------------------
(* Sums.  Induction over finite sets is a smallest counterexample. *)

\* A set of natural numbers that is not empty has a least element.
LEMMA LeastNatural ==
  ASSUME NEW T, T \subseteq Nat, T # {}
  PROVE  \E n \in T : \A m \in T : n <= m
<1> DEFINE R == {p \in Nat \X Nat : p[1] < p[2]}
<1>1. IsWellFoundedOn(R, Nat)
  BY NatLessThanWellFounded, Zenon DEF OpToRel
<1>2. \A x, y \in Nat : <<y, x>> \in R <=> y < x
  OBVIOUS
<1> HIDE DEF R
<1>3. PICK n \in T : \A m \in T : ~(<<m, n>> \in R)
  BY <1>1, WFMin
<1>4. \A m \in T : ~(m < n)
  BY <1>2, <1>3
<1> QED
  BY <1>4

\* What goes over from the sets with one element less holds of every subset.
LEMMA SubsetInduction ==
  ASSUME NEW D, IsFiniteSet(D), NEW Good,
         \A s \in SUBSET D : (\A x \in s : s \ {x} \in Good) => s \in Good
  PROVE  D \in Good /\ \A s \in SUBSET D : s \in Good
<1> DEFINE Bad == {Cardinality(s) : s \in (SUBSET D) \ Good}
<1>1. ASSUME NEW b \in SUBSET D, b \notin Good
      PROVE  FALSE
  <2>1. \A s \in SUBSET D : IsFiniteSet(s) /\ Cardinality(s) \in Nat
    BY FS_Subset, FS_CardinalityType
  <2>2. Bad \subseteq Nat /\ Bad # {}
    BY <1>1, <2>1
  <2> HIDE DEF Bad
  <2>3. PICK n \in Bad : \A m \in Bad : n <= m
    BY <2>2, LeastNatural
  <2>4. PICK s \in (SUBSET D) \ Good : n = Cardinality(s)
    BY DEF Bad
  <2>5. ASSUME NEW x \in s
        PROVE  s \ {x} \in Good
    <3>1. Cardinality(s \ {x}) = n - 1 /\ n \in Nat
      BY <2>1, <2>4, FS_RemoveElement
    <3>2. s \ {x} \notin Good => n - 1 \in Bad
      BY <2>4, <3>1 DEF Bad
    <3> QED
      BY <2>3, <3>1, <3>2
  <2> QED
    BY <2>4, <2>5
<1> QED
  BY <1>1

Chosen(s) == CHOOSE x \in s : TRUE

Rest(s) == s \ {Chosen(s)}

LEMMA ChosenIsIn ==
  ASSUME NEW s, s # {}
  PROVE  Chosen(s) \in s
  BY DEF Chosen

\* The equation of the fold, for the sets of up to n elements.
Solves(g, f, D, n) ==
    \A s \in SUBSET D : Cardinality(s) <= n =>
        g[s] = IF s = {} THEN 0 ELSE f[Chosen(s)] + g[Rest(s)]

LEMMA Solvable ==
  ASSUME NEW D, IsFiniteSet(D), NEW f \in [D -> Int], NEW n \in Nat
  PROVE  \E g \in [SUBSET D -> Int] : Solves(g, f, D, n)
<1> DEFINE Can(m) == \E g \in [SUBSET D -> Int] : Solves(g, f, D, m)
           T == {m \in Nat : ~Can(m)}
<1>0. \A s \in SUBSET D : IsFiniteSet(s) /\ Cardinality(s) \in Nat
                          /\ (Cardinality(s) = 0 <=> s = {})
  BY FS_Subset, FS_CardinalityType, FS_EmptySet
<1>1. Can(0)
  <2> DEFINE g == [s \in SUBSET D |-> 0]
  <2>1. \A s \in SUBSET D : Cardinality(s) <= 0 => s = {}
    BY <1>0
  <2>2. Solves(g, f, D, 0)
    BY <2>1 DEF Solves
  <2> QED
    BY <2>2
<1>2. ASSUME NEW m \in Nat, Can(m)
      PROVE  Can(m + 1)
  <2>1. PICK g \in [SUBSET D -> Int] : Solves(g, f, D, m)
    BY <1>2
  <2> DEFINE h == [s \in SUBSET D |-> IF Cardinality(s) = m + 1 THEN f[Chosen(s)] + g[Rest(s)]
                                      ELSE g[s]]
  <2>2. ASSUME NEW s \in SUBSET D, s # {}
        PROVE  /\ Chosen(s) \in D /\ Rest(s) \in SUBSET D
               /\ Cardinality(Rest(s)) = Cardinality(s) - 1
    BY <1>0, <2>2, ChosenIsIn, FS_RemoveElement DEF Rest
  <2>3. h \in [SUBSET D -> Int]
    <3>1. ASSUME NEW s \in SUBSET D, Cardinality(s) = m + 1
          PROVE  f[Chosen(s)] + g[Rest(s)] \in Int
      <4>1. s # {}
        BY <1>0, <3>1
      <4> QED
        BY <2>2, <4>1
    <3> QED
      BY <3>1
  <2>4. ASSUME NEW s \in SUBSET D, Cardinality(s) <= m + 1
        PROVE  h[s] = IF s = {} THEN 0 ELSE f[Chosen(s)] + h[Rest(s)]
    <3>1. CASE s = {}
      <4>1. Cardinality(s) = 0
        BY <1>0, <3>1
      <4>2. h[s] = g[s] /\ g[s] = 0
        BY <2>1, <3>1, <4>1 DEF Solves
      <4> QED
        BY <3>1, <4>2
    <3>2. CASE s # {}
      <4>1. /\ Rest(s) \in SUBSET D /\ Cardinality(Rest(s)) = Cardinality(s) - 1
            /\ Cardinality(s) \in Nat
        BY <1>0, <2>2, <3>2
      <4>2. h[Rest(s)] = g[Rest(s)]
        BY <2>4, <4>1
      <4>3. CASE Cardinality(s) = m + 1
        BY <3>2, <4>2, <4>3
      <4>4. CASE Cardinality(s) # m + 1
        <5>1. Cardinality(s) <= m
          BY <2>4, <4>1, <4>4
        <5>2. g[s] = f[Chosen(s)] + g[Rest(s)]
          BY <2>1, <3>2, <5>1 DEF Solves
        <5> QED
          BY <3>2, <4>2, <4>4, <5>2
      <4> QED
        BY <4>3, <4>4
    <3> QED
      BY <3>1, <3>2
  <2> HIDE DEF h
  <2>5. Solves(h, f, D, m + 1)
    BY <2>4 DEF Solves
  <2> QED
    BY <2>3, <2>5
<1> HIDE DEF Can
<1>3. ASSUME T # {}
      PROVE  FALSE
  <2>1. PICK m \in T : \A k \in T : m <= k
    <3>1. T \subseteq Nat
      OBVIOUS
    <3> QED
      BY <1>3, <3>1, LeastNatural
  <2>2. m \in Nat /\ ~Can(m) /\ m # 0
    BY <1>1
  <2>3. m - 1 \in Nat /\ Can(m - 1)
    BY <2>1, <2>2
  <2> QED
    BY <1>2, <2>2, <2>3
<1>4. Can(n)
  BY <1>3
<1> QED
  BY <1>4 DEF Can

\* g sums f over every subset of D, whatever is taken out first.
Adds(g, f, D) ==
    /\ g \in [SUBSET D -> Int]
    /\ g[{}] = 0
    /\ \A s \in SUBSET D : \A x \in s : g[s] = f[x] + g[s \ {x}]

LEMMA SumAdds ==
  ASSUME NEW D, IsFiniteSet(D), NEW f \in [D -> Int]
  PROVE  \E g : Adds(g, f, D) /\ SumFunction(f) = g[D]
<1> DEFINE Eqn(g) == g = [s \in SUBSET D |-> IF s = {} THEN 0 ELSE f[Chosen(s)] + g[Rest(s)]]
           g == CHOOSE k : Eqn(k)
<1>0. \A s \in SUBSET D : Cardinality(s) \in Nat /\ Cardinality(s) <= Cardinality(D)
  BY FS_Subset, FS_CardinalityType
<1>1. PICK h \in [SUBSET D -> Int] : Solves(h, f, D, Cardinality(D))
  BY <1>0, Solvable
<1>2. Eqn(h)
  BY <1>0, <1>1 DEF Solves
<1>3. Eqn(g)
  BY <1>2
<1>4. SumFunction(f) = g[D]
  <2>1. DOMAIN f = D
    OBVIOUS
  <2> QED
    BY <2>1 DEF SumFunction, SumFunctionOnSet, FoldFunctionOnSet, MapThenFoldSet, Chosen, Rest
<1> HIDE DEF g
<1>5. /\ DOMAIN g = SUBSET D
      /\ \A s \in SUBSET D : g[s] = IF s = {} THEN 0 ELSE f[Chosen(s)] + g[Rest(s)]
  BY <1>3
<1> HIDE DEF Eqn
<1>6. ASSUME NEW s \in SUBSET D, s # {}
      PROVE  /\ Chosen(s) \in s /\ Chosen(s) \in D
             /\ g[s] = f[Chosen(s)] + g[Rest(s)] /\ Rest(s) = s \ {Chosen(s)}
  BY <1>5, <1>6, ChosenIsIn DEF Rest
<1>7. \A s \in SUBSET D : g[s] \in Int
  <2> DEFINE Good == {s \in SUBSET D : g[s] \in Int}
  <2>1. ASSUME NEW s \in SUBSET D, \A x \in s : s \ {x} \in Good
        PROVE  s \in Good
    <3>1. CASE s = {}
      BY <1>5, <3>1
    <3>2. CASE s # {}
      <4>1. Rest(s) \in Good
        BY <1>6, <2>1, <3>2
      <4>2. g[Rest(s)] \in Int /\ f[Chosen(s)] \in Int
        BY <1>6, <3>2, <4>1
      <4> QED
        BY <1>6, <3>2, <4>2
    <3> QED
      BY <3>1, <3>2
  <2> HIDE DEF Good
  <2>2. \A s \in SUBSET D : s \in Good
    BY <2>1, SubsetInduction
  <2> QED
    BY <2>2 DEF Good
<1>8. \A s \in SUBSET D : \A x \in s : g[s] = f[x] + g[s \ {x}]
  <2> DEFINE Good == {s \in SUBSET D : \A x \in s : g[s] = f[x] + g[s \ {x}]}
  <2>1. ASSUME NEW s \in SUBSET D, \A x \in s : s \ {x} \in Good
        PROVE  s \in Good
    <3>1. ASSUME NEW x \in s
          PROVE  g[s] = f[x] + g[s \ {x}]
      <4> DEFINE c == Chosen(s)
                 both == (s \ {x}) \ {c}
      <4>1. c \in s /\ g[s] = f[c] + g[s \ {c}]
        BY <1>6, <3>1
      <4>2. CASE x = c
        BY <4>1, <4>2
      <4>3. CASE x # c
        <5>1. (s \ {c}) \ {x} = both
          OBVIOUS
        <5>2. g[s \ {c}] = f[x] + g[both]
          BY <2>1, <3>1, <4>1, <4>3, <5>1
        <5>3. g[s \ {x}] = f[c] + g[both]
          BY <2>1, <3>1, <4>1, <4>3
        <5>4. f[x] \in Int /\ f[c] \in Int /\ g[both] \in Int
          BY <1>7, <4>1
        <5> HIDE DEF c, both
        <5> QED
          BY <4>1, <5>2, <5>3, <5>4
      <4> QED
        BY <4>2, <4>3
    <3> QED
      BY <3>1
  <2> HIDE DEF Good
  <2>2. \A s \in SUBSET D : s \in Good
    BY <2>1, SubsetInduction
  <2> QED
    BY <2>2 DEF Good
<1>9. g \in [SUBSET D -> Int]
  <2>1. g = [s \in SUBSET D |-> g[s]]
    BY <1>3, <1>5 DEF Eqn
  <2> QED
    BY <1>7, <2>1
<1>10. Adds(g, f, D)
  BY <1>5, <1>8, <1>9 DEF Adds
<1> QED
  BY <1>4, <1>10

\* Two sums over functions that agree on a set agree on it.
LEMMA SumsAgree ==
  ASSUME NEW D, NEW E, NEW f, NEW e, NEW g, NEW h, Adds(g, f, D), Adds(h, e, E),
         NEW S, S \subseteq D, S \subseteq E, IsFiniteSet(S),
         \A x \in S : f[x] = e[x]
  PROVE  g[S] = h[S]
<1> DEFINE Good == {s \in SUBSET S : g[s] = h[s]}
<1>1. ASSUME NEW s \in SUBSET S, \A x \in s : s \ {x} \in Good
      PROVE  s \in Good
  <2>1. CASE s = {}
    BY <2>1 DEF Adds
  <2>2. ASSUME NEW x \in s
        PROVE  g[s] = h[s]
    <3>1. s \ {x} \in Good
      BY <1>1
    <3>2. g[s] = f[x] + g[s \ {x}] /\ h[s] = e[x] + h[s \ {x}]
      BY DEF Adds
    <3> QED
      BY <3>1, <3>2
  <2> QED
    BY <2>1, <2>2
<1> HIDE DEF Good
<1>2. \A s \in SUBSET S : s \in Good
  BY <1>1, SubsetInduction
<1> QED
  BY <1>2 DEF Good

\* The laws of SumFunction over a finite set.
LEMMA SumInt ==
  ASSUME NEW D, IsFiniteSet(D), NEW f \in [D -> Int]
  PROVE  SumFunction(f) \in Int
<1>1. PICK g : Adds(g, f, D) /\ SumFunction(f) = g[D]
  BY SumAdds
<1> QED
  BY <1>1 DEF Adds

LEMMA SumEmpty ==
  ASSUME NEW f \in [{} -> Int]
  PROVE  SumFunction(f) = 0
<1>1. PICK g : Adds(g, f, {}) /\ SumFunction(f) = g[{}]
  BY SumAdds, FS_EmptySet
<1> QED
  BY <1>1 DEF Adds

LEMMA SumTakeOut ==
  ASSUME NEW D, IsFiniteSet(D), NEW f \in [D -> Int], NEW x \in D,
         NEW e \in [D \ {x} -> Int], \A y \in D \ {x} : e[y] = f[y]
  PROVE  SumFunction(f) = f[x] + SumFunction(e)
<1> DEFINE E == D \ {x}
<1>1. IsFiniteSet(E) /\ E \subseteq D
  BY FS_RemoveElement
<1>2. \A y \in E : f[y] = e[y]
  OBVIOUS
<1>3. PICK g : Adds(g, f, D) /\ SumFunction(f) = g[D]
  BY SumAdds
<1>4. PICK h : Adds(h, e, E) /\ SumFunction(e) = h[E]
  BY <1>1, SumAdds
<1>5. g[E] = h[E]
  BY <1>1, <1>2, <1>3, <1>4, SumsAgree
<1>6. g[D] = f[x] + g[E]
  BY <1>3 DEF Adds
<1> QED
  BY <1>3, <1>4, <1>5, <1>6

\* One summand changes.
LEMMA SumChange ==
  ASSUME NEW D, IsFiniteSet(D), NEW f \in [D -> Int], NEW e \in [D -> Int], NEW x \in D,
         \A y \in D : y # x => e[y] = f[y]
  PROVE  SumFunction(e) = SumFunction(f) - f[x] + e[x]
<1> DEFINE r == [y \in D \ {x} |-> f[y]]
<1>1. /\ r \in [D \ {x} -> Int] /\ IsFiniteSet(D \ {x})
      /\ \A y \in D \ {x} : r[y] = f[y] /\ r[y] = e[y]
  BY FS_RemoveElement
<1> HIDE DEF r
<1>2. SumFunction(f) = f[x] + SumFunction(r)
  BY <1>1, SumTakeOut
<1>3. SumFunction(e) = e[x] + SumFunction(r)
  BY <1>1, SumTakeOut
<1>4. SumFunction(r) \in Int
  BY <1>1, SumInt
<1>5. f[x] \in Int /\ e[x] \in Int
  OBVIOUS
<1> QED
  BY <1>2, <1>3, <1>4, <1>5

\* A sum of differences.
LEMMA SumMinus ==
  ASSUME NEW D, IsFiniteSet(D), NEW f \in [D -> Int], NEW e \in [D -> Int],
         NEW d \in [D -> Int], \A x \in D : d[x] = f[x] - e[x]
  PROVE  SumFunction(d) = SumFunction(f) - SumFunction(e)
<1>1. d \in [D -> Int] /\ \A x \in D : d[x] = f[x] - e[x]
  OBVIOUS
<1>2. PICK g : Adds(g, f, D) /\ SumFunction(f) = g[D]
  BY SumAdds
<1>3. PICK h : Adds(h, e, D) /\ SumFunction(e) = h[D]
  BY SumAdds
<1>4. PICK k : Adds(k, d, D) /\ SumFunction(d) = k[D]
  BY <1>1, SumAdds
<1> DEFINE Good == {s \in SUBSET D : k[s] = g[s] - h[s]}
<1>5. ASSUME NEW s \in SUBSET D, \A x \in s : s \ {x} \in Good
      PROVE  s \in Good
  <2>1. CASE s = {}
    BY <1>2, <1>3, <1>4, <2>1 DEF Adds
  <2>2. ASSUME NEW x \in s
        PROVE  k[s] = g[s] - h[s]
    <3> DEFINE t == s \ {x}
    <3>1. k[t] = g[t] - h[t]
      BY <1>5
    <3>2. g[s] = f[x] + g[t] /\ h[s] = e[x] + h[t] /\ k[s] = d[x] + k[t]
      BY <1>2, <1>3, <1>4 DEF Adds
    <3>3. /\ f[x] \in Int /\ e[x] \in Int /\ d[x] = f[x] - e[x]
          /\ g[t] \in Int /\ h[t] \in Int
      BY <1>1, <1>2, <1>3 DEF Adds
    <3> HIDE DEF t
    <3> QED
      BY <3>1, <3>2, <3>3
  <2> QED
    BY <2>1, <2>2
<1> HIDE DEF Good
<1>6. D \in Good
  BY <1>5, SubsetInduction
<1> QED
  BY <1>2, <1>3, <1>4, <1>6 DEF Good

\* Only summands that are not zero count.
LEMMA SumSupport ==
  ASSUME NEW D, IsFiniteSet(D), NEW f \in [D -> Int], NEW S \in SUBSET D,
         NEW e \in [S -> Int], \A x \in S : e[x] = f[x], \A x \in D \ S : f[x] = 0
  PROVE  SumFunction(e) = SumFunction(f)
<1>1. e \in [S -> Int] /\ \A x \in S : e[x] = f[x]
  OBVIOUS
<1>2. IsFiniteSet(S) /\ IsFiniteSet(D \ S)
  BY FS_Subset
<1>3. PICK g : Adds(g, f, D) /\ SumFunction(f) = g[D]
  BY SumAdds
<1>4. PICK h : Adds(h, e, S) /\ SumFunction(e) = h[S]
  BY <1>1, <1>2, SumAdds
<1>5. g[S] = h[S]
  BY <1>1, <1>2, <1>3, <1>4, SumsAgree
<1> DEFINE Good == {s \in SUBSET (D \ S) : g[S \cup s] = g[S]}
<1>6. ASSUME NEW s \in SUBSET (D \ S), \A x \in s : s \ {x} \in Good
      PROVE  s \in Good
  <2>1. CASE s = {}
    <3>1. S \cup s = S
      BY <2>1
    <3> QED
      BY <3>1
  <2>2. ASSUME NEW x \in s
        PROVE  g[S \cup s] = g[S]
    <3> DEFINE u == S \cup s
    <3>1. u \ {x} = S \cup (s \ {x}) /\ u \in SUBSET D /\ x \in u /\ f[x] = 0
      OBVIOUS
    <3> HIDE DEF u
    <3>2. g[u] = f[x] + g[u \ {x}]
      BY <1>3, <3>1 DEF Adds
    <3>3. g[u \ {x}] = g[S] /\ g[S] \in Int
      <4>1. s \ {x} \in Good
        BY <1>6
      <4>2. g[S \cup (s \ {x})] = g[S]
        BY <4>1
      <4>3. g[S] \in Int
        BY <1>3 DEF Adds
      <4> QED
        BY <3>1, <4>2, <4>3, Zenon
    <3>4. g[u] = g[S]
      BY <3>1, <3>2, <3>3
    <3> QED
      BY <3>4 DEF u
  <2> QED
    BY <2>1, <2>2
<1> HIDE DEF Good
<1>7. D \ S \in Good
  <2> DEFINE R == D \ S
  <2>1. IsFiniteSet(R) /\ \A s \in SUBSET R : (\A x \in s : s \ {x} \in Good) => s \in Good
    BY <1>2, <1>6
  <2> HIDE DEF R
  <2>2. R \in Good
    BY <2>1, SubsetInduction
  <2> QED
    BY <2>2 DEF R
<1>8. S \cup (D \ S) = D
  OBVIOUS
<1> QED
  BY <1>3, <1>4, <1>5, <1>7, <1>8 DEF Good

\* Nothing negative adds up to nothing negative.
LEMMA SumNat ==
  ASSUME NEW D, IsFiniteSet(D), NEW f \in [D -> Nat]
  PROVE  SumFunction(f) \in Nat
<1>1. f \in [D -> Int]
  OBVIOUS
<1>2. PICK g : Adds(g, f, D) /\ SumFunction(f) = g[D]
  BY <1>1, SumAdds
<1> DEFINE Good == {s \in SUBSET D : g[s] \in Nat}
<1>3. ASSUME NEW s \in SUBSET D, \A x \in s : s \ {x} \in Good
      PROVE  s \in Good
  <2>1. CASE s = {}
    BY <1>2, <2>1 DEF Adds
  <2>2. ASSUME NEW x \in s
        PROVE  g[s] \in Nat
    <3>1. g[s] = f[x] + g[s \ {x}] /\ f[x] \in Nat
      BY <1>2 DEF Adds
    <3> QED
      BY <1>3, <3>1
  <2> QED
    BY <2>1, <2>2
<1> HIDE DEF Good
<1>4. D \in Good
  BY <1>3, SubsetInduction
<1> QED
  BY <1>2, <1>4 DEF Good

LEMMA SumLess ==
  ASSUME NEW D, IsFiniteSet(D), NEW f \in [D -> Int], NEW e \in [D -> Int],
         \A x \in D : f[x] <= e[x]
  PROVE  SumFunction(f) <= SumFunction(e)
<1> DEFINE d == [x \in D |-> e[x] - f[x]]
<1>1. d \in [D -> Nat]
  OBVIOUS
<1>2. SumFunction(d) = SumFunction(e) - SumFunction(f)
  <2>1. d \in [D -> Int] /\ \A x \in D : d[x] = e[x] - f[x]
    OBVIOUS
  <2> HIDE DEF d
  <2> QED
    BY <2>1, SumMinus
<1> HIDE DEF d
<1>3. SumFunction(d) \in Nat /\ SumFunction(e) \in Int /\ SumFunction(f) \in Int
  BY <1>1, SumNat, SumInt
<1> QED
  BY <1>2, <1>3

\* A set is counted element by element.
LEMMA CountIsSum ==
  ASSUME NEW D, IsFiniteSet(D), NEW S \in SUBSET D, NEW f \in [D -> Int],
         \A x \in D : f[x] = IF x \in S THEN 1 ELSE 0
  PROVE  Cardinality(S) = SumFunction(f)
<1>1. f \in [D -> Int] /\ \A x \in D : f[x] = IF x \in S THEN 1 ELSE 0
  OBVIOUS
<1>2. PICK g : Adds(g, f, D) /\ SumFunction(f) = g[D]
  BY <1>1, SumAdds
<1> DEFINE Good == {s \in SUBSET D : g[s] = Cardinality(s \cap S)}
<1>3. ASSUME NEW s \in SUBSET D, \A x \in s : s \ {x} \in Good
      PROVE  s \in Good
  <2>1. CASE s = {}
    <3>1. s \cap S = {}
      BY <2>1
    <3> QED
      BY <1>2, <2>1, <3>1, FS_EmptySet DEF Adds
  <2>2. ASSUME NEW x \in s
        PROVE  g[s] = Cardinality(s \cap S)
    <3>1. g[s] = f[x] + Cardinality((s \ {x}) \cap S)
      BY <1>2, <1>3 DEF Adds
    <3> DEFINE t == s \cap S
    <3>2. (s \ {x}) \cap S = t \ {x} /\ IsFiniteSet(t) /\ (x \in t <=> x \in S)
      BY FS_Subset
    <3> HIDE DEF t
    <3>3. Cardinality(t) \in Nat
      BY <3>2, FS_CardinalityType
    <3>4. Cardinality(t \ {x}) = IF x \in t THEN Cardinality(t) - 1 ELSE Cardinality(t)
      BY <3>2, FS_RemoveElement
    <3>5. f[x] = IF x \in S THEN 1 ELSE 0
      BY <1>1
    <3>6. g[s] = f[x] + Cardinality(t \ {x})
      BY <3>1, <3>2
    <3>7. g[s] = Cardinality(t)
      BY <3>2, <3>3, <3>4, <3>5, <3>6
    <3> QED
      BY <3>7 DEF t
  <2> QED
    BY <2>1, <2>2
<1> HIDE DEF Good
<1>4. D \in Good
  BY <1>3, SubsetInduction
<1>5. D \cap S = S
  OBVIOUS
<1> QED
  BY <1>2, <1>4, <1>5 DEF Good

-----------------------------------------------------------------------------
(* The card payments: types. *)

LEMMA ReadyType == Ready \in Form /\ Ready.at = "ready" /\ Ready.of = NoSale
  BY DEF Ready, Form

LEMMA DroppedType ==
  ASSUME TapTypeOK, NEW s \in Sales
  PROVE  Dropped(s) \in Form
  BY ReadyType DEF Dropped, TapTypeOK

LEMMA WithType ==
  ASSUME TapTypeOK, NEW fs, With(fs)
  PROVE  amiss' \subseteq TapFaults /\ amiss \subseteq amiss'
  BY TapSaleAssumption DEF With, TapTypeOK

LEMMA FaultType ==
  ASSUME TapTypeOK, NEW f, NEW happens, Fault(f, happens)
  PROVE  amiss' \subseteq TapFaults /\ amiss \subseteq amiss'
  BY WithType DEF Fault

\* A sale with other columns, one assignment of the module after the other.
SaleWrite(s, r) == sale' = [sale EXCEPT ![s] = r]

LEMMA SaleType ==
  ASSUME TapTypeOK, NEW s \in Sales, NEW r \in Sale, SaleWrite(s, r)
  PROVE  /\ sale' \in [Sales -> Sale]
         /\ sale'[s] = r
         /\ \A t \in Sales : t # s => sale'[t] = sale[t]
  BY DEF TapTypeOK, SaleWrite

LEMMA FormType ==
  ASSUME NEW f \in Form, NEW a \in {"ready", "creating", "waiting", "receipt"}
  PROVE  LET g == [f EXCEPT !.at = a] IN g \in Form /\ g.at = a /\ g.of = f.of
  BY Zenon DEF Form

LEMMA HoldType ==
  \A h \in {"none", "held", "consumed", "released"} :
    /\ Freed(h) \in {"none", "held", "consumed", "released"}
    /\ Consumed(h) \in {"none", "held", "consumed", "released"}
  BY DEF Freed, Consumed

\* What one step writes to a sale: at most pay, row, closed, linked, minted, hold.
Wrote(s) ==
    /\ sale' \in [Sales -> Sale]
    /\ \A t \in Sales : t # s => sale'[t] = sale[t]

LEMMA ConfirmWrites ==
  ASSUME TapTypeOK, NEW s \in Sales, Confirm(s)
  PROVE  /\ Wrote(s)
         /\ sale'[s].pay = "pending" /\ sale'[s].row = sale[s].row
         /\ sale'[s].closed = sale[s].closed /\ sale'[s].minted = sale[s].minted
<1> DEFINE r == [sale[s] EXCEPT !.pay = "pending", !.hold = "held"]
<1>1. SaleWrite(s, r)
  BY DEF Confirm, SaleWrite, TapTypeOK
<1>2. sale[s] \in Sale
  BY DEF TapTypeOK
<1>3. r \in Sale /\ r.pay = "pending" /\ r.row = sale[s].row /\ r.closed = sale[s].closed
      /\ r.minted = sale[s].minted
  BY <1>2, Zenon DEF Sale
<1> QED
  BY <1>1, <1>3, SaleType DEF Wrote

LEMMA StartWrites ==
  ASSUME TapTypeOK, NEW s \in Sales, Started(s) \/ Unheard(s)
  PROVE  /\ Wrote(s)
         /\ sale'[s].pay = "awaiting" /\ sale'[s].row = sale[s].row
         /\ sale'[s].closed = sale[s].closed /\ sale'[s].minted = sale[s].minted
<1> DEFINE r == [sale[s] EXCEPT !.pay = "awaiting", !.linked = TRUE]
<1>1. SaleWrite(s, r)
  BY DEF Started, Unheard, SaleWrite, TapTypeOK
<1>2. sale[s] \in Sale
  BY DEF TapTypeOK
<1>3. r \in Sale /\ r.pay = "awaiting" /\ r.row = sale[s].row /\ r.closed = sale[s].closed
      /\ r.minted = sale[s].minted
  BY <1>2, Zenon DEF Sale
<1> QED
  BY <1>1, <1>3, SaleType DEF Wrote

\* A sale that is closed, by Stripe's failure or by a cancellation.
LEMMA CloseWrites ==
  ASSUME TapTypeOK, NEW s \in Sales, NotStarted(s) \/ CancelWrite(s)
  PROVE  /\ Wrote(s)
         /\ sale'[s].pay \in {"failed", "canceled"} /\ sale'[s].row \in {"failed", "canceled"}
         /\ NotStarted(s) => sale'[s].pay = "failed"
         /\ sale'[s].closed /\ sale'[s].minted = sale[s].minted
<1>1. sale[s] \in Sale /\ sale[s].hold \in {"none", "held", "consumed", "released"}
  BY DEF TapTypeOK, Sale
<1> DEFINE h == Freed(sale[s].hold)
<1>2. h \in {"none", "held", "consumed", "released"}
  BY <1>1, HoldType
<1>3. PICK k \in {"failed", "canceled"} :
        /\ SaleWrite(s, [sale[s] EXCEPT !.pay = k, !.row = k, !.closed = TRUE, !.hold = h])
        /\ NotStarted(s) => k = "failed"
  <2>1. CASE NotStarted(s)
    BY <2>1 DEF NotStarted, SaleWrite, TapTypeOK
  <2>2. CASE CancelWrite(s) /\ ~NotStarted(s)
    BY <2>2 DEF CancelWrite, SaleWrite, TapTypeOK
  <2> QED
    BY <2>1, <2>2
<1> DEFINE r == [sale[s] EXCEPT !.pay = k, !.row = k, !.closed = TRUE, !.hold = h]
<1> HIDE DEF h
<1>4. r \in Sale /\ r.pay = k /\ r.row = k /\ r.closed /\ r.minted = sale[s].minted
  BY <1>1, <1>2, Zenon DEF Sale
<1>5. SaleWrite(s, r)
  BY <1>3
<1> HIDE DEF r
<1> QED
  BY <1>3, <1>4, <1>5, SaleType DEF Wrote

\* A webhook of a failed or cancelled payment leaves a sale that is over alone.
LEMMA UnpaidWrites ==
  ASSUME TapTypeOK, NEW s \in Sales, NEW kind \in {"failed", "canceled"}, Unpaid(s, kind)
  PROVE  /\ Wrote(s)
         /\ \/ sale' = sale
            \/ /\ ~Over(s) /\ sale'[s].pay = kind /\ sale'[s].row = kind
               /\ sale'[s].closed = sale[s].closed /\ sale'[s].minted = sale[s].minted
<1>1. sale[s] \in Sale /\ sale[s].hold \in {"none", "held", "consumed", "released"}
  BY DEF TapTypeOK, Sale
<1>2. CASE Over(s)
  BY <1>2 DEF Unpaid, Wrote, TapTypeOK
<1>3. CASE ~Over(s)
  <2> DEFINE h == Freed(sale[s].hold)
             r == [sale[s] EXCEPT !.pay = kind, !.row = kind, !.hold = h]
  <2>1. h \in {"none", "held", "consumed", "released"}
    BY <1>1, HoldType
  <2>2. SaleWrite(s, r)
    BY <1>3 DEF Unpaid, SaleWrite, TapTypeOK
  <2> HIDE DEF h
  <2>3. r \in Sale /\ r.pay = kind /\ r.row = kind /\ r.closed = sale[s].closed
        /\ r.minted = sale[s].minted
    BY <1>1, <2>1, Zenon DEF Sale
  <2> HIDE DEF r
  <2> QED
    BY <1>3, <2>2, <2>3, SaleType DEF Wrote
<1> QED
  BY <1>2, <1>3

LEMMA SettleWrites ==
  ASSUME TapTypeOK, NEW s \in Sales, Settle(s)
  PROVE  /\ Wrote(s)
         /\ sale'[s].pay = "paid" /\ ~sale'[s].closed /\ sale'[s].minted = sale[s].minted
<1> DEFINE r == [sale[s] EXCEPT !.pay = "paid", !.row = "paid", !.closed = FALSE]
<1>1. SaleWrite(s, r)
  BY DEF Settle, SaleWrite, TapTypeOK
<1>2. sale[s] \in Sale
  BY DEF TapTypeOK
<1>3. r \in Sale /\ r.pay = "paid" /\ ~r.closed /\ r.minted = sale[s].minted
  BY <1>2, Zenon DEF Sale
<1> QED
  BY <1>1, <1>3, SaleType DEF Wrote

LEMMA MintWrites ==
  ASSUME TapTypeOK, NEW s \in Sales, Mint(s)
  PROVE  Wrote(s) /\ ~sale'[s].closed /\ sale'[s].pay = sale[s].pay
<1>1. sale[s] \in Sale /\ sale[s].hold \in {"none", "held", "consumed", "released"}
  BY DEF TapTypeOK, Sale
<1> DEFINE h == Consumed(sale[s].hold)
           r == [sale[s] EXCEPT !.minted = TRUE, !.closed = FALSE, !.hold = h]
<1>2. h \in {"none", "held", "consumed", "released"}
  BY <1>1, HoldType
<1>3. SaleWrite(s, r)
  BY DEF Mint, SaleWrite, TapTypeOK
<1> HIDE DEF h
<1>4. r \in Sale /\ ~r.closed /\ r.pay = sale[s].pay
  BY <1>1, <1>2, Zenon DEF Sale
<1> HIDE DEF r
<1> QED
  BY <1>3, <1>4, SaleType DEF Wrote

LEMMA LapseWrites ==
  ASSUME TapTypeOK, NEW s \in Sales, Lapse(s)
  PROVE  /\ Wrote(s)
         /\ sale'[s].pay = sale[s].pay /\ sale'[s].row = sale[s].row
         /\ sale'[s].closed = sale[s].closed /\ sale'[s].minted = sale[s].minted
<1> DEFINE r == [sale[s] EXCEPT !.hold = "released"]
<1>1. SaleWrite(s, r)
  BY DEF Lapse, SaleWrite, TapTypeOK
<1>2. sale[s] \in Sale
  BY DEF TapTypeOK
<1>3. r \in Sale /\ r.pay = sale[s].pay /\ r.row = sale[s].row /\ r.closed = sale[s].closed
      /\ r.minted = sale[s].minted
  BY <1>2, Zenon DEF Sale
<1> QED
  BY <1>1, <1>3, SaleType DEF Wrote
\* A phone that is busy is so with a sale.
BusyWithOne == phone.at # "idle" => phone.job # NoSale

\* Every step keeps the types: the seller's, the payment's, the cancellation's,
\* the phone's.
LEMMA SellingTyped ==
  ASSUME TapTypeOK, NEW s \in Sales, Selling(s)
  PROVE  TapTypeOK'
<1> USE DEF TapTypeOK
<1>1. CASE Confirm(s)
  <2>1. [at |-> "creating", of |-> s] \in Form
    BY DEF Form
  <2> QED
    BY <1>1, <2>1, ConfirmWrites DEF Confirm, Wrote
<1>2. CASE Started(s)
  <2>1. [form EXCEPT !.at = "waiting"] \in Form
    BY FormType
  <2> QED
    BY <1>2, <2>1, StartWrites DEF Started, Wrote
<1>3. CASE NotStarted(s)
  BY <1>3, ReadyType, CloseWrites DEF NotStarted, Wrote
<1>4. CASE Unheard(s)
  BY <1>4, ReadyType, StartWrites DEF Unheard, Wrote
<1>5. CASE Poll(s)
  <2>1. [form EXCEPT !.at = "receipt"] \in Form
    BY FormType
  <2> QED
    BY <1>5, <2>1, ReadyType DEF Poll
<1> QED
  BY <1>1, <1>2, <1>3, <1>4, <1>5 DEF Selling

LEMMA PayingTyped ==
  ASSUME TapTypeOK, NEW s \in Sales, Paying(s)
  PROVE  TapTypeOK'
<1> USE DEF TapTypeOK
<1>1. CASE OpenLink(s)
  <2>1. [phone EXCEPT !.on = s, !.secret = FALSE] \in Phone
    BY Zenon DEF Phone
  <2> QED
    BY <1>1, <2>1 DEF OpenLink
<1>2. CASE Lapse(s)
  BY <1>2, WithType, LapseWrites DEF Lapse, Wrote
<1>3. CASE Settle(s)
  BY <1>3, SettleWrites DEF Settle, Wrote
<1>4. CASE Mint(s)
  BY <1>4, MintWrites DEF Mint, Wrote
<1>5. ASSUME NEW kind \in {"failed", "canceled"}, Unpaid(s, kind)
      PROVE  TapTypeOK'
  BY <1>5, UnpaidWrites DEF Unpaid, Wrote
<1> QED
  BY <1>1, <1>2, <1>3, <1>4, <1>5 DEF Paying

LEMMA CancellingTyped ==
  ASSUME TapTypeOK, NEW s \in Sales, Cancelling(s)
  PROVE  TapTypeOK'
<1> USE DEF TapTypeOK
<1>1. CASE Cancel(s)
  BY <1>1, FaultType, DroppedType DEF Cancel
<1>2. CASE CancelIntent(s)
  <2>1. amiss' \subseteq TapFaults
    BY <1>2, FaultType, WithType DEF CancelIntent
  <2> QED
    BY <1>2, <2>1 DEF CancelIntent, CloseIntent
<1>3. CASE CancelWrite(s)
  BY <1>3, CloseWrites, DroppedType DEF CancelWrite, Wrote
<1> QED
  BY <1>1, <1>2, <1>3 DEF Cancelling

LEMMA OthersKeepPhone ==
  ASSUME TapTypeOK, BusyWithOne, NEW s \in Sales, Selling(s) \/ Paying(s) \/ Cancelling(s)
  PROVE  BusyWithOne'
<1>1. phone'.at = phone.at /\ phone'.job = phone.job
  <2>1. [phone EXCEPT !.on = s, !.secret = FALSE].at = phone.at
        /\ [phone EXCEPT !.on = s, !.secret = FALSE].job = phone.job
    BY DEF TapTypeOK, Phone
  <2>2. UNCHANGED phone \/ phone' = [phone EXCEPT !.on = s, !.secret = FALSE]
    BY DEF Selling, Paying, Cancelling, Confirm, Started, NotStarted, Unheard, Poll, OpenLink, Lapse,
           Settle, Mint, Unpaid, Cancel, CancelIntent, CancelWrite
  <2> QED
    BY <2>1, <2>2
<1> QED
  BY <1>1 DEF BusyWithOne

LEMMA DoneType ==
  ASSUME TapTypeOK, Done
  PROVE  phone' \in Phone /\ phone'.at = "idle" /\ phone'.on = phone.on /\ phone'.job = NoSale
<1>1. phone \in Phone
  BY DEF TapTypeOK
<1> QED
  BY <1>1, Zenon DEF Done, Phone

LEMMA TappingTyped ==
  ASSUME TapTypeOK, BusyWithOne, Tapping
  PROVE  TapTypeOK' /\ BusyWithOne'
<1> USE DEF TapTypeOK
<1>1. /\ phone.on \in Sales \cup {NoSale} /\ phone.job \in Sales \cup {NoSale}
      /\ phone.secret \in BOOLEAN
  BY DEF Phone
<1>2. phone.at # "idle" => phone.job \in Sales
  BY <1>1 DEF BusyWithOne
<1>3. CASE Collect
  <2> DEFINE a == IF phone.secret THEN "collecting" ELSE "fetching"
             o == phone.on
  <2>1. a \in {"idle", "fetching", "collecting"} /\ o \in Sales \cup {NoSale} /\ o # NoSale
    BY <1>1, <1>3 DEF Collect
  <2>2. phone' = [phone EXCEPT !.job = o, !.at = a]
    BY <1>3 DEF Collect
  <2> HIDE DEF a, o
  <2>3. [phone EXCEPT !.job = o, !.at = a] \in Phone /\ [phone EXCEPT !.job = o, !.at = a].job = o
    BY <2>1, Zenon DEF Phone
  <2> QED
    BY <1>3, <2>1, <2>2, <2>3 DEF Collect, BusyWithOne
<1>4. CASE Fetched
  <2> DEFINE o == phone.job
  <2>1. o \in Sales
    BY <1>2, <1>4 DEF Fetched
  <2>2. phone' = [phone EXCEPT !.on = o, !.secret = TRUE, !.at = "collecting"] \/ Done
    BY <1>4 DEF Fetched, Done
  <2> HIDE DEF o
  <2>3. [phone EXCEPT !.on = o, !.secret = TRUE, !.at = "collecting"] \in Phone
        /\ [phone EXCEPT !.on = o, !.secret = TRUE, !.at = "collecting"].job = phone.job
    BY <2>1, Zenon DEF Phone
  <2>4. phone' \in Phone /\ BusyWithOne'
    BY <2>1, <2>2, <2>3, DoneType, TapSaleAssumption DEF BusyWithOne, o
  <2> QED
    BY <1>4, <2>4 DEF Fetched
<1>5. CASE Charge \/ Decline
  <2>1. amiss' \subseteq TapFaults
    BY <1>5, FaultType DEF Charge, Decline
  <2>2. phone.job \in Sales
    BY <1>2, <1>5 DEF Charge, Decline
  <2> QED
    BY <1>5, <2>1, <2>2, DoneType DEF Charge, Decline, BusyWithOne
<1>6. CASE GiveUp
  BY <1>6, DoneType DEF GiveUp, BusyWithOne
<1> QED
  BY <1>3, <1>4, <1>5, <1>6 DEF Tapping

LEMMA TapTyped ==
  TapTypeOK /\ BusyWithOne /\ [TapNext]_tapVars => TapTypeOK' /\ BusyWithOne'
<1> SUFFICES ASSUME TapTypeOK, BusyWithOne, [TapNext]_tapVars PROVE TapTypeOK' /\ BusyWithOne'
  OBVIOUS
<1>1. CASE UNCHANGED tapVars
  BY <1>1 DEF tapVars, TapTypeOK, BusyWithOne
<1>2. CASE TapNext
  BY <1>2, SellingTyped, PayingTyped, CancellingTyped, TappingTyped, OthersKeepPhone DEF TapNext
<1> QED
  BY <1>1, <1>2

LEMMA TapInitTyped == TapInit => TapTypeOK /\ BusyWithOne
  BY ReadyType DEF TapInit, TapTypeOK, BusyWithOne, Sale, Phone

-----------------------------------------------------------------------------
(* What is known of a sale. *)

CalmTap == Calm({"outage", "crossed", "retry"})

At(s) == form.of = s /\ form.at = "waiting"

\* Whatever happens: money has been taken where anything says so, a sale that is
\* not started has no intent, and Stripe's word on an intent is true.
Known(s) ==
    /\ <<s, "succeeded">> \in events => Succeeded(s)
    /\ sale[s].row = "paid" \/ sale[s].pay = "paid" \/ sale[s].minted => Succeeded(s)
    /\ sale[s].pay \in {"none", "pending"} => intent[s] = "none" /\ ~sale[s].closed
    /\ cancel[s] # "none" \/ At(s) => intent[s] # "none"
    /\ intent[s] = "none" => phone.on # s /\ phone.job # s
    /\ <<s, "canceled">> \in events => intent[s] = "canceled"

\* Without the three faults: what is cancelled on record is so at Stripe, the
\* phone's sale is on the form while it can be paid, and what is paid stays there.
KnownCalm(s) ==
    /\ cancel[s] = "asked" \/ sale[s].pay = "canceled" => intent[s] = "canceled"
    /\ sale[s].closed => intent[s] \in {"none", "canceled"}
    /\ intent[s] = "open" /\ (phone.on = s \/ phone.job = s) => At(s) \/ sale[s].pay = "failed"
    /\ Succeeded(s) => /\ form.of = s /\ form.at \in {"waiting", "receipt"}
                       /\ <<s, "failed">> \notin events
                       /\ sale[s].pay \notin {"failed", "canceled"}

TapInv ==
    /\ TapTypeOK /\ BusyWithOne
    /\ \A s \in Sales : Known(s)
    /\ CalmTap => \A s \in Sales : KnownCalm(s)

LEMMA CalmBefore ==
  ASSUME TapTypeOK, TapTypeOK', amiss \subseteq amiss', CalmTap'
  PROVE  CalmTap
  BY DEF CalmTap, Calm
\* What a step has to keep.
Keeps ==
    /\ \A s \in Sales : Known(s)'
    /\ CalmTap' => \A s \in Sales : KnownCalm(s)'

LEMMA FormFacts ==
  /\ Ready.at = "ready" /\ Ready.of = NoSale /\ NoSale \notin Sales
  /\ \A s \in Sales : form = [at |-> "creating", of |-> s] => form.at = "creating" /\ form.of = s
  /\ \A s \in Sales : form = [at |-> "waiting", of |-> s] => form.at = "waiting" /\ form.of = s
  BY TapSaleAssumption DEF Ready

LEMMA ConfirmKeeps ==
  ASSUME TapInv, NEW t \in Sales, Confirm(t)
  PROVE  Keeps
<1>1. /\ sale[t].pay = "none" /\ form = Ready
      /\ form' = [at |-> "creating", of |-> t]
      /\ UNCHANGED <<intent, events, cancel, phone, amiss>>
      /\ sale'[t].pay = "pending" /\ sale'[t].row = sale[t].row
      /\ sale'[t].closed = sale[t].closed /\ sale'[t].minted = sale[t].minted
      /\ \A s \in Sales : s # t => sale'[s] = sale[s]
  BY ConfirmWrites DEF Confirm, TapInv, Wrote
<1>2. form'.at = "creating"
  BY <1>1
<1>3. ASSUME NEW s \in Sales
      PROVE  Known(s)'
  BY <1>1, <1>2 DEF TapInv, Known, At, Succeeded
<1>4. ASSUME NEW s \in Sales, CalmTap'
      PROVE  KnownCalm(s)'
  <2>1. KnownCalm(s) /\ Known(s) /\ Known(t)
    BY <1>1, <1>4 DEF TapInv, CalmTap, Calm
  <2>2. ~At(s) /\ ~Succeeded(s)
    BY <1>1, <2>1, FormFacts DEF At, KnownCalm
  <2> QED
    BY <1>1, <1>2, <2>1, <2>2 DEF Known, KnownCalm, At, Succeeded
<1> QED
  BY <1>3, <1>4 DEF Keeps

LEMMA StartKeeps ==
  ASSUME TapInv, NEW t \in Sales, Started(t) \/ Unheard(t)
  PROVE  Keeps
<1>1. /\ sale[t].pay = "pending" /\ form.at = "creating" /\ form.of = t
      /\ intent' = [intent EXCEPT ![t] = "open"]
      /\ UNCHANGED <<events, cancel, phone, amiss>>
      /\ sale'[t].pay = "awaiting" /\ sale'[t].row = sale[t].row
      /\ sale'[t].closed = sale[t].closed /\ sale'[t].minted = sale[t].minted
      /\ \A s \in Sales : s # t => sale'[s] = sale[s]
  BY StartWrites, FormFacts DEF Started, Unheard, TapInv, Wrote
<1>2. form'.of \in {t, NoSale}
  <2>1. CASE Started(t)
    <3>1. [form EXCEPT !.at = "waiting"].of = form.of
      BY FormType DEF TapInv, TapTypeOK
    <3> QED
      BY <1>1, <2>1, <3>1 DEF Started
  <2>2. CASE Unheard(t)
    BY <2>2, FormFacts DEF Unheard
  <2> QED
    BY <2>1, <2>2
<1>3. intent'[t] = "open" /\ \A s \in Sales : s # t => intent'[s] = intent[s]
  BY <1>1 DEF TapInv, TapTypeOK
<1>4. Known(t) /\ intent[t] = "none" /\ ~sale[t].closed
  BY <1>1 DEF TapInv, Known
<1>5. ASSUME NEW s \in Sales
      PROVE  Known(s)'
  <2>1. Known(s) /\ ~(form'.of = s /\ s # t)
    BY <1>2, FormFacts DEF TapInv
  <2> QED
    BY <1>1, <1>3, <1>4, <2>1 DEF Known, At, Succeeded
<1>6. ASSUME NEW s \in Sales, CalmTap'
      PROVE  KnownCalm(s)'
  <2>1. KnownCalm(s)
    BY <1>1, <1>6 DEF TapInv, CalmTap, Calm
  <2>2. ~At(s) /\ ~Succeeded(s)
    BY <1>1, <2>1 DEF At, KnownCalm
  <2>3. phone.on # t /\ phone.job # t /\ cancel[t] = "none"
    BY <1>4 DEF Known
  <2> QED
    BY <1>1, <1>3, <1>4, <2>1, <2>2, <2>3 DEF KnownCalm, At, Succeeded
<1> QED
  BY <1>5, <1>6 DEF Keeps

LEMMA NotStartedKeeps ==
  ASSUME TapInv, NEW t \in Sales, NotStarted(t)
  PROVE  Keeps
<1>1. /\ sale[t].pay = "pending" /\ form.at = "creating" /\ form.of = t /\ form' = Ready
      /\ UNCHANGED <<intent, events, cancel, phone, amiss>>
      /\ sale'[t].pay = "failed" /\ sale'[t].row \in {"failed", "canceled"}
      /\ sale'[t].closed /\ sale'[t].minted = sale[t].minted
      /\ \A s \in Sales : s # t => sale'[s] = sale[s]
  BY CloseWrites, FormFacts DEF NotStarted, TapInv, Wrote
<1>2. Known(t) /\ intent[t] = "none"
  BY <1>1 DEF TapInv, Known
<1>3. ASSUME NEW s \in Sales
      PROVE  Known(s)'
  <2>1. Known(s)
    BY DEF TapInv
  <2> QED
    BY <1>1, <1>2, <2>1, FormFacts DEF Known, At, Succeeded
<1>4. ASSUME NEW s \in Sales, CalmTap'
      PROVE  KnownCalm(s)'
  <2>1. KnownCalm(s)
    BY <1>1, <1>4 DEF TapInv, CalmTap, Calm
  <2>2. ~At(s) /\ ~Succeeded(s)
    BY <1>1, <2>1 DEF At, KnownCalm
  <2>3. cancel[t] = "none"
    BY <1>2 DEF Known
  <2> QED
    BY <1>1, <1>2, <2>1, <2>2, <2>3 DEF KnownCalm, At, Succeeded
<1> QED
  BY <1>3, <1>4 DEF Keeps

LEMMA PollKeeps ==
  ASSUME TapInv, NEW t \in Sales, Poll(t)
  PROVE  Keeps
<1>1. /\ form.at = "waiting" /\ form.of = t
      /\ UNCHANGED <<sale, intent, events, cancel, phone, amiss>>
  BY FormFacts DEF Poll
<1>2. \/ HasTickets(t) /\ form'.at = "receipt" /\ form'.of = t
      \/ HasFailed(t) /\ form' = Ready
  <2>1. [form EXCEPT !.at = "receipt"].of = form.of /\ [form EXCEPT !.at = "receipt"].at = "receipt"
    BY FormType DEF TapInv, TapTypeOK
  <2> QED
    BY <1>1, <2>1 DEF Poll
<1>3. form'.of \in {t, NoSale} /\ form'.at # "waiting"
  BY <1>2, FormFacts
<1>4. ASSUME NEW s \in Sales
      PROVE  Known(s)'
  <2>1. Known(s)
    BY DEF TapInv
  <2> QED
    BY <1>1, <1>3, <2>1 DEF Known, At, Succeeded
<1>5. ASSUME NEW s \in Sales, CalmTap'
      PROVE  KnownCalm(s)'
  <2>1. Known(t) /\ KnownCalm(s) /\ KnownCalm(t)
    BY <1>1, <1>5 DEF TapInv, CalmTap, Calm
  <2>2. CASE HasTickets(t) /\ form'.at = "receipt" /\ form'.of = t
    <3>1. Succeeded(t)
      BY <2>1, <2>2 DEF HasTickets, Known
    <3> QED
      BY <1>1, <2>1, <2>2, <3>1 DEF KnownCalm, At, Succeeded
  <2>3. CASE HasFailed(t) /\ form' = Ready
    <3>1. ~Succeeded(t) /\ (intent[t] = "open" => sale[t].pay = "failed")
      BY <2>1, <2>3 DEF HasFailed, KnownCalm
    <3> QED
      BY <1>1, <2>1, <3>1 DEF KnownCalm, At, Succeeded
  <2> QED
    BY <1>2, <2>2, <2>3
<1> QED
  BY <1>4, <1>5 DEF Keeps

LEMMA OpenLinkKeeps ==
  ASSUME TapInv, NEW t \in Sales, OpenLink(t)
  PROVE  Keeps
<1>1. /\ form.at = "waiting" /\ form.of = t
      /\ UNCHANGED <<form, sale, intent, events, cancel, amiss>>
      /\ phone'.on = t /\ phone'.job = phone.job
  <2>1. [phone EXCEPT !.on = t, !.secret = FALSE].on = t
        /\ [phone EXCEPT !.on = t, !.secret = FALSE].job = phone.job
    BY DEF TapInv, TapTypeOK, Phone
  <2> QED
    BY <2>1, FormFacts DEF OpenLink
<1>2. intent[t] # "none"
  BY <1>1 DEF TapInv, Known, At
<1>3. ASSUME NEW s \in Sales
      PROVE  Known(s)' /\ (CalmTap' => KnownCalm(s)')
  BY <1>1, <1>2 DEF TapInv, Known, KnownCalm, At, Succeeded, CalmTap, Calm
<1> QED
  BY <1>3 DEF Keeps

LEMMA LapseKeeps ==
  ASSUME TapInv, NEW t \in Sales, Lapse(t)
  PROVE  Keeps
<1>1. /\ UNCHANGED <<form, intent, events, cancel, phone>> /\ amiss \subseteq amiss'
      /\ \A s \in Sales : /\ sale'[s].pay = sale[s].pay /\ sale'[s].row = sale[s].row
                          /\ sale'[s].closed = sale[s].closed /\ sale'[s].minted = sale[s].minted
  BY LapseWrites, WithType DEF Lapse, TapInv, Wrote
<1>2. CalmTap' => CalmTap
  BY <1>1 DEF CalmTap, Calm
<1>3. ASSUME NEW s \in Sales
      PROVE  Known(s)' /\ (CalmTap' => KnownCalm(s)')
  BY <1>1, <1>2 DEF TapInv, Known, KnownCalm, At, Succeeded
<1> QED
  BY <1>3 DEF Keeps
LEMMA SettleKeeps ==
  ASSUME TapInv, NEW t \in Sales, Settle(t) \/ Mint(t)
  PROVE  Keeps
<1>1. /\ UNCHANGED <<form, intent, cancel, phone, amiss>> /\ events' \subseteq events
      /\ \A s \in Sales : s # t => sale'[s] = sale[s]
      /\ ~sale'[t].closed
  BY SettleWrites, MintWrites DEF Settle, Mint, TapInv, Wrote
<1>2. sale'[t].pay \in {"paid", sale[t].pay}
  BY SettleWrites, MintWrites DEF TapInv
<1>3. Known(t) /\ Succeeded(t)
  BY DEF TapInv, Known, Settle, Mint
<1>4. ASSUME NEW s \in Sales
      PROVE  Known(s)' /\ (CalmTap' => KnownCalm(s)')
  BY <1>1, <1>2, <1>3 DEF TapInv, Known, KnownCalm, At, Succeeded, CalmTap, Calm
<1> QED
  BY <1>4 DEF Keeps

LEMMA UnpaidKeeps ==
  ASSUME TapInv, NEW t \in Sales, NEW kind \in {"failed", "canceled"}, Unpaid(t, kind)
  PROVE  Keeps
<1>1. /\ UNCHANGED <<form, intent, cancel, phone, amiss>> /\ events' \subseteq events
      /\ <<t, kind>> \in events
  BY DEF Unpaid
<1>2. /\ \A s \in Sales : s # t => sale'[s] = sale[s]
      /\ \/ sale' = sale
         \/ /\ ~Over(t) /\ sale'[t].pay = kind /\ sale'[t].row = kind
            /\ sale'[t].closed = sale[t].closed /\ sale'[t].minted = sale[t].minted
  BY UnpaidWrites DEF TapInv, Wrote
<1>3. kind = "canceled" => intent[t] = "canceled"
  BY <1>1 DEF TapInv, Known
<1>4. ASSUME NEW s \in Sales
      PROVE  Known(s)'
  <2>1. Known(s)
    BY DEF TapInv
  <2> QED
    BY <1>1, <1>2, <2>1 DEF Known, At, Succeeded
<1>5. ASSUME NEW s \in Sales, CalmTap'
      PROVE  KnownCalm(s)'
  <2>1. KnownCalm(s) /\ Known(s)
    BY <1>1, <1>5 DEF TapInv, CalmTap, Calm
  <2>2. s = t => ~Succeeded(s)
    BY <1>1, <1>3, <2>1 DEF KnownCalm, Succeeded
  <2>3. CASE sale'[s] = sale[s]
    BY <1>1, <2>1, <2>3 DEF KnownCalm, At, Succeeded
  <2>4. CASE s = t /\ sale'[t].pay = kind /\ sale'[t].closed = sale[t].closed
    BY <1>1, <1>3, <2>1, <2>2, <2>4 DEF KnownCalm, At, Succeeded
  <2> QED
    BY <1>2, <2>3, <2>4
<1> QED
  BY <1>4, <1>5 DEF Keeps

LEMMA CancelKeeps ==
  ASSUME TapInv, NEW t \in Sales, Cancel(t)
  PROVE  Keeps
<1>1. /\ form.at = "waiting" /\ form.of = t /\ amiss \subseteq amiss'
      /\ UNCHANGED <<sale, intent, events, phone>>
      /\ \/ cancel' = [cancel EXCEPT ![t] = "read"] /\ UNCHANGED form
         \/ ~MayCancel(t) /\ form' = Ready /\ UNCHANGED cancel
  BY FormFacts, FaultType DEF Cancel, TapInv, Dropped
<1>2. \A s \in Sales : cancel'[s] # cancel[s] => s = t /\ cancel'[s] = "read"
  BY <1>1 DEF TapInv, TapTypeOK
<1>3. intent[t] # "none"
  BY <1>1 DEF TapInv, Known, At
<1>4. ASSUME CalmTap'
      PROVE  CalmTap /\ form' = form
  <2>1. ~Succeeded(t)
    BY <1>4 DEF Cancel, Fault, With, CalmTap, Calm
  <2>2. MayCancel(t)
    BY <2>1 DEF TapInv, Known, MayCancel
  <2> QED
    BY <1>1, <1>4, <2>2 DEF CalmTap, Calm
<1>5. ASSUME NEW s \in Sales
      PROVE  Known(s)'
  <2>1. Known(s)
    BY DEF TapInv
  <2> QED
    BY <1>1, <1>2, <1>3, <2>1, FormFacts DEF Known, At, Succeeded
<1>6. ASSUME NEW s \in Sales, CalmTap'
      PROVE  KnownCalm(s)'
  <2>1. KnownCalm(s) /\ form' = form
    BY <1>4, <1>6 DEF TapInv
  <2> QED
    BY <1>1, <1>2, <2>1 DEF KnownCalm, At, Succeeded
<1> QED
  BY <1>5, <1>6 DEF Keeps

LEMMA CancelIntentKeeps ==
  ASSUME TapInv, NEW t \in Sales, CancelIntent(t)
  PROVE  Keeps
<1>1. /\ cancel[t] = "read" /\ cancel' = [cancel EXCEPT ![t] = "asked"] /\ amiss \subseteq amiss'
      /\ UNCHANGED <<form, sale, phone>>
  BY FaultType, WithType DEF CancelIntent, TapInv
<1>2. Known(t) /\ intent[t] # "none"
  BY <1>1 DEF TapInv, Known
<1>3. \/ /\ intent[t] = "open" /\ intent' = [intent EXCEPT ![t] = "canceled"]
         /\ events' = events \cup {<<t, "canceled">>}
      \/ UNCHANGED <<intent, events>>
  BY DEF CancelIntent, CloseIntent
<1>4. /\ \A s \in Sales : intent'[s] # intent[s]
                            => s = t /\ intent[s] = "open" /\ intent'[s] = "canceled"
      /\ \A s \in Sales, e \in {"succeeded", "failed"} : <<s, e>> \in events' => <<s, e>> \in events
      /\ \A s \in Sales : <<s, "canceled">> \in events' /\ <<s, "canceled">> \notin events
                            => intent'[s] = "canceled"
  BY <1>3 DEF TapInv, TapTypeOK
<1>5. ASSUME CalmTap'
      PROVE  CalmTap /\ intent'[t] = "canceled"
  <2>1. CalmTap
    BY <1>1, <1>5 DEF CalmTap, Calm
  <2>2. ~With({"outage"})
    BY <1>5 DEF With, CalmTap, Calm
  <2>3. CloseIntent(t) /\ ~Succeeded(t)
    BY <1>5, <2>2 DEF CancelIntent, Fault, With, CalmTap, Calm
  <2>4. intent[t] \in {"open", "canceled"}
    BY <1>2, <2>3 DEF TapInv, TapTypeOK, Succeeded
  <2> QED
    BY <2>1, <2>3, <2>4 DEF CloseIntent, TapInv, TapTypeOK
<1>6. \A s \in Sales : cancel'[s] # cancel[s] => s = t /\ cancel'[s] = "asked"
  BY <1>1 DEF TapInv, TapTypeOK
<1>7. ASSUME NEW s \in Sales
      PROVE  Known(s)'
  <2>1. Known(s)
    BY DEF TapInv
  <2> QED
    BY <1>1, <1>2, <1>4, <1>6, <2>1 DEF Known, At, Succeeded
<1>8. ASSUME NEW s \in Sales, CalmTap'
      PROVE  KnownCalm(s)'
  <2>1. KnownCalm(s)
    BY <1>5, <1>8 DEF TapInv
  <2> QED
    BY <1>1, <1>4, <1>5, <1>6, <1>8, <2>1 DEF KnownCalm, At, Succeeded
<1> QED
  BY <1>7, <1>8 DEF Keeps

LEMMA CancelWriteKeeps ==
  ASSUME TapInv, NEW t \in Sales, CancelWrite(t)
  PROVE  Keeps
<1>1. /\ cancel[t] = "asked" /\ cancel' = [cancel EXCEPT ![t] = "none"]
      /\ form' = Dropped(t)
      /\ UNCHANGED <<intent, events, phone, amiss>>
      /\ sale'[t].pay \in {"failed", "canceled"} /\ sale'[t].row \in {"failed", "canceled"}
      /\ sale'[t].closed /\ sale'[t].minted = sale[t].minted
      /\ \A s \in Sales : s # t => sale'[s] = sale[s]
  BY CloseWrites DEF CancelWrite, TapInv, Wrote
<1>2. \A s \in Sales : cancel'[s] # cancel[s] => s = t /\ cancel'[s] = "none"
  BY <1>1 DEF TapInv, TapTypeOK
<1>3. form' \in {form, Ready} /\ (form' # form => form.of = t)
  BY <1>1 DEF Dropped
<1>4. ASSUME NEW s \in Sales
      PROVE  Known(s)'
  <2>1. Known(s)
    BY DEF TapInv
  <2> QED
    BY <1>1, <1>2, <1>3, <2>1, FormFacts DEF Known, At, Succeeded
<1>5. ASSUME NEW s \in Sales, CalmTap'
      PROVE  KnownCalm(s)'
  <2>1. KnownCalm(s) /\ KnownCalm(t)
    BY <1>1, <1>5 DEF TapInv, CalmTap, Calm
  <2>2. intent[t] = "canceled"
    BY <1>1, <2>1 DEF KnownCalm
  <2>3. CASE s = t
    BY <1>1, <1>2, <2>2, <2>3 DEF KnownCalm, Succeeded
  <2>4. CASE s # t
    <3>1. form.of = s => form' = form
      BY <1>3, <2>4
    <3> QED
      BY <1>1, <1>2, <2>1, <2>4, <3>1 DEF KnownCalm, At, Succeeded
  <2> QED
    BY <2>3, <2>4
<1> QED
  BY <1>4, <1>5 DEF Keeps

LEMMA PhoneKeeps ==
  ASSUME TapInv, Collect \/ Fetched \/ GiveUp
  PROVE  Keeps
<1>1. UNCHANGED <<form, sale, intent, events, cancel, amiss>>
  BY DEF Collect, Fetched, GiveUp
<1>2. phone'.on \in {phone.on, phone.job} /\ phone'.job \in {phone.on, phone.job, NoSale}
  <2>1. phone \in Phone
    BY DEF TapInv, TapTypeOK
  <2>2. CASE Collect
    BY <2>1, <2>2 DEF Collect, Phone
  <2>3. CASE Fetched
    BY <2>1, <2>3 DEF Fetched, Phone
  <2>4. CASE GiveUp
    BY <2>4, DoneType DEF GiveUp, TapInv
  <2> QED
    BY <2>2, <2>3, <2>4
<1>3. ASSUME NEW s \in Sales
      PROVE  Known(s)' /\ (CalmTap' => KnownCalm(s)')
  <2>1. Known(s) /\ (CalmTap => KnownCalm(s)) /\ s # NoSale
    BY FormFacts DEF TapInv
  <2>2. Known(s)'
    BY <1>1, <1>2, <2>1 DEF Known, At, Succeeded
  <2>3. CalmTap => KnownCalm(s)'
    BY <1>1, <1>2, <2>1 DEF KnownCalm, At, Succeeded
  <2> QED
    BY <1>1, <2>2, <2>3 DEF CalmTap, Calm
<1> QED
  BY <1>3 DEF Keeps

LEMMA CardKeeps ==
  ASSUME TapInv, Charge \/ Decline
  PROVE  Keeps
<1> DEFINE t == phone.job
<1>1. /\ t \in Sales /\ intent[t] = "open"
      /\ UNCHANGED <<form, sale, cancel>>
      /\ phone'.on = phone.on /\ phone'.job = NoSale /\ amiss \subseteq amiss'
  BY DoneType, FaultType DEF Charge, Decline, TapInv, TapTypeOK, BusyWithOne, Phone
<1>2. CASE Decline
  <2>1. events' = events \cup {<<t, "failed">>} /\ UNCHANGED <<intent, amiss>>
    BY <1>2 DEF Decline
  <2>2. \A s \in Sales, e \in {"succeeded", "canceled", "failed"} :
          <<s, e>> \in events' => <<s, e>> \in events \/ (s = t /\ e = "failed")
    BY <2>1
  <2> HIDE DEF t
  <2>3. ASSUME NEW s \in Sales
        PROVE  Known(s)' /\ (CalmTap' => KnownCalm(s)')
    <3>1. Known(s) /\ (CalmTap => KnownCalm(s)) /\ s # NoSale
      BY FormFacts DEF TapInv
    <3>2. Known(s)'
      BY <1>1, <2>1, <2>2, <3>1 DEF Known, At, Succeeded
    <3>3. CalmTap => KnownCalm(s)'
      BY <1>1, <2>1, <2>2, <3>1 DEF KnownCalm, At, Succeeded
    <3> QED
      BY <2>1, <3>2, <3>3 DEF CalmTap, Calm
  <2> QED
    BY <2>3 DEF Keeps
<1>3. CASE Charge
  <2>1. /\ events' = events \cup {<<t, "succeeded">>} /\ intent' = [intent EXCEPT ![t] = "succeeded"]
        /\ CalmTap' => sale[t].pay # "failed" /\ <<t, "failed">> \notin events
    BY <1>3 DEF Charge, Fault, With, CalmTap, Calm
  <2>2. \A s \in Sales, e \in {"succeeded", "canceled", "failed"} :
          <<s, e>> \in events' => <<s, e>> \in events \/ (s = t /\ e = "succeeded")
    BY <2>1
  <2>3. intent'[t] = "succeeded" /\ \A s \in Sales : s # t => intent'[s] = intent[s]
    BY <1>1, <2>1 DEF TapInv, TapTypeOK
  <2>4. CalmTap' => CalmTap
    BY <1>1 DEF CalmTap, Calm
  <2>5. phone.job = t
    OBVIOUS
  <2> HIDE DEF t
  <2>6. ASSUME NEW s \in Sales
        PROVE  Known(s)' /\ (CalmTap' => KnownCalm(s)')
    <3>1. Known(s) /\ (CalmTap => KnownCalm(s)) /\ s # NoSale
      BY FormFacts DEF TapInv
    <3>2. Known(s)'
      BY <1>1, <2>2, <2>3, <3>1 DEF Known, At, Succeeded
    <3>3. CASE CalmTap' /\ s # t
      BY <1>1, <2>2, <2>3, <2>4, <3>1, <3>2, <3>3 DEF KnownCalm, At, Succeeded
    <3>4. CASE CalmTap' /\ s = t
      <4>1. KnownCalm(t) /\ sale[t].pay # "failed" /\ <<t, "failed">> \notin events
        BY <2>1, <2>4, <3>1, <3>4
      <4>2. At(t) /\ sale[t].pay # "canceled" /\ cancel[t] # "asked" /\ ~sale[t].closed
        BY <1>1, <2>5, <4>1 DEF KnownCalm
      <4> QED
        BY <1>1, <2>2, <2>3, <3>2, <3>4, <4>1, <4>2 DEF KnownCalm, At, Succeeded
    <3> QED
      BY <3>2, <3>3, <3>4
  <2> QED
    BY <2>6 DEF Keeps
<1> QED
  BY <1>2, <1>3

LEMMA TapInvNext == TapInv /\ [TapNext]_tapVars => TapInv'
<1> SUFFICES ASSUME TapInv, [TapNext]_tapVars PROVE TapInv'
  OBVIOUS
<1>1. TapTypeOK' /\ BusyWithOne'
  BY TapTyped DEF TapInv
<1>2. Keeps
  <2>1. CASE UNCHANGED tapVars
    BY <2>1 DEF tapVars, TapInv, Keeps, Known, KnownCalm, At, Succeeded, CalmTap, Calm
  <2>2. CASE Tapping
    BY <2>2, PhoneKeeps, CardKeeps DEF Tapping
  <2>3. ASSUME NEW s \in Sales, Selling(s) \/ Paying(s) \/ Cancelling(s)
        PROVE  Keeps
    BY <2>3, ConfirmKeeps, StartKeeps, NotStartedKeeps, PollKeeps, OpenLinkKeeps, LapseKeeps,
       SettleKeeps, UnpaidKeeps, CancelKeeps, CancelIntentKeeps, CancelWriteKeeps
       DEF Selling, Paying, Cancelling
  <2> QED
    BY <2>1, <2>2, <2>3 DEF TapNext
<1> QED
  BY <1>1, <1>2 DEF TapInv, Keeps

LEMMA TapInvInit == TapInit => TapInv
<1> SUFFICES ASSUME TapInit PROVE TapInv
  OBVIOUS
<1>1. ASSUME NEW s \in Sales
      PROVE  Known(s) /\ KnownCalm(s)
  BY FormFacts DEF TapInit, Known, KnownCalm, At, Succeeded
<1> QED
  BY <1>1, TapInitTyped DEF TapInv

LEMMA TapInvariant == TapSpec => []TapInv
<1> QED
  BY TapInvInit, TapInvNext, PTL DEF TapSpec

\* The types of every variable of the tap sale, for any number of sales.
THEOREM TapSaleTyped == TapSpec => []TapTypeOK
<1>1. TapInv => TapTypeOK
  BY DEF TapInv
<1> QED
  BY <1>1, TapInvariant, PTL

\* cancelTapSale closes an order whatever it has become since it was read: still,
\* unless Stripe could not be reached, the payment was crossed or the card tried
\* again, a closed order has no ticket and its intent cannot be charged.
THEOREM CancelledWasNotPaid == TapSpec => []CancelledIsUnpaid
<1>1. TapInv => CancelledIsUnpaid
  BY DEF TapInv, Known, KnownCalm, CancelledIsUnpaid, CalmTap, Succeeded
<1> QED
  BY <1>1, TapInvariant, PTL

\* However often the seller starts over and whatever phone, webhook and polling do
\* in between: the form still shows the one sale that was charged, so a second one
\* cannot be.
THEOREM ChargedOnce == TapSpec => []GuestPaysOnce
<1>1. ASSUME TapInv
      PROVE  GuestPaysOnce
  <2> SUFFICES ASSUME CalmTap
               PROVE  Cardinality({s \in Sales : Succeeded(s)}) <= 1
    BY DEF GuestPaysOnce, CalmTap
  <2>1. {s \in Sales : Succeeded(s)} \subseteq {form.of}
    BY <1>1 DEF TapInv, KnownCalm
  <2>2. IsFiniteSet({form.of}) /\ Cardinality({form.of}) = 1
    BY FS_Singleton
  <2> QED
    BY <2>1, <2>2, FS_Subset
<1> QED
  BY <1>1, TapInvariant, PTL

-----------------------------------------------------------------------------
(* Codes and gift cards: types. *)

LEMMA SetType ==
  ASSUME PromoTypeOK, NEW o \in Orders, NEW r \in Order, Set(o, r)
  PROVE  /\ order' \in [Orders -> Order]
         /\ order'[o] = r
         /\ \A p \in Orders : p # o => order'[p] = order[p]
  BY DEF PromoTypeOK, Set

LEMMA NoOrderType == NoOrder \in Order /\ NoOrder.state = "none" /\ ~NoOrder.tickets
  BY DEF NoOrder, Order

\* What one step does to an order: its new state, and the rest is kept.
Moved(o, s) ==
    /\ order' \in [Orders -> Order]
    /\ order'[o].state = s
    /\ order'[o].code = order[o].code /\ order'[o].gift = order[o].gift
    /\ \A p \in Orders : p # o => order'[p] = order[p]

LEMMA PlaceMoves ==
  ASSUME PromoTypeOK, NEW o \in Orders, Place(o)
  PROVE  Moved(o, "pending") /\ order'[o].tickets = order[o].tickets
<1>1. order[o] \in Order /\ order[o].gift \in Nat /\ order[o].code \in BOOLEAN
  BY DEF PromoTypeOK, Order
<1> DEFINE p == Promoted(o)
           r == [order[o] EXCEPT !.state = "pending", !.reserved = p]
<1>2. p \in BOOLEAN
  BY <1>1 DEF Promoted
<1>3. Set(o, r)
  BY DEF Place
<1> HIDE DEF p
<1>4. /\ r \in Order /\ r.state = "pending" /\ r.tickets = order[o].tickets
      /\ r.code = order[o].code /\ r.gift = order[o].gift
  BY <1>1, <1>2, Zenon DEF Order
<1> HIDE DEF r
<1> QED
  BY <1>3, <1>4, SetType DEF Moved

LEMMA PayMoves ==
  ASSUME PromoTypeOK, NEW o \in Orders, Pay(o)
  PROVE  Moved(o, "paid") /\ order'[o].tickets = order[o].tickets
<1>1. order[o] \in Order
  BY DEF PromoTypeOK
<1> DEFINE r == [order[o] EXCEPT !.state = "paid"]
<1>2. Set(o, r)
  BY DEF Pay
<1>3. /\ r \in Order /\ r.state = "paid" /\ r.tickets = order[o].tickets
      /\ r.code = order[o].code /\ r.gift = order[o].gift
  BY <1>1, Zenon DEF Order
<1> HIDE DEF r
<1> QED
  BY <1>2, <1>3, SetType DEF Moved

\* A success that is delivered again takes the flag and leaves the rest.
LEMMA SucceedAgainMoves ==
  ASSUME PromoTypeOK, NEW o \in Orders, SucceedAgain(o)
  PROVE  /\ Moved(o, "paid")
         /\ order'[o].tickets = order[o].tickets /\ order'[o].reason = order[o].reason
         /\ order'[o].reserved = order[o].reserved /\ order'[o].spent = order[o].spent
<1>1. order[o] \in Order
  BY DEF PromoTypeOK
<1> DEFINE r == [order[o] EXCEPT !.state = "paid", !.review = FALSE]
<1>2. Set(o, r)
  BY DEF SucceedAgain
<1>3. /\ r \in Order /\ r.state = "paid" /\ r.tickets = order[o].tickets
      /\ r.reason = order[o].reason /\ r.reserved = order[o].reserved
      /\ r.spent = order[o].spent /\ r.code = order[o].code /\ r.gift = order[o].gift
  BY <1>1, Zenon DEF Order
<1> HIDE DEF r
<1> QED
  BY <1>2, <1>3, SetType DEF Moved

\* What a fulfilment knows of the promotion is kept.
Same(o) ==
    /\ order'[o].reserved = order[o].reserved
    /\ order'[o].review = order[o].review /\ order'[o].reason = order[o].reason

\* Tickets: they were there, or the promotion was reserved, is redeemed now, or staff is
\* told.
LEMMA FulfilMoves ==
  ASSUME PromoTypeOK, NEW o \in Orders, Fulfil(o)
  PROVE  /\ Moved(o, "fulfilled") /\ order'[o].tickets
         /\ \/ order[o].tickets /\ Same(o)
            \/ Promoted(o) => order'[o].reserved \/ (order'[o].review /\ order'[o].reason)
<1>1. /\ order[o] \in Order /\ order[o].gift \in Nat /\ order[o].code \in BOOLEAN
      /\ order[o].reserved \in BOOLEAN
  BY DEF PromoTypeOK, Order
<1> DEFINE yes == TRUE
           a == NeedsReview(o)
           b == CountedFirst(o)
           plain == [order[o] EXCEPT !.state = "fulfilled", !.tickets = yes]
           again == [order[o] EXCEPT !.state = "fulfilled", !.tickets = yes, !.reserved = yes]
           told == [order[o] EXCEPT !.state = "fulfilled", !.tickets = yes, !.review = a,
                                    !.reason = a, !.spent = b]
<1>2. yes \in BOOLEAN /\ yes /\ a \in BOOLEAN /\ b \in BOOLEAN
  BY <1>1 DEF NeedsReview, CountedFirst, Refuses, HasUse, Covers
<1>3. \/ (order[o].tickets \/ ~MustRedeem(o)) /\ Set(o, plain)
      \/ Set(o, again)
      \/ a /\ Set(o, told)
  BY DEF Fulfil, Flagged, NeedsReview
<1> HIDE DEF yes, a, b
<1>4. /\ plain \in Order /\ plain.state = "fulfilled" /\ plain.tickets = yes
      /\ plain.reserved = order[o].reserved /\ plain.review = order[o].review
      /\ plain.reason = order[o].reason /\ plain.code = order[o].code
      /\ plain.gift = order[o].gift
  BY <1>1, <1>2, Zenon DEF Order
<1>5. /\ again \in Order /\ again.state = "fulfilled" /\ again.tickets = yes
      /\ again.reserved = yes /\ again.code = order[o].code /\ again.gift = order[o].gift
  BY <1>1, <1>2, Zenon DEF Order
<1>6. /\ told \in Order /\ told.state = "fulfilled" /\ told.tickets = yes
      /\ told.review = a /\ told.reason = a /\ told.code = order[o].code
      /\ told.gift = order[o].gift
  BY <1>1, <1>2, Zenon DEF Order
<1> HIDE DEF plain, again, told
<1>7. CASE (order[o].tickets \/ ~MustRedeem(o)) /\ Set(o, plain)
  <2>1. Moved(o, "fulfilled") /\ order'[o].tickets /\ Same(o)
    BY <1>2, <1>4, <1>7, SetType DEF Moved, Same
  <2>2. ~MustRedeem(o) /\ Promoted(o) => order'[o].reserved
    BY <2>1 DEF MustRedeem, Same
  <2> QED
    BY <1>7, <2>1, <2>2
<1>8. CASE Set(o, again)
  BY <1>2, <1>5, <1>8, SetType DEF Moved
<1>9. CASE a /\ Set(o, told)
  BY <1>2, <1>6, <1>9, SetType DEF Moved
<1> QED
  BY <1>3, <1>7, <1>8, <1>9

\* Code and card are never overdrawn.
LEMMA ApplyType ==
  ASSUME PromoTypeOK, NEW o \in Orders, Apply(o)
  PROVE  uses' \in Nat /\ card' \in [balance: Nat, expired: BOOLEAN]
<1>1. /\ order[o].gift \in Nat /\ card.balance \in Nat /\ uses \in Nat
      /\ card \in [balance: Nat, expired: BOOLEAN]
  BY DEF PromoTypeOK, Order
<1> DEFINE n == card.balance - order[o].gift
<1>2. n \in Nat
  BY <1>1 DEF Apply, Covers
<1>3. card' = [card EXCEPT !.balance = n] /\ uses' \in {uses, uses + 1}
  BY DEF Apply
<1> HIDE DEF n
<1>4. [card EXCEPT !.balance = n] \in [balance: Nat, expired: BOOLEAN]
  BY <1>1, <1>2, Zenon
<1> QED
  BY <1>1, <1>3, <1>4

LEMMA OrderSteps ==
  ASSUME PromoTypeOK, NEW o \in Orders,
         Place(o) \/ Turn(o) \/ Pay(o) \/ Fulfil(o) \/ SucceedAgain(o)
  PROVE  PromoTypeOK'
<1> USE DEF PromoTypeOK
<1>1. CASE Place(o)
  BY <1>1, ApplyType, PlaceMoves DEF Place, Moved
<1>2. CASE Turn(o)
  BY <1>2, NoOrderType, SetType DEF Turn
<1>3. CASE Pay(o)
  BY <1>3, PayMoves DEF Pay, Moved
<1>4. CASE Fulfil(o)
  <2>1. order' \in [Orders -> Order]
    BY <1>4, FulfilMoves DEF Moved
  <2>2. uses' \in Nat /\ card' \in [balance: Nat, expired: BOOLEAN]
    BY <1>4, ApplyType DEF Fulfil
  <2> QED
    BY <1>4, <2>1, <2>2 DEF Fulfil
<1>5. CASE SucceedAgain(o)
  BY <1>5, SucceedAgainMoves DEF SucceedAgain, Moved
<1> QED
  BY <1>1, <1>2, <1>3, <1>4, <1>5

\* The quote only writes a basket that is not an order yet.
LEMMA PriceMoves ==
  ASSUME PromoTypeOK, NEW o \in Orders, NEW code \in BOOLEAN, NEW gift \in BOOLEAN,
         NEW price \in Worth, Price(o, code, gift, price)
  PROVE  /\ order' \in [Orders -> Order] /\ order'[o].state = "priced"
         /\ order'[o].tickets = order[o].tickets
         /\ \A p \in Orders : p # o => order'[p] = order[p]
<1>1. order[o] \in Order /\ card.balance \in Nat /\ price \in Nat
  BY PromotionsAssumption DEF PromoTypeOK
<1> DEFINE g == IF gift THEN Cheaper(card.balance, price) ELSE 0
           r == [order[o] EXCEPT !.state = "priced", !.code = code, !.gift = g]
<1>2. g \in Nat
  BY <1>1 DEF Cheaper
<1>3. Set(o, r)
  BY DEF Price
<1> HIDE DEF g
<1>4. r \in Order /\ r.state = "priced" /\ r.tickets = order[o].tickets
  BY <1>1, <1>2, Zenon DEF Order
<1> HIDE DEF r
<1> QED
  BY <1>3, <1>4, SetType

\* What a releaser does to itself.
LEMMA DecideMoves ==
  ASSUME PromoTypeOK, NEW w \in Releasers, NEW o \in Orders, NEW cancels \in BOOLEAN,
         Decide(w, o, cancels)
  PROVE  /\ release' \in [Releasers -> Release]
         /\ release'[w].at = "decided" /\ release'[w].of = o
         /\ \A v \in Releasers : v # w => release'[v] = release[v]
<1> DEFINE r == [at |-> "decided", of |-> o, stamp |-> FALSE, cancels |-> cancels]
<1>1. r \in Release /\ r.at = "decided" /\ r.of = o
  BY DEF Release
<1>2. release' = [release EXCEPT ![w] = r]
  BY DEF Decide
<1> HIDE DEF r
<1> QED
  BY <1>1, <1>2 DEF PromoTypeOK

LEMMA ReadMoves ==
  ASSUME PromoTypeOK, NEW w \in Releasers, Read(w)
  PROVE  /\ release' \in [Releasers -> Release]
         /\ release'[w].at = "read" /\ release'[w].of = release[w].of
         /\ \A v \in Releasers : v # w => release'[v] = release[v]
<1>1. release[w] \in Release /\ order[release[w].of].reserved \in BOOLEAN
  BY DEF PromoTypeOK, Release, Order
<1> DEFINE b == order[release[w].of].reserved
           r == [release[w] EXCEPT !.at = "read", !.stamp = b]
<1>2. release' = [release EXCEPT ![w] = r] /\ b \in BOOLEAN
  BY <1>1 DEF Read, PromoTypeOK
<1> HIDE DEF b
<1>3. r \in Release /\ r.at = "read" /\ r.of = release[w].of
  BY <1>1, <1>2, Zenon DEF Release
<1> HIDE DEF r
<1> QED
  BY <1>2, <1>3 DEF PromoTypeOK

LEMMA WriteMoves ==
  ASSUME PromoTypeOK, NEW w \in Releasers, Write(w)
  PROVE  /\ release' \in [Releasers -> Release]
         /\ release'[w].at = "idle"
         /\ \A v \in Releasers : v # w => release'[v] = release[v]
         /\ LET o == release[w].of
            IN  /\ order' \in [Orders -> Order] /\ o \in Orders
                /\ order'[o].state \in {order[o].state, "cancelled"}
                /\ order'[o].tickets = order[o].tickets
                /\ \A p \in Orders : p # o => order'[p] = order[p]
<1>1. release[w] \in Release /\ release[w].of \in Orders
  BY DEF PromoTypeOK, Release
<1> DEFINE o == release[w].of
           k == StillReserved(o, release[w].stamp)
           s == IF release[w].cancels THEN "cancelled" ELSE order[o].state
           q == [order[o] EXCEPT !.reserved = k, !.state = s]
           r == [release[w] EXCEPT !.at = "idle", !.stamp = FALSE, !.cancels = FALSE]
<1>2. release' = [release EXCEPT ![w] = r] /\ Set(o, q) /\ o \in Orders
  BY <1>1 DEF Write, PromoTypeOK
<1>3. r \in Release /\ r.at = "idle"
  BY <1>1, Zenon DEF Release
<1>4. order[o] \in Order
  BY <1>1 DEF PromoTypeOK
<1>5. k \in BOOLEAN
  BY <1>4 DEF StillReserved, Order
<1>6. s \in {order[o].state, "cancelled"}
      /\ s \in {"none", "priced", "pending", "paid", "fulfilled", "cancelled"}
  BY <1>4 DEF Order
<1> HIDE DEF o, k, s
<1>7. q \in Order /\ q.state = s /\ q.tickets = order[o].tickets
  BY <1>4, <1>5, <1>6, Zenon DEF Order
<1> HIDE DEF q, r
<1>8. /\ release' \in [Releasers -> Release] /\ release'[w].at = "idle"
      /\ \A v \in Releasers : v # w => release'[v] = release[v]
  BY <1>2, <1>3 DEF PromoTypeOK
<1>9. /\ order' \in [Orders -> Order] /\ order'[o] = q
      /\ \A p \in Orders : p # o => order'[p] = order[p]
  BY <1>2, <1>7, SetType
<1> QED
  BY <1>2, <1>6, <1>7, <1>8, <1>9 DEF o

LEMMA PromoTyped == PromoTypeOK /\ [PromoNext]_promoVars => PromoTypeOK'
<1> SUFFICES ASSUME PromoTypeOK, [PromoNext]_promoVars PROVE PromoTypeOK'
  OBVIOUS
<1>1. CASE UNCHANGED promoVars
  BY <1>1 DEF promoVars, PromoTypeOK
<1>2. ASSUME NEW o \in Orders, NEW code \in BOOLEAN, NEW gift \in BOOLEAN, NEW price \in Worth,
             Price(o, code, gift, price)
      PROVE  PromoTypeOK'
  BY <1>2, PriceMoves DEF PromoTypeOK, Price
<1>3. ASSUME NEW w \in Releasers, NEW o \in Orders, NEW cancels \in BOOLEAN, Decide(w, o, cancels)
      PROVE  PromoTypeOK'
  BY <1>3, DecideMoves DEF PromoTypeOK, Decide
<1>4. ASSUME NEW w \in Releasers, Read(w)
      PROVE  PromoTypeOK'
  BY <1>4, ReadMoves DEF PromoTypeOK, Read
<1>5. ASSUME NEW w \in Releasers, Write(w)
      PROVE  PromoTypeOK'
  <2> DEFINE o == release[w].of
             n == card.balance + order[o].gift
  <2>1. o \in Orders /\ card \in [balance: Nat, expired: BOOLEAN]
    BY DEF PromoTypeOK, Release
  <2>2. n \in Nat
    BY <2>1 DEF PromoTypeOK, Order
  <2>3. card' \in {card, [card EXCEPT !.balance = n]}
    BY <1>5 DEF Write, Credit
  <2>4. uses' \in {uses, uses - 1} /\ (uses' = uses - 1 => uses > 0 \/ uses' = uses)
    BY <1>5 DEF Write
  <2>5. uses' \in Nat
    BY <2>4 DEF PromoTypeOK
  <2> HIDE DEF n
  <2>6. [card EXCEPT !.balance = n] \in [balance: Nat, expired: BOOLEAN]
    BY <2>1, <2>2, Zenon
  <2> QED
    BY <1>5, <2>1, <2>3, <2>5, <2>6, WriteMoves DEF PromoTypeOK, Write
<1>6. CASE Expire
  <2>1. card \in [balance: Nat, expired: BOOLEAN]
    BY DEF PromoTypeOK
  <2>2. [card EXCEPT !.expired = TRUE] \in [balance: Nat, expired: BOOLEAN]
    BY <2>1, Zenon
  <2> QED
    BY <1>6, <2>2 DEF PromoTypeOK, Expire
<1> QED
  BY <1>1, <1>2, <1>3, <1>4, <1>5, <1>6, OrderSteps DEF PromoNext

LEMMA PromoInitTyped == PromoInit => PromoTypeOK
<1>1. (CHOOSE o \in Orders : TRUE) \in Orders
  BY PromotionsAssumption
<1> QED
  BY <1>1, NoOrderType, PromotionsAssumption DEF PromoInit, PromoTypeOK, Release

-----------------------------------------------------------------------------
(* Reductions.  Without an overlap every releaser at work has a pending     *)
(* order of its own, which has no tickets.                                  *)

AtWork(w) == release[w].at # "idle"

\* An order with tickets: its payment has succeeded, and its promotion is redeemed or
\* staff is told.
Settled(o) ==
    order[o].tickets =>
        /\ order[o].state \in {"paid", "fulfilled"}
        /\ Promoted(o) /\ ~order[o].reserved =>
              order[o].reason /\ (order[o].review \/ "redelivery" \in hitch)

Apart ==
    /\ \A w \in Releasers : AtWork(w) => order[release[w].of].state = "pending"
    /\ \A v, w \in Releasers : AtWork(v) /\ AtWork(w) /\ release[v].of = release[w].of => v = w
    /\ \A o \in Orders : Settled(o)

PromoInv == PromoTypeOK /\ ("overlap" \notin hitch => Apart)

\* A step of an order nobody is at work on.
LEMMA OrderKeepsApart ==
  ASSUME PromoTypeOK, Apart, NEW o \in Orders, UNCHANGED release, hitch \subseteq hitch',
         \A p \in Orders : p # o => order'[p] = order[p],
         Busy(o) => order'[o].state = "pending",
         Settled(o)'
  PROVE  Apart'
<1>1. \A w \in Releasers : release[w].of \in Orders
  BY DEF PromoTypeOK, Release
<1> QED
  BY <1>1 DEF Apart, AtWork, Busy, Settled, Promoted

LEMMA ApartNext == PromoInv /\ [PromoNext]_promoVars /\ "overlap" \notin hitch' => Apart'
<1> SUFFICES ASSUME PromoInv, [PromoNext]_promoVars, "overlap" \notin hitch' PROVE Apart'
  OBVIOUS
<1>1. PromoTypeOK /\ PromoTypeOK'
  BY PromoTyped DEF PromoInv
<1>2. CASE UNCHANGED promoVars
  BY <1>2 DEF promoVars, PromoInv, Apart, AtWork, Settled, Promoted
<1>3. ASSUME NEW o \in Orders, Busy(o), "overlap" \notin hitch
      PROVE  order[o].state = "pending"
  BY <1>3 DEF PromoInv, Apart, AtWork, Busy
<1>12. ASSUME NEW o \in Orders, ~order[o].tickets, order'[o].tickets = order[o].tickets
       PROVE  Settled(o)'
  BY <1>12 DEF Settled
<1>4. ASSUME NEW o \in Orders, NEW code \in BOOLEAN, NEW gift \in BOOLEAN, NEW price \in Worth,
             Price(o, code, gift, price)
      PROVE  Apart'
  <2>1. "overlap" \notin hitch /\ UNCHANGED <<release, hitch>> /\ order[o].state = "none"
    BY <1>4 DEF Price
  <2>2. Apart /\ ~order[o].tickets
    BY <2>1 DEF PromoInv, Apart, Settled
  <2>3. Settled(o)'
    BY <1>1, <1>4, <1>12, <2>2, PriceMoves
  <2> QED
    BY <1>1, <1>3, <1>4, <2>1, <2>2, <2>3, PriceMoves, OrderKeepsApart
<1>5. ASSUME NEW o \in Orders, Place(o) \/ Turn(o)
      PROVE  Apart'
  <2>1. "overlap" \notin hitch /\ UNCHANGED <<release, hitch>> /\ order[o].state = "priced"
    BY <1>5 DEF Place, Turn
  <2>2. Apart /\ ~order[o].tickets
    BY <2>1 DEF PromoInv, Apart, Settled
  <2>3. /\ order'[o].tickets = order[o].tickets \/ ~order'[o].tickets
        /\ \A p \in Orders : p # o => order'[p] = order[p]
    BY <1>1, <1>5, PlaceMoves, NoOrderType, SetType DEF Moved, Turn
  <2>4. Settled(o)'
    BY <1>12, <2>2, <2>3 DEF Settled
  <2> QED
    BY <1>1, <1>3, <2>1, <2>2, <2>3, <2>4, OrderKeepsApart
<1>6. ASSUME NEW o \in Orders, Pay(o)
      PROVE  Apart'
  <2>1. "overlap" \notin hitch /\ UNCHANGED <<release, hitch>> /\ ~Busy(o)
        /\ order[o].state = "pending"
    BY <1>6 DEF Pay
  <2>2. Apart /\ ~order[o].tickets
    BY <2>1 DEF PromoInv, Apart, Settled
  <2>3. /\ order'[o].tickets = order[o].tickets
        /\ \A p \in Orders : p # o => order'[p] = order[p]
    BY <1>1, <1>6, PayMoves DEF Moved
  <2>4. Settled(o)'
    BY <1>12, <2>2, <2>3
  <2> QED
    BY <1>1, <2>1, <2>2, <2>3, <2>4, OrderKeepsApart
<1>7. ASSUME NEW o \in Orders, Fulfil(o)
      PROVE  Apart'
  <2>1. "overlap" \notin hitch /\ UNCHANGED <<release, hitch>> /\ order[o].state = "paid"
    BY <1>7 DEF Fulfil
  <2>2. /\ Moved(o, "fulfilled") /\ order'[o].tickets
        /\ \/ order[o].tickets /\ Same(o)
           \/ Promoted(o) => order'[o].reserved \/ (order'[o].review /\ order'[o].reason)
    BY <1>1, <1>7, FulfilMoves
  <2>3. Apart /\ Settled(o)
    BY <2>1 DEF PromoInv, Apart
  <2>4. Settled(o)'
    BY <2>1, <2>2, <2>3 DEF Settled, Moved, Same, Promoted
  <2> QED
    BY <1>1, <1>3, <2>1, <2>2, <2>3, <2>4, OrderKeepsApart DEF Moved
<1>13. ASSUME NEW o \in Orders, SucceedAgain(o)
       PROVE  Apart'
  <2>1. /\ "overlap" \notin hitch /\ UNCHANGED release /\ order[o].state = "fulfilled"
        /\ hitch \subseteq hitch' /\ "redelivery" \in hitch'
    BY <1>13 DEF SucceedAgain
  <2>2. /\ Moved(o, "paid")
        /\ order'[o].tickets = order[o].tickets /\ order'[o].reason = order[o].reason
        /\ order'[o].reserved = order[o].reserved
    BY <1>1, <1>13, SucceedAgainMoves
  <2>3. Apart /\ Settled(o)
    BY <2>1 DEF PromoInv, Apart
  <2>4. Settled(o)'
    BY <2>1, <2>2, <2>3 DEF Settled, Moved, Promoted
  <2> QED
    BY <1>1, <1>3, <2>1, <2>2, <2>3, <2>4, OrderKeepsApart DEF Moved
<1>8. ASSUME NEW w \in Releasers, NEW o \in Orders, NEW cancels \in BOOLEAN, Decide(w, o, cancels)
      PROVE  Apart'
  <2>1. /\ "overlap" \notin hitch /\ UNCHANGED <<order, hitch>> /\ ~Busy(o)
        /\ order[o].state = "pending"
    BY <1>8 DEF Decide
  <2>2. /\ release'[w].at = "decided" /\ release'[w].of = o
        /\ \A v \in Releasers : v # w => release'[v] = release[v]
    BY <1>1, <1>8, DecideMoves
  <2>3. Apart
    BY <2>1 DEF PromoInv
  <2> QED
    BY <2>1, <2>2, <2>3 DEF Apart, AtWork, Busy, Settled, Promoted
<1>9. ASSUME NEW w \in Releasers, Read(w)
      PROVE  Apart'
  <2>1. "overlap" \notin hitch /\ UNCHANGED <<order, hitch>> /\ release[w].at = "decided"
    BY <1>9 DEF Read
  <2>2. /\ release'[w].of = release[w].of
        /\ \A v \in Releasers : v # w => release'[v] = release[v]
    BY <1>1, <1>9, ReadMoves
  <2>3. Apart
    BY <2>1 DEF PromoInv
  <2> QED
    BY <2>1, <2>2, <2>3 DEF Apart, AtWork, Settled, Promoted
<1>10. ASSUME NEW w \in Releasers, Write(w)
       PROVE  Apart'
  <2> DEFINE o == release[w].of
  <2>1. "overlap" \notin hitch /\ UNCHANGED hitch /\ release[w].at = "read"
    BY <1>10 DEF Write
  <2>2. /\ o \in Orders /\ release'[w].at = "idle"
        /\ \A v \in Releasers : v # w => release'[v] = release[v]
        /\ order'[o].tickets = order[o].tickets
        /\ \A p \in Orders : p # o => order'[p] = order[p]
    BY <1>1, <1>10, WriteMoves
  <2>3. Apart /\ order[o].state = "pending" /\ ~order[o].tickets
    BY <2>1, <2>2 DEF PromoInv, Apart, AtWork, Settled
  <2>4. \A v \in Releasers : v # w /\ AtWork(v) => release[v].of # o /\ release[v].of \in Orders
    BY <1>1, <2>1, <2>3 DEF Apart, AtWork, PromoTypeOK, Release
  <2>5. \A p \in Orders : Settled(p)'
    BY <1>12, <2>1, <2>2, <2>3 DEF Apart, Settled, Promoted
  <2> HIDE DEF o
  <2> QED
    BY <2>2, <2>3, <2>4, <2>5 DEF Apart, AtWork
<1>11. CASE Expire
  <2>1. "overlap" \notin hitch /\ UNCHANGED <<order, release, hitch>>
    BY <1>11 DEF Expire
  <2> QED
    BY <2>1 DEF PromoInv, Apart, AtWork, Settled, Promoted
<1> QED
  BY <1>2, <1>4, <1>5, <1>6, <1>7, <1>8, <1>9, <1>10, <1>11, <1>13 DEF PromoNext

LEMMA PromoInvInit == PromoInit => PromoInv
<1> SUFFICES ASSUME PromoInit PROVE PromoInv
  OBVIOUS
<1>1. Apart
  BY NoOrderType DEF PromoInit, Apart, AtWork, Settled
<1> QED
  BY <1>1, PromoInitTyped DEF PromoInv

LEMMA PromoInvariant == PromoSpec => []PromoInv
<1>1. PromoInv /\ [PromoNext]_promoVars => PromoInv'
  BY PromoTyped, ApartNext DEF PromoInv
<1> QED
  BY <1>1, PromoInvInit, PTL DEF PromoSpec

\* The types, among them that neither the counter of the code nor the balance of the
\* card ever falls below zero, whatever crosses what.
THEOREM PromotionsTyped == PromoSpec => []PromoTypeOK
<1>1. PromoInv => PromoTypeOK
  BY DEF PromoInv
<1> QED
  BY <1>1, PromoInvariant, PTL

\* releaseOrderHolds gives a promotion back while its order is pending, and the
\* order may be paid later: fulfillPaidOrder then redeems it again or flags the
\* order for review, so that no reduction is free.  A success delivered again may take
\* the flag, never the reason.
THEOREM NoFreeReduction == PromoSpec => []ReducedIsRedeemed
<1>1. PromoInv => ReducedIsRedeemed
  BY DEF PromoInv, Apart, Settled, ReducedIsRedeemed
<1> QED
  BY <1>1, PromoInvariant, PTL

-----------------------------------------------------------------------------
(* The books of code and card.  An order stands for the uses and the cents  *)
(* that it has; a step changes those of one order, and code or card by as   *)
(* much.                                                                    *)

UsesIn(r) == (IF r.reserved /\ r.code THEN 1 ELSE 0) + (IF r.spent THEN 1 ELSE 0)

CentsIn(r) == IF r.reserved THEN r.gift ELSE 0

Ledger ==
    /\ uses = SumFunction([o \in Orders |-> UsesIn(order[o])])
    /\ card.balance + SumFunction([o \in Orders |-> CentsIn(order[o])]) = CardCents

\* A basket has nothing reserved, only an order with tickets has a code that was counted
\* and not redeemed, and what a releaser has read of its order is still so.
Marks ==
    /\ \A o \in Orders : order[o].state \in {"none", "priced"} => ~order[o].reserved
    /\ \A o \in Orders : order[o].spent =>
          order[o].tickets /\ order[o].state \in {"paid", "fulfilled"}
    /\ \A w \in Releasers : release[w].at = "read" =>
          (release[w].stamp <=> order[release[w].of].reserved)

LedgerInv == PromoInv /\ ("overlap" \notin hitch => Ledger /\ Marks)

Booked(o) ==
    /\ \A p \in Orders : p # o => order'[p] = order[p]
    /\ uses' + UsesIn(order[o]) = uses + UsesIn(order'[o])
    /\ card'.balance + CentsIn(order'[o]) = card.balance + CentsIn(order[o])

LEMMA InOrders ==
  ASSUME PromoTypeOK
  PROVE  \A o \in Orders : UsesIn(order[o]) \in Nat /\ CentsIn(order[o]) \in Nat
  BY DEF PromoTypeOK, Order, UsesIn, CentsIn

\* What code and card have, an order has less.
LEMMA BookedKeeps ==
  ASSUME PromoTypeOK, PromoTypeOK', Ledger, NEW o \in Orders, Booked(o)
  PROVE  Ledger'
<1> DEFINE u == [p \in Orders |-> UsesIn(order[p])]
           v == [p \in Orders |-> UsesIn(order'[p])]
           c == [p \in Orders |-> CentsIn(order[p])]
           d == [p \in Orders |-> CentsIn(order'[p])]
<1>1. /\ u \in [Orders -> Int] /\ v \in [Orders -> Int]
      /\ c \in [Orders -> Int] /\ d \in [Orders -> Int]
  <2>1. \A p \in Orders : UsesIn(order'[p]) \in Nat /\ CentsIn(order'[p]) \in Nat
    BY DEF PromoTypeOK, Order, UsesIn, CentsIn
  <2> QED
    BY <2>1, InOrders
<1>2. \A p \in Orders : p # o => v[p] = u[p] /\ d[p] = c[p]
  BY DEF Booked
<1>3. /\ uses' + u[o] = uses + v[o] /\ card'.balance + d[o] = card.balance + c[o]
  BY DEF Booked
<1>4. /\ uses \in Int /\ uses' \in Int /\ card.balance \in Int /\ card'.balance \in Int
  BY DEF PromoTypeOK
<1>5. /\ uses = SumFunction(u) /\ card.balance + SumFunction(c) = CardCents
  BY DEF Ledger
<1>6. /\ u[o] \in Int /\ v[o] \in Int /\ c[o] \in Int /\ d[o] \in Int
  BY <1>1
<1> HIDE DEF u, v, c, d
<1>7. /\ SumFunction(v) = SumFunction(u) - u[o] + v[o]
      /\ SumFunction(d) = SumFunction(c) - c[o] + d[o]
  BY <1>1, <1>2, SumChange, PromotionsAssumption
<1>8. /\ SumFunction(u) \in Int /\ SumFunction(c) \in Int
  BY <1>1, SumInt, PromotionsAssumption
<1>9. uses' = SumFunction(v) /\ card'.balance + SumFunction(d) = CardCents
  BY <1>3, <1>4, <1>5, <1>6, <1>7, <1>8
<1> QED
  BY <1>9 DEF Ledger, v, d

\* A reservation or a redemption that gets through.
LEMMA ApplyBooks ==
  ASSUME PromoTypeOK, NEW o \in Orders, Apply(o), ~order[o].reserved,
         \A p \in Orders : p # o => order'[p] = order[p],
         order'[o].code = order[o].code, order'[o].gift = order[o].gift,
         order'[o].spent = order[o].spent, order'[o].reserved <=> Promoted(o)
  PROVE  Booked(o)
<1>1. /\ order[o].gift \in Nat /\ order[o].code \in BOOLEAN /\ uses \in Nat
      /\ order[o].spent \in BOOLEAN /\ card \in [balance: Nat, expired: BOOLEAN]
  BY DEF PromoTypeOK, Order
<1> DEFINE n == card.balance - order[o].gift
<1>2. card' = [card EXCEPT !.balance = n] /\ n \in Int
  BY <1>1 DEF Apply
<1>3. uses' = IF order[o].code THEN uses + 1 ELSE uses
  BY DEF Apply
<1> HIDE DEF n
<1>4. card'.balance = n
  BY <1>1, <1>2
<1>5. uses' + UsesIn(order[o]) = uses + UsesIn(order'[o])
  BY <1>1, <1>3 DEF UsesIn, Promoted
<1>6. card'.balance + CentsIn(order'[o]) = card.balance + CentsIn(order[o])
  BY <1>1, <1>4 DEF CentsIn, Promoted, n
<1> QED
  BY <1>5, <1>6 DEF Booked

\* The marks, after a step of an order nobody is at work on.
LEMMA OrderKeepsMarks ==
  ASSUME PromoTypeOK, Marks, NEW o \in Orders, UNCHANGED release, ~Busy(o),
         \A p \in Orders : p # o => order'[p] = order[p],
         order'[o].state \in {"none", "priced"} => ~order'[o].reserved,
         order'[o].spent => order'[o].tickets /\ order'[o].state \in {"paid", "fulfilled"}
  PROVE  Marks'
<1>1. \A w \in Releasers : release[w].of \in Orders
  BY DEF PromoTypeOK, Release
<1> QED
  BY <1>1 DEF Marks, Busy

\* Neither code nor card is touched.
LEMMA StillBooks ==
  ASSUME PromoTypeOK, NEW o \in Orders, UNCHANGED <<uses, card>>,
         \A p \in Orders : p # o => order'[p] = order[p],
         order'[o].spent <=> order[o].spent, order'[o].reserved <=> order[o].reserved,
         order[o].reserved => order'[o].code = order[o].code /\ order'[o].gift = order[o].gift
  PROVE  Booked(o)
<1>1. uses \in Nat /\ card.balance \in Nat
  BY DEF PromoTypeOK
<1> QED
  BY <1>1 DEF Booked, UsesIn, CentsIn

LEMMA PriceBooks ==
  ASSUME PromoTypeOK, Marks, NEW o \in Orders, NEW code \in BOOLEAN, NEW gift \in BOOLEAN,
         NEW price \in Worth, Price(o, code, gift, price), ~Busy(o)
  PROVE  Booked(o) /\ Marks'
<1>1. order[o] \in Order /\ card.balance \in Nat /\ price \in Nat
  BY PromotionsAssumption DEF PromoTypeOK
<1>2. ~order[o].reserved /\ ~order[o].spent /\ UNCHANGED <<uses, card, release>>
  BY DEF Price, Marks
<1> DEFINE g == IF gift THEN Cheaper(card.balance, price) ELSE 0
           s == "priced"
           r == [order[o] EXCEPT !.state = s, !.code = code, !.gift = g]
<1>3. g \in Nat /\ Set(o, r) /\ s = "priced"
  BY <1>1 DEF Cheaper, Price
<1> HIDE DEF g, s
<1>4. r \in Order /\ r.state = s /\ r.reserved = order[o].reserved /\ r.spent = order[o].spent
  BY <1>1, <1>3, Zenon DEF Order
<1> HIDE DEF r
<1>5. /\ order'[o].state = "priced" /\ (order'[o].reserved <=> order[o].reserved)
      /\ (order'[o].spent <=> order[o].spent)
      /\ \A p \in Orders : p # o => order'[p] = order[p]
  BY <1>3, <1>4, SetType
<1> QED
  BY <1>2, <1>5, StillBooks, OrderKeepsMarks

LEMMA PlaceBooks ==
  ASSUME PromoTypeOK, Marks, NEW o \in Orders, Place(o), ~Busy(o)
  PROVE  Booked(o) /\ Marks'
<1>1. /\ order[o] \in Order /\ order[o].gift \in Nat /\ order[o].code \in BOOLEAN
      /\ ~order[o].reserved /\ ~order[o].spent /\ Apply(o) /\ UNCHANGED release
  BY DEF PromoTypeOK, Order, Place, Marks
<1> DEFINE p == Promoted(o)
           s == "pending"
           r == [order[o] EXCEPT !.state = s, !.reserved = p]
<1>2. p \in BOOLEAN /\ Set(o, r) /\ s = "pending" /\ s \in {"pending"}
  BY <1>1 DEF Promoted, Place
<1> HIDE DEF p, s
<1>3. /\ r \in Order /\ r.state = s /\ r.reserved = p /\ r.spent = order[o].spent
      /\ r.code = order[o].code /\ r.gift = order[o].gift
  BY <1>1, <1>2, Zenon DEF Order
<1> HIDE DEF r
<1>4. /\ order'[o].state = "pending" /\ order'[o].reserved = p
      /\ order'[o].spent = order[o].spent
      /\ order'[o].code = order[o].code /\ order'[o].gift = order[o].gift
      /\ \A q \in Orders : q # o => order'[q] = order[q]
  BY <1>2, <1>3, SetType
<1>5. Booked(o)
  BY <1>1, <1>4, ApplyBooks DEF p
<1>6. ~order'[o].spent
  BY <1>1, <1>4
<1>7. Marks'
  BY <1>1, <1>4, <1>6, OrderKeepsMarks
<1> QED
  BY <1>5, <1>7

LEMMA TurnBooks ==
  ASSUME PromoTypeOK, Marks, NEW o \in Orders, Turn(o), ~Busy(o)
  PROVE  Booked(o) /\ Marks'
<1>1. ~order[o].reserved /\ ~order[o].spent /\ UNCHANGED <<uses, card, release>>
  BY DEF Turn, Marks
<1>2. Set(o, NoOrder) /\ NoOrder \in Order /\ ~NoOrder.reserved /\ ~NoOrder.spent
  BY NoOrderType DEF Turn, NoOrder
<1>3. order'[o] = NoOrder /\ \A p \in Orders : p # o => order'[p] = order[p]
  BY <1>2, SetType
<1> QED
  BY <1>1, <1>2, <1>3, StillBooks, OrderKeepsMarks

LEMMA PayBooks ==
  ASSUME PromoTypeOK, Marks, NEW o \in Orders, Pay(o), ~Busy(o)
  PROVE  Booked(o) /\ Marks'
<1>1. /\ order[o] \in Order /\ order[o].state = "pending"
      /\ UNCHANGED <<uses, card, release>>
  BY DEF PromoTypeOK, Pay
<1> DEFINE s == "paid"
           r == [order[o] EXCEPT !.state = s]
<1>2. Set(o, r) /\ s = "paid" /\ s \in {"paid"}
  BY DEF Pay
<1> HIDE DEF s
<1>3. /\ r \in Order /\ r.state = s /\ r.reserved = order[o].reserved
      /\ r.spent = order[o].spent /\ r.code = order[o].code /\ r.gift = order[o].gift
  BY <1>1, <1>2, Zenon DEF Order
<1> HIDE DEF r
<1>4. /\ order'[o].state = "paid" /\ (order'[o].reserved <=> order[o].reserved)
      /\ (order'[o].spent <=> order[o].spent)
      /\ order'[o].code = order[o].code /\ order'[o].gift = order[o].gift
      /\ \A q \in Orders : q # o => order'[q] = order[q]
  BY <1>2, <1>3, SetType
<1>5. ~order[o].spent
  BY <1>1 DEF Marks
<1> QED
  BY <1>1, <1>4, <1>5, StillBooks, OrderKeepsMarks

\* Tickets: nothing is left to redeem, it is redeemed, or only the code was counted.
LEMMA FulfilBooks ==
  ASSUME PromoTypeOK, Marks, NEW o \in Orders, Fulfil(o), ~Busy(o)
  PROVE  Booked(o) /\ Marks'
<1>1. /\ order[o] \in Order /\ order[o].gift \in Nat /\ order[o].code \in BOOLEAN
      /\ order[o].reserved \in BOOLEAN /\ order[o].review \in BOOLEAN
      /\ order[o].spent \in BOOLEAN /\ UNCHANGED release
      /\ (~order[o].tickets => ~order[o].spent)
  BY DEF PromoTypeOK, Order, Fulfil, Marks
<1> DEFINE s == "fulfilled"
           yes == TRUE
           a == NeedsReview(o)
           b == CountedFirst(o)
           fresh == ~order[o].tickets /\ MustRedeem(o)
           plain == [order[o] EXCEPT !.state = s, !.tickets = yes]
           again == [order[o] EXCEPT !.state = s, !.tickets = yes, !.reserved = yes]
           told == [order[o] EXCEPT !.state = s, !.tickets = yes, !.review = a,
                                    !.reason = a, !.spent = b]
<1>2. /\ a \in BOOLEAN /\ b \in BOOLEAN /\ s = "fulfilled" /\ s \in {"fulfilled"}
      /\ yes \in BOOLEAN /\ yes
  BY <1>1 DEF NeedsReview, CountedFirst, Refuses, HasUse, Covers
<1>3. \/ Set(o, plain) /\ UNCHANGED <<uses, card>>
      \/ fresh /\ Apply(o) /\ Set(o, again)
      \/ /\ fresh /\ Set(o, told) /\ UNCHANGED card
         /\ uses' = IF b THEN uses + 1 ELSE uses
  BY DEF Fulfil, Flagged
<1>12. fresh => ~order[o].spent /\ ~order[o].reserved /\ Promoted(o)
  BY <1>1 DEF MustRedeem
<1> HIDE DEF s, yes, a, b, fresh
<1>4. /\ plain \in Order /\ plain.state = s /\ plain.tickets = yes
      /\ plain.reserved = order[o].reserved /\ plain.spent = order[o].spent
      /\ plain.code = order[o].code /\ plain.gift = order[o].gift
  BY <1>1, <1>2, Zenon DEF Order
<1>5. /\ again \in Order /\ again.state = s /\ again.tickets = yes /\ again.reserved = yes
      /\ again.spent = order[o].spent /\ again.code = order[o].code /\ again.gift = order[o].gift
  BY <1>1, <1>2, Zenon DEF Order
<1>6. /\ told \in Order /\ told.state = s /\ told.tickets = yes
      /\ told.reserved = order[o].reserved
      /\ told.spent = b /\ told.code = order[o].code /\ told.gift = order[o].gift
  BY <1>1, <1>2, Zenon DEF Order
<1> HIDE DEF plain, again, told
<1>7. /\ order'[o].state = "fulfilled" /\ order'[o].tickets
      /\ \A q \in Orders : q # o => order'[q] = order[q]
  BY <1>2, <1>3, <1>4, <1>5, <1>6, SetType
<1>8. Marks'
  BY <1>1, <1>7, OrderKeepsMarks
<1>9. CASE Set(o, plain) /\ UNCHANGED <<uses, card>>
  <2>1. order'[o] = plain
    BY <1>4, <1>9, SetType
  <2> QED
    BY <1>4, <1>7, <1>8, <1>9, <2>1, StillBooks
<1>10. CASE fresh /\ Apply(o) /\ Set(o, again)
  <2>1. order'[o] = again
    BY <1>5, <1>10, SetType
  <2>2. ~order[o].reserved /\ Promoted(o) /\ order'[o].reserved
    BY <1>2, <1>5, <1>10, <1>12, <2>1
  <2> QED
    BY <1>5, <1>7, <1>8, <1>10, <2>1, <2>2, ApplyBooks
<1>11. CASE /\ fresh /\ Set(o, told) /\ UNCHANGED card
            /\ uses' = IF b THEN uses + 1 ELSE uses
  <2>1. order'[o] = told
    BY <1>6, <1>11, SetType
  <2>2. /\ ~order[o].reserved /\ ~order'[o].reserved /\ ~order[o].spent
        /\ order'[o].spent = b
    BY <1>6, <1>11, <1>12, <2>1
  <2>3. uses \in Nat /\ card.balance \in Nat /\ card' = card
    BY <1>11 DEF PromoTypeOK
  <2>4. uses' + UsesIn(order[o]) = uses + UsesIn(order'[o])
    BY <1>1, <1>2, <1>11, <2>2, <2>3 DEF UsesIn
  <2>5. card'.balance + CentsIn(order'[o]) = card.balance + CentsIn(order[o])
    BY <2>2, <2>3 DEF CentsIn
  <2> QED
    BY <1>7, <1>8, <2>4, <2>5 DEF Booked
<1> QED
  BY <1>3, <1>9, <1>10, <1>11

\* A success delivered again finds the books as they are.
LEMMA SucceedAgainBooks ==
  ASSUME PromoTypeOK, Marks, NEW o \in Orders, SucceedAgain(o), ~Busy(o)
  PROVE  Booked(o) /\ Marks'
<1>1. UNCHANGED <<uses, card, release>>
  BY DEF SucceedAgain
<1>2. /\ Moved(o, "paid") /\ order'[o].tickets = order[o].tickets
      /\ order'[o].reserved = order[o].reserved /\ order'[o].spent = order[o].spent
  BY SucceedAgainMoves
<1>3. Booked(o)
  BY <1>1, <1>2, StillBooks DEF Moved
<1>4. order'[o].spent => order'[o].tickets /\ order'[o].state \in {"paid", "fulfilled"}
  BY <1>2 DEF Marks, Moved
<1>5. order'[o].state = "paid" /\ \A p \in Orders : p # o => order'[p] = order[p]
  BY <1>2 DEF Moved
<1>6. Marks'
  BY <1>1, <1>4, <1>5, OrderKeepsMarks
<1> QED
  BY <1>3, <1>6

\* What a release has read is still so when it writes.
LEMMA WriteBooks ==
  ASSUME PromoTypeOK, Marks, Apart, Ledger, NEW w \in Releasers, Write(w)
  PROVE  Booked(release[w].of) /\ Marks'
<1> DEFINE o == release[w].of
           stamp == release[w].stamp
           k == StillReserved(o, stamp)
           s == IF release[w].cancels THEN "cancelled" ELSE order[o].state
           q == [order[o] EXCEPT !.reserved = k, !.state = s]
           n == card.balance + order[o].gift
<1>1. /\ o \in Orders /\ order[o] \in Order /\ order[o].gift \in Nat
      /\ order[o].code \in BOOLEAN /\ order[o].reserved \in BOOLEAN
      /\ order[o].spent \in BOOLEAN /\ stamp \in BOOLEAN
      /\ card \in [balance: Nat, expired: BOOLEAN] /\ uses \in Nat
  BY DEF PromoTypeOK, Release, Order
<1>2. release[w].at = "read" /\ order[o].state = "pending"
  BY DEF Write, Apart, AtWork
<1>3. (stamp <=> order[o].reserved) /\ ~order[o].spent
  BY <1>1, <1>2 DEF Marks
<1>4. ~k /\ k \in BOOLEAN /\ s \in {"pending", "cancelled"}
  BY <1>1, <1>2, <1>3 DEF StillReserved
<1>5. Set(o, q)
  BY DEF Write
<1>6. /\ uses' = IF stamp /\ order[o].code /\ uses > 0 THEN uses - 1 ELSE uses
      /\ card' = IF stamp THEN [card EXCEPT !.balance = n] ELSE card
  BY DEF Write, Credit
<1>7. release[w].at # "idle" /\ release' = [release EXCEPT ![w] =
            [release[w] EXCEPT !.at = "idle", !.stamp = FALSE, !.cancels = FALSE]]
  BY <1>2, <1>1 DEF Write
<1>8. n \in Nat
  BY <1>1
<1> HIDE DEF o, stamp, k, s, n
<1>9. /\ q \in Order /\ q.reserved = k /\ q.state = s /\ q.spent = order[o].spent
      /\ q.code = order[o].code /\ q.gift = order[o].gift
  BY <1>1, <1>4, Zenon DEF Order
<1> HIDE DEF q
<1>10. /\ order'[o] = q /\ \A p \in Orders : p # o => order'[p] = order[p]
  BY <1>1, <1>5, <1>9, SetType
<1>11. order[o].reserved /\ order[o].code => uses > 0
  <2> DEFINE u == [p \in Orders |-> UsesIn(order[p])]
             v == [p \in Orders \ {o} |-> UsesIn(order[p])]
  <2>1. /\ u \in [Orders -> Int] /\ v \in [Orders \ {o} -> Nat] /\ v \in [Orders \ {o} -> Int]
        /\ \A p \in Orders \ {o} : v[p] = u[p]
    BY InOrders
  <2>2. IsFiniteSet(Orders \ {o}) /\ IsFiniteSet(Orders)
    BY PromotionsAssumption, FS_RemoveElement
  <2>3. uses = SumFunction(u) /\ u[o] = UsesIn(order[o])
    BY <1>1 DEF Ledger
  <2> HIDE DEF u, v
  <2>4. SumFunction(u) = u[o] + SumFunction(v)
    BY <1>1, <2>1, <2>2, SumTakeOut
  <2>5. SumFunction(v) \in Nat
    BY <2>1, <2>2, SumNat
  <2>6. /\ UsesIn(order[o]) \in Nat
        /\ order[o].reserved /\ order[o].code => UsesIn(order[o]) >= 1
    BY <1>1 DEF UsesIn
  <2> QED
    BY <1>1, <2>3, <2>4, <2>5, <2>6
<1>12. uses' + UsesIn(order[o]) = uses + UsesIn(order'[o])
  BY <1>1, <1>3, <1>4, <1>6, <1>9, <1>10, <1>11 DEF UsesIn
<1>13. card'.balance = IF stamp THEN n ELSE card.balance
  BY <1>1, <1>6
<1>14. card'.balance + CentsIn(order'[o]) = card.balance + CentsIn(order[o])
  BY <1>1, <1>3, <1>4, <1>9, <1>10, <1>13 DEF CentsIn, n
<1>15. Booked(o)
  BY <1>10, <1>12, <1>14 DEF Booked
<1>16. /\ order'[o].state \notin {"none", "priced"} /\ ~order'[o].spent
  BY <1>3, <1>4, <1>9, <1>10
<1>17. /\ release'[w].at = "idle" /\ \A v \in Releasers : v # w => release'[v] = release[v]
  BY WriteMoves
<1>18. ASSUME NEW v \in Releasers, v # w, release[v].at = "read"
       PROVE  release[v].of # o /\ release[v].of \in Orders
  BY <1>2, <1>18 DEF Apart, AtWork, o, PromoTypeOK, Release
<1>19. \A v \in Releasers : release'[v].at = "read" =>
          (release'[v].stamp <=> order'[release'[v].of].reserved)
  BY <1>10, <1>17, <1>18 DEF Marks
<1>20. Marks'
  BY <1>10, <1>16, <1>19 DEF Marks
<1> QED
  BY <1>15, <1>20 DEF o

LEMMA LedgerNext == LedgerInv /\ [PromoNext]_promoVars => LedgerInv'
<1> SUFFICES ASSUME LedgerInv, [PromoNext]_promoVars PROVE LedgerInv'
  OBVIOUS
<1>1. PromoInv /\ PromoInv' /\ PromoTypeOK /\ PromoTypeOK'
  BY PromoTyped, ApartNext DEF LedgerInv, PromoInv
<1> SUFFICES ASSUME "overlap" \notin hitch' PROVE Ledger' /\ Marks'
  BY <1>1 DEF LedgerInv
<1>2. "overlap" \notin hitch
  BY DEF PromoNext, Price, Place, Turn, Pay, Fulfil, SucceedAgain, Decide, Read, Write, Expire,
         promoVars
<1>3. Apart /\ Ledger /\ Marks
  BY <1>1, <1>2 DEF LedgerInv, PromoInv
<1>4. ASSUME NEW o \in Orders, order[o].state # "pending"
      PROVE  ~Busy(o)
  BY <1>3, <1>4 DEF Apart, AtWork, Busy
<1>5. CASE UNCHANGED promoVars
  BY <1>3, <1>5 DEF promoVars, Ledger, Marks
<1>6. ASSUME NEW o \in Orders, NEW code \in BOOLEAN, NEW gift \in BOOLEAN, NEW price \in Worth,
             Price(o, code, gift, price)
      PROVE  Ledger' /\ Marks'
  <2>1. ~Busy(o)
    BY <1>4, <1>6 DEF Price
  <2> QED
    BY <1>1, <1>3, <1>6, <2>1, PriceBooks, BookedKeeps
<1>7. ASSUME NEW o \in Orders,
             Place(o) \/ Turn(o) \/ Pay(o) \/ Fulfil(o) \/ SucceedAgain(o)
      PROVE  Ledger' /\ Marks'
  <2>1. ~Busy(o)
    BY <1>4, <1>7 DEF Place, Turn, Pay, Fulfil, SucceedAgain
  <2> QED
    BY <1>1, <1>3, <1>7, <2>1, PlaceBooks, TurnBooks, PayBooks, FulfilBooks,
       SucceedAgainBooks, BookedKeeps
<1>8. ASSUME NEW w \in Releasers, NEW o \in Orders, NEW cancels \in BOOLEAN, Decide(w, o, cancels)
      PROVE  Ledger' /\ Marks'
  <2>1. /\ release'[w].at = "decided" /\ \A v \in Releasers : v # w => release'[v] = release[v]
        /\ UNCHANGED <<uses, card, order>>
    BY <1>1, <1>8, DecideMoves DEF Decide
  <2> QED
    BY <1>3, <2>1 DEF Ledger, Marks
<1>9. ASSUME NEW w \in Releasers, Read(w)
      PROVE  Ledger' /\ Marks'
  <2> DEFINE b == order[release[w].of].reserved
             begun == "read"
  <2>1. release[w] \in Release /\ b \in BOOLEAN /\ begun = "read"
    BY <1>1 DEF PromoTypeOK, Release, Order
  <2>2. release' = [release EXCEPT ![w] = [release[w] EXCEPT !.at = begun, !.stamp = b]]
    BY <1>9 DEF Read
  <2>3. UNCHANGED <<uses, card, order>>
    BY <1>9 DEF Read
  <2> HIDE DEF b, begun
  <2>4. [release[w] EXCEPT !.at = begun, !.stamp = b].stamp = b
    BY <2>1, Zenon DEF Release
  <2>5. release'[w].stamp = b /\ release'[w].of = release[w].of
        /\ \A v \in Releasers : v # w => release'[v] = release[v]
    BY <1>1, <1>9, <2>2, <2>4, ReadMoves DEF PromoTypeOK
  <2> QED
    BY <1>3, <2>3, <2>5 DEF Ledger, Marks, b
<1>10. ASSUME NEW w \in Releasers, Write(w)
       PROVE  Ledger' /\ Marks'
  <2>1. release[w].of \in Orders
    BY <1>1 DEF PromoTypeOK, Release
  <2> QED
    BY <1>1, <1>3, <1>10, <2>1, WriteBooks, BookedKeeps
<1>11. CASE Expire
  <2>1. card \in [balance: Nat, expired: BOOLEAN]
    BY <1>1 DEF PromoTypeOK
  <2>2. card'.balance = card.balance /\ UNCHANGED <<uses, order, release>>
    BY <1>11, <2>1 DEF Expire
  <2> QED
    BY <1>3, <2>2 DEF Ledger, Marks
<1> QED
  BY <1>5, <1>6, <1>7, <1>8, <1>9, <1>10, <1>11 DEF PromoNext

LEMMA LedgerInit == PromoInit => LedgerInv
<1> SUFFICES ASSUME PromoInit PROVE LedgerInv
  OBVIOUS
<1> DEFINE u == [o \in Orders |-> UsesIn(order[o])]
           c == [o \in Orders |-> CentsIn(order[o])]
<1>1. \A o \in Orders : order[o] = NoOrder
  BY DEF PromoInit
<1>2. UsesIn(NoOrder) = 0 /\ CentsIn(NoOrder) = 0
  BY DEF UsesIn, CentsIn, NoOrder
<1>3. /\ u \in [Orders -> Int] /\ c \in [Orders -> Int]
      /\ \A o \in Orders : u[o] = 0 /\ c[o] = 0
  BY <1>1, <1>2
<1>4. uses = 0 /\ card.balance = CardCents /\ CardCents \in Nat
  BY PromotionsAssumption DEF PromoInit
<1> HIDE DEF u, c
<1>5. \A o \in Orders : u[o] = u[o] - u[o] /\ c[o] = c[o] - c[o]
  BY <1>3
<1>6. SumFunction(u) = SumFunction(u) - SumFunction(u) /\ SumFunction(u) \in Int
  BY <1>3, <1>5, SumMinus, SumInt, PromotionsAssumption
<1>7. SumFunction(c) = SumFunction(c) - SumFunction(c) /\ SumFunction(c) \in Int
  BY <1>3, <1>5, SumMinus, SumInt, PromotionsAssumption
<1>8. SumFunction(u) = 0 /\ SumFunction(c) = 0
  BY <1>6, <1>7
<1>9. Ledger
  BY <1>4, <1>8 DEF Ledger, u, c
<1>10. Marks
  BY <1>1 DEF PromoInit, Marks, NoOrder
<1> QED
  BY <1>9, <1>10, PromoInvInit DEF LedgerInv

\* A use of the code is counted for each order that has it reserved or whose redemption
\* failed after counting it, and what is not on the card is with the orders that have it
\* reserved: for any number of orders and releasers, unless a release overlaps another one
\* or a payment.
THEOREM NothingLost == PromoSpec => []PromotionsAddUp
<1>1. LedgerInv => PromotionsAddUp
  <2> SUFFICES ASSUME PromoTypeOK, Ledger PROVE PromotionsAddUp
    BY DEF LedgerInv, PromoInv, PromotionsAddUp
  <2> DEFINE reserved == {o \in Orders : order[o].reserved}
             coded == {o \in reserved : order[o].code}
             counted == {o \in Orders : order[o].spent}
             u == [o \in Orders |-> UsesIn(order[o])]
             i == [o \in Orders |-> IF o \in coded THEN 1 ELSE 0]
             j == [o \in Orders |-> IF o \in counted THEN 1 ELSE 0]
             c == [o \in Orders |-> CentsIn(order[o])]
             g == [o \in reserved |-> order[o].gift]
  <2>1. \A o \in Orders : order[o].gift \in Nat
    BY DEF PromoTypeOK, Order
  <2>2. /\ coded \in SUBSET Orders /\ counted \in SUBSET Orders /\ reserved \in SUBSET Orders
        /\ u \in [Orders -> Int] /\ c \in [Orders -> Int] /\ i \in [Orders -> Int]
        /\ j \in [Orders -> Int] /\ g \in [reserved -> Int]
    BY <2>1, InOrders
  <2>3. /\ \A o \in Orders : i[o] = IF o \in coded THEN 1 ELSE 0
        /\ \A o \in Orders : j[o] = IF o \in counted THEN 1 ELSE 0
        /\ \A o \in Orders : i[o] = u[o] - j[o]
    BY DEF UsesIn
  <2>4. /\ \A o \in reserved : g[o] = c[o]
        /\ \A o \in Orders \ reserved : c[o] = 0
    BY DEF CentsIn
  <2>5. uses = SumFunction(u) /\ card.balance + SumFunction(c) = CardCents
    BY DEF Ledger
  <2>6. PromotionsAddUp <=> ("overlap" \notin hitch =>
            /\ uses = Cardinality(coded) + Cardinality(counted)
            /\ card.balance + SumFunction(g) = CardCents)
    BY DEF PromotionsAddUp
  <2> HIDE DEF reserved, coded, counted, u, i, j, c, g
  <2>11. IsFiniteSet(Orders)
    BY PromotionsAssumption
  <2>12. Cardinality(coded) = SumFunction(i)
    BY <2>2, <2>3, <2>11, CountIsSum
  <2>13. Cardinality(counted) = SumFunction(j)
    BY <2>2, <2>3, <2>11, CountIsSum
  <2>7. Cardinality(coded) = SumFunction(i) /\ Cardinality(counted) = SumFunction(j)
    BY <2>12, <2>13
  <2>8. SumFunction(i) = SumFunction(u) - SumFunction(j)
    BY <2>2, <2>3, SumMinus, PromotionsAssumption
  <2>9. SumFunction(u) \in Int /\ SumFunction(j) \in Int
    BY <2>2, SumInt, PromotionsAssumption
  <2>10. SumFunction(g) = SumFunction(c)
    BY <2>2, <2>4, SumSupport, PromotionsAssumption
  <2> QED
    BY <2>5, <2>6, <2>7, <2>8, <2>9, <2>10
<1>2. LedgerInv /\ [PromoNext]_promoVars => LedgerInv'
  BY LedgerNext
<1> QED
  BY <1>1, <1>2, LedgerInit, PTL DEF PromoSpec

-----------------------------------------------------------------------------
(* Prices. *)

\* A product grows with its factors.
LEMMA MoreTimes ==
  ASSUME NEW a \in Nat, NEW b \in Nat, NEW k \in Nat, a <= b
  PROVE  k * a <= k * b /\ k * a \in Nat
<1>1. k * b = k * a + k * (b - a)
  OBVIOUS
<1>2. b - a \in Nat /\ k * (b - a) \in Nat /\ k * a \in Nat /\ k * b \in Nat
  OBVIOUS
<1> QED
  BY <1>1, <1>2

\* Rounding is off by at most a half.
LEMMA RoundIs ==
  ASSUME NEW n \in Nat, NEW d \in Nat, d > 0
  PROVE  /\ Round(n, d) \in Nat
         /\ 2 * (d * Round(n, d)) <= 2 * n + d
         /\ 2 * n <= 2 * (d * Round(n, d)) + d
  BY DEF Round

LEMMA RoundAtMost ==
  ASSUME NEW n \in Nat, NEW d \in Nat, d > 0, NEW m \in Nat, n <= d * m
  PROVE  Round(n, d) <= m
<1> DEFINE r == Round(n, d)
<1>1. r \in Nat /\ 2 * (d * r) <= 2 * n + d
  BY RoundIs
<1> HIDE DEF r
<1>2. ASSUME r >= m + 1 PROVE FALSE
  <2>1. d * (m + 1) <= d * r
    BY <1>1, <1>2, MoreTimes
  <2>2. d * (m + 1) = d * m + d /\ d * m \in Nat /\ d * r \in Nat
    BY <1>1
  <2> QED
    BY <1>1, <2>1, <2>2
<1> QED
  BY <1>1, <1>2 DEF r

LEMMA OffIs ==
  ASSUME NEW price \in Nat, NEW by \in Reduction
  PROVE  Off(price, by) \in Nat /\ Off(price, by) <= price
<1> DEFINE cut == IF by.type = "percent" THEN Bps(price, by.value) ELSE by.value
<1>1. by.value \in Nat /\ price * by.value \in Nat
  BY DEF Reduction
<1>2. Bps(price, by.value) \in Nat
  BY <1>1, RoundIs DEF Bps
<1>3. cut \in Nat
  BY <1>1, <1>2
<1> HIDE DEF cut
<1>4. Off(price, by) = AtLeast0(price - cut)
  BY DEF Off, cut
<1> QED
  BY <1>3, <1>4 DEF AtLeast0

-----------------------------------------------------------------------------
(* Prices: lines. *)

CartLine ==
    [category: Categories, quantity: Nat, access: BOOLEAN, unit: Nat, campaign: BOOLEAN]

\* The list price, less the concession.
Plain(l) ==
    IF l.access THEN Off(ListPrice[l.category], Concession) ELSE ListPrice[l.category]

\* A line that no campaign has priced has the list price.
Listed(l) == ~l.campaign => l.unit = Plain(l)

\* A code was taken from a cart without campaign prices.
CodeAlone == \A b \in bill : b.byCode => ~CampaignLine

CartInv ==
    /\ running \subseteq Campaigns /\ entered \subseteq Codes
    /\ lines \in Seq(CartLine) /\ \A i \in DOMAIN lines : Listed(lines[i])
    /\ at # "open" => lines # <<>>
    /\ at # "ordered" => bill = {}
    /\ CodeAlone

\* Of the campaigns on offer, one is best.
LEMMA BestIsOffered ==
  ASSUME running \subseteq Campaigns, NEW k \in Categories, Offers(k) # {}
  PROVE  BestCampaign(k) \in Offers(k)
<1> DEFINE T == {Off(ListPrice[k], c.by) : c \in Offers(k)}
<1>1. \A c \in Offers(k) : Off(ListPrice[k], c.by) \in Nat
  <2>1. ListPrice[k] \in Nat /\ \A c \in Offers(k) : c.by \in Reduction
    BY PricingAssumption DEF Offers
  <2> QED
    BY <2>1, OffIs
<1>2. T \subseteq Nat /\ T # {}
  BY <1>1
<1>3. PICK n \in T : \A m \in T : n <= m
  BY <1>2, LeastNatural, Zenon
<1>4. PICK c \in Offers(k) : n = Off(ListPrice[k], c.by)
  BY <1>3
<1>5. \A d \in Offers(k) : Off(ListPrice[k], c.by) <= Off(ListPrice[k], d.by)
  BY <1>3, <1>4
<1> QED
  BY <1>4, <1>5, Zenon DEF BestCampaign

\* A new line is a line of the cart, at the list price without a campaign.
LEMMA LineFits ==
  ASSUME running \subseteq Campaigns, NEW k \in Categories, NEW n \in Nat, NEW a \in BOOLEAN
  PROVE  Line(k, n, a) \in CartLine /\ Listed(Line(k, n, a))
<1> DEFINE u == Unit(k, a)
           c == Offers(k) # {}
<1>1. ListPrice[k] \in Nat /\ Concession \in Reduction
  BY PricingAssumption
<1>2. AfterCampaign(k) \in Nat /\ (~c => AfterCampaign(k) = ListPrice[k])
  <2>1. CASE c
    <3>1. BestCampaign(k).by \in Reduction
      BY <2>1, BestIsOffered, PricingAssumption DEF Offers
    <3> QED
      BY <1>1, <2>1, <3>1, OffIs DEF AfterCampaign
  <2>2. CASE ~c
    BY <1>1, <2>2 DEF AfterCampaign
  <2> QED
    BY <2>1, <2>2
<1>3. u \in Nat /\ (~c => u = IF a THEN Off(ListPrice[k], Concession) ELSE ListPrice[k])
  BY <1>1, <1>2, OffIs DEF Unit
<1>4. Line(k, n, a) = [category |-> k, quantity |-> n, access |-> a, unit |-> u, campaign |-> c]
  BY Zenon DEF Line
<1> HIDE DEF u, c
<1>5. c \in BOOLEAN
  BY DEF c
<1> QED
  BY <1>3, <1>4, <1>5 DEF CartLine, Listed, Plain

\* Of a cart without campaign prices, every line has the list price.
LEMMA CodeOnList == CartInv => OneReduction
<1> SUFFICES ASSUME CartInv, NEW b \in bill, b.byCode, NEW i \in DOMAIN lines
             PROVE  lines[i].unit = Plain(lines[i])
  BY DEF OneReduction, Plain
<1>1. ~lines[i].campaign
  BY DEF CartInv, CodeAlone, CampaignLine
<1> QED
  BY <1>1 DEF CartInv, Listed

LEMMA CartNext == CartInv /\ [PriceNext]_priceVars => CartInv'
<1> SUFFICES ASSUME CartInv, [PriceNext]_priceVars PROVE CartInv'
  OBVIOUS
<1>1. CASE UNCHANGED priceVars
  BY <1>1 DEF CartInv, CodeAlone, CampaignLine, Listed, Plain, priceVars
<1>2. ASSUME NEW k \in Categories, NEW n \in 1..MaxQuantity, NEW a \in BOOLEAN, Add(k, n, a)
      PROVE  CartInv'
  <2> DEFINE l == Line(k, n, a)
  <2>1. n \in Nat
    BY PricingAssumption
  <2>2. l \in CartLine /\ Listed(l)
    BY <2>1, LineFits DEF CartInv
  <2> HIDE DEF l
  <2>3. \/ \E i \in DOMAIN lines : Joins(i, l)
              /\ lines' = [lines EXCEPT ![i].quantity = @ + n]
        \/ lines' = Append(lines, l)
    BY <1>2 DEF Add, l
  <2>4. at = "open" /\ UNCHANGED <<running, entered, at, bill>>
    BY <1>2 DEF Add
  <2>5. bill = {}
    BY <2>4 DEF CartInv
  <2>6. lines' \in Seq(CartLine) /\ \A i \in DOMAIN lines' : Listed(lines'[i])
    <3>1. CASE lines' = Append(lines, l)
      <4>1. /\ lines' \in Seq(CartLine) /\ DOMAIN lines' = 1..(Len(lines) + 1)
            /\ \A i \in 1..Len(lines) : lines'[i] = lines[i]
            /\ lines'[Len(lines) + 1] = l /\ Len(lines) \in Nat
            /\ DOMAIN lines = 1..Len(lines)
        BY <2>2, <3>1, AppendProperties, LenProperties DEF CartInv
      <4>2. ASSUME NEW i \in DOMAIN lines' PROVE Listed(lines'[i])
        <5>1. i = Len(lines) + 1 \/ i \in 1..Len(lines)
          BY <4>1
        <5> QED
          BY <2>2, <4>1, <5>1 DEF CartInv
      <4> QED
        BY <4>1, <4>2
    <3>2. ASSUME NEW i \in DOMAIN lines, lines' = [lines EXCEPT ![i].quantity = @ + n]
          PROVE  lines' \in Seq(CartLine) /\ \A j \in DOMAIN lines' : Listed(lines'[j])
      <4> DEFINE q == lines[i].quantity + n
                 m == [lines[i] EXCEPT !.quantity = q]
      <4>1. lines[i] \in CartLine /\ Listed(lines[i])
        BY LenProperties, ElementOfSeq DEF CartInv
      <4>2. q \in Nat
        BY <2>1, <4>1 DEF CartLine
      <4>3. lines' = [lines EXCEPT ![i] = m]
        BY <3>2
      <4> HIDE DEF q
      <4>4. /\ m \in CartLine /\ m.campaign = lines[i].campaign /\ m.unit = lines[i].unit
            /\ m.access = lines[i].access /\ m.category = lines[i].category
        BY <4>1, <4>2, Zenon DEF CartLine
      <4> HIDE DEF m
      <4>5. lines' \in Seq(CartLine)
        BY <4>3, <4>4, ExceptSeq, LenProperties DEF CartInv
      <4>6. Listed(m)
        BY <4>1, <4>4 DEF Listed, Plain
      <4> QED
        BY <4>3, <4>5, <4>6 DEF CartInv
    <3> QED
      BY <2>3, <3>1, <3>2
  <2> QED
    BY <2>4, <2>5, <2>6 DEF CartInv, CodeAlone
<1>3. ASSUME NEW c \in Codes, Enter(c) PROVE CartInv'
  BY <1>3 DEF CartInv, Enter, CodeAlone, CampaignLine, Listed, Plain
<1>4. ASSUME NEW c \in Campaigns, Switch(c) PROVE CartInv'
  BY <1>4 DEF CartInv, Switch, CodeAlone, CampaignLine, Listed, Plain
<1>5. CASE Reprice
  <2>1. at = "open" /\ lines # <<>> /\ at' = "repriced" /\ UNCHANGED <<running, entered, bill>>
    BY <1>5 DEF Reprice
  <2>2. /\ DOMAIN lines' = DOMAIN lines
        /\ \A i \in DOMAIN lines : lines'[i] = Again(lines[i])
        /\ lines' = [i \in 1..Len(lines) |-> Again(lines[i])]
    BY <1>5, LenProperties DEF Reprice, CartInv
  <2>3. ASSUME NEW i \in DOMAIN lines
        PROVE  Again(lines[i]) \in CartLine /\ Listed(Again(lines[i]))
    <3>1. lines[i] \in CartLine
      BY LenProperties, ElementOfSeq DEF CartInv
    <3>2. /\ lines[i].category \in Categories /\ lines[i].quantity \in Nat
          /\ lines[i].access \in BOOLEAN
      BY <3>1 DEF CartLine
    <3> QED
      BY <3>2, LineFits DEF Again, CartInv
  <2>4. Len(lines) \in Nat /\ DOMAIN lines = 1..Len(lines) /\ Len(lines) # 0
    BY <2>1, LenProperties, EmptySeq DEF CartInv
  <2>5. lines' \in Seq(CartLine) /\ DOMAIN lines' # {}
    BY <2>2, <2>3, <2>4, IsASeq
  <2>6. lines' # <<>>
    BY <2>5
  <2> QED
    BY <2>1, <2>2, <2>3, <2>5, <2>6 DEF CartInv, CodeAlone
<1>6. CASE Refuse
  BY <1>6 DEF CartInv, Refuse, CodeAlone, CampaignLine, Listed, Plain
<1>7. ASSUME NEW plan \in FeePlans, NEW balance \in Cards, Ordered(plan, balance)
      PROVE  CartInv'
  <2>1. /\ at = "repriced" /\ at' = "ordered" /\ UNCHANGED <<running, lines, entered>>
        /\ bill' = {Bill(plan, balance)}
    BY <1>7 DEF Ordered
  <2>2. Bill(plan, balance).byCode = (CodeUsed # {})
    BY DEF Bill
  <2>3. CodeUsed # {} => ~CampaignLine
    BY DEF CodeUsed, HasCampaign
  <2>4. CodeAlone'
    BY <2>1, <2>2, <2>3 DEF CodeAlone, CampaignLine
  <2> QED
    BY <2>1, <2>4 DEF CartInv, Listed, Plain
<1> QED
  BY <1>1, <1>2, <1>3, <1>4, <1>5, <1>6, <1>7 DEF PriceNext

LEMMA CartInit == PriceInit => CartInv
  BY EmptySeq DEF PriceInit, CartInv, CodeAlone

\* A code and a campaign never reduce the same ticket: for any campaigns, codes, prices
\* and concession, and carts of any size.
THEOREM CodeOrCampaign == PriceSpec => []OneReduction
<1>1. CartInv /\ [PriceNext]_priceVars => CartInv'
  BY CartNext
<1> QED
  BY <1>1, CartInit, CodeOnList, PTL DEF PriceSpec

-----------------------------------------------------------------------------
(* Prices: the discount. *)

\* A sum of the same multiples is the multiple of the sum.
LEMMA SumTimes ==
  ASSUME NEW D, IsFiniteSet(D), NEW f \in [D -> Int], NEW e \in [D -> Int], NEW k \in Int,
         \A x \in D : e[x] = k * f[x]
  PROVE  SumFunction(e) = k * SumFunction(f)
<1>1. PICK g : Adds(g, f, D) /\ SumFunction(f) = g[D]
  BY SumAdds
<1>2. PICK h : Adds(h, e, D) /\ SumFunction(e) = h[D]
  BY SumAdds
<1> DEFINE Good == {s \in SUBSET D : h[s] = k * g[s]}
<1>3. ASSUME NEW s \in SUBSET D, \A x \in s : s \ {x} \in Good
      PROVE  s \in Good
  <2>1. CASE s = {}
    BY <1>1, <1>2, <2>1 DEF Adds
  <2>2. ASSUME NEW x \in s
        PROVE  h[s] = k * g[s]
    <3>1. /\ g[s] = f[x] + g[s \ {x}] /\ h[s] = e[x] + h[s \ {x}]
          /\ g[s \ {x}] \in Int /\ f[x] \in Int /\ e[x] = k * f[x]
          /\ h[s \ {x}] = k * g[s \ {x}]
      BY <1>1, <1>2, <1>3 DEF Adds
    <3>2. \A a, b \in Int : k * (a + b) = k * a + k * b
      OBVIOUS
    <3> QED
      BY <3>1, <3>2
  <2> QED
    BY <2>1, <2>2
<1> HIDE DEF Good
<1>4. D \in Good
  BY <1>3, SubsetInduction
<1> QED
  BY <1>1, <1>2, <1>4 DEF Good

\* Numbers that are small add up to a sum that is.
LEMMA SumSmall ==
  ASSUME NEW D, IsFiniteSet(D), NEW f \in [D -> Int], NEW k \in Nat,
         \A x \in D : f[x] <= k
  PROVE  SumFunction(f) <= k * Cardinality(D)
<1>1. PICK g : Adds(g, f, D) /\ SumFunction(f) = g[D]
  BY SumAdds
<1> DEFINE Good == {s \in SUBSET D : g[s] <= k * Cardinality(s)}
<1>2. ASSUME NEW s \in SUBSET D, \A x \in s : s \ {x} \in Good
      PROVE  s \in Good
  <2>1. CASE s = {}
    BY <1>1, <2>1, FS_EmptySet DEF Adds
  <2>2. ASSUME NEW x \in s
        PROVE  g[s] <= k * Cardinality(s)
    <3>1. /\ g[s] = f[x] + g[s \ {x}] /\ g[s \ {x}] \in Int /\ f[x] \in Int /\ f[x] <= k
          /\ g[s \ {x}] <= k * Cardinality(s \ {x})
      BY <1>1, <1>2 DEF Adds
    <3> DEFINE n == Cardinality(s)
    <3>2. IsFiniteSet(s)
      BY FS_Subset
    <3>3. n \in Nat /\ Cardinality(s \ {x}) = n - 1
      BY <3>2, FS_CardinalityType, FS_RemoveElement
    <3> HIDE DEF n
    <3>4. k * (n - 1) = k * n - k
      BY <3>3
    <3>5. k * n \in Int
      BY <3>3
    <3> QED
      BY <3>1, <3>3, <3>4, <3>5 DEF n
  <2> QED
    BY <2>1, <2>2
<1> HIDE DEF Good
<1>3. D \in Good
  BY <1>2, SubsetInduction
<1> QED
  BY <1>1, <1>3 DEF Good

\* What the lines cost.
LEMMA CartIs ==
  ASSUME CartInv
  PROVE  /\ IsFiniteSet(DOMAIN lines) /\ Tickets \in Nat
         /\ DOMAIN lines = 1..Len(lines) /\ Len(lines) \in Nat
         /\ \A i \in DOMAIN lines :
               /\ Amount(lines[i]) \in Nat /\ lines[i].quantity \in Nat
               /\ lines[i].category \in Categories
<1>1. /\ DOMAIN lines = 1..Len(lines) /\ Len(lines) \in Nat
      /\ \A i \in DOMAIN lines : lines[i] \in CartLine
  BY LenProperties, ElementOfSeq DEF CartInv
<1>2. \A a, b \in Nat : a * b \in Nat
  OBVIOUS
<1>3. \A i \in DOMAIN lines :
         /\ Amount(lines[i]) \in Nat /\ lines[i].quantity \in Nat
         /\ lines[i].category \in Categories
  BY <1>1, <1>2 DEF CartLine, Amount
<1>4. IsFiniteSet(DOMAIN lines)
  BY <1>1, FS_Interval
<1> DEFINE a == [i \in DOMAIN lines |-> Amount(lines[i])]
<1>5. a \in [DOMAIN lines -> Nat]
  BY <1>3
<1>6. Tickets = SumFunction(a)
  BY DEF Tickets, Total
<1> HIDE DEF a
<1> QED
  BY <1>1, <1>3, <1>4, <1>5, <1>6, SumNat

\* An order campaign takes at most what the tickets it is for cost.
LEMMA CampaignTakes ==
  ASSUME CartInv, NEW c \in Campaigns
  PROVE  OrderDiscount(c) \in Nat /\ OrderDiscount(c) <= Tickets
<1> DEFINE D == DOMAIN lines
           S == Eligible(c)
           a == [i \in D |-> Amount(lines[i])]
           e == [i \in S |-> Amount(lines[i])]
           z == [i \in D |-> IF i \in S THEN Amount(lines[i]) ELSE 0]
<1>1. /\ IsFiniteSet(D) /\ Tickets \in Nat /\ S \in SUBSET D
      /\ \A i \in D : Amount(lines[i]) \in Nat
  BY CartIs DEF Eligible
<1>2. Tickets = SumFunction(a)
  BY DEF Tickets, Total
<1> DEFINE gross == SumFunction(e)
<1>3. \/ OrderDiscount(c) = 0
      \/ OrderDiscount(c) = gross - Off(gross, c.by)
  BY DEF OrderDiscount, Total
<1> HIDE DEF D, S
<1>4. /\ a \in [D -> Int] /\ z \in [D -> Int] /\ e \in [S -> Nat] /\ e \in [S -> Int]
      /\ \A i \in S : e[i] = z[i]
      /\ \A i \in D \ S : z[i] = 0
      /\ \A i \in D : z[i] <= a[i]
  BY <1>1
<1> HIDE DEF a, e, z
<1>5. IsFiniteSet(S)
  BY <1>1, FS_Subset
<1>6. SumFunction(e) = SumFunction(z)
  BY <1>1, <1>4, SumSupport
<1>7. SumFunction(z) <= SumFunction(a)
  BY <1>1, <1>4, SumLess
<1>8. gross \in Nat /\ gross <= Tickets
  BY <1>2, <1>4, <1>5, <1>6, <1>7, SumNat
<1> HIDE DEF gross
<1>9. c.by \in Reduction
  BY PricingAssumption
<1>10. Off(gross, c.by) \in Nat /\ Off(gross, c.by) <= gross
  BY <1>8, <1>9, OffIs
<1> QED
  BY <1>1, <1>3, <1>8, <1>10

\* The discount is at most what the tickets cost.
LEMMA DiscountIs ==
  ASSUME CartInv
  PROVE  Discount \in Nat /\ Discount <= Tickets
<1>1. Tickets \in Nat
  BY CartIs
<1>2. CASE CodeUsed = {}
  <2>1. CASE OrderCampaigns = {}
    BY <1>1, <1>2, <2>1 DEF Discount, CampaignDiscount
  <2>2. CASE OrderCampaigns # {}
    <3> DEFINE T == {Tickets - OrderDiscount(c) : c \in OrderCampaigns}
               O == {OrderDiscount(c) : c \in OrderCampaigns}
    <3>1. \A c \in OrderCampaigns : OrderDiscount(c) \in Nat /\ OrderDiscount(c) <= Tickets
      BY CampaignTakes DEF OrderCampaigns, CartInv
    <3>2. T \subseteq Nat /\ T # {}
      BY <1>1, <2>2, <3>1
    <3>3. PICK n \in T : \A m \in T : n <= m
      BY <3>2, LeastNatural, Zenon
    <3>4. PICK b \in OrderCampaigns : n = Tickets - OrderDiscount(b)
      BY <3>3
    <3>5. ASSUME NEW c \in OrderCampaigns
          PROVE  OrderDiscount(c) <= OrderDiscount(b)
      <4>1. n <= Tickets - OrderDiscount(c)
        BY <3>3
      <4> QED
        BY <1>1, <3>1, <3>4, <4>1
    <3>6. OrderDiscount(b) \in O
      OBVIOUS
    <3>7. CampaignDiscount \in O
      BY <2>2, <3>5, <3>6, Zenon DEF CampaignDiscount
    <3> QED
      BY <1>2, <3>1, <3>7 DEF Discount
  <2> QED
    BY <2>1, <2>2
<1>3. CASE CodeUsed # {}
  <2> DEFINE c == CHOOSE c \in CodeUsed : TRUE
  <2>1. c \in CodeUsed
    BY <1>3
  <2>2. Discount = Tickets - Off(Tickets, c.by)
    BY <1>3 DEF Discount
  <2> HIDE DEF c
  <2>3. c.by \in Reduction
    BY <2>1, PricingAssumption DEF CodeUsed, CartInv
  <2> QED
    BY <1>1, <2>2, <2>3, OffIs
<1> QED
  BY <1>2, <1>3

\* The parts of a discount add up to it, and no line but the last can have more than it costs.
LEMMA PartsAre ==
  ASSUME CartInv, lines # <<>>, NEW d \in Nat, d <= Tickets
  PROVE  /\ Parts(d) \in [DOMAIN lines -> Int]
         /\ Total(Parts(d)) = d
         /\ \A i \in DOMAIN lines : i # Len(lines) => Parts(d)[i] <= Amount(lines[i])
<1> DEFINE D == DOMAIN lines
           n == Len(lines)
           r == RoundedParts(d)
           p == Parts(d)
           v == r[n] + d - SumFunction(r)
<1>1. /\ IsFiniteSet(D) /\ Tickets \in Nat /\ n \in D
      /\ \A i \in D : Amount(lines[i]) \in Nat
  <2>1. Len(lines) # 0
    BY EmptySeq DEF CartInv
  <2> QED
    BY <2>1, CartIs
<1>2. \A i \in D : r[i] \in Nat /\ r[i] <= Amount(lines[i])
  <2> SUFFICES ASSUME NEW i \in D PROVE r[i] \in Nat /\ r[i] <= Amount(lines[i])
    OBVIOUS
  <2> DEFINE a == Amount(lines[i])
  <2>1. r[i] = IF Tickets = 0 THEN 0 ELSE Round(d * a, Tickets)
    BY DEF RoundedParts
  <2>2. a \in Nat
    BY <1>1
  <2> HIDE DEF a, r
  <2>3. CASE Tickets = 0
    BY <2>1, <2>2, <2>3 DEF a
  <2>4. CASE Tickets # 0
    <3> DEFINE m == d * a
    <3>1. m \in Nat /\ a * d <= a * Tickets /\ a * d = m /\ a * Tickets = Tickets * a
      BY <1>1, <2>2, MoreTimes
    <3>2. Tickets \in Nat /\ Tickets > 0 /\ m <= Tickets * a
      BY <1>1, <2>4, <3>1
    <3> HIDE DEF m
    <3>3. Round(m, Tickets) \in Nat
      BY <3>1, <3>2, RoundIs
    <3>4. Round(m, Tickets) <= a
      BY <2>2, <3>1, <3>2, RoundAtMost
    <3> QED
      BY <2>1, <2>4, <3>3, <3>4 DEF a, m
  <2> QED
    BY <2>3, <2>4
<1>3. r \in [D -> Int] /\ p = [r EXCEPT ![n] = v]
  <2>1. r \in [D -> Int]
    BY <1>2 DEF RoundedParts
  <2>2. p = [r EXCEPT ![n] = v]
    BY DEF Parts, Total
  <2> QED
    BY <2>1, <2>2
<1> HIDE DEF r
<1>4. SumFunction(r) \in Int
  BY <1>1, <1>3, SumInt
<1>5. v \in Int
  BY <1>1, <1>3, <1>4
<1> HIDE DEF v, p, D, n
<1>6. p \in [D -> Int] /\ p[n] = v /\ \A i \in D : i # n => p[i] = r[i]
  BY <1>1, <1>3, <1>5
<1>7. SumFunction(p) = SumFunction(r) - r[n] + p[n]
  <2>1. IsFiniteSet(D) /\ n \in D /\ r \in [D -> Int]
    BY <1>1, <1>3
  <2> QED
    BY <1>6, <2>1, SumChange
<1>8. r[n] \in Int
  BY <1>1, <1>3
<1>9. SumFunction(p) = d
  BY <1>4, <1>6, <1>7, <1>8 DEF v
<1> QED
  BY <1>2, <1>6, <1>9 DEF p, D, n, Total

\* What is paid, if the last line can take the drift on.
LEMMA PaidIs ==
  ASSUME CartInv, lines # <<>>, NEW d \in Nat, d <= Tickets,
         NEW parts \in [DOMAIN lines -> Int], parts = Parts(d)
  PROVE  /\ Paid(parts) \in [DOMAIN lines -> Nat]
         /\ Amount(lines[Len(lines)]) >= parts[Len(lines)] => Total(Paid(parts)) = Tickets - d
<1> DEFINE D == DOMAIN lines
           n == Len(lines)
           a == [i \in D |-> Amount(lines[i])]
           q == Paid(parts)
<1>1. IsFiniteSet(D) /\ \A i \in D : Amount(lines[i]) \in Nat
  BY CartIs
<1>2. a \in [D -> Int] /\ \A i \in D : a[i] = Amount(lines[i])
  BY <1>1
<1>3. q \in [D -> Nat] /\ \A i \in D : a[i] >= parts[i] => q[i] = a[i] - parts[i]
  BY <1>1, <1>2 DEF Paid, AtLeast0
<1>4. Tickets = SumFunction(a)
  BY DEF Tickets, Total
<1>5. SumFunction(parts) = d /\ \A i \in D : i # n => a[i] >= parts[i]
  <2>1. /\ Total(Parts(d)) = d
        /\ \A i \in DOMAIN lines : i # Len(lines) => Parts(d)[i] <= Amount(lines[i])
    BY PartsAre
  <2>2. \A i \in D : parts[i] \in Int
    OBVIOUS
  <2> QED
    BY <1>1, <1>2, <2>1, <2>2 DEF Total
<1> HIDE DEF a, q
<1>6. ASSUME Amount(lines[n]) >= parts[n]
      PROVE  SumFunction(q) = Tickets - d
  <2>1. q \in [D -> Int] /\ \A i \in D : q[i] = a[i] - parts[i]
    BY <1>2, <1>3, <1>5, <1>6
  <2> HIDE DEF D
  <2> QED
    BY <1>1, <1>2, <1>4, <1>5, <2>1, SumMinus DEF D
<1> QED
  BY <1>3, <1>6 DEF q, Total

-----------------------------------------------------------------------------
(* Prices: the fee. *)

\* The tax rates of the event.
Rates == {TaxRate[k] : k \in Categories}

\* The groups are those of the lines' rates that are paid for.
LEMMA GroupsAre ==
  ASSUME CartInv, NEW paid \in [DOMAIN lines -> Nat]
  PROVE  /\ DOMAIN Groups(paid) \subseteq Rates
         /\ Groups(paid) \in [DOMAIN Groups(paid) -> Nat]
         /\ \A rate \in DOMAIN Groups(paid) : Groups(paid)[rate] > 0
<1> DEFINE R == {RateOf(i) : i \in DOMAIN lines}
           sum == [rate \in R |-> Total([i \in {j \in DOMAIN lines : RateOf(j) = rate} |-> paid[i]])]
           P == {rate \in R : sum[rate] > 0}
<1>1. R \subseteq Rates
  BY CartIs DEF RateOf, Rates
<1>2. ASSUME NEW rate \in R
      PROVE  sum[rate] \in Nat
  <2> DEFINE S == {j \in DOMAIN lines : RateOf(j) = rate}
             f == [i \in S |-> paid[i]]
  <2>1. sum[rate] = SumFunction(f)
    BY DEF Total
  <2>2. f \in [S -> Nat]
    OBVIOUS
  <2>3. IsFiniteSet(S)
    BY CartIs, FS_Subset
  <2> HIDE DEF f, S
  <2> QED
    BY <2>1, <2>2, <2>3, SumNat
<1>3. DOMAIN sum = R /\ Groups(paid) = [rate \in P |-> sum[rate]]
  BY DEF Groups
<1> HIDE DEF sum, R
<1>4. DOMAIN Groups(paid) = P /\ \A rate \in P : Groups(paid)[rate] = sum[rate]
  BY <1>3
<1> QED
  BY <1>1, <1>2, <1>3, <1>4

\* The rates are finitely many numbers.
LEMMA RatesAre == IsFiniteSet(Rates) /\ Rates \subseteq Nat
<1>1. TaxRate \in [Categories -> Nat] /\ IsFiniteSet(Categories)
  BY PricingAssumption
<1>2. TaxRate \in Surjection(Categories, Rates)
  BY <1>1 DEF Surjection, Rates
<1> QED
  BY <1>1, <1>2, FS_Surjection DEF Rates

\* A finite set of natural numbers that is not empty has a greatest element.
LEMMA GreatestNatural ==
  ASSUME NEW D, IsFiniteSet(D), D \subseteq Nat, D # {}
  PROVE  \E n \in D : \A m \in D : m <= n
<1> DEFINE Good == {s \in SUBSET D : s # {} => \E n \in s : \A m \in s : m <= n}
<1>1. ASSUME NEW s \in SUBSET D, \A x \in s : s \ {x} \in Good
      PROVE  s \in Good
  <2> SUFFICES ASSUME NEW x \in s PROVE \E n \in s : \A m \in s : m <= n
    OBVIOUS
  <2>1. CASE s \ {x} = {}
    BY <2>1
  <2>2. CASE s \ {x} # {}
    <3>1. PICK n \in s \ {x} : \A m \in s \ {x} : m <= n
      BY <1>1, <2>2
    <3>2. CASE x <= n
      BY <3>1, <3>2
    <3>3. CASE ~(x <= n)
      BY <3>1, <3>3
    <3> QED
      BY <3>2, <3>3
  <2> QED
    BY <2>1, <2>2
<1> HIDE DEF Good
<1>2. D \in Good
  BY <1>1, SubsetInduction
<1> QED
  BY <1>2 DEF Good

\* One group is last.
LEMMA OneIsLast ==
  ASSUME NEW D, IsFiniteSet(D), D \subseteq Nat, D # {}, NEW g \in [D -> Nat]
  PROVE  LastRate(g) \in D
<1> DEFINE T == {g[r] : r \in D}
<1>1. T \subseteq Nat /\ T # {}
  OBVIOUS
<1>2. PICK n \in T : \A m \in T : n <= m
  BY <1>1, LeastNatural, Zenon
<1> DEFINE S == {r \in D : g[r] = n}
<1>3. S # {} /\ S \subseteq Nat /\ S \in SUBSET D
  BY <1>2
<1>4. IsFiniteSet(S)
  BY <1>3, FS_Subset
<1> HIDE DEF S
<1>5. PICK last \in S : \A r \in S : r <= last
  BY <1>3, <1>4, GreatestNatural, Zenon
<1>6. last \in D /\ g[last] = n
  BY <1>5 DEF S
<1>7. ASSUME NEW r \in D \ {last}
      PROVE  g[last] < g[r] \/ (g[last] = g[r] /\ r < last)
  <2>1. n <= g[r] /\ n \in Nat /\ g[r] \in Nat /\ r \in Nat /\ last \in Nat /\ r # last
    BY <1>1, <1>2, <1>6
  <2>2. g[r] = n => r <= last
    BY <1>5 DEF S
  <2> QED
    BY <1>6, <2>1, <2>2
<1>8. DOMAIN g = D
  OBVIOUS
<1> QED
  BY <1>6, <1>7, <1>8, Zenon DEF LastRate

\* The shares of a fee add up to it, and of up to three rates each has its proportion to
\* within a cent.
LEMMA SpreadIs ==
  ASSUME NEW D, IsFiniteSet(D), NEW g \in [D -> Nat], \A r \in D : g[r] > 0,
         NEW last \in D, last = LastRate(g), NEW fee \in Nat, fee > 0
  PROVE  LET s == Spread(fee, g)
             w == Total(g) IN
         /\ s \in [D -> Int] /\ Total(s) = fee
         /\ Cardinality(D) <= 3 =>
               \A r \in D : /\ s[r] >= 0
                            /\ (s[r] - 1) * w <= fee * g[r]
                            /\ fee * g[r] <= (s[r] + 1) * w
<1> DEFINE w == SumFunction(g)
           x == [r \in D |-> Round(fee * g[r], w)]
           v == fee - (SumFunction(x) - x[last])
           s == Spread(fee, g)
           E == D \ {last}
           e == [r \in E |-> x[r]]
           h == [r \in E |-> g[r]]
<1>1. last \in D
  OBVIOUS
<1>2. s = [x EXCEPT ![last] = v]
  BY DEF Spread, Total
<1>3. IsFiniteSet(E) /\ Cardinality(E) = Cardinality(D) - 1 /\ Cardinality(D) \in Nat
  BY <1>1, FS_RemoveElement, FS_CardinalityType
<1>4. h \in [E -> Int] /\ \A r \in E : h[r] = g[r]
  OBVIOUS
<1>18. h \in [E -> Nat]
  OBVIOUS
<1>5. g \in [D -> Int] /\ g[last] \in Nat /\ g[last] > 0
  BY <1>1
<1> HIDE DEF h
<1>6. w = g[last] + SumFunction(h)
  BY <1>1, <1>4, <1>5, SumTakeOut
<1>7. SumFunction(h) \in Nat
  BY <1>3, <1>18, SumNat
<1>8. w \in Nat /\ w > 0
  BY <1>5, <1>6, <1>7
<1>9. \A r \in D : /\ x[r] \in Nat
                   /\ 2 * (w * x[r]) <= 2 * (fee * g[r]) + w
                   /\ 2 * (fee * g[r]) <= 2 * (w * x[r]) + w
  <2> SUFFICES ASSUME NEW r \in D
               PROVE  /\ x[r] \in Nat
                      /\ 2 * (w * x[r]) <= 2 * (fee * g[r]) + w
                      /\ 2 * (fee * g[r]) <= 2 * (w * x[r]) + w
    OBVIOUS
  <2> DEFINE p == fee * g[r]
  <2>1. x[r] = Round(p, w)
    OBVIOUS
  <2>2. p \in Nat
    OBVIOUS
  <2> HIDE DEF p, x, w
  <2> QED
    BY <1>8, <2>1, <2>2, RoundIs DEF p
<1>10. x \in [D -> Int] /\ e \in [E -> Int] /\ \A r \in E : e[r] = x[r]
  BY <1>9
<1> HIDE DEF x, w, e, v, s
<1>11. SumFunction(x) \in Int /\ SumFunction(e) \in Int
  BY <1>3, <1>10, SumInt
<1>12. SumFunction(x) = x[last] + SumFunction(e)
  BY <1>1, <1>10, SumTakeOut
<1>13. x[last] \in Int /\ v = fee - SumFunction(e) /\ v \in Int
  BY <1>1, <1>10, <1>11, <1>12 DEF v
<1>14. s \in [D -> Int] /\ s[last] = v /\ \A r \in D : r # last => s[r] = x[r]
  BY <1>1, <1>2, <1>10, <1>13
<1>15. SumFunction(s) = SumFunction(x) - x[last] + s[last]
  BY <1>1, <1>10, <1>14, SumChange
<1>16. SumFunction(s) = fee
  BY <1>11, <1>12, <1>13, <1>14, <1>15
<1>17. ASSUME Cardinality(D) <= 3, NEW r \in D
       PROVE  s[r] >= 0 /\ (s[r] - 1) * w <= fee * g[r] /\ fee * g[r] <= (s[r] + 1) * w
  <2>1. CASE r # last
    <3> DEFINE p == fee * g[r]
               y == x[r]
    <3>1. y \in Nat /\ 2 * (w * y) <= 2 * p + w /\ 2 * p <= 2 * (w * y) + w /\ s[r] = y
      BY <1>9, <1>14, <2>1
    <3>2. p \in Nat
      OBVIOUS
    <3> HIDE DEF p, y
    <3>3. (y - 1) * w = w * y - w /\ (y + 1) * w = w * y + w /\ w * y \in Nat
      BY <1>8, <3>1
    <3>4. (y - 1) * w <= p /\ p <= (y + 1) * w
      BY <1>8, <3>1, <3>2, <3>3
    <3> QED
      BY <3>1, <3>4 DEF p
  <2>2. CASE r = last
    <3> DEFINE f1 == [q \in E |-> (2 * w) * x[q]]
               f2 == [q \in E |-> (2 * fee) * g[q]]
               d == [q \in E |-> f1[q] - f2[q]]
               b == [q \in E |-> f2[q] - f1[q]]
               k == 2 * w
               l == 2 * fee
    <3>1. k \in Int /\ l \in Int
      BY <1>8
    <3>2. /\ f1 \in [E -> Int] /\ f2 \in [E -> Int] /\ d \in [E -> Int] /\ b \in [E -> Int]
          /\ \A q \in E : f1[q] = k * e[q]
          /\ \A q \in E : f2[q] = l * h[q]
          /\ \A q \in E : d[q] = f1[q] - f2[q] /\ b[q] = f2[q] - f1[q]
      BY <1>4, <1>8, <1>9, <1>10
    <3>3. ASSUME NEW q \in E
          PROVE  d[q] <= w /\ b[q] <= w
      <4> DEFINE m == w * x[q]
                 n == fee * g[q]
      <4>1. 2 * m <= 2 * n + w /\ 2 * n <= 2 * m + w /\ m \in Nat /\ n \in Nat
        BY <1>8, <1>9
      <4>2. f1[q] = 2 * m /\ f2[q] = 2 * n
        BY <1>8, <1>9
      <4> HIDE DEF m, n, f1, f2
      <4> QED
        BY <1>8, <3>2, <4>1, <4>2
    <3> HIDE DEF f1, f2, d, b, k, l
    <3>4. SumFunction(f1) = k * SumFunction(e)
      BY <1>3, <1>10, <3>1, <3>2, SumTimes
    <3>5. SumFunction(f2) = l * SumFunction(h)
      BY <1>3, <1>4, <3>1, <3>2, SumTimes
    <3>6. SumFunction(d) = SumFunction(f1) - SumFunction(f2)
      BY <1>3, <3>2, SumMinus
    <3>7. SumFunction(b) = SumFunction(f2) - SumFunction(f1)
      BY <1>3, <3>2, SumMinus
    <3>8. SumFunction(d) <= w * Cardinality(E)
      BY <1>3, <1>8, <3>2, <3>3, SumSmall
    <3>9. SumFunction(b) <= w * Cardinality(E)
      BY <1>3, <1>8, <3>2, <3>3, SumSmall
    <3>10. w * Cardinality(E) <= w * 2
      <4>1. Cardinality(E) \in Nat /\ Cardinality(E) <= 2
        BY <1>1, <1>3, <1>17, FS_CardinalityType
      <4> QED
        BY <1>8, <4>1, MoreTimes
    <3> DEFINE se == SumFunction(e)
               sh == SumFunction(h)
               we == w * se
               fh == fee * sh
               p == fee * g[last]
    <3>11. se \in Int /\ sh \in Nat /\ g[last] \in Nat /\ g[last] > 0
      BY <1>5, <1>7, <1>11
    <3>12. SumFunction(f1) \in Int /\ SumFunction(f2) \in Int
      BY <1>3, <3>2, SumInt
    <3> HIDE DEF se, sh
    <3>13. we \in Int /\ fh \in Int /\ p \in Nat /\ p > 0
      BY <1>8, <3>11
    <3>14. SumFunction(f1) = 2 * we /\ SumFunction(f2) = 2 * fh
      BY <1>8, <3>4, <3>5, <3>11 DEF k, l, se, sh
    <3>15. w * Cardinality(E) \in Int
      BY <1>3, <1>8, FS_CardinalityType
    <3>16. we - fh <= w /\ fh - we <= w
      BY <1>8, <3>6, <3>7, <3>8, <3>9, <3>10, <3>12, <3>13, <3>14, <3>15
    <3>17. w * v = w * fee - we /\ p = w * fee - fh /\ w * fee \in Int
      <4>1. w = g[last] + sh /\ v = fee - se
        BY <1>6, <1>13 DEF se, sh
      <4>2. \A i, j, t \in Int : i * (j - t) = i * j - i * t /\ i * (j + t) = i * j + i * t
        OBVIOUS
      <4>3. w * v = w * fee - w * se
        BY <1>8, <3>11, <4>1, <4>2
      <4>4. fee * w = p + fh
        BY <1>8, <3>11, <4>1, <4>2
      <4>5. fee * w = w * fee /\ w * fee \in Int
        BY <1>8
      <4> QED
        BY <3>13, <4>3, <4>4, <4>5
    <3>18. (v - 1) * w = w * v - w /\ (v + 1) * w = w * v + w /\ w * v \in Int
      BY <1>8, <1>13
    <3> HIDE DEF we, fh, p
    <3>19. (v - 1) * w <= p /\ p <= (v + 1) * w
      BY <1>8, <3>13, <3>16, <3>17, <3>18
    <3>20. v >= 0
      <4>1. ASSUME v <= -1 PROVE FALSE
        <5>1. 1 <= -v /\ -v \in Nat
          BY <1>13, <4>1
        <5>2. w * 1 <= w * (-v)
          BY <1>8, <5>1, MoreTimes
        <5>3. w * (-v) = -(w * v) /\ w * 1 = w
          BY <1>8, <1>13
        <5> QED
          BY <1>8, <3>13, <3>18, <3>19, <5>2, <5>3
      <4> QED
        BY <1>13, <4>1
    <3> QED
      BY <1>14, <2>2, <3>19, <3>20 DEF p
  <2> QED
    BY <2>1, <2>2
<1> QED
  BY <1>14, <1>16, <1>17 DEF s, w, Total

-----------------------------------------------------------------------------
(* Prices: the bill. *)

LEMMA RoundInt ==
  ASSUME NEW n \in Int, NEW d \in Nat, d > 0
  PROVE  Round(n, d) \in Int
  BY DEF Round

LEMMA SumOne ==
  ASSUME NEW x, NEW f \in [{x} -> Int]
  PROVE  SumFunction(f) = f[x]
<1> DEFINE e == [y \in {} |-> 0]
<1>1. e \in [{} -> Int] /\ {x} \ {x} = {} /\ \A y \in {} : e[y] = f[y]
  OBVIOUS
<1>2. IsFiniteSet({x}) /\ f[x] \in Int
  BY FS_Singleton
<1> HIDE DEF e
<1>3. SumFunction(e) = 0
  BY <1>1, SumEmpty
<1>4. /\ e \in [{x} \ {x} -> Int] /\ x \in {x}
      /\ \A y \in {x} \ {x} : e[y] = f[y]
  BY <1>1
<1>5. SumFunction(f) = f[x] + SumFunction(e)
  BY <1>2, <1>4, SumTakeOut
<1> QED
  BY <1>2, <1>3, <1>5

\* The shares of the fee, however it is taxed.
LEMMA SharesAre ==
  ASSUME CartInv, NEW plan \in FeePlans, NEW fee \in Nat, NEW paid \in [DOMAIN lines -> Nat]
  PROVE  LET s == FeeShares(plan, fee, Groups(paid))
             g == Groups(paid) IN
         /\ IsFiniteSet(DOMAIN s) /\ DOMAIN s \subseteq Nat
         /\ s \in [DOMAIN s -> Int] /\ Total(s) = fee
         /\ Cardinality(Rates) <= 3 =>
               \A r \in DOMAIN s :
                  /\ s[r] >= 0
                  /\ Cardinality(DOMAIN s) > 1 => /\ (s[r] - 1) * Total(g) <= fee * g[r]
                                                  /\ fee * g[r] <= (s[r] + 1) * Total(g)
<1> DEFINE g == Groups(paid)
           D == DOMAIN g
           s == FeeShares(plan, fee, g)
           w == Total(g)
<1>1. /\ D \subseteq Rates /\ g \in [D -> Nat] /\ \A r \in D : g[r] > 0
  BY GroupsAre
<1>2. IsFiniteSet(D) /\ D \subseteq Nat /\ Cardinality(D) <= Cardinality(Rates)
      /\ Cardinality(D) \in Nat /\ Cardinality(Rates) \in Nat
  BY <1>1, RatesAre, FS_Subset, FS_CardinalityType
<1> HIDE DEF g, w
<1>3. CASE fee = 0
  <2> DEFINE z == [rate \in {} |-> 0]
  <2>1. s = z
    BY <1>3 DEF FeeShares
  <2>2. z \in [{} -> Int] /\ DOMAIN z = {}
    OBVIOUS
  <2> HIDE DEF z, s
  <2>3. Total(z) = 0
    BY <2>2, SumEmpty DEF Total
  <2> QED
    BY <1>3, <2>1, <2>2, <2>3, FS_EmptySet DEF s, g, w
<1>4. ASSUME NEW x \in Nat, s = [rate \in {x} |-> fee]
      PROVE  /\ IsFiniteSet(DOMAIN s) /\ DOMAIN s \subseteq Nat
             /\ s \in [DOMAIN s -> Int] /\ Total(s) = fee
             /\ \A r \in DOMAIN s : s[r] >= 0
             /\ Cardinality(DOMAIN s) = 1
  <2> HIDE DEF s
  <2>1. s \in [{x} -> Int] /\ DOMAIN s = {x} /\ s[x] = fee
    BY <1>4
  <2>2. IsFiniteSet({x}) /\ Cardinality({x}) = 1
    BY FS_Singleton
  <2>3. Total(s) = fee
    BY <2>1, SumOne DEF Total
  <2> QED
    BY <2>1, <2>2, <2>3
<1>5. CASE fee # 0 /\ (plan.rate >= 0 \/ D = {})
  <2>1. plan.rate \in Nat \cup {-1}
    BY PricingAssumption
  <2>2. \E x \in Nat : s = [rate \in {x} |-> fee]
    <3> DEFINE x == plan.rate
    <3>1. CASE x >= 0
      <4>1. s = [rate \in {x} |-> fee]
        BY <1>5, <3>1, Zenon DEF FeeShares
      <4>2. x \in Nat
        BY <2>1, <3>1
      <4> HIDE DEF x, s
      <4> QED
        BY <4>1, <4>2
    <3>2. CASE ~(x >= 0)
      <4>1. s = [rate \in {700} |-> fee]
        BY <1>5, <3>2, Zenon DEF FeeShares
      <4> HIDE DEF s
      <4> QED
        BY <4>1
    <3> QED
      BY <3>1, <3>2
  <2> HIDE DEF s
  <2>4. PICK x \in Nat : s = [rate \in {x} |-> fee]
    BY <2>2, Zenon
  <2>3. /\ IsFiniteSet(DOMAIN s) /\ DOMAIN s \subseteq Nat
        /\ s \in [DOMAIN s -> Int] /\ Total(s) = fee
        /\ \A r \in DOMAIN s : s[r] >= 0
        /\ ~(Cardinality(DOMAIN s) > 1)
    BY <1>4, <2>4
  <2> QED
    BY <2>3 DEF s, g
<1>6. CASE fee # 0 /\ ~(plan.rate >= 0) /\ D # {}
  <2>1. s = Spread(fee, g)
    BY <1>6 DEF FeeShares
  <2> DEFINE last == LastRate(g)
  <2>2. last \in D
    BY <1>1, <1>2, <1>6, OneIsLast
  <2>3. fee > 0
    BY <1>6
  <2> HIDE DEF last, s, D
  <2>4. last = LastRate(g) /\ IsFiniteSet(D) /\ g \in [D -> Nat] /\ \A r \in D : g[r] > 0
    BY <1>1, <1>2 DEF last
  <2>5. /\ s \in [D -> Int] /\ Total(s) = fee
        /\ Cardinality(D) <= 3 =>
              \A r \in D : /\ s[r] >= 0
                           /\ (s[r] - 1) * w <= fee * g[r]
                           /\ fee * g[r] <= (s[r] + 1) * w
    BY <2>1, <2>2, <2>3, <2>4, SpreadIs DEF w
  <2>6. DOMAIN s = D
    BY <2>5
  <2>7. Cardinality(Rates) <= 3 => Cardinality(D) <= 3
    BY <1>2 DEF D
  <2> QED
    BY <1>2, <2>5, <2>6, <2>7 DEF s, g, w, D
<1> QED
  BY <1>3, <1>5, <1>6

\* What a bill promises, and what it promises with up to three tax rates.
Balanced(b) == LastCanTake(b) => Consistent(b)

AddsUp(b) == Balanced(b) /\ (Cardinality(Rates) <= 3 => FeeIsShared(b))

LEMMA BillIs ==
  ASSUME CartInv, lines # <<>>, NEW plan \in FeePlans, NEW balance \in Cards
  PROVE  AddsUp(Bill(plan, balance))
<1> DEFINE b == Bill(plan, balance)
           d == Discount
           parts == Parts(d)
           paid == Paid(parts)
           fee == Fee(plan, d)
           g == Groups(paid)
           s == FeeShares(plan, fee, g)
           nl == [i \in DOMAIN lines |-> Net(paid[i], RateOf(i))]
           ns == [rate \in DOMAIN s |-> Net(s[rate], rate)]
           net == Total(nl) + Total(ns)
           before == Tickets - d + fee
           gift == Smaller(balance, before)
           tax == Total(paid) + Total(s) - net
           total == AtLeast0(before - gift)
           code == CodeUsed # {}
<1>1. /\ b.discount = d /\ b.parts = parts /\ b.paid = paid /\ b.fee = fee /\ b.shares = s
      /\ b.gift = gift /\ b.net = net /\ b.tax = tax /\ b.total = total
  BY DEF Bill
<1>2. d \in Nat /\ Tickets \in Nat /\ d <= Tickets
  BY DiscountIs, CartIs
<1> HIDE DEF d
<1>3. parts \in [DOMAIN lines -> Int] /\ Total(parts) = d
  BY <1>2, PartsAre
<1>4. /\ paid \in [DOMAIN lines -> Nat]
      /\ Amount(lines[Len(lines)]) >= parts[Len(lines)] => Total(paid) = Tickets - d
  BY <1>2, <1>3, PaidIs
<1> HIDE DEF parts, paid
<1>5. fee \in Nat
  <2> DEFINE base == IF plan.before THEN Tickets ELSE Tickets - d
  <2>1. fee = Bps(base, plan.bps)
    BY DEF Fee
  <2>2. base \in Nat /\ plan.bps \in Nat
    BY <1>2, PricingAssumption
  <2> HIDE DEF base
  <2> DEFINE n == base * plan.bps
  <2>3. n \in Nat
    BY <2>2
  <2>4. fee = Round(n, 10000)
    BY <2>1 DEF Bps
  <2> HIDE DEF n
  <2>5. Round(n, 10000) \in Nat
    BY <2>3, RoundIs
  <2> QED
    BY <2>4, <2>5
<1> HIDE DEF fee
<1>6. /\ IsFiniteSet(DOMAIN s) /\ DOMAIN s \subseteq Nat
      /\ s \in [DOMAIN s -> Int] /\ Total(s) = fee
      /\ Cardinality(Rates) <= 3 =>
            \A r \in DOMAIN s :
               /\ s[r] >= 0
               /\ Cardinality(DOMAIN s) > 1 => /\ (s[r] - 1) * Total(g) <= fee * g[r]
                                               /\ fee * g[r] <= (s[r] + 1) * Total(g)
  BY <1>4, <1>5, SharesAre
<1>7. net \in Int
  <2>1. ASSUME NEW n \in Int, NEW rate \in Nat
        PROVE  Net(n, rate) \in Int
    BY RoundInt DEF Net
  <2>2. \A i \in DOMAIN lines : RateOf(i) \in Nat
    BY CartIs, PricingAssumption DEF RateOf
  <2>3. nl \in [DOMAIN lines -> Int]
    BY <1>4, <2>1, <2>2
  <2>4. ns \in [DOMAIN s -> Int]
    BY <1>6, <2>1
  <2>5. IsFiniteSet(DOMAIN lines)
    BY CartIs
  <2> DEFINE D == DOMAIN s
             E == DOMAIN lines
  <2> HIDE DEF nl, ns, s
  <2>6. SumFunction(nl) \in Int /\ SumFunction(ns) \in Int
    BY <1>6, <2>3, <2>4, <2>5, SumInt
  <2> QED
    BY <2>6 DEF Total
<1>8. Total(paid) \in Int
  <2>1. paid \in [DOMAIN lines -> Int] /\ IsFiniteSet(DOMAIN lines)
    BY <1>4, CartIs
  <2> QED
    BY <2>1, SumInt DEF Total
<1> HIDE DEF s, net, g
<1>9. before \in Nat /\ balance \in Nat
  BY <1>2, <1>5, PricingAssumption
<1> HIDE DEF before
<1>10. total + gift = before
  BY <1>9 DEF Smaller, AtLeast0
<1>11. net + tax = Total(paid) + Total(s)
  BY <1>5, <1>6, <1>7, <1>8
<1> HIDE DEF total, tax, gift, b
<1>12. Balanced(b)
  <2> SUFFICES ASSUME LastCanTake(b) PROVE Consistent(b)
    BY DEF Balanced
  <2>1. Total(paid) = Tickets - d
    BY <1>1, <1>4 DEF LastCanTake
  <2> QED
    BY <1>1, <1>2, <1>3, <1>5, <1>6, <1>10, <1>11, <2>1 DEF Consistent, before
<1>13. Cardinality(Rates) <= 3 => FeeIsShared(b)
  BY <1>1, <1>6 DEF FeeIsShared, g
<1> QED
  BY <1>12, <1>13 DEF AddsUp, b

BillInv == CartInv /\ \A b \in bill : AddsUp(b)

\* A bill is judged by the lines it was written for.
LEMMA SameLines ==
  ASSUME UNCHANGED lines, NEW b
  PROVE  AddsUp(b) => AddsUp(b)'
<1>1. Tickets' = Tickets
  BY DEF Tickets, Total, Amount
<1>2. Groups(b.paid)' = Groups(b.paid)
  BY DEF Groups, Total, RateOf
<1>3. LastCanTake(b)' <=> LastCanTake(b)
  BY DEF LastCanTake, Amount
<1>4. Consistent(b)' <=> Consistent(b)
  BY <1>1 DEF Consistent, Total
<1>5. FeeIsShared(b)' <=> FeeIsShared(b)
  BY <1>2 DEF FeeIsShared, Total
<1> QED
  BY <1>3, <1>4, <1>5 DEF AddsUp, Balanced, Rates

LEMMA BillNext == BillInv /\ [PriceNext]_priceVars => BillInv'
<1> SUFFICES ASSUME BillInv, [PriceNext]_priceVars PROVE BillInv'
  OBVIOUS
<1>1. CartInv /\ CartInv'
  BY CartNext DEF BillInv
<1>2. CASE UNCHANGED <<lines, bill>>
  <2>1. ASSUME NEW b \in bill
        PROVE  AddsUp(b)'
    <3>1. AddsUp(b)
      BY DEF BillInv
    <3> QED
      BY <1>2, <3>1, SameLines
  <2> QED
    BY <1>1, <1>2, <2>1 DEF BillInv
<1>3. CASE bill' = {}
  BY <1>1, <1>3 DEF BillInv
<1>4. ASSUME NEW plan \in FeePlans, NEW balance \in Cards, Ordered(plan, balance)
      PROVE  BillInv'
  <2>1. lines # <<>> /\ bill' = {Bill(plan, balance)} /\ lines' = lines
    BY <1>1, <1>4 DEF Ordered, CartInv
  <2> DEFINE b == Bill(plan, balance)
  <2>2. AddsUp(b)
    BY <1>1, <2>1, BillIs
  <2> HIDE DEF b
  <2>3. ASSUME NEW c, c = Bill(plan, balance)
        PROVE  AddsUp(c)'
    <3>1. AddsUp(c)
      BY <2>2, <2>3, Zenon DEF b
    <3> QED
      BY <2>1, <3>1, SameLines
  <2>4. \A c \in bill' : c = Bill(plan, balance)
    BY <2>1
  <2> QED
    BY <1>1, <2>3, <2>4 DEF BillInv
<1>5. UNCHANGED <<lines, bill>> \/ bill' = {}
      \/ \E plan \in FeePlans, balance \in Cards : Ordered(plan, balance)
  BY <1>1 DEF PriceNext, priceVars, Add, Enter, Switch, Reprice, Refuse, CartInv
<1> QED
  BY <1>2, <1>3, <1>4, <1>5

\* For any prices, campaigns, codes, fees and gift cards, and carts of any size: net amounts,
\* taxes and fee of an order add up to what the buyer pays, unless the last line is too
\* cheap for the drift.
THEOREM BillsBalance == PriceSpec => [](\A b \in bill : Balanced(b))
<1>1. PriceInit => BillInv
  BY CartInit DEF PriceInit, BillInv
<1>2. BillInv => \A b \in bill : Balanced(b)
  BY DEF BillInv, AddsUp
<1>3. BillInv /\ [PriceNext]_priceVars => BillInv'
  BY BillNext
<1> QED
  BY <1>1, <1>2, <1>3, PTL DEF PriceSpec

\* And with up to three tax rates, each has its proportion of the fee to within a cent.
THEOREM BillsAddUp == ASSUME Cardinality(Rates) <= 3 PROVE PriceSpec => []BillAddsUp
<1>1. PriceInit => BillInv
  BY CartInit DEF PriceInit, BillInv
<1>2. BillInv => BillAddsUp
  BY DEF BillInv, AddsUp, Balanced, BillAddsUp
<1>3. BillInv /\ [PriceNext]_priceVars => BillInv'
  BY BillNext
<1> QED
  BY <1>1, <1>2, <1>3, PTL DEF PriceSpec
-----------------------------------------------------------------------------
(* Seats: what is chosen by a score, and what is repeated. *)

\* Of scores that are bounded below one is least.
LEMMA LeastScore ==
  ASSUME NEW S, S # {}, NEW score \in [S -> Int], NEW floor \in Int,
         \A x \in S : floor <= score[x]
  PROVE  \E x \in S : \A y \in S : score[x] <= score[y]
<1> DEFINE T == {score[x] - floor : x \in S}
<1>1. \A x \in S : score[x] \in Int /\ score[x] - floor \in Nat
  OBVIOUS
<1>2. T \subseteq Nat /\ T # {}
  BY <1>1
<1> HIDE DEF T
<1>3. PICK n \in T : \A m \in T : n <= m
  BY <1>2, LeastNatural
<1>4. PICK x \in S : n = score[x] - floor
  BY DEF T
<1>5. ASSUME NEW y \in S
      PROVE  score[x] <= score[y]
  <2>1. score[y] - floor \in T
    BY DEF T
  <2>2. score[x] - floor <= score[y] - floor
    BY <1>3, <1>4, <2>1
  <2> QED
    BY <1>1, <2>2
<1> QED
  BY <1>5

\* What starts somewhere and takes q steps.
Course(g, D, base, step, q) ==
    g \in [0..q -> D] /\ g[0] = base /\ \A i \in 1..q : g[i] = step[g[i - 1]]

LEMMA Repeated ==
  ASSUME NEW D, NEW base, base \in D, NEW step, step \in [D -> D], NEW q, q \in Nat
  PROVE  \E g : Course(g, D, base, step, q)
<1> DEFINE Goes(g, n) == /\ g \in [0..n -> D]
                         /\ g[0] = base /\ \A i \in 1..n : g[i] = step[g[i - 1]]
           T == {m \in Nat : \A g : ~Goes(g, m)}
<1>1. ASSUME NEW m \in Nat, NEW g, Goes(g, m)
      PROVE  \E h : Goes(h, m + 1)
  <2> DEFINE h == [i \in 0..(m + 1) |-> IF i = m + 1 THEN step[g[m]] ELSE g[i]]
  <2>1. g[m] \in D
    BY <1>1
  <2>2. h \in [0..(m + 1) -> D]
    BY <1>1, <2>1
  <2>3. h[0] = base
    BY <1>1
  <2>4. ASSUME NEW i \in 1..(m + 1)
        PROVE  h[i] = step[h[i - 1]]
    <3>1. CASE i = m + 1
      BY <3>1
    <3>2. CASE i # m + 1
      BY <1>1, <3>2
    <3> QED
      BY <3>1, <3>2
  <2> HIDE DEF h
  <2> QED
    BY <2>2, <2>3, <2>4
<1>2. Goes([i \in 0..0 |-> base], 0)
  OBVIOUS
<1> HIDE DEF Goes
<1>3. ASSUME T # {}
      PROVE  FALSE
  <2>1. T \subseteq Nat
    OBVIOUS
  <2>2. PICK m \in T : \A k \in T : m <= k
    BY <1>3, <2>1, LeastNatural
  <2>3. m \in Nat /\ m # 0
    BY <1>2
  <2>4. m - 1 \in Nat /\ m - 1 \notin T
    BY <2>2, <2>3
  <2>5. PICK g : Goes(g, m - 1)
    BY <2>4
  <2>6. \E h : Goes(h, (m - 1) + 1)
    BY <1>1, <2>4, <2>5
  <2>7. (m - 1) + 1 = m
    BY <2>3
  <2> QED
    BY <2>6, <2>7
<1>4. \E g : Goes(g, q)
  BY <1>3
<1> QED
  BY <1>4 DEF Goes, Course

\* A property that the steps hand on is one of every state.
LEMMA HandedOn ==
  ASSUME NEW q \in Nat, NEW Good, 0 \in Good, \A i \in 1..q : i - 1 \in Good => i \in Good
  PROVE  \A i \in 0..q : i \in Good
<1> DEFINE T == {m \in 0..q : m \notin Good}
<1>1. ASSUME T # {}
      PROVE  FALSE
  <2>1. T \subseteq Nat
    OBVIOUS
  <2>2. PICK m \in T : \A k \in T : m <= k
    BY <1>1, <2>1, LeastNatural
  <2>3. m \in 1..q /\ m - 1 \in 0..q
    OBVIOUS
  <2>4. m - 1 \notin T
    BY <2>2, <2>3
  <2> QED
    BY <2>2, <2>3, <2>4
<1> QED
  BY <1>1

\* A finite set has subsets of every smaller size.
LEMMA SomeOf ==
  ASSUME NEW S, IsFiniteSet(S), NEW n \in Nat, n <= Cardinality(S)
  PROVE  \E T \in SUBSET S : Cardinality(T) = n
<1>1. Cardinality(S) \in Nat /\ ExistsBijection(1..Cardinality(S), S)
  BY FS_CardinalityType
<1>2. PICK f \in Bijection(1..Cardinality(S), S) : TRUE
  BY <1>1 DEF ExistsBijection
<1>3. f \in [1..Cardinality(S) -> S]
      /\ \A i, j \in 1..Cardinality(S) : f[i] = f[j] => i = j
  BY <1>2 DEF Bijection, Injection, IsInjective
<1> DEFINE T == {f[i] : i \in 1..n}
           e == [i \in 1..n |-> f[i]]
<1>4. 1..n \subseteq 1..Cardinality(S)
  BY <1>1
<1>5. e \in Injection(1..n, T) /\ e \in Surjection(1..n, T) /\ T \subseteq S
  BY <1>3, <1>4, Zenon DEF Injection, IsInjective, Surjection
<1>6. IsFiniteSet(1..n) /\ Cardinality(1..n) = n
  BY FS_Interval
<1> HIDE DEF e, T
<1>7. Cardinality(T) = n
  BY <1>5, <1>6, FS_Surjection
<1> QED
  BY <1>5, <1>7

-----------------------------------------------------------------------------
(* Seats: places, blocks and runs. *)

\* Seats side by side in a segment.
Block == {b \in [g: Segments, from: Nat, n: Nat \ {0}] : b.from + b.n <= SeatCount[b.g]}

\* A block of free seats that cannot be extended.
IsRun(free, r) ==
    /\ r \in Block /\ SeatsOf(r) \subseteq free
    /\ <<r.g, r.from - 1>> \notin free /\ <<r.g, r.from + r.n>> \notin free

LEMMA SliceFields ==
  ASSUME NEW g, NEW f, NEW n
  PROVE  Slice(g, f, n).g = g /\ Slice(g, f, n).from = f /\ Slice(g, f, n).n = n
  BY Zenon DEF Slice

LEMMA BlockFields ==
  ASSUME NEW b \in Block
  PROVE  /\ b.g \in Segments /\ b.from \in Nat /\ b.n \in Nat /\ b.n > 0
         /\ SeatCount[b.g] \in Nat /\ b.from + b.n <= SeatCount[b.g]
         /\ b = Slice(b.g, b.from, b.n)
<1>1. b \in [g: Segments, from: Nat, n: Nat \ {0}]
  BY DEF Block
<1>2. b = Slice(b.g, b.from, b.n)
  BY <1>1, Zenon DEF Slice
<1> QED
  BY <1>1, <1>2, SeatChoiceAssumption DEF Block

LEMMA BlockOf ==
  ASSUME NEW g \in Segments, NEW f \in Nat, NEW n \in Nat, n > 0, f + n <= SeatCount[g]
  PROVE  Slice(g, f, n) \in Block
  BY DEF Slice, Block

LEMMA IsPlace ==
  ASSUME NEW x
  PROVE  x \in Places <=> \E g \in Segments : \E p \in Nat : p < SeatCount[g] /\ x = <<g, p>>
<1>1. ASSUME NEW g \in Segments
      PROVE  /\ {g} \X (0..(SeatCount[g] - 1)) = {<<g, p>> : p \in 0..(SeatCount[g] - 1)}
             /\ \A p : p \in 0..(SeatCount[g] - 1) <=> p \in Nat /\ p < SeatCount[g]
  <2>1. SeatCount[g] \in Nat
    BY SeatChoiceAssumption
  <2>2. \A p : p \in 0..(SeatCount[g] - 1) <=> p \in Nat /\ p < SeatCount[g]
    BY <2>1
  <2>3. {g} \X (0..(SeatCount[g] - 1)) = {<<g, p>> : p \in 0..(SeatCount[g] - 1)}
    OBVIOUS
  <2> QED
    BY <2>2, <2>3
<1>2. x \in Places <=> \E g \in Segments : x \in {g} \X (0..(SeatCount[g] - 1))
  BY Zenon DEF Places
<1>3. ASSUME NEW g \in Segments
      PROVE  x \in {g} \X (0..(SeatCount[g] - 1)) <=> \E p \in Nat : p < SeatCount[g] /\ x = <<g, p>>
  BY <1>1
<1> QED
  BY <1>2, <1>3

LEMMA Stretch ==
  ASSUME NEW a \in Int, NEW b \in Int
  PROVE  IsFiniteSet(a..b) /\ (a <= b + 1 => Cardinality(a..b) = b - a + 1)
<1>1. IsFiniteSet(a..b) /\ Cardinality(a..b) = IF a > b THEN 0 ELSE b - a + 1
  BY FS_Interval
<1> QED
  BY <1>1

LEMMA PlacesFinite == IsFiniteSet(Places) /\ IsFiniteSet(Free) /\ Free \subseteq Places
<1> DEFINE row == [g \in Segments |-> {g} \X (0..(SeatCount[g] - 1))]
           T == {{g} \X (0..(SeatCount[g] - 1)) : g \in Segments}
<1>1. row \in Surjection(Segments, T)
  BY Zenon DEF Surjection
<1>2. \A g \in Segments : IsFiniteSet({g} \X (0..(SeatCount[g] - 1)))
  <2> SUFFICES ASSUME NEW g \in Segments PROVE IsFiniteSet({g} \X (0..(SeatCount[g] - 1)))
    OBVIOUS
  <2> DEFINE a == 0
             z == SeatCount[g] - 1
  <2>1. a \in Int /\ z \in Int
    BY SeatChoiceAssumption
  <2> HIDE DEF a, z
  <2>2. IsFiniteSet(a..z)
    BY <2>1, Stretch
  <2>3. IsFiniteSet({g} \X (a..z))
    BY <2>2, FS_Singleton, FS_Product
  <2> QED
    BY <2>3 DEF a, z
<1>3. \A t \in T : IsFiniteSet(t)
  BY <1>2, Zenon
<1>4. Places = UNION T
  BY DEF Places
<1> HIDE DEF row, T
<1>5. IsFiniteSet(T)
  BY <1>1, FS_Surjection, SeatChoiceAssumption
<1>6. IsFiniteSet(Places)
  BY <1>3, <1>4, <1>5, FS_UNION
<1> QED
  BY <1>6, FS_Subset DEF Free

\* The seats of a block, one for each position.
LEMMA BlockSeats ==
  ASSUME NEW b \in Block
  PROVE  /\ \A x : x \in SeatsOf(b) <=> \E p \in Nat : /\ b.from <= p /\ p < b.from + b.n
                                                       /\ x = <<b.g, p>>
         /\ IsFiniteSet(SeatsOf(b)) /\ Cardinality(SeatsOf(b)) = b.n
         /\ SeatsOf(b) \subseteq Places
<1>1. /\ b.g \in Segments /\ b.from \in Nat /\ b.n \in Nat /\ b.n > 0
      /\ SeatCount[b.g] \in Nat /\ b.from + b.n <= SeatCount[b.g]
  BY BlockFields
<1> DEFINE I == b.from..(b.from + b.n - 1)
           e == [p \in I |-> <<b.g, p>>]
<1>2. \A p : p \in I <=> p \in Nat /\ b.from <= p /\ p < b.from + b.n
  BY <1>1
<1>3. SeatsOf(b) = {<<b.g, p>> : p \in I}
  BY DEF SeatsOf
<1>5. IsFiniteSet(I) /\ Cardinality(I) = b.n
  <2> DEFINE a == b.from
             z == b.from + b.n - 1
  <2>1. a \in Int /\ z \in Int /\ a <= z + 1 /\ z - a + 1 = b.n
    BY <1>1
  <2> HIDE DEF a, z
  <2>2. IsFiniteSet(a..z) /\ Cardinality(a..z) = b.n
    BY <2>1, Stretch
  <2> QED
    BY <2>2 DEF a, z
<1> HIDE DEF I
<1>7. e \in Surjection(I, SeatsOf(b)) /\ e \in Injection(I, SeatsOf(b))
  <2>1. e \in [I -> SeatsOf(b)]
    BY <1>3
  <2>2. \A x \in SeatsOf(b) : \E p \in I : e[p] = x
    BY <1>3
  <2>3. \A p, k \in I : e[p] = e[k] => p = k
    OBVIOUS
  <2> HIDE DEF e
  <2> QED
    BY <2>1, <2>2, <2>3, Zenon DEF Surjection, Injection, IsInjective
<1> HIDE DEF e
<1>8. IsFiniteSet(SeatsOf(b)) /\ Cardinality(SeatsOf(b)) = b.n
  BY <1>5, <1>7, FS_Surjection
<1>9. \A x : x \in SeatsOf(b) <=> \E p \in Nat : /\ b.from <= p /\ p < b.from + b.n
                                                 /\ x = <<b.g, p>>
  BY <1>2, <1>3
<1>10. SeatsOf(b) \subseteq Places
  BY <1>1, <1>9, IsPlace
<1> QED
  BY <1>8, <1>9, <1>10

\* The places from x on are free up to a first one that is not.
LEMMA ReachIs ==
  ASSUME NEW free \in SUBSET Places, NEW g \in Segments, NEW p \in Nat, <<g, p>> \in free
  PROVE  LET n == Reach(free, <<g, p>>) IN
         /\ n \in Nat /\ n > 0 /\ p + n <= SeatCount[g]
         /\ \A i \in Nat : p <= i /\ i < p + n => <<g, i>> \in free
         /\ <<g, p + n>> \notin free
<1>1. SeatCount[g] \in Nat /\ \A i \in Nat : <<g, i>> \in free => i < SeatCount[g]
  <2>1. ASSUME NEW i \in Nat, <<g, i>> \in free
        PROVE  i < SeatCount[g]
    BY <2>1, IsPlace
  <2> QED
    BY <2>1, SeatChoiceAssumption
<1> DEFINE T == {m \in Nat : <<g, p + m>> \notin free}
           Ends(n) == /\ \A i \in p..(p + n - 1) : <<g, i>> \in free
                      /\ <<g, p + n>> \notin free
<1>2. T \subseteq Nat /\ T # {}
  <2>1. SeatCount[g] - p \in Nat /\ <<g, p + (SeatCount[g] - p)>> \notin free
    <3>1. p < SeatCount[g]
      BY <1>1
    <3>2. p + (SeatCount[g] - p) = SeatCount[g]
      BY <1>1
    <3> QED
      BY <1>1, <3>1, <3>2
  <2>2. SeatCount[g] - p \in T
    BY <2>1
  <2> QED
    BY <2>2
<1>3. PICK n \in T : \A m \in T : n <= m
  <2> HIDE DEF T
  <2> QED
    BY <1>2, LeastNatural
<1>4. n \in Nat /\ <<g, p + n>> \notin free
  OBVIOUS
<1>5. ASSUME NEW i \in Nat, p <= i, i < p + n
      PROVE  <<g, i>> \in free
  <2>1. i - p \in Nat /\ ~(n <= i - p) /\ p + (i - p) = i
    BY <1>4, <1>5
  <2> QED
    BY <1>3, <2>1
<1>6. n \in 1..(SeatCount[g] - p)
  <2>1. n # 0
    BY <1>4
  <2>2. p + n - 1 \in Nat /\ p <= p + n - 1 /\ p + n - 1 < p + n
    BY <1>4, <2>1
  <2>3. p + n - 1 < SeatCount[g]
    BY <1>1, <1>5, <2>2
  <2> QED
    BY <1>1, <1>4, <2>1, <2>3
<1>7. Ends(n)
  BY <1>4, <1>5
<1>8. Reach(free, <<g, p>>) = CHOOSE m \in 1..(SeatCount[g] - p) : Ends(m)
  BY DEF Reach
<1> DEFINE r == Reach(free, <<g, p>>)
<1>9. r \in 1..(SeatCount[g] - p) /\ Ends(r)
  <2> HIDE DEF Ends
  <2> QED
    BY <1>6, <1>7, <1>8
<1> HIDE DEF r
<1>10. /\ r \in Nat /\ r > 0 /\ p + r <= SeatCount[g]
       /\ \A i \in Nat : p <= i /\ i < p + r => <<g, i>> \in free
       /\ <<g, p + r>> \notin free
  BY <1>1, <1>9
<1> QED
  BY <1>10 DEF r

LEMMA RunFacts ==
  ASSUME NEW free, NEW r, IsRun(free, r)
  PROVE  /\ r \in Block /\ r.g \in Segments /\ r.from \in Nat /\ r.n \in Nat /\ r.n > 0
         /\ \A p \in Nat : r.from <= p /\ p < r.from + r.n => <<r.g, p>> \in free
         /\ <<r.g, r.from - 1>> \notin free /\ <<r.g, r.from + r.n>> \notin free
<1>1. r \in Block
  BY DEF IsRun
<1>2. \A p \in Nat : r.from <= p /\ p < r.from + r.n => <<r.g, p>> \in SeatsOf(r)
  BY <1>1, BlockSeats
<1> QED
  BY <1>1, <1>2, BlockFields DEF IsRun

\* findFreeRuns finds the blocks that cannot be extended.
LEMMA RunsAre ==
  ASSUME NEW free \in SUBSET Places
  PROVE  \A r : r \in Runs(free) <=> IsRun(free, r)
<1>1. ASSUME NEW r \in Runs(free)
      PROVE  IsRun(free, r)
  <2>1. PICK x \in free : /\ <<x[1], x[2] - 1>> \notin free
                          /\ r = Slice(x[1], x[2], Reach(free, x))
    BY Zenon DEF Runs
  <2>2. PICK g \in Segments, p \in Nat : x = <<g, p>>
    BY IsPlace
  <2>3. x[1] = g /\ x[2] = p
    BY <2>2
  <2> DEFINE n == Reach(free, <<g, p>>)
  <2>4. /\ n \in Nat /\ n > 0 /\ p + n <= SeatCount[g]
        /\ \A i \in Nat : p <= i /\ i < p + n => <<g, i>> \in free
        /\ <<g, p + n>> \notin free
    BY <2>2, ReachIs
  <2>5. r = Slice(g, p, n) /\ <<g, p - 1>> \notin free
    BY <2>1, <2>2, <2>3
  <2> HIDE DEF n
  <2>6. r \in Block
    BY <2>4, <2>5, BlockOf
  <2>7. r.g = g /\ r.from = p /\ r.n = n
    BY <2>5, SliceFields
  <2>8. SeatsOf(r) \subseteq free
    BY <2>4, <2>6, <2>7, BlockSeats
  <2> QED
    BY <2>4, <2>5, <2>6, <2>7, <2>8 DEF IsRun
<1>2. ASSUME NEW r, IsRun(free, r)
      PROVE  r \in Runs(free)
  <2>1. /\ r \in Block /\ r.g \in Segments /\ r.from \in Nat /\ r.n \in Nat /\ r.n > 0
        /\ \A p \in Nat : r.from <= p /\ p < r.from + r.n => <<r.g, p>> \in free
        /\ <<r.g, r.from - 1>> \notin free /\ <<r.g, r.from + r.n>> \notin free
    BY <1>2, RunFacts
  <2> DEFINE x == <<r.g, r.from>>
             n == Reach(free, x)
  <2>2. x \in free /\ x[1] = r.g /\ x[2] = r.from
    BY <2>1
  <2>3. /\ n \in Nat /\ n > 0
        /\ \A i \in Nat : r.from <= i /\ i < r.from + n => <<r.g, i>> \in free
        /\ <<r.g, r.from + n>> \notin free
    BY <2>1, <2>2, ReachIs
  <2> HIDE DEF n
  <2>4. n = r.n
    <3>1. ~(n < r.n)
      <4>1. ASSUME n < r.n
            PROVE  FALSE
        <5>1. r.from + n \in Nat /\ r.from <= r.from + n /\ r.from + n < r.from + r.n
          BY <2>1, <2>3, <4>1
        <5> QED
          BY <2>1, <2>3, <5>1
      <4> QED
        BY <4>1
    <3>2. ~(r.n < n)
      <4>1. ASSUME r.n < n
            PROVE  FALSE
        <5>1. r.from + r.n \in Nat /\ r.from <= r.from + r.n /\ r.from + r.n < r.from + n
          BY <2>1, <2>3, <4>1
        <5> QED
          BY <2>1, <2>3, <5>1
      <4> QED
        BY <4>1
    <3> QED
      BY <2>1, <2>3, <3>1, <3>2
  <2>5. r = Slice(x[1], x[2], n)
    BY <2>1, <2>2, <2>4, BlockFields
  <2>6. x \in {y \in free : <<y[1], y[2] - 1>> \notin free}
    BY <2>1, <2>2
  <2> HIDE DEF x
  <2> QED
    BY <2>5, <2>6 DEF Runs, n
<1> QED
  BY <1>1, <1>2

LEMMA RunsFinite ==
  ASSUME NEW free \in SUBSET Places
  PROVE  IsFiniteSet(Runs(free))
<1> DEFINE S == {y \in free : <<y[1], y[2] - 1>> \notin free}
           e == [x \in S |-> Slice(x[1], x[2], Reach(free, x))]
<1>1. IsFiniteSet(S)
  BY PlacesFinite, FS_Subset
<1>2. e \in Surjection(S, Runs(free))
  BY Zenon DEF Surjection, Runs
<1> HIDE DEF S, e
<1> QED
  BY <1>1, <1>2, FS_Surjection

\* Runs that share a seat are the same.
LEMMA RunsApart ==
  ASSUME NEW free, NEW q, NEW r, IsRun(free, q), IsRun(free, r),
         NEW x \in SeatsOf(q), x \in SeatsOf(r)
  PROVE  q = r
<1>1. /\ q \in Block /\ q.from \in Nat /\ q.n \in Nat
      /\ \A p \in Nat : q.from <= p /\ p < q.from + q.n => <<q.g, p>> \in free
      /\ <<q.g, q.from - 1>> \notin free /\ <<q.g, q.from + q.n>> \notin free
  BY RunFacts
<1>2. /\ r \in Block /\ r.from \in Nat /\ r.n \in Nat
      /\ \A p \in Nat : r.from <= p /\ p < r.from + r.n => <<r.g, p>> \in free
      /\ <<r.g, r.from - 1>> \notin free /\ <<r.g, r.from + r.n>> \notin free
  BY RunFacts
<1>3. PICK p \in Nat : q.from <= p /\ p < q.from + q.n /\ x = <<q.g, p>>
  BY <1>1, BlockSeats
<1>4. PICK k \in Nat : r.from <= k /\ k < r.from + r.n /\ x = <<r.g, k>>
  BY <1>2, BlockSeats
<1>5. p = k /\ q.g = r.g
  BY <1>3, <1>4
<1>6. ~(q.from < r.from)
  <2>1. ASSUME q.from < r.from
        PROVE  FALSE
    <3>1. r.from - 1 \in Nat /\ q.from <= r.from - 1 /\ r.from - 1 < q.from + q.n
      BY <1>1, <1>2, <1>3, <1>4, <1>5, <2>1
    <3> QED
      BY <1>1, <1>2, <1>5, <3>1
  <2> QED
    BY <2>1
<1>7. ~(r.from < q.from)
  <2>1. ASSUME r.from < q.from
        PROVE  FALSE
    <3>1. q.from - 1 \in Nat /\ r.from <= q.from - 1 /\ q.from - 1 < r.from + r.n
      BY <1>1, <1>2, <1>3, <1>4, <1>5, <2>1
    <3> QED
      BY <1>1, <1>2, <1>5, <3>1
  <2> QED
    BY <2>1
<1>8. ~(q.from + q.n < r.from + r.n)
  <2>1. ASSUME q.from + q.n < r.from + r.n
        PROVE  FALSE
    <3>1. q.from + q.n \in Nat /\ r.from <= q.from + q.n
      BY <1>1, <1>2, <1>3, <1>4, <1>5
    <3> QED
      BY <1>1, <1>2, <1>5, <2>1, <3>1
  <2> QED
    BY <2>1
<1>9. ~(r.from + r.n < q.from + q.n)
  <2>1. ASSUME r.from + r.n < q.from + q.n
        PROVE  FALSE
    <3>1. r.from + r.n \in Nat /\ q.from <= r.from + r.n
      BY <1>1, <1>2, <1>3, <1>4, <1>5
    <3> QED
      BY <1>1, <1>2, <1>5, <2>1, <3>1
  <2> QED
    BY <2>1
<1>10. q.from = r.from /\ q.n = r.n
  BY <1>1, <1>2, <1>6, <1>7, <1>8, <1>9
<1>11. q = Slice(q.g, q.from, q.n) /\ r = Slice(r.g, r.from, r.n)
  BY <1>1, <1>2, BlockFields
<1> QED
  BY <1>5, <1>10, <1>11

\* The slices of a run are its blocks.
LEMMA SlicesAre ==
  ASSUME NEW r \in Block, NEW n \in Nat, n > 0
  PROVE  \A s : s \in Slices(r, n) <=>
           /\ s \in Block /\ s.g = r.g /\ s.n = n
           /\ r.from <= s.from /\ s.from + n <= r.from + r.n
<1>1. /\ r.g \in Segments /\ r.from \in Nat /\ r.n \in Nat /\ r.n > 0
      /\ SeatCount[r.g] \in Nat /\ r.from + r.n <= SeatCount[r.g]
  BY BlockFields
<1>2. ASSUME NEW s \in Slices(r, n)
      PROVE  /\ s \in Block /\ s.g = r.g /\ s.n = n
             /\ r.from <= s.from /\ s.from + n <= r.from + r.n
  <2>1. PICK f \in r.from..(r.from + r.n - n) : s = Slice(r.g, f, n)
    BY Zenon DEF Slices
  <2>2. f \in Nat /\ r.from <= f /\ f + n <= r.from + r.n /\ f + n <= SeatCount[r.g]
    BY <1>1
  <2>3. s \in Block
    BY <1>1, <2>1, <2>2, BlockOf
  <2> QED
    BY <2>1, <2>2, <2>3, SliceFields
<1>3. ASSUME NEW s \in Block, s.g = r.g, s.n = n, r.from <= s.from, s.from + n <= r.from + r.n
      PROVE  s \in Slices(r, n)
  <2>1. s = Slice(r.g, s.from, n) /\ s.from \in Nat
    BY <1>3, BlockFields
  <2>2. s.from \in r.from..(r.from + r.n - n)
    BY <1>1, <1>3, <2>1
  <2> QED
    BY <2>1, <2>2, Zenon DEF Slices
<1> QED
  BY <1>2, <1>3

\* Free seats side by side are a slice of a run.
LEMMA InARun ==
  ASSUME NEW free \in SUBSET Places, NEW b \in Block, SeatsOf(b) \subseteq free
  PROVE  \E r \in Runs(free) : b \in Slices(r, b.n)
<1>1. /\ b.g \in Segments /\ b.from \in Nat /\ b.n \in Nat /\ b.n > 0
      /\ \A p \in Nat : b.from <= p /\ p < b.from + b.n => <<b.g, p>> \in free
  BY BlockFields, BlockSeats
<1> DEFINE T == {m \in 0..b.from : \A p \in m..b.from : <<b.g, p>> \in free}
<1>2. b.from \in T
  BY <1>1
<1>3. PICK f \in T : \A m \in T : f <= m
  <2>1. T \subseteq Nat /\ T # {}
    BY <1>2
  <2> HIDE DEF T
  <2> QED
    BY <2>1, LeastNatural
<1>4. f \in Nat /\ f <= b.from /\ \A p \in Nat : f <= p /\ p <= b.from => <<b.g, p>> \in free
  BY <1>1
<1>5. <<b.g, f - 1>> \notin free
  <2>1. ASSUME <<b.g, f - 1>> \in free
        PROVE  FALSE
    <3>1. f - 1 \in Nat
      BY <1>4, <2>1, IsPlace
    <3>2. \A p \in (f - 1)..b.from : <<b.g, p>> \in free
      BY <1>1, <1>4, <2>1, <3>1
    <3>3. f - 1 \in T
      BY <1>1, <1>4, <3>1, <3>2
    <3> QED
      BY <1>3, <1>4, <3>3
  <2> QED
    BY <2>1
<1> DEFINE x == <<b.g, f>>
           n == Reach(free, x)
           r == Slice(b.g, f, n)
<1>6. x \in free /\ x[1] = b.g /\ x[2] = f
  BY <1>4
<1>7. /\ n \in Nat /\ n > 0 /\ f + n <= SeatCount[b.g]
      /\ <<b.g, f + n>> \notin free
  BY <1>1, <1>4, <1>6, ReachIs
<1>8. r \in Runs(free)
  <2>1. x \in {y \in free : <<y[1], y[2] - 1>> \notin free} /\ r = Slice(x[1], x[2], Reach(free, x))
    BY <1>5, <1>6
  <2> HIDE DEF x, r
  <2> QED
    BY <2>1 DEF Runs
<1> HIDE DEF T, x, n
<1>9. r \in Block /\ r.g = b.g /\ r.from = f /\ r.n = n
  BY <1>1, <1>4, <1>7, BlockOf, SliceFields
<1>10. b.from + b.n <= f + n
  <2>1. ASSUME f + n < b.from + b.n
        PROVE  FALSE
    <3>1. f + n \in Nat /\ f <= f + n
      BY <1>4, <1>7
    <3>2. <<b.g, f + n>> \in free
      BY <1>1, <1>4, <2>1, <3>1
    <3> QED
      BY <1>7, <3>2
  <2> QED
    BY <1>1, <1>4, <1>7, <2>1
<1> HIDE DEF r
<1>11. b \in Slices(r, b.n)
  BY <1>1, <1>4, <1>9, <1>10, SlicesAre
<1> QED
  BY <1>8, <1>11

-----------------------------------------------------------------------------
(* Single seats left over. *)

LEMMA SingletonsAre ==
  ASSUME NEW free \in SUBSET Places
  PROVE  \A x : x \in Singletons(free) <=>
           \E g \in Segments, p \in Nat : /\ x = <<g, p>> /\ x \in free
                                          /\ <<g, p - 1>> \notin free /\ <<g, p + 1>> \notin free
<1>1. ASSUME NEW x \in Singletons(free)
      PROVE  \E g \in Segments, p \in Nat : /\ x = <<g, p>> /\ x \in free
                                            /\ <<g, p - 1>> \notin free /\ <<g, p + 1>> \notin free
  <2>1. PICK r \in Runs(free) : r.n = 1 /\ x \in SeatsOf(r)
    BY Zenon DEF Singletons
  <2>2. IsRun(free, r)
    BY RunsAre
  <2>3. /\ r \in Block /\ r.g \in Segments /\ r.from \in Nat /\ r.n \in Nat /\ r.n > 0
        /\ \A p \in Nat : r.from <= p /\ p < r.from + r.n => <<r.g, p>> \in free
        /\ <<r.g, r.from - 1>> \notin free /\ <<r.g, r.from + r.n>> \notin free
    BY <2>2, RunFacts
  <2>4. PICK p \in Nat : r.from <= p /\ p < r.from + r.n /\ x = <<r.g, p>>
    BY <2>1, <2>3, BlockSeats
  <2>5. p = r.from
    BY <2>1, <2>3, <2>4
  <2> QED
    BY <2>1, <2>3, <2>4, <2>5
<1>2. ASSUME NEW g \in Segments, NEW p \in Nat, <<g, p>> \in free,
             <<g, p - 1>> \notin free, <<g, p + 1>> \notin free
      PROVE  <<g, p>> \in Singletons(free)
  <2> DEFINE r == Slice(g, p, 1)
  <2>1. SeatCount[g] \in Nat /\ p < SeatCount[g]
    BY <1>2, IsPlace, SeatChoiceAssumption
  <2>2. r \in Block /\ r.g = g /\ r.from = p /\ r.n = 1
    BY <2>1, BlockOf, SliceFields
  <2> HIDE DEF r
  <2>3. \A x : x \in SeatsOf(r) <=> x = <<g, p>>
    <3>1. \A x : x \in SeatsOf(r) <=> \E k \in Nat : p <= k /\ k < p + 1 /\ x = <<g, k>>
      BY <2>2, BlockSeats
    <3>2. \A k \in Nat : p <= k /\ k < p + 1 <=> k = p
      OBVIOUS
    <3> QED
      BY <3>1, <3>2
  <2>4. IsRun(free, r)
    BY <1>2, <2>2, <2>3 DEF IsRun
  <2>5. r \in Runs(free)
    BY <2>4, RunsAre
  <2> QED
    BY <2>2, <2>3, <2>5, Zenon DEF Singletons
<1>3. ASSUME NEW x, NEW g \in Segments, NEW p \in Nat, x = <<g, p>>, x \in free,
             <<g, p - 1>> \notin free, <<g, p + 1>> \notin free
      PROVE  x \in Singletons(free)
  BY <1>2, <1>3
<1> QED
  BY <1>1, <1>3

\* A party leaves a single seat over exactly if it sits one seat from an end of its run.
LEMMA GapsAre ==
  ASSUME NEW free \in SUBSET Places, NEW r \in Runs(free), NEW q \in Nat, q > 0,
         NEW s \in Slices(r, q)
  PROVE  Gaps(free, SeatsOf(s)) # {} <=>
           s.from = r.from + 1 \/ s.from + q + 1 = r.from + r.n
<1>1. /\ r \in Block /\ r.g \in Segments /\ r.from \in Nat /\ r.n \in Nat /\ r.n > 0
      /\ \A p \in Nat : r.from <= p /\ p < r.from + r.n => <<r.g, p>> \in free
      /\ <<r.g, r.from - 1>> \notin free /\ <<r.g, r.from + r.n>> \notin free
  BY RunsAre, RunFacts
<1>2. /\ s \in Block /\ s.g = r.g /\ s.n = q /\ s.from \in Nat
      /\ r.from <= s.from /\ s.from + q <= r.from + r.n
  BY <1>1, SlicesAre, BlockFields
<1> DEFINE got == SeatsOf(s)
<1>3. \A p \in Nat : <<r.g, p>> \in got <=> s.from <= p /\ p < s.from + q
  <2>1. \A x : x \in got <=> \E p \in Nat : s.from <= p /\ p < s.from + s.n /\ x = <<s.g, p>>
    BY <1>2, BlockSeats
  <2> HIDE DEF got
  <2> QED
    BY <1>2, <2>1
<1>4. \A x \in got : \E p \in Nat : s.from <= p /\ p < s.from + q /\ x = <<r.g, p>>
  BY <1>2, BlockSeats
<1>5. free \ got \in SUBSET Places
  OBVIOUS
<1> HIDE DEF got
<1> DEFINE Single(g, p) == /\ <<g, p>> \in free \ got
                           /\ <<g, p - 1>> \notin free \ got /\ <<g, p + 1>> \notin free \ got
<1>6. ASSUME NEW p \in Nat, Single(r.g, p), \/ <<r.g, p - 1>> \in free \/ <<r.g, p + 1>> \in free
      PROVE  Gaps(free, got) # {}
  <2>1. <<r.g, p>> \in Singletons(free \ got)
    BY <1>1, <1>5, <1>6, SingletonsAre
  <2>2. <<r.g, p>> \notin Singletons(free)
    <3>1. ASSUME <<r.g, p>> \in Singletons(free)
          PROVE  FALSE
      <4>1. PICK g \in Segments, k \in Nat :
              /\ <<r.g, p>> = <<g, k>>
              /\ <<g, k - 1>> \notin free /\ <<g, k + 1>> \notin free
        BY <3>1, SingletonsAre
      <4> QED
        BY <1>6, <4>1
    <3> QED
      BY <3>1
  <2> QED
    BY <2>1, <2>2 DEF Gaps
<1>7. CASE s.from = r.from + 1
  <2>1. Single(r.g, r.from) /\ <<r.g, r.from + 1>> \in free
    <3>1. r.from + 1 \in Nat /\ r.from + 1 < r.from + r.n
      BY <1>1, <1>2, <1>7
    <3> QED
      BY <1>1, <1>2, <1>3, <1>7, <3>1
  <2> HIDE DEF Single
  <2> QED
    BY <1>1, <1>6, <1>7, <2>1 DEF got
<1>8. CASE s.from + q + 1 = r.from + r.n
  <2> DEFINE p == s.from + q
  <2>1. /\ p \in Nat /\ p - 1 \in Nat /\ r.from <= p - 1 /\ p < r.from + r.n /\ p + 1 = r.from + r.n
        /\ s.from <= p - 1 /\ ~(p < s.from + q) /\ p - 1 < s.from + q
    BY <1>1, <1>2, <1>8
  <2> HIDE DEF p
  <2>2. <<r.g, p>> \in free /\ <<r.g, p - 1>> \in free
    BY <1>1, <2>1
  <2>3. <<r.g, p - 1>> \in got /\ <<r.g, p>> \notin got
    BY <1>3, <2>1
  <2>4. Single(r.g, p)
    BY <1>1, <2>1, <2>2, <2>3
  <2> HIDE DEF Single
  <2> QED
    BY <1>6, <1>8, <2>1, <2>2, <2>4 DEF got
<1>9. ASSUME Gaps(free, got) # {}
      PROVE  s.from = r.from + 1 \/ s.from + q + 1 = r.from + r.n
  <2> DEFINE after == free \ got
  <2>1. PICK x : x \in Singletons(after) /\ x \notin Singletons(free)
    BY <1>9 DEF Gaps
  <2> HIDE DEF after
  <2>0. PICK g \in Segments, p \in Nat : /\ x = <<g, p>> /\ x \in after
                                         /\ <<g, p - 1>> \notin after /\ <<g, p + 1>> \notin after
    BY <1>5, <2>1, SingletonsAre DEF after
  <2>2. x = <<g, p>> /\ Single(g, p)
    BY <2>0 DEF after
  <2>3. <<g, p - 1>> \in free \/ <<g, p + 1>> \in free
    BY <2>1, <2>2, SingletonsAre
  <2>4. CASE <<g, p - 1>> \in free
    <3>1. <<g, p - 1>> \in got
      BY <2>2, <2>4
    <3>2. g = r.g /\ p - 1 \in Nat /\ s.from <= p - 1 /\ p - 1 < s.from + q
      BY <1>4, <3>1
    <3>3. ~(p < s.from + q)
      <4>1. s.from <= p
        BY <1>2, <3>2
      <4>2. <<r.g, p>> \notin got
        BY <2>2, <3>2
      <4> QED
        BY <1>3, <4>1, <4>2
    <3>4. p = s.from + q
      BY <1>2, <3>2, <3>3
    <3>5. p # r.from + r.n
      BY <1>1, <2>2, <3>2
    <3>6. p < r.from + r.n
      BY <1>1, <1>2, <3>4, <3>5
    <3>7. ~(p + 1 < r.from + r.n)
      <4>1. ASSUME p + 1 < r.from + r.n
            PROVE  FALSE
        <5>1. p + 1 \in Nat /\ r.from <= p + 1 /\ ~(p + 1 < s.from + q)
          BY <1>1, <1>2, <3>2, <3>4
        <5>2. <<r.g, p + 1>> \in free /\ <<r.g, p + 1>> \notin got
          BY <1>1, <1>3, <4>1, <5>1
        <5> QED
          BY <2>2, <3>2, <5>2
      <4> QED
        BY <4>1
    <3> QED
      BY <1>1, <1>2, <3>4, <3>6, <3>7
  <2>5. CASE <<g, p + 1>> \in free
    <3>1. <<g, p + 1>> \in got
      BY <2>2, <2>5
    <3>2. g = r.g /\ s.from <= p + 1 /\ p + 1 < s.from + q
      BY <1>4, <3>1
    <3>3. ~(s.from <= p)
      BY <1>2, <1>3, <2>2, <3>2
    <3>4. p + 1 = s.from
      BY <1>2, <3>2, <3>3
    <3>5. r.from <= p
      <4>1. ASSUME p < r.from
            PROVE  FALSE
        <5>1. p = r.from - 1
          BY <1>1, <1>2, <3>4, <4>1
        <5> QED
          BY <1>1, <2>2, <3>2, <5>1
      <4> QED
        BY <1>1, <4>1
    <3>6. ~(r.from < p)
      <4>1. ASSUME r.from < p
            PROVE  FALSE
        <5>1. p - 1 \in Nat /\ r.from <= p - 1 /\ p - 1 < r.from + r.n /\ ~(s.from <= p - 1)
          BY <1>1, <1>2, <3>4, <4>1
        <5>2. <<r.g, p - 1>> \in free /\ <<r.g, p - 1>> \notin got
          BY <1>1, <1>3, <5>1
        <5> QED
          BY <2>2, <3>2, <5>2
      <4> QED
        BY <4>1
    <3> QED
      BY <1>1, <1>2, <3>4, <3>5, <3>6
  <2> QED
    BY <2>3, <2>4, <2>5
<1> QED
  BY <1>7, <1>8, <1>9 DEF got

-----------------------------------------------------------------------------
(* Bestplatz, a party in one run. *)

\* Blocks of fewer than ninety rows of up to nine hundred seats.
CompactHall == \A g \in Segments : RowOf[g] < 90 /\ FirstIndex[g] + SeatCount[g] <= 900

LEMMA MagIs ==
  ASSUME NEW n \in Int
  PROVE  Mag(n) \in Nat /\ \A m \in Nat : n <= m /\ -n <= m => Mag(n) <= m
  BY DEF Mag

LEMMA RemnantIs ==
  ASSUME NEW n \in Int
  PROVE  /\ Remnant(n) \in Nat
         /\ n = 1 => Remnant(n) = 2000000
         /\ n \in Nat /\ n # 1 => Remnant(n) <= 2200
<1>1. CASE n = 0
  BY <1>1 DEF Remnant
<1>2. CASE n = 1
  BY <1>2 DEF Remnant
<1>3. CASE n # 0 /\ n # 1
  <2>1. Remnant(n) = (IF n < 4 THEN 600 * (4 - n) ELSE 0) + (IF n = 3 THEN 1600 ELSE 0)
    BY <1>3 DEF Remnant
  <2>2. n \in Nat => n = 2 \/ n = 3 \/ n >= 4
    BY <1>3
  <2> QED
    BY <1>3, <2>1, <2>2
<1> QED
  BY <1>1, <1>2, <1>3

LEMMA RemnantsAre ==
  ASSUME NEW length \in Int, NEW offset \in Int, NEW n \in Int
  PROVE  /\ Remnants(length, offset, n) = Remnant(offset) + Remnant(length - offset - n)
         /\ Remnants(length, offset, n) \in Nat
<1>1. Remnant(offset) \in Nat /\ Remnant(length - offset - n) \in Nat
  BY RemnantIs
<1> QED
  BY <1>1 DEF Remnants

LEMMA QualityIs ==
  ASSUME NEW b \in Block
  PROVE  /\ Quality(b) \in Int /\ -400 * b.n <= Quality(b)
         /\ CompactHall => Quality(b) <= 1957900 - 400 * b.n
<1>1. /\ b.g \in Segments /\ b.from \in Nat /\ b.n \in Nat /\ b.n > 0
      /\ SeatCount[b.g] \in Nat /\ b.from + b.n <= SeatCount[b.g]
  BY BlockFields
<1>2. RowOf[b.g] \in Nat /\ FirstIndex[b.g] \in Nat
  BY <1>1, SeatChoiceAssumption
<1> DEFINE row == RowOf[b.g]
           first == FirstIndex[b.g]
           off == 2 * (first + b.from) + b.n - 21
<1>3. row \in Nat /\ first \in Nat /\ off \in Int
  BY <1>1, <1>2
<1>4. Quality(b) = 20000 * row + 100 * Mag(off) - 400 * b.n
  BY DEF Quality
<1>5. Mag(off) \in Nat
  BY <1>3, MagIs
<1>6. CompactHall => row <= 89 /\ Mag(off) <= 1779
  <2>1. ASSUME CompactHall
        PROVE  row <= 89 /\ off <= 1779 /\ -off <= 1779
    <3>1. row < 90 /\ first + SeatCount[b.g] <= 900
      BY <1>1, <2>1 DEF CompactHall
    <3> QED
      BY <1>1, <1>3, <3>1
  <2> HIDE DEF off
  <2> QED
    BY <1>3, <2>1, MagIs
<1> HIDE DEF row, first, off
<1>7. Quality(b) \in Int /\ -400 * b.n <= Quality(b)
  BY <1>1, <1>3, <1>4, <1>5
<1>8. CompactHall => Quality(b) <= 1957900 - 400 * b.n
  BY <1>1, <1>3, <1>4, <1>5, <1>6
<1> QED
  BY <1>7, <1>8

\* The score of a slice tells whether it leaves a single seat over.
LEMMA ScoredIs ==
  ASSUME NEW r \in Block, NEW q \in Nat, q > 0, NEW s \in Slices(r, q)
  PROVE  LET gap == s.from = r.from + 1 \/ s.from + q + 1 = r.from + r.n IN
         /\ Scored(r, s) \in Int /\ -400 * q <= Scored(r, s)
         /\ gap => 2000000 - 400 * q <= Scored(r, s)
         /\ CompactHall /\ ~gap => Scored(r, s) <= 1962300 - 400 * q
<1>1. r.from \in Nat /\ r.n \in Nat
  BY BlockFields
<1>2. /\ s \in Block /\ s.n = q /\ s.from \in Nat
      /\ r.from <= s.from /\ s.from + q <= r.from + r.n
  BY SlicesAre, BlockFields
<1> DEFINE before == s.from - r.from
           after == r.n - before - q
           gap == s.from = r.from + 1 \/ s.from + q + 1 = r.from + r.n
<1>3. before \in Nat /\ after \in Nat /\ (gap <=> before = 1 \/ after = 1)
  BY <1>1, <1>2
<1>4. Scored(r, s) = Quality(s) + Remnants(r.n, before, q)
  BY <1>2 DEF Scored
<1>5. Remnants(r.n, before, q) = Remnant(before) + Remnant(after)
  <2>1. before \in Int /\ q \in Int /\ r.n \in Int
    BY <1>1, <1>3
  <2> QED
    BY <2>1, RemnantsAre
<1> HIDE DEF before, after, gap
<1>6. /\ Remnant(before) \in Nat /\ Remnant(after) \in Nat
      /\ gap => Remnant(before) = 2000000 \/ Remnant(after) = 2000000
      /\ ~gap => Remnant(before) <= 2200 /\ Remnant(after) <= 2200
  BY <1>3, RemnantIs
<1>7. /\ Quality(s) \in Int /\ -400 * q <= Quality(s)
      /\ CompactHall => Quality(s) <= 1957900 - 400 * q
  BY <1>2, QualityIs
<1>8. /\ Scored(r, s) \in Int /\ -400 * q <= Scored(r, s)
      /\ gap => 2000000 - 400 * q <= Scored(r, s)
      /\ CompactHall /\ ~gap => Scored(r, s) <= 1962300 - 400 * q
  BY <1>4, <1>5, <1>6, <1>7
<1> QED
  BY <1>8 DEF gap

\* The best slice of a run is one, and leaves a single seat over only if all of them do.
LEMMA BestInRun ==
  ASSUME NEW r \in Block, NEW q \in Nat, q > 0, r.n >= q
  PROVE  LET Gap(s) == s.from = r.from + 1 \/ s.from + q + 1 = r.from + r.n IN
         /\ InRun(r, q) \in Slices(r, q)
         /\ CompactHall /\ Gap(InRun(r, q)) => \A s \in Slices(r, q) : Gap(s)
<1> DEFINE Gap(s) == s.from = r.from + 1 \/ s.from + q + 1 = r.from + r.n
           Tie(s) == Mag(s.from - r.from - ((r.n - q) \div 2))
           S == Slices(r, q)
           score == [s \in S |-> Scored(r, s) + 2 * Tie(s)]
           best == InRun(r, q)
<1>1. r.from \in Nat /\ r.n \in Nat /\ r.g \in Segments /\ r.from + r.n <= SeatCount[r.g]
      /\ SeatCount[r.g] \in Nat
  BY BlockFields
<1>2. \A s \in S : /\ s \in Block /\ s.n = q /\ s.from \in Nat
                   /\ r.from <= s.from /\ s.from + q <= r.from + r.n
  BY SlicesAre, BlockFields
<1>3. S # {}
  <2>1. Slice(r.g, r.from, q) \in Block
    BY <1>1, BlockOf
  <2>2. Slice(r.g, r.from, q) \in S
    BY <1>1, <2>1, SliceFields, SlicesAre
  <2> QED
    BY <2>2
<1>4. ASSUME NEW s \in S
      PROVE  Tie(s) \in Nat /\ (CompactHall => Tie(s) <= 900)
  <2> DEFINE half == (r.n - q) \div 2
             off == s.from - r.from - half
  <2>1. half \in Nat /\ half <= r.n
    BY <1>1
  <2> HIDE DEF half
  <2>2. off \in Int /\ off <= r.n /\ -off <= r.n
    BY <1>1, <1>2, <2>1
  <2>3. CompactHall => r.n <= 900
    <3>1. ASSUME CompactHall
          PROVE  r.n <= 900
      <4>1. FirstIndex[r.g] \in Nat /\ FirstIndex[r.g] + SeatCount[r.g] <= 900
        BY <1>1, <3>1, SeatChoiceAssumption DEF CompactHall
      <4> QED
        BY <1>1, <4>1
    <3> QED
      BY <3>1
  <2> HIDE DEF off
  <2>4. Mag(off) \in Nat /\ Mag(off) <= r.n
    BY <1>1, <2>2, MagIs
  <2>5. Tie(s) = Mag(off)
    BY DEF off, half
  <2> QED
    BY <1>1, <2>3, <2>4, <2>5
<1>5. ASSUME NEW s \in S
      PROVE  /\ Scored(r, s) \in Int /\ -400 * q <= Scored(r, s)
             /\ Gap(s) => 2000000 - 400 * q <= Scored(r, s)
             /\ CompactHall /\ ~Gap(s) => Scored(r, s) <= 1962300 - 400 * q
  BY ScoredIs
<1>6. best = CHOOSE x \in S : \A y \in S : score[x] <= score[y]
  BY DEF InRun, Least
<1> HIDE DEF Tie, Gap, S, best
<1>7. score \in [S -> Int] /\ \A s \in S : -400 * q <= score[s]
  BY <1>4, <1>5
<1>8. \A s \in S : score[s] = Scored(r, s) + 2 * Tie(s)
  OBVIOUS
<1> HIDE DEF score
<1>9. \E x \in S : \A y \in S : score[x] <= score[y]
  <2>1. -400 * q \in Int
    OBVIOUS
  <2> QED
    BY <1>3, <1>7, <2>1, LeastScore
<1>10. best \in S /\ \A y \in S : score[best] <= score[y]
  BY <1>6, <1>9
<1>11. ASSUME CompactHall, Gap(best), NEW s \in S, ~Gap(s)
       PROVE  FALSE
  <2>1. Scored(r, s) \in Int /\ Scored(r, s) <= 1962300 - 400 * q
    BY <1>5, <1>11
  <2>2. Tie(s) \in Nat /\ Tie(s) <= 900
    BY <1>4, <1>11
  <2>3. Scored(r, best) \in Int /\ 2000000 - 400 * q <= Scored(r, best) /\ Tie(best) \in Nat
    BY <1>4, <1>5, <1>10, <1>11
  <2>4. Scored(r, best) + 2 * Tie(best) <= Scored(r, s) + 2 * Tie(s)
    BY <1>8, <1>10, <1>11
  <2> QED
    BY <2>1, <2>2, <2>3, <2>4
<1>12. best \in S /\ (CompactHall /\ Gap(best) => \A s \in S : Gap(s))
  BY <1>10, <1>11
<1> QED
  BY <1>12 DEF best, S, Gap

\* Of the runs that are long enough, the one with the best slice is taken.
LEMMA TogetherIs ==
  ASSUME NEW q \in Nat, q > 0, LongEnough(q) # {}
  PROVE  LET Gap(r, s) == s.from = r.from + 1 \/ s.from + q + 1 = r.from + r.n IN
         \E r \in LongEnough(q) : \E s \in Slices(r, q) :
            /\ Together(q) = SeatsOf(s)
            /\ CompactHall /\ Gap(r, s) =>
                  \A t \in LongEnough(q) : \A u \in Slices(t, q) : Gap(t, u)
<1> DEFINE Gap(r, s) == s.from = r.from + 1 \/ s.from + q + 1 = r.from + r.n
           S == LongEnough(q)
           score == [r \in S |-> Scored(r, InRun(r, q))]
           best == Least(S, LAMBDA r : Scored(r, InRun(r, q)))
<1>1. \A r \in S : r \in Block /\ r.n >= q
  <2>1. Free \in SUBSET Places
    BY PlacesFinite
  <2> QED
    BY <2>1, RunsAre, RunFacts DEF LongEnough
<1>2. ASSUME NEW r \in S
      PROVE  /\ InRun(r, q) \in Slices(r, q)
             /\ CompactHall /\ Gap(r, InRun(r, q)) => \A s \in Slices(r, q) : Gap(r, s)
  BY <1>1, BestInRun
<1>3. ASSUME NEW r \in S, NEW s \in Slices(r, q)
      PROVE  /\ Scored(r, s) \in Int /\ -400 * q <= Scored(r, s)
             /\ Gap(r, s) => 2000000 - 400 * q <= Scored(r, s)
             /\ CompactHall /\ ~Gap(r, s) => Scored(r, s) <= 1962300 - 400 * q
  BY <1>1, ScoredIs
<1>4. best = CHOOSE x \in S : \A y \in S : score[x] <= score[y]
  BY DEF Least
<1>5. Together(q) = SeatsOf(InRun(best, q))
  BY DEF Together
<1> HIDE DEF Gap, S, best
<1>6. score \in [S -> Int] /\ \A r \in S : -400 * q <= score[r]
  BY <1>2, <1>3
<1>7. \A r \in S : score[r] = Scored(r, InRun(r, q))
  OBVIOUS
<1> HIDE DEF score
<1>8. \E x \in S : \A y \in S : score[x] <= score[y]
  <2>1. -400 * q \in Int /\ S # {}
    BY DEF S
  <2> QED
    BY <1>6, <2>1, LeastScore
<1>9. best \in S /\ \A y \in S : score[best] <= score[y]
  BY <1>4, <1>8
<1>10. ASSUME CompactHall, Gap(best, InRun(best, q)), NEW t \in S, NEW u \in Slices(t, q)
       PROVE  Gap(t, u)
  <2>1. Scored(best, InRun(best, q)) \in Int
        /\ 2000000 - 400 * q <= Scored(best, InRun(best, q))
    BY <1>2, <1>3, <1>9, <1>10
  <2>2. Scored(best, InRun(best, q)) <= Scored(t, InRun(t, q))
    BY <1>7, <1>9, <1>10
  <2>3. Gap(t, InRun(t, q))
    <3>1. ASSUME ~Gap(t, InRun(t, q))
          PROVE  FALSE
      <4>1. Scored(t, InRun(t, q)) \in Int /\ Scored(t, InRun(t, q)) <= 1962300 - 400 * q
        BY <1>2, <1>3, <1>10, <3>1
      <4> QED
        BY <2>1, <2>2, <4>1
    <3> QED
      BY <3>1
  <2> QED
    BY <1>2, <1>10, <2>3
<1>11. best \in S /\ InRun(best, q) \in Slices(best, q)
  BY <1>2, <1>9
<1> QED
  BY <1>5, <1>10, <1>11 DEF S, Gap

\* Where a party can sit together is where a run is long enough.
LEMMA RunnableIs ==
  ASSUME NEW q \in Nat, q > 0
  PROVE  /\ \A s : s \in Runnable(Free, q) <=> \E r \in LongEnough(q) : s \in Slices(r, q)
         /\ Runnable(Free, q) = {} <=> LongEnough(q) = {}
         /\ \A r \in LongEnough(q) : r \in Runs(Free) /\ IsRun(Free, r)
         /\ \A s \in Runnable(Free, q) :
              /\ SeatsOf(s) \subseteq Free
              /\ IsFiniteSet(SeatsOf(s)) /\ Cardinality(SeatsOf(s)) = q
<1>0. Free \in SUBSET Places
  BY PlacesFinite
<1>1. \A s : s \in Runnable(Free, q) <=> \E r \in LongEnough(q) : s \in Slices(r, q)
  BY Zenon DEF Runnable, LongEnough
<1>2. \A r \in LongEnough(q) : /\ r \in Runs(Free) /\ IsRun(Free, r) /\ r \in Block
                               /\ r.n >= q /\ SeatsOf(r) \subseteq Free
  BY <1>0, RunsAre DEF LongEnough, IsRun
<1>3. ASSUME NEW r \in LongEnough(q)
      PROVE  Slices(r, q) # {}
  <2>1. InRun(r, q) \in Slices(r, q)
    BY <1>2, BestInRun
  <2> QED
    BY <2>1
<1>4. ASSUME NEW r \in LongEnough(q), NEW s \in Slices(r, q)
      PROVE  /\ SeatsOf(s) \subseteq Free
             /\ IsFiniteSet(SeatsOf(s)) /\ Cardinality(SeatsOf(s)) = q
  <2>1. r \in Block /\ r.from \in Nat /\ r.n \in Nat /\ SeatsOf(r) \subseteq Free
    BY <1>2, BlockFields
  <2>2. /\ s \in Block /\ s.g = r.g /\ s.n = q /\ s.from \in Nat
        /\ r.from <= s.from /\ s.from + q <= r.from + r.n
    BY <2>1, SlicesAre, BlockFields
  <2>3. SeatsOf(s) \subseteq SeatsOf(r)
    <3>1. ASSUME NEW x \in SeatsOf(s)
          PROVE  x \in SeatsOf(r)
      <4>1. PICK p \in Nat : s.from <= p /\ p < s.from + q /\ x = <<r.g, p>>
        BY <2>2, BlockSeats
      <4>2. r.from <= p /\ p < r.from + r.n
        BY <2>1, <2>2, <4>1
      <4> QED
        BY <2>1, <4>1, <4>2, BlockSeats
    <3> QED
      BY <3>1
  <2> QED
    BY <2>1, <2>2, <2>3, BlockSeats
<1> QED
  BY <1>1, <1>2, <1>3, <1>4

-----------------------------------------------------------------------------
(* Bestplatz, a party in several runs. *)

LEMMA DisjointUnion ==
  ASSUME NEW S, NEW T, IsFiniteSet(S), IsFiniteSet(T), S \cap T = {}
  PROVE  /\ IsFiniteSet(S \cup T)
         /\ Cardinality(S \cup T) = Cardinality(S) + Cardinality(T)
<1>1. Cardinality(S) \in Nat /\ Cardinality(T) \in Nat
  BY FS_CardinalityType
<1>2. Cardinality(S \cap T) = 0
  BY FS_EmptySet
<1>3. /\ IsFiniteSet(S \cup T)
      /\ Cardinality(S \cup T) = Cardinality(S) + Cardinality(T) - Cardinality(S \cap T)
  BY FS_Union
<1> QED
  BY <1>1, <1>2, <1>3

\* A chunk is free and still there.
LEMMA ChunkIs ==
  ASSUME NEW picked \in SUBSET Free, NEW rest \in Nat, NEW r \in Runs(Free),
         NEW c \in Chunks(r, picked, rest)
  PROVE  /\ c.of \in Block /\ c.of.n \in 1..rest
         /\ SeatsOf(c.of) \subseteq Free \ picked
         /\ ChunkScore(c, picked, rest) \in Int /\ -400 * rest <= ChunkScore(c, picked, rest)
<1>1. r \in Block /\ SeatsOf(r) \subseteq Free /\ IsFiniteSet(SeatsOf(r))
  <2>1. Free \in SUBSET Places
    BY PlacesFinite
  <2>2. IsRun(Free, r)
    BY <2>1, RunsAre
  <2> QED
    BY <2>2, BlockSeats DEF IsRun
<1>2. /\ c.run = r /\ c.of \in UNION {Slices(r, n) : n \in 1..rest}
      /\ SeatsOf(c.of) \subseteq Remains(r, picked)
  BY Zenon DEF Chunks
<1>3. PICK n \in 1..rest : c.of \in Slices(r, n)
  BY <1>2, Zenon
<1>4. c.of \in Block /\ c.of.n = n /\ n \in Nat /\ n > 0 /\ n <= rest
  BY <1>1, <1>3, SlicesAre
<1>5. IsFiniteSet(Remains(r, picked)) /\ Remains(r, picked) \subseteq Free \ picked
  BY <1>1, FS_Subset DEF Remains
<1> DEFINE remains == Remains(c.run, picked)
           before == {x \in remains : x[2] < c.of.from}
           a == Cardinality(remains)
           b == Cardinality(before)
<1>6. a \in Int /\ b \in Int
  <2>1. IsFiniteSet(remains) /\ before \in SUBSET remains
    BY <1>2, <1>5
  <2> HIDE DEF remains, before
  <2>2. IsFiniteSet(before)
    BY <2>1, FS_Subset
  <2> QED
    BY <2>1, <2>2, FS_CardinalityType
<1>7. ChunkScore(c, picked, rest) =
        Quality(c.of) + Remnants(a, b, n) + 16000 * (rest - n)
          + (IF n = 1 /\ rest > 1 THEN 8000 ELSE 0)
          + (IF rest >= 4 /\ n = rest - 1 THEN 8000 ELSE 0)
  BY <1>4 DEF ChunkScore
<1> HIDE DEF a, b
<1>8. Remnants(a, b, n) \in Nat
  <2>1. a \in Int /\ b \in Int /\ n \in Int
    BY <1>4, <1>6
  <2> QED
    BY <2>1, RemnantsAre
<1>9. Quality(c.of) \in Int /\ -400 * n <= Quality(c.of)
  BY <1>4, QualityIs
<1>10. ChunkScore(c, picked, rest) \in Int /\ -400 * rest <= ChunkScore(c, picked, rest)
  BY <1>4, <1>7, <1>8, <1>9
<1> QED
  BY <1>2, <1>4, <1>5, <1>10

\* A step takes seats that are free, at least one while some are wanted, and not too many.
LEMMA ChunkTaken ==
  ASSUME NEW q \in Nat, q <= Cardinality(Free),
         NEW picked \in SUBSET Free, Cardinality(picked) <= q
  PROVE  /\ NextChunk(picked, q) \in SUBSET Free
         /\ Cardinality(NextChunk(picked, q)) <= q
         /\ Cardinality(picked) < q => Cardinality(picked) < Cardinality(NextChunk(picked, q))
<1> DEFINE k == Cardinality(picked)
           rest == q - k
           chunks == UNION {Chunks(r, picked, rest) : r \in Runs(Free)}
           best == Least(chunks, LAMBDA c : ChunkScore(c, picked, rest))
<1>1. IsFiniteSet(Free) /\ IsFiniteSet(picked) /\ k \in Nat /\ Cardinality(Free) \in Nat
  BY PlacesFinite, FS_Subset, FS_CardinalityType
<1>2. rest \in Nat
  BY <1>1
<1>3. NextChunk(picked, q) = IF rest = 0 THEN picked
                             ELSE IF chunks = {} THEN LastResort(picked, q)
                             ELSE picked \cup SeatsOf(best.of)
  BY DEF NextChunk
<1>4. CASE rest = 0
  BY <1>1, <1>3, <1>4
<1>5. CASE rest # 0 /\ chunks = {}
  <2> DEFINE others == Free \ picked
             T == AnyOf(others, rest)
  <2>1. IsFiniteSet(others) /\ Cardinality(others) = Cardinality(Free) - k
    <3>1. Free \cap picked = picked
      OBVIOUS
    <3> QED
      BY <1>1, <3>1, FS_Difference
  <2>2. rest <= Cardinality(others)
    BY <1>1, <2>1
  <2>3. \E U \in SUBSET others : Cardinality(U) = rest
    BY <1>2, <2>1, <2>2, SomeOf
  <2>4. T \in SUBSET others /\ Cardinality(T) = rest
    BY <2>3 DEF AnyOf
  <2>5. NextChunk(picked, q) = picked \cup T
    BY <1>3, <1>5 DEF LastResort
  <2> HIDE DEF T
  <2>6. IsFiniteSet(T) /\ picked \cap T = {}
    BY <2>1, <2>4, FS_Subset
  <2>7. Cardinality(picked \cup T) = k + rest
    BY <1>1, <2>4, <2>6, DisjointUnion
  <2> QED
    BY <1>1, <1>2, <1>5, <2>4, <2>5, <2>7
<1>6. CASE rest # 0 /\ chunks # {}
  <2> DEFINE score == [c \in chunks |-> ChunkScore(c, picked, rest)]
  <2>1. best = CHOOSE x \in chunks : \A y \in chunks : score[x] <= score[y]
    BY DEF Least
  <2>2. ASSUME NEW c \in chunks
        PROVE  /\ c.of \in Block /\ c.of.n \in 1..rest
               /\ SeatsOf(c.of) \subseteq Free \ picked
               /\ ChunkScore(c, picked, rest) \in Int
               /\ -400 * rest <= ChunkScore(c, picked, rest)
    <3>1. PICK r \in Runs(Free) : c \in Chunks(r, picked, rest)
      BY Zenon
    <3> HIDE DEF rest, chunks
    <3> QED
      BY <1>2, <3>1, ChunkIs
  <2> HIDE DEF rest, chunks, best
  <2>3. score \in [chunks -> Int] /\ \A c \in chunks : -400 * rest <= score[c]
    BY <2>2
  <2> HIDE DEF score
  <2>4. \E x \in chunks : \A y \in chunks : score[x] <= score[y]
    <3>1. -400 * rest \in Int
      BY <1>2
    <3> QED
      BY <1>6, <2>3, <3>1, LeastScore
  <2>5. best \in chunks
    BY <2>1, <2>4
  <2>6. /\ best.of \in Block /\ best.of.n \in 1..rest
        /\ SeatsOf(best.of) \subseteq Free \ picked
    BY <2>2, <2>5
  <2> DEFINE T == SeatsOf(best.of)
             n == best.of.n
  <2>7. IsFiniteSet(T) /\ Cardinality(T) = n
    BY <2>6, BlockSeats
  <2>8. NextChunk(picked, q) = picked \cup T /\ T \subseteq Free \ picked /\ n \in 1..rest
    BY <1>3, <1>6, <2>6
  <2> HIDE DEF T, n
  <2>9. Cardinality(picked \cup T) = k + n
    <3>1. picked \cap T = {}
      BY <2>8
    <3> QED
      BY <1>1, <2>7, <3>1, DisjointUnion
  <2>10. k + n <= q /\ k < k + n
    BY <1>1, <1>2, <2>8 DEF rest
  <2> QED
    BY <2>8, <2>9, <2>10
<1> QED
  BY <1>2, <1>4, <1>5, <1>6

LEMMA ScatteredIs ==
  ASSUME NEW q \in Nat, q <= Cardinality(Free)
  PROVE  Cardinality(Scattered(q)) = q
<1> DEFINE D == {S \in SUBSET Free : Cardinality(S) <= q}
           step == [S \in D |-> NextChunk(S, q)]
           Eqn(p) == p = [i \in 0..q |-> IF i = 0 THEN {} ELSE NextChunk(p[i - 1], q)]
           picked == CHOOSE p : Eqn(p)
<1>1. \A S \in D : /\ NextChunk(S, q) \in D
                   /\ Cardinality(S) < q => Cardinality(S) < Cardinality(NextChunk(S, q))
  BY ChunkTaken
<1>2. {} \in D
  BY FS_EmptySet
<1>3. \A S \in D : Cardinality(S) \in Nat /\ Cardinality(S) <= q
  BY PlacesFinite, FS_Subset, FS_CardinalityType
<1>4. step \in [D -> D] /\ \A S \in D : step[S] = NextChunk(S, q)
  BY <1>1
<1> HIDE DEF D, step
<1>5. PICK g \in [0..q -> D] : g[0] = {} /\ \A i \in 1..q : g[i] = step[g[i - 1]]
  <2> DEFINE base == {}
  <2>1. base \in D /\ step \in [D -> D]
    BY <1>2, <1>4
  <2> HIDE DEF base
  <2>2. q \in Nat
    OBVIOUS
  <2>3. \E g : Course(g, D, base, step, q)
    BY <2>1, <2>2, Repeated
  <2> QED
    BY <2>3 DEF base, Course
<1>6. Eqn(g)
  <2>1. ASSUME NEW i \in 0..q
        PROVE  g[i] = IF i = 0 THEN {} ELSE NextChunk(g[i - 1], q)
    <3>1. CASE i = 0
      BY <1>5, <3>1
    <3>2. CASE i # 0
      <4>1. i \in 1..q /\ i - 1 \in 0..q
        BY <3>2
      <4>2. g[i - 1] \in D
        BY <4>1
      <4> QED
        BY <1>4, <1>5, <3>2, <4>1, <4>2
    <3> QED
      BY <3>1, <3>2
  <2> QED
    BY <2>1
<1>7. Eqn(picked)
  BY <1>6
<1>8. Scattered(q) = picked[q]
  BY DEF Scattered
<1> HIDE DEF picked
<1>9. picked[0] = {} /\ \A i \in 1..q : picked[i] = NextChunk(picked[i - 1], q)
  <2>1. \A i \in 0..q : picked[i] = IF i = 0 THEN {} ELSE NextChunk(picked[i - 1], q)
    BY <1>7, Zenon
  <2>2. 0 \in 0..q /\ \A i \in 1..q : i \in 0..q /\ i # 0
    OBVIOUS
  <2> QED
    BY <2>1, <2>2
<1> HIDE DEF Eqn
<1> DEFINE Good == {i \in 0..q : picked[i] \in D /\ i <= Cardinality(picked[i])}
<1>10. 0 \in Good
  <2>1. 0 \in 0..q /\ picked[0] \in D
    BY <1>2, <1>9
  <2>2. Cardinality(picked[0]) = 0
    BY <1>9, FS_EmptySet
  <2> QED
    BY <2>1, <2>2
<1>11. ASSUME NEW i \in 1..q, i - 1 \in Good
       PROVE  i \in Good
  <2>1. picked[i - 1] \in D /\ i - 1 <= Cardinality(picked[i - 1])
    BY <1>11
  <2>2. /\ picked[i] \in D
        /\ Cardinality(picked[i - 1]) < q => Cardinality(picked[i - 1]) < Cardinality(picked[i])
    BY <1>1, <1>9, <2>1
  <2>3. Cardinality(picked[i]) \in Nat /\ Cardinality(picked[i - 1]) \in Nat
        /\ Cardinality(picked[i - 1]) <= q
    BY <1>3, <2>1, <2>2
  <2>4. i <= Cardinality(picked[i])
    <3>1. CASE Cardinality(picked[i - 1]) < q
      BY <2>1, <2>2, <2>3, <3>1
    <3>2. CASE ~(Cardinality(picked[i - 1]) < q)
      <4>1. NextChunk(picked[i - 1], q) = picked[i - 1]
        <5>1. q - Cardinality(picked[i - 1]) = 0
          BY <2>3, <3>2
        <5> QED
          BY <5>1 DEF NextChunk
      <4> QED
        BY <1>9, <2>3, <3>2, <4>1
    <3> QED
      BY <3>1, <3>2
  <2> QED
    BY <2>2, <2>4
<1> HIDE DEF Good
<1>12. q \in Good
  <2>1. \A i \in 0..q : i \in Good
    BY <1>10, <1>11, HandedOn
  <2> QED
    BY <2>1
<1>13. picked[q] \in D /\ q <= Cardinality(picked[q])
  BY <1>12 DEF Good
<1> QED
  BY <1>3, <1>8, <1>13

\* What Bestplatz returns.
LEMMA BestIs ==
  ASSUME CompactHall, NEW q \in Nat, q > 0
  PROVE  LET where == Runnable(Free, q)
             got == BestSeats(q) IN
         /\ Cardinality(got) = IF Cardinality(Free) >= q THEN q ELSE 0
         /\ where # {} =>
              /\ \E s \in where : got = SeatsOf(s)
              /\ Gaps(Free, got) # {} => \A s \in where : Gaps(Free, SeatsOf(s)) # {}
<1> DEFINE where == Runnable(Free, q)
           got == BestSeats(q)
           Gap(r, s) == s.from = r.from + 1 \/ s.from + q + 1 = r.from + r.n
<1>1. /\ \A s : s \in where <=> \E r \in LongEnough(q) : s \in Slices(r, q)
      /\ where = {} <=> LongEnough(q) = {}
      /\ \A r \in LongEnough(q) : r \in Runs(Free)
      /\ \A s \in where : /\ SeatsOf(s) \subseteq Free
                          /\ Cardinality(SeatsOf(s)) = q
  BY RunnableIs
<1>2. Free \in SUBSET Places /\ IsFiniteSet(Free) /\ Cardinality(Free) \in Nat
  BY PlacesFinite, FS_CardinalityType
<1>3. where # {} => q <= Cardinality(Free)
  <2>1. ASSUME NEW s \in where
        PROVE  q <= Cardinality(Free)
    BY <1>1, <1>2, FS_Subset
  <2> QED
    BY <2>1
<1>4. \A r \in LongEnough(q) : \A s \in Slices(r, q) : Gaps(Free, SeatsOf(s)) # {} <=> Gap(r, s)
  BY <1>1, <1>2, GapsAre
<1> HIDE DEF where
<1>5. CASE Cardinality(Free) < q
  <2>1. got = {} /\ where = {}
    BY <1>2, <1>3, <1>5 DEF BestSeats
  <2>2. Cardinality(got) = 0 /\ ~(Cardinality(Free) >= q)
    BY <1>2, <1>5, <2>1, FS_EmptySet
  <2> QED
    BY <2>1, <2>2 DEF where
<1>6. CASE ~(Cardinality(Free) < q) /\ LongEnough(q) # {}
  <2>1. got = Together(q)
    BY <1>6 DEF BestSeats
  <2>2. PICK r \in LongEnough(q) : \E s \in Slices(r, q) :
            /\ Together(q) = SeatsOf(s)
            /\ CompactHall /\ Gap(r, s) =>
                  \A t \in LongEnough(q) : \A u \in Slices(t, q) : Gap(t, u)
    BY <1>6, TogetherIs
  <2>3. PICK s \in Slices(r, q) :
            /\ Together(q) = SeatsOf(s)
            /\ CompactHall /\ Gap(r, s) =>
                  \A t \in LongEnough(q) : \A u \in Slices(t, q) : Gap(t, u)
    BY <2>2
  <2> HIDE DEF got, Gap
  <2>4. s \in where /\ got = SeatsOf(s) /\ Cardinality(got) = q
    BY <1>1, <2>1, <2>3
  <2>5. Gaps(Free, got) # {} => \A u \in where : Gaps(Free, SeatsOf(u)) # {}
    BY <1>1, <1>4, <2>3, <2>4
  <2>6. Cardinality(Free) >= q
    BY <1>2, <1>6
  <2> QED
    BY <2>4, <2>5, <2>6 DEF where, got
<1>7. CASE ~(Cardinality(Free) < q) /\ LongEnough(q) = {}
  <2>1. got = Scattered(q) /\ where = {}
    BY <1>1, <1>7 DEF BestSeats
  <2>2. Cardinality(Free) >= q
    BY <1>2, <1>7
  <2>3. Cardinality(got) = q
    BY <2>1, <2>2, ScatteredIs
  <2> QED
    BY <2>1, <2>2, <2>3 DEF where
<1> QED
  BY <1>5, <1>6, <1>7

\* Every step answers one kind of request.
LEMMA AnswerIs ==
  ASSUME NEW kind, NEW asked, NEW got, Answers(kind, asked, got)
  PROVE  /\ answer'.kind = kind /\ answer'.asked = asked
         /\ answer'.free = Free /\ answer'.got = got
  BY DEF Answers

\* In a hall of blocks with fewer than ninety rows of up to nine hundred seats,
\* pickBestAvailableSeats gives a party exactly what it asked for whenever that many seats
\* are free; side by side if that is possible anywhere, and so that a single seat is left
\* over only if every place for the party leaves one.
THEOREM BestSeatsFound ==
  ASSUME CompactHall
  PROVE  ChoiceSpec => []BestFound
<1>1. ChoiceInit => BestFound
  BY DEF ChoiceInit, BestFound
<1>2. ASSUME BestFound, [ChoiceNext]_choiceVars
      PROVE  BestFound'
  <2>1. ASSUME NEW q \in 1..MaxAsked, Best(q)
        PROVE  BestFound'
    <3>1. /\ answer'.asked = q /\ answer'.free = Free /\ answer'.got = BestSeats(q)
      BY <2>1, AnswerIs DEF Best
    <3>2. LET where == Runnable(Free, q)
              got == BestSeats(q) IN
          /\ Cardinality(got) = IF Cardinality(Free) >= q THEN q ELSE 0
          /\ where # {} =>
               /\ \E s \in where : got = SeatsOf(s)
               /\ Gaps(Free, got) # {} => \A s \in where : Gaps(Free, SeatsOf(s)) # {}
      <4>1. q \in Nat /\ q > 0
        OBVIOUS
      <4> QED
        BY <4>1, BestIs
    <3> QED
      BY <3>1, <3>2, Zenon DEF BestFound
  <2>2. ASSUME NEW kind, NEW asked, NEW got, Answers(kind, asked, got), kind # "best"
        PROVE  BestFound'
    BY <2>2, AnswerIs DEF BestFound
  <2>3. ASSUME NEW k, Pairs(k)
        PROVE  BestFound'
    BY <2>2, <2>3 DEF Pairs
  <2>4. ASSUME NEW selected, Select(selected)
        PROVE  BestFound'
    BY <2>2, <2>4 DEF Select
  <2>5. ASSUME NEW chairs, SelectChairs(chairs)
        PROVE  BestFound'
    BY <2>2, <2>5 DEF SelectChairs
  <2>6. ASSUME NEW x, Vacate(x)
        PROVE  BestFound'
    BY <2>6 DEF Vacate, BestFound
  <2>7. CASE UNCHANGED choiceVars
    BY <1>2, <2>7, Zenon DEF choiceVars, BestFound
  <2> QED
    BY <1>2, <2>1, <2>3, <2>4, <2>5, <2>6, <2>7, Zenon DEF ChoiceNext
<1> QED
  BY <1>1, <1>2, PTL DEF ChoiceSpec

-----------------------------------------------------------------------------
(* Wheelchair seats: pairs. *)

LEMMA PairIs ==
  ASSUME NEW s \in PairsIn(Free)
  PROVE  /\ s \in Block /\ s.n = 2 /\ SeatsOf(s) \subseteq Free
         /\ IsFiniteSet(SeatsOf(s)) /\ Cardinality(SeatsOf(s)) = 2
         /\ 100 * PairScore(s) + s.from \in Nat
<1>1. PICK r \in Runs(Free) : r.n >= 2 /\ s \in Slices(r, 2)
  BY Zenon DEF PairsIn
<1>2. r \in LongEnough(2) /\ s \in Runnable(Free, 2)
  BY <1>1 DEF LongEnough, Runnable
<1>3. /\ IsRun(Free, r) /\ SeatsOf(s) \subseteq Free
      /\ IsFiniteSet(SeatsOf(s)) /\ Cardinality(SeatsOf(s)) = 2
  BY <1>2, RunnableIs
<1>4. r \in Block
  BY <1>3 DEF IsRun
<1>5. s \in Block /\ s.n = 2
  BY <1>1, <1>4, SlicesAre
<1>6. s.g \in Segments /\ s.from \in Nat
  BY <1>5, BlockFields
<1>7. RowOf[s.g] \in Nat /\ FirstIndex[s.g] \in Nat
  BY <1>6, SeatChoiceAssumption
<1> DEFINE off == 2 * (FirstIndex[s.g] + s.from) + s.n - 21
<1>8. Mag(off) \in Nat
  <2>1. off \in Int
    BY <1>5, <1>6, <1>7
  <2> QED
    BY <2>1, MagIs
<1>9. PairScore(s) = 20000 * RowOf[s.g] + 100 * Mag(off)
  BY DEF PairScore
<1> HIDE DEF off
<1>10. 100 * PairScore(s) + s.from \in Nat
  BY <1>6, <1>7, <1>8, <1>9
<1> QED
  BY <1>3, <1>5, <1>10

\* A step finds two more seats, or no pair is left.
LEMMA PairTaken ==
  ASSUME NEW picked \in SUBSET Free
  PROVE  /\ NextPair(picked) \in SUBSET Free
         /\ \/ NextPair(picked) = picked /\ Disjoint(PairsIn(Free), picked) = {}
            \/ Cardinality(NextPair(picked)) = Cardinality(picked) + 2
<1> DEFINE left == Disjoint(PairsIn(Free), picked)
           best == Least(left, LAMBDA s : 100 * PairScore(s) + s.from)
           score == [s \in left |-> 100 * PairScore(s) + s.from]
<1>1. NextPair(picked) = IF left = {} THEN picked ELSE picked \cup SeatsOf(best)
  BY DEF NextPair
<1>2. best = CHOOSE x \in left : \A y \in left : score[x] <= score[y]
  BY DEF Least
<1>3. \A s \in left : s \in PairsIn(Free) /\ SeatsOf(s) \cap picked = {}
  BY DEF Disjoint
<1> HIDE DEF left, best
<1>4. score \in [left -> Int] /\ \A s \in left : 0 <= score[s]
  BY <1>3, PairIs
<1> HIDE DEF score
<1>5. CASE left # {}
  <2>1. \E x \in left : \A y \in left : score[x] <= score[y]
    <3>1. 0 \in Int
      OBVIOUS
    <3> QED
      BY <1>4, <1>5, <3>1, LeastScore
  <2>2. best \in left
    BY <1>2, <2>1
  <2> DEFINE T == SeatsOf(best)
  <2>3. T \subseteq Free /\ IsFiniteSet(T) /\ Cardinality(T) = 2 /\ picked \cap T = {}
    BY <1>3, <2>2, PairIs
  <2>4. NextPair(picked) = picked \cup T
    BY <1>1, <1>5
  <2> HIDE DEF T
  <2>5. IsFiniteSet(picked)
    BY PlacesFinite, FS_Subset
  <2>6. Cardinality(picked \cup T) = Cardinality(picked) + 2
    BY <2>3, <2>5, DisjointUnion
  <2> QED
    BY <2>3, <2>4, <2>6
<1>6. CASE left = {}
  BY <1>1, <1>6 DEF left
<1> QED
  BY <1>5, <1>6

\* If no pair is left, at least one seat of every second pair of a run is picked.
LEMMA RunIsUsed ==
  ASSUME NEW picked \in SUBSET Free, Disjoint(PairsIn(Free), picked) = {},
         NEW r \in Runs(Free)
  PROVE  r.n \div 2 <= Cardinality(SeatsOf(r) \cap picked)
<1>1. IsRun(Free, r)
  BY PlacesFinite, RunsAre
<1>2. /\ r \in Block /\ r.g \in Segments /\ r.from \in Nat /\ r.n \in Nat /\ r.n > 0
      /\ SeatCount[r.g] \in Nat /\ r.from + r.n <= SeatCount[r.g]
  BY <1>1, RunFacts, BlockFields
<1> DEFINE h == r.n \div 2
           z == h - 1
           T == SeatsOf(r) \cap picked
           Pair(j) == Slice(r.g, r.from + 2 * j, 2)
           e == [j \in 0..z |-> CHOOSE x : x \in SeatsOf(Pair(j)) \cap picked]
<1>3. h \in Nat /\ 2 * h <= r.n
  BY <1>2
<1> HIDE DEF h
<1>4. ASSUME NEW j \in 0..z
      PROVE  /\ e[j] \in T
             /\ e[j] = <<r.g, r.from + 2 * j>> \/ e[j] = <<r.g, r.from + 2 * j + 1>>
  <2>1. j \in Nat /\ 2 * j + 2 <= r.n /\ r.from + 2 * j \in Nat
        /\ (r.from + 2 * j) + 2 <= SeatCount[r.g] /\ r.n >= 2
    BY <1>2, <1>3
  <2> DEFINE b == Pair(j)
             f == r.from + 2 * j
  <2>2. b.g = r.g /\ b.from = f /\ b.n = 2 /\ b \in Block
    BY <1>2, <2>1, SliceFields, BlockOf
  <2> HIDE DEF b
  <2>3. b \in Slices(r, 2)
    BY <1>2, <2>1, <2>2, SlicesAre
  <2>4. b \in PairsIn(Free)
    BY <2>1, <2>3 DEF PairsIn
  <2>5. SeatsOf(b) \cap picked # {}
    BY <2>4 DEF Disjoint
  <2>6. e[j] \in SeatsOf(b) \cap picked
    BY <2>5 DEF b
  <2> HIDE DEF e
  <2>7. PICK p \in Nat : f <= p /\ p < f + 2 /\ e[j] = <<r.g, p>>
    BY <2>2, <2>6, BlockSeats
  <2>8. p = f \/ p = f + 1
    BY <2>1, <2>7
  <2>9. r.from <= p /\ p < r.from + r.n
    BY <1>2, <2>1, <2>7
  <2>10. e[j] \in SeatsOf(r)
    BY <1>2, <2>7, <2>9, BlockSeats
  <2> QED
    BY <2>1, <2>6, <2>7, <2>8, <2>10
<1>5. ASSUME NEW i \in 0..z, NEW j \in 0..z, e[i] = e[j]
      PROVE  i = j
  <2>1. /\ e[i] = <<r.g, r.from + 2 * i>> \/ e[i] = <<r.g, r.from + 2 * i + 1>>
        /\ e[j] = <<r.g, r.from + 2 * j>> \/ e[j] = <<r.g, r.from + 2 * j + 1>>
    BY <1>4
  <2>2. i \in Nat /\ j \in Nat
    OBVIOUS
  <2> HIDE DEF e
  <2>3. \/ r.from + 2 * i = r.from + 2 * j
        \/ r.from + 2 * i = r.from + 2 * j + 1
        \/ r.from + 2 * i + 1 = r.from + 2 * j
        \/ r.from + 2 * i + 1 = r.from + 2 * j + 1
    BY <1>5, <2>1
  <2> QED
    BY <1>2, <2>2, <2>3
<1>6. DOMAIN e = 0..z /\ e = [j \in 0..z |-> e[j]]
  OBVIOUS
<1>7. IsFiniteSet(T)
  BY <1>2, BlockSeats, FS_Subset
<1> HIDE DEF e, T
<1>8. e \in Injection(0..z, T)
  <2>1. e \in [0..z -> T]
    BY <1>4, <1>6
  <2> QED
    BY <1>5, <2>1 DEF Injection, IsInjective
<1>9. IsFiniteSet(0..z) /\ Cardinality(0..z) = h
  <2> DEFINE a == 0
  <2>1. a \in Int /\ z \in Int /\ a <= z + 1 /\ z - a + 1 = h
    BY <1>3
  <2> HIDE DEF a, z
  <2>2. IsFiniteSet(a..z) /\ Cardinality(a..z) = z - a + 1
    BY <2>1, Stretch
  <2> QED
    BY <2>1, <2>2 DEF a
<1> HIDE DEF z
<1>10. Cardinality(0..z) <= Cardinality(T)
  BY <1>7, <1>8, FS_Injection
<1> QED
  BY <1>9, <1>10 DEF h, T

\* Then the picked seats are at least as many as the pairs there is room for.
LEMMA RoomIsUsed ==
  ASSUME NEW picked \in SUBSET Free, Disjoint(PairsIn(Free), picked) = {}
  PROVE  PairRoom(Free) <= Cardinality(picked)
<1> DEFINE R == Runs(Free)
           f == [r \in R |-> r.n \div 2]
           In(s) == UNION {SeatsOf(r) \cap picked : r \in s}
<1>1. IsFiniteSet(R)
  BY PlacesFinite, RunsFinite
<1>2. \A r \in R : r.n \div 2 <= Cardinality(SeatsOf(r) \cap picked)
  BY RunIsUsed
<1>3. f \in [R -> Int]
  <2>1. ASSUME NEW r \in R
        PROVE  r.n \div 2 \in Int
    <3>1. r.n \in Nat
      BY PlacesFinite, RunsAre, RunFacts
    <3> QED
      BY <3>1
  <2> QED
    BY <2>1
<1>4. IsFiniteSet(picked) /\ \A s : In(s) \subseteq picked
  BY PlacesFinite, FS_Subset
<1>5. \A q, r \in R : q # r => (SeatsOf(q) \cap picked) \cap SeatsOf(r) = {}
  <2>1. ASSUME NEW q \in R, NEW r \in R, NEW x \in SeatsOf(q), x \in SeatsOf(r)
        PROVE  q = r
    <3>1. IsRun(Free, q) /\ IsRun(Free, r)
      BY PlacesFinite, RunsAre
    <3> QED
      BY <2>1, <3>1, RunsApart
  <2> QED
    BY <2>1
<1>6. PairRoom(Free) = SumFunction(f)
  BY DEF PairRoom
<1>7. \A r \in R : f[r] <= Cardinality(SeatsOf(r) \cap picked)
  BY <1>2
<1> HIDE DEF R, f
<1>8. PICK g : Adds(g, f, R) /\ SumFunction(f) = g[R]
  BY <1>1, <1>3, SumAdds
<1> DEFINE Good == {s \in SUBSET R : g[s] <= Cardinality(In(s))}
<1>9. ASSUME NEW s \in SUBSET R, \A r \in s : s \ {r} \in Good
      PROVE  s \in Good
  <2>1. CASE s = {}
    <3>1. In(s) = {} /\ g[s] = 0
      BY <1>8, <2>1 DEF Adds
    <3> QED
      BY <3>1, FS_EmptySet
  <2>2. ASSUME NEW r \in s
        PROVE  s \in Good
    <3> DEFINE t == s \ {r}
               A == In(t)
               B == SeatsOf(r) \cap picked
    <3>1. t \in SUBSET R /\ r \in R /\ g[s] = f[r] + g[t] /\ g[t] \in Int /\ g[s] \in Int
          /\ f[r] \in Int
      BY <1>3, <1>8 DEF Adds
    <3>2. g[t] <= Cardinality(A)
      BY <1>9, <2>2
    <3>3. In(s) = A \cup B
      OBVIOUS
    <3>4. A \cap B = {}
      BY <1>5, <3>1
    <3>5. IsFiniteSet(A) /\ IsFiniteSet(B)
      BY <1>4, FS_Subset
    <3>6. f[r] <= Cardinality(B)
      BY <1>7, <3>1
    <3> HIDE DEF A, B, t, In
    <3>7. /\ Cardinality(A \cup B) = Cardinality(A) + Cardinality(B)
          /\ Cardinality(A) \in Nat /\ Cardinality(B) \in Nat
      BY <3>4, <3>5, DisjointUnion, FS_CardinalityType
    <3>8. g[s] <= Cardinality(In(s))
      BY <3>1, <3>2, <3>3, <3>6, <3>7
    <3> QED
      BY <3>8
  <2> QED
    BY <2>1, <2>2
<1> HIDE DEF Good
<1>10. R \in Good
  BY <1>1, <1>9, SubsetInduction
<1>11. g[R] <= Cardinality(In(R)) /\ g[R] \in Int
  BY <1>8, <1>10 DEF Good, Adds
<1>12. Cardinality(In(R)) <= Cardinality(picked) /\ Cardinality(In(R)) \in Nat
       /\ Cardinality(picked) \in Nat
  BY <1>4, FS_Subset, FS_CardinalityType
<1> QED
  BY <1>6, <1>8, <1>11, <1>12

\* What is found of k pairs: all of them, or half of those there is room for.
LEMMA PairsAre ==
  ASSUME NEW k \in Nat, k > 0
  PROVE  IF BestPairs(k) = {} THEN PairRoom(Free) < 2 * k - 1
         ELSE Cardinality(BestPairs(k)) = 2 * k
<1> DEFINE D == SUBSET Free
           step == [S \in D |-> NextPair(S)]
           Eqn(p) == p = [i \in 0..k |-> IF i = 0 THEN {} ELSE NextPair(p[i - 1])]
           picked == CHOOSE p : Eqn(p)
           Stuck(S) == Disjoint(PairsIn(Free), S) = {}
<1>1. \A S \in D : /\ NextPair(S) \in D
                   /\ \/ NextPair(S) = S /\ Stuck(S)
                      \/ Cardinality(NextPair(S)) = Cardinality(S) + 2
  BY PairTaken
<1>2. \A S \in D : Stuck(S) => NextPair(S) = S
  BY Zenon DEF NextPair
<1>3. \A S \in D : Cardinality(S) \in Nat
  BY PlacesFinite, FS_Subset, FS_CardinalityType
<1>4. \A S \in D : Stuck(S) => PairRoom(Free) <= Cardinality(S)
  BY RoomIsUsed
<1>5. PairRoom(Free) \in Int
  <2> DEFINE R == Runs(Free)
             f == [r \in R |-> r.n \div 2]
  <2>1. IsFiniteSet(R)
    BY PlacesFinite, RunsFinite
  <2>2. f \in [R -> Int]
    <3>1. ASSUME NEW r \in R
          PROVE  r.n \div 2 \in Int
      <4>1. r.n \in Nat
        BY PlacesFinite, RunsAre, RunFacts
      <4> QED
        BY <4>1
    <3> QED
      BY <3>1
  <2>3. PairRoom(Free) = SumFunction(f)
    BY DEF PairRoom
  <2> HIDE DEF R, f
  <2> QED
    BY <2>1, <2>2, <2>3, SumInt
<1>6. {} \in D /\ step \in [D -> D] /\ \A S \in D : step[S] = NextPair(S)
  BY <1>1
<1> HIDE DEF D, step, Stuck
<1>7. PICK g : Course(g, D, {}, step, k)
  <2> DEFINE base == {}
  <2>1. base \in D
    BY <1>6
  <2> HIDE DEF base
  <2>2. k \in Nat
    OBVIOUS
  <2>3. \E g : Course(g, D, base, step, k)
    BY <1>6, <2>1, <2>2, Repeated
  <2> QED
    BY <2>3 DEF base
<1>8. g \in [0..k -> D] /\ g[0] = {} /\ \A i \in 1..k : g[i] = step[g[i - 1]]
  BY <1>7 DEF Course
<1>9. Eqn(g)
  <2>1. ASSUME NEW i \in 0..k
        PROVE  g[i] = IF i = 0 THEN {} ELSE NextPair(g[i - 1])
    <3>1. CASE i = 0
      BY <1>8, <3>1
    <3>2. CASE i # 0
      <4>1. i \in 1..k /\ i - 1 \in 0..k
        BY <3>2
      <4>2. g[i - 1] \in D
        BY <1>8, <4>1
      <4> QED
        BY <1>6, <1>8, <3>2, <4>1, <4>2
    <3> QED
      BY <3>1, <3>2
  <2> QED
    BY <1>8, <2>1
<1>10. Eqn(picked)
  BY <1>9
<1>11. BestPairs(k) = IF Cardinality(picked[k]) = 2 * k THEN picked[k] ELSE {}
  BY DEF BestPairs
<1> HIDE DEF picked
<1>12. picked[0] = {} /\ \A i \in 1..k : picked[i] = NextPair(picked[i - 1])
  <2>1. \A i \in 0..k : picked[i] = IF i = 0 THEN {} ELSE NextPair(picked[i - 1])
    BY <1>10, Zenon
  <2>2. 0 \in 0..k /\ \A i \in 1..k : i \in 0..k /\ i # 0
    OBVIOUS
  <2> QED
    BY <2>1, <2>2
<1> HIDE DEF Eqn
<1> DEFINE Good == {i \in 0..k : /\ picked[i] \in D
                                 /\ \/ Cardinality(picked[i]) = 2 * i
                                    \/ /\ Cardinality(picked[i]) <= 2 * (i - 1)
                                       /\ Stuck(picked[i])}
<1>13. 0 \in Good
  <2>1. 0 \in 0..k /\ picked[0] \in D
    BY <1>6, <1>12
  <2>2. Cardinality(picked[0]) = 2 * 0
    BY <1>12, FS_EmptySet
  <2> QED
    BY <2>1, <2>2
<1>14. ASSUME NEW i \in 1..k, i - 1 \in Good
       PROVE  i \in Good
  <2> DEFINE S == picked[i - 1]
             T == picked[i]
  <2>1. /\ S \in D /\ T = NextPair(S)
        /\ Cardinality(S) = 2 * (i - 1) \/ (Cardinality(S) <= 2 * ((i - 1) - 1) /\ Stuck(S))
    BY <1>12, <1>14
  <2> HIDE DEF S, T
  <2>2. T \in D /\ Cardinality(S) \in Nat /\ Cardinality(T) \in Nat
    BY <1>1, <1>3, <2>1
  <2>3. Cardinality(T) = 2 * i \/ (Cardinality(T) <= 2 * (i - 1) /\ Stuck(T))
    <3>1. CASE Stuck(S)
      <4>1. T = S
        BY <1>2, <2>1, <3>1
      <4> QED
        BY <2>1, <2>2, <3>1, <4>1
    <3>2. CASE ~Stuck(S)
      <4>1. Cardinality(T) = Cardinality(S) + 2 /\ Cardinality(S) = 2 * (i - 1)
        BY <1>1, <2>1, <3>2
      <4> QED
        BY <4>1
    <3> QED
      BY <3>1, <3>2
  <2> QED
    BY <2>2, <2>3 DEF T
<1> HIDE DEF Good
<1>15. k \in Good
  <2>1. \A i \in 0..k : i \in Good
    BY <1>13, <1>14, HandedOn
  <2> QED
    BY <2>1
<1>16. /\ picked[k] \in D
       /\ Cardinality(picked[k]) = 2 * k
          \/ (Cardinality(picked[k]) <= 2 * (k - 1) /\ Stuck(picked[k]))
  BY <1>15 DEF Good
<1>17. CASE Cardinality(picked[k]) = 2 * k
  <2>1. BestPairs(k) # {}
    BY <1>11, <1>17, FS_EmptySet
  <2> QED
    BY <1>11, <1>17, <2>1
<1>18. CASE Cardinality(picked[k]) # 2 * k
  <2>1. BestPairs(k) = {}
    BY <1>11, <1>18
  <2>2. PairRoom(Free) <= Cardinality(picked[k]) /\ Cardinality(picked[k]) <= 2 * (k - 1)
        /\ Cardinality(picked[k]) \in Nat
    BY <1>3, <1>4, <1>16, <1>18
  <2>3. PairRoom(Free) < 2 * k - 1
    BY <1>5, <2>2
  <2> QED
    BY <2>1, <2>3
<1> QED
  BY <1>17, <1>18

-----------------------------------------------------------------------------
(* Wheelchair seats: companions. *)

\* A chair gets a seat beside it that is free, if there is one.
LEMMA CompanionIs ==
  ASSUME NEW x \in Places, NEW pool \in SUBSET Places, NEW used
  PROVE  LET able == Near(x, pool) \ used
             with == WithCompanion(used, x, pool) IN
         /\ able = {} => with = used
         /\ able # {} => \E y \in able : with = used \cup {y}
<1>1. PICK g \in Segments : \E p \in Nat : x = <<g, p>>
  BY IsPlace
<1>2. PICK p \in Nat : x = <<g, p>>
  BY <1>1
<1>3. x[1] = g /\ x[2] = p
  BY <1>2
<1> DEFINE able == Neighbours(x) \cap (pool \ used)
           best == Least(able, LAMBDA y : -y[2])
           score == [y \in able |-> -y[2]]
<1>4. ASSUME NEW y \in Places
      PROVE  y \in Neighbours(x) <=> y[1] = x[1] /\ Mag(y[2] - x[2]) = 1
  <2>1. PICK h \in Segments : \E i \in Nat : y = <<h, i>>
    BY IsPlace
  <2>2. PICK i \in Nat : y = <<h, i>>
    BY <2>1
  <2>3. y[1] = h /\ y[2] = i
    BY <2>2
  <2>4. y \in Neighbours(x) <=> h = g /\ (i = p + 1 \/ i = p - 1)
    BY <1>3, <2>2 DEF Neighbours
  <2>5. Mag(i - p) = 1 <=> i = p + 1 \/ i = p - 1
    BY DEF Mag
  <2> QED
    BY <1>3, <2>3, <2>4, <2>5
<1>5. able = Near(x, pool) \ used
  BY <1>4 DEF Near
<1>6. WithCompanion(used, x, pool) = IF able = {} THEN used ELSE used \cup {best}
  BY DEF WithCompanion
<1>7. best = CHOOSE a \in able : \A b \in able : score[a] <= score[b]
  BY DEF Least
<1>8. \A y \in able : -y[2] \in Int /\ -(p + 1) <= -y[2]
  BY <1>3 DEF Neighbours
<1> HIDE DEF able, best
<1>9. score \in [able -> Int] /\ \A y \in able : -(p + 1) <= score[y]
  BY <1>8
<1> HIDE DEF score
<1>10. ASSUME able # {}
       PROVE  best \in able
  <2>1. -(p + 1) \in Int
    OBVIOUS
  <2>2. \E a \in able : \A b \in able : score[a] <= score[b]
    BY <1>9, <1>10, <2>1, LeastScore
  <2> QED
    BY <1>7, <2>2
<1> QED
  BY <1>5, <1>6, <1>10

\* One chair.
LEMMA OneCompanion ==
  ASSUME NEW x \in Free
  PROVE  (Companions(<<x>>) # {}) = (Near(x, Free \ {x}) # {})
<1> DEFINE chairs == <<x>>
           pool == Free \ {chairs[i] : i \in DOMAIN chairs}
           one == WithCompanion({}, x, pool)
           Eqn(u) == u = [i \in 0..Len(chairs) |->
                            IF i = 0 THEN {} ELSE WithCompanion(u[i - 1], chairs[i], pool)]
           used == CHOOSE u : Eqn(u)
<1>1. Len(chairs) = 1 /\ chairs[1] = x /\ {chairs[i] : i \in DOMAIN chairs} = {x}
  OBVIOUS
<1>2. Companions(chairs) = IF Cardinality(used[Len(chairs)]) = Len(chairs)
                           THEN used[Len(chairs)] ELSE {}
  BY DEF Companions
<1>3. pool = Free \ {x}
  BY <1>1
<1>4. x \in Places /\ pool \in SUBSET Places
  BY PlacesFinite
<1> HIDE DEF chairs, pool
<1> DEFINE h == [i \in 0..1 |-> IF i = 0 THEN {} ELSE one]
<1>5. Eqn(h)
  <2>1. h[0] = {} /\ h[1] = one
    OBVIOUS
  <2>2. \A i \in 0..1 : h[i] = IF i = 0 THEN {} ELSE WithCompanion(h[i - 1], chairs[i], pool)
    BY <1>1, <2>1
  <2>3. DOMAIN h = 0..1 /\ h = [i \in 0..1 |-> h[i]]
    OBVIOUS
  <2> HIDE DEF h
  <2> QED
    BY <1>1, <2>2, <2>3
<1>6. Eqn(used)
  BY <1>5
<1> HIDE DEF used
<1>7. used[1] = one
  <2>1. \A i \in 0..1 : used[i] = IF i = 0 THEN {} ELSE WithCompanion(used[i - 1], chairs[i], pool)
    BY <1>1, <1>6, Zenon
  <2>2. 0 \in 0..1 /\ 1 \in 0..1 /\ 1 - 1 = 0
    OBVIOUS
  <2>3. used[0] = {}
    BY <2>1, <2>2
  <2> QED
    BY <1>1, <2>1, <2>2, <2>3
<1> HIDE DEF Eqn
<1>8. Companions(chairs) = IF Cardinality(one) = 1 THEN one ELSE {}
  BY <1>1, <1>2, <1>7
<1> HIDE DEF one
<1>9. /\ Near(x, pool) = {} => one = {}
      /\ Near(x, pool) # {} => \E y \in Near(x, pool) : one = {y}
  BY <1>4, CompanionIs DEF one
<1>10. CASE Near(x, pool) = {}
  BY <1>3, <1>8, <1>9, <1>10 DEF chairs
<1>11. CASE Near(x, pool) # {}
  <2>1. Cardinality(one) = 1 /\ one # {}
    BY <1>9, <1>11, FS_Singleton
  <2> QED
    BY <1>3, <1>8, <1>11, <2>1 DEF chairs
<1> QED
  BY <1>10, <1>11

\* Two chairs without a neighbour in common.
LEMMA TwoCompanions ==
  ASSUME NEW x \in Free, NEW y \in Free, x # y,
         Near(x, Free \ {x, y}) \cap Near(y, Free \ {x, y}) = {}
  PROVE  (Companions(<<x, y>>) # {})
           = (Near(x, Free \ {x, y}) # {} /\ Near(y, Free \ {x, y}) # {})
<1> DEFINE chairs == <<x, y>>
           pool == Free \ {chairs[i] : i \in DOMAIN chairs}
           one == WithCompanion({}, x, pool)
           two == WithCompanion(one, y, pool)
           Eqn(u) == u = [i \in 0..Len(chairs) |->
                            IF i = 0 THEN {} ELSE WithCompanion(u[i - 1], chairs[i], pool)]
           used == CHOOSE u : Eqn(u)
<1>1. /\ Len(chairs) = 2 /\ chairs[1] = x /\ chairs[2] = y
      /\ {chairs[i] : i \in DOMAIN chairs} = {x, y}
  OBVIOUS
<1>2. Companions(chairs) = IF Cardinality(used[Len(chairs)]) = Len(chairs)
                           THEN used[Len(chairs)] ELSE {}
  BY DEF Companions
<1>3. pool = Free \ {x, y}
  BY <1>1
<1>4. x \in Places /\ y \in Places /\ pool \in SUBSET Places
  BY PlacesFinite
<1> HIDE DEF chairs, pool
<1> DEFINE h == [i \in 0..2 |-> IF i = 0 THEN {} ELSE IF i = 1 THEN one ELSE two]
<1>5. Eqn(h)
  <2>1. h[0] = {} /\ h[1] = one /\ h[2] = two
    OBVIOUS
  <2>2. \A i \in 0..2 : h[i] = IF i = 0 THEN {} ELSE WithCompanion(h[i - 1], chairs[i], pool)
    <3>1. h[1] = WithCompanion(h[0], chairs[1], pool) /\ h[2] = WithCompanion(h[1], chairs[2], pool)
      BY <1>1, <2>1
    <3>2. \A i \in 0..2 : i = 0 \/ i = 1 \/ i = 2
      OBVIOUS
    <3> HIDE DEF h
    <3> QED
      BY <2>1, <3>1, <3>2
  <2>3. DOMAIN h = 0..2 /\ h = [i \in 0..2 |-> h[i]]
    OBVIOUS
  <2> HIDE DEF h
  <2> QED
    BY <1>1, <2>2, <2>3
<1>6. Eqn(used)
  BY <1>5
<1> HIDE DEF used
<1>7. used[2] = two
  <2>1. \A i \in 0..2 : used[i] = IF i = 0 THEN {} ELSE WithCompanion(used[i - 1], chairs[i], pool)
    BY <1>1, <1>6, Zenon
  <2>2. 0 \in 0..2 /\ 1 \in 0..2 /\ 2 \in 0..2 /\ 1 - 1 = 0 /\ 2 - 1 = 1
    OBVIOUS
  <2>3. used[0] = {}
    BY <2>1, <2>2
  <2>4. used[1] = one
    BY <1>1, <2>1, <2>2, <2>3
  <2> QED
    BY <1>1, <2>1, <2>2, <2>4
<1> HIDE DEF Eqn
<1>8. Companions(chairs) = IF Cardinality(two) = 2 THEN two ELSE {}
  BY <1>1, <1>2, <1>7
<1> HIDE DEF one, two
<1>9. /\ Near(x, pool) = {} => one = {}
      /\ Near(x, pool) # {} => \E a \in Near(x, pool) : one = {a}
  BY <1>4, CompanionIs DEF one
<1>10. /\ Near(y, pool) \ one = {} => two = one
       /\ Near(y, pool) \ one # {} => \E b \in Near(y, pool) \ one : two = one \cup {b}
  BY <1>4, CompanionIs DEF two
<1>11. Near(x, pool) \cap Near(y, pool) = {}
  BY <1>3
<1>12. CASE Near(x, pool) = {}
  <2>1. one = {}
    BY <1>9, <1>12
  <2>2. two = {} \/ \E b : two = {b}
    <3>1. CASE Near(y, pool) \ one = {}
      BY <1>10, <2>1, <3>1
    <3>2. CASE Near(y, pool) \ one # {}
      <4>1. PICK b \in Near(y, pool) \ one : two = one \cup {b}
        BY <1>10, <3>2
      <4>2. two = {b}
        BY <2>1, <4>1
      <4> QED
        BY <4>2
    <3> QED
      BY <3>1, <3>2
  <2>3. Cardinality(two) # 2
    <3>1. CASE two = {}
      BY <3>1, FS_EmptySet
    <3>2. ASSUME NEW b, two = {b}
          PROVE  Cardinality(two) # 2
      <4>1. Cardinality({b}) = 1
        BY FS_Singleton
      <4> QED
        BY <3>2, <4>1
    <3> QED
      BY <2>2, <3>1, <3>2
  <2> QED
    BY <1>3, <1>8, <1>12, <2>3 DEF chairs
<1>13. CASE Near(x, pool) # {} /\ Near(y, pool) = {}
  <2>1. \E a : two = {a}
    <3>1. PICK a \in Near(x, pool) : one = {a}
      BY <1>9, <1>13
    <3>2. Near(y, pool) \ one = {}
      BY <1>13
    <3>3. two = {a}
      BY <1>10, <3>1, <3>2
    <3> QED
      BY <3>3
  <2>2. Cardinality(two) # 2
    <3>1. PICK a : two = {a}
      BY <2>1
    <3>2. Cardinality({a}) = 1
      BY FS_Singleton
    <3> QED
      BY <3>1, <3>2
  <2> QED
    BY <1>3, <1>8, <1>13, <2>2 DEF chairs
<1>14. CASE Near(x, pool) # {} /\ Near(y, pool) # {}
  <2>1. PICK a \in Near(x, pool) : one = {a}
    BY <1>9, <1>14
  <2>2. PICK b \in Near(y, pool) : two = {a} \cup {b} /\ b # a
    BY <1>10, <1>11, <1>14, <2>1
  <2>3. Cardinality({a} \cup {b}) = 2
    <3> DEFINE A == {a}
               B == {b}
    <3>1. /\ IsFiniteSet(A) /\ IsFiniteSet(B) /\ A \cap B = {}
          /\ Cardinality(A) = 1 /\ Cardinality(B) = 1
      BY <2>2, FS_Singleton
    <3> HIDE DEF A, B
    <3>2. Cardinality(A \cup B) = 2
      BY <3>1, DisjointUnion
    <3> QED
      BY <3>2 DEF A, B
  <2>4. Cardinality(two) = 2 /\ two # {}
    BY <2>2, <2>3
  <2> QED
    BY <1>3, <1>8, <1>14, <2>4 DEF chairs
<1> QED
  BY <1>12, <1>13, <1>14

\* What NeighboursFound says of the chairs of one request.
LEMMA ChairsAre ==
  ASSUME NEW asked,
         (\E x \in Free : asked = <<x>>) \/ (\E x \in Free : \E y \in Free \ {x} : asked = <<x, y>>)
  PROVE  LET chairs == {asked[i] : i \in DOMAIN asked}
             near(x) == Near(x, Free \ chairs)
             with == Companions(asked)
             got == IF with = {} THEN {} ELSE chairs \cup with IN
         (\A x, y \in chairs : x # y => near(x) \cap near(y) = {}) =>
             (got # {}) = (\A x \in chairs : near(x) # {})
<1> DEFINE chairs == {asked[i] : i \in DOMAIN asked}
           with == Companions(asked)
           got == IF with = {} THEN {} ELSE chairs \cup with
           NoRivals == \A x, y \in chairs : x # y =>
                         Near(x, Free \ chairs) \cap Near(y, Free \ chairs) = {}
           Seated == \A x \in chairs : Near(x, Free \ chairs) # {}
<1>1. (got # {}) = (with # {})
  OBVIOUS
<1>2. ASSUME NEW x \in Free, asked = <<x>>
      PROVE  NoRivals => (with # {}) = Seated
  <2>1. chairs = {x}
    BY <1>2
  <2>2. (with # {}) = (Near(x, Free \ {x}) # {})
    BY <1>2, OneCompanion
  <2> HIDE DEF chairs, with
  <2> QED
    BY <2>1, <2>2
<1>3. ASSUME NEW x \in Free, NEW y \in Free \ {x}, asked = <<x, y>>
      PROVE  NoRivals => (with # {}) = Seated
  <2>1. chairs = {x, y}
    BY <1>3
  <2>2. Near(x, Free \ {x, y}) \cap Near(y, Free \ {x, y}) = {} =>
          (with # {}) = (Near(x, Free \ {x, y}) # {} /\ Near(y, Free \ {x, y}) # {})
    BY <1>3, TwoCompanions
  <2> HIDE DEF chairs, with
  <2> QED
    BY <2>1, <2>2
<1>4. NoRivals => (got # {}) = Seated
  BY <1>1, <1>2, <1>3
<1> HIDE DEF with, got
<1> QED
  BY <1>4 DEF with, got

\* Pairs and companions are found: the greedy search finds k pairs, or there is room for
\* at most 2k - 2, and chairs that do not compete for a seat get one beside each of them
\* exactly if each has one.
THEOREM PairsAndCompanionsFound == ChoiceSpec => []NeighboursFound
<1>1. ChoiceInit => NeighboursFound
  BY DEF ChoiceInit, NeighboursFound
<1>2. ASSUME NeighboursFound, [ChoiceNext]_choiceVars
      PROVE  NeighboursFound'
  <2>1. ASSUME NEW kind, NEW asked, NEW got, Answers(kind, asked, got),
               kind # "pairs", kind # "chairs"
        PROVE  NeighboursFound'
    BY <2>1, AnswerIs DEF NeighboursFound
  <2>2. ASSUME NEW q, Best(q)
        PROVE  NeighboursFound'
    BY <2>1, <2>2 DEF Best
  <2>3. ASSUME NEW k \in 1..(MaxAsked \div 2), Pairs(k)
        PROVE  NeighboursFound'
    <3>1. k \in Nat /\ k > 0
      OBVIOUS
    <3>2. /\ answer'.kind = "pairs" /\ answer'.asked = k
          /\ answer'.free = Free /\ answer'.got = BestPairs(k)
      BY <2>3, AnswerIs DEF Pairs
    <3>3. IF BestPairs(k) = {} THEN PairRoom(Free) < 2 * k - 1
          ELSE Cardinality(BestPairs(k)) = 2 * k
      BY <3>1, PairsAre
    <3> QED
      BY <3>2, <3>3, Zenon DEF NeighboursFound
  <2>4. ASSUME NEW selected, Select(selected)
        PROVE  NeighboursFound'
    BY <2>1, <2>4 DEF Select
  <2>5. ASSUME NEW asked, SelectChairs(asked),
               (\E x \in Free : asked = <<x>>)
                 \/ (\E x \in Free : \E y \in Free \ {x} : asked = <<x, y>>)
        PROVE  NeighboursFound'
    <3> DEFINE chairs == {asked[i] : i \in DOMAIN asked}
               with == Companions(asked)
               got == IF with = {} THEN {} ELSE chairs \cup with
               Fine(a, f, g) ==
                 LET C == {a[i] : i \in DOMAIN a} IN
                 (\A x, y \in C : x # y => Near(x, f \ C) \cap Near(y, f \ C) = {}) =>
                   (g # {}) = (\A x \in C : Near(x, f \ C) # {})
    <3>1. /\ answer'.kind = "chairs" /\ answer'.asked = asked
          /\ answer'.free = Free /\ answer'.got = got
      BY <2>5, AnswerIs DEF SelectChairs
    <3>2. Fine(asked, Free, got)
      BY <2>5, ChairsAre
    <3> HIDE DEF Fine, got
    <3>3. Fine(answer'.asked, answer'.free, answer'.got)
      BY <3>1, <3>2
    <3> QED
      BY <3>1, <3>3, Zenon DEF Fine, NeighboursFound
  <2>6. ASSUME NEW x, Vacate(x)
        PROVE  NeighboursFound'
    <3>1. answer'.kind = "vacated"
      BY <2>6 DEF Vacate
    <3> QED
      BY <3>1 DEF NeighboursFound
  <2>7. CASE UNCHANGED choiceVars
    <3> DEFINE Found(a) ==
                 /\ a.kind = "pairs" =>
                      IF a.got = {} THEN PairRoom(a.free) < 2 * a.asked - 1
                      ELSE Cardinality(a.got) = 2 * a.asked
                 /\ a.kind = "chairs" =>
                      LET chairs == {a.asked[i] : i \in DOMAIN a.asked}
                          near(x) == Near(x, a.free \ chairs) IN
                      (\A x, y \in chairs : x # y => near(x) \cap near(y) = {}) =>
                          (a.got # {}) = (\A x \in chairs : near(x) # {})
    <3>1. answer' = answer
      BY <2>7 DEF choiceVars
    <3>2. Found(answer)
      BY <1>2, Zenon DEF NeighboursFound
    <3> HIDE DEF Found
    <3>3. Found(answer')
      BY <3>1, <3>2
    <3> QED
      BY <3>3, Zenon DEF Found, NeighboursFound
  <2>8. CASE \E x \in Free : SelectChairs(<<x>>) \/ \E y \in Free \ {x} : SelectChairs(<<x, y>>)
    BY <2>5, <2>8
  <2> QED
    BY <1>2, <2>2, <2>3, <2>4, <2>6, <2>7, <2>8, Zenon DEF ChoiceNext
<1> QED
  BY <1>1, <1>2, PTL DEF ChoiceSpec
=============================================================================
