----------------------------- MODULE NumberTheorems -----------------------------
(***************************************************************************)
(* Facts about sums over finite sets, for the totals of the ledger, and    *)
(* about counting up and dividing, for its decimals.                       *)
(*                                                                         *)
(* MapThenSumSet adds along one order, that of CHOOSE.  Here it is shown   *)
(* that it is a sum: that the recursive function it is defined by exists,  *)
(* and that the order does not matter.  The theorems of induction of the   *)
(* library take an operator as a parameter; the induction here is WFMin    *)
(* (a set of finite sets has a minimal element), which takes a set.  By    *)
(* the same induction, an order has a maximum among finitely many things.  *)
(***************************************************************************)
EXTENDS Integers, FiniteSets, FiniteSetsExt, FiniteSetTheorems, TLAPS

Pick(s) == CHOOSE x \in s : TRUE

\* h is what MapThenSumSet computes on the subsets of S, where x counts g[x].
SumsUp(h, g, S) ==
    h = [s \in SUBSET S |-> IF s = {} THEN 0 ELSE g[Pick(s)] + h[s \ {Pick(s)}]]

SumOver(g, S) == (CHOOSE h : SumsUp(h, g, S))[S]

Integral(g, S) == \A x \in S : g[x] \in Int

-----------------------------------------------------------------------------
\* Induction: a set of subsets of a finite set has a minimal member.
LEMMA MinimalSubset ==
    ASSUME NEW S, IsFiniteSet(S), NEW Bad, Bad \subseteq SUBSET S, Bad # {}
    PROVE  \E T \in Bad : \A U \in SUBSET T : U # T => U \notin Bad
<1>1. IsWellFoundedOn(StrictSubsetOrdering(S), SUBSET S)
  BY FS_StrictSubsetOrderingWellFounded, FS_FiniteSubsetsOfFinite
<1>2. PICK T \in Bad : \A U \in Bad : ~(<<U, T>> \in StrictSubsetOrdering(S))
  BY <1>1, WFMin
<1> QED  BY <1>2 DEF StrictSubsetOrdering

\* A set with an element has the one MapThenSumSet adds first.
LEMMA PickOne ==
    ASSUME NEW s, s # {}
    PROVE  Pick(s) \in s
BY DEF Pick

\* The terms of a sum change places, whatever expressions they are.
LEMMA Swap ==
    ASSUME NEW k \in Int, NEW m \in Int, NEW n \in Int
    PROVE  k + (m + n) = m + (k + n)
OBVIOUS

\* Sums over different sets agree where both are defined.
LEMMA SumsAgree ==
    ASSUME NEW g, NEW S, NEW T, NEW h, NEW i, SumsUp(h, g, S), SumsUp(i, g, T),
           NEW U, IsFiniteSet(U), U \subseteq S, U \subseteq T
    PROVE  h[U] = i[U]
<1> DEFINE Bad == {s \in SUBSET U : h[s] # i[s]}
<1>1. ASSUME NEW s \in Bad, \A u \in SUBSET s : u # s => u \notin Bad PROVE FALSE
  <2>1. CASE s = {}
    BY <1>1, <2>1 DEF SumsUp
  <2>2. CASE s # {}
    <3>1. Pick(s) \in s
      BY <2>2, PickOne
    <3>2. h[s \ {Pick(s)}] = i[s \ {Pick(s)}]
      BY <1>1, <3>1
    <3>3. /\ h[s] = g[Pick(s)] + h[s \ {Pick(s)}]
          /\ i[s] = g[Pick(s)] + i[s \ {Pick(s)}]
      BY <2>2 DEF SumsUp
    <3> QED  BY <3>2, <3>3
  <2> QED  BY <2>1, <2>2
<1>2. Bad = {}
  <2>1. Bad \subseteq SUBSET U
    OBVIOUS
  <2> HIDE DEF Bad
  <2> QED  BY <1>1, <2>1, MinimalSubset
<1> QED  BY <1>2

\* The recursive function exists.
LEMMA SumsExist ==
    ASSUME NEW g, NEW S, IsFiniteSet(S)
    PROVE  \E h : SumsUp(h, g, S)
<1> DEFINE Bad == {T \in SUBSET S : ~\E h : SumsUp(h, g, T)}
<1>1. ASSUME NEW T \in Bad, \A U \in SUBSET T : U # T => U \notin Bad PROVE FALSE
  <2> DEFINE V == [U \in SUBSET T |-> (CHOOSE h : SumsUp(h, g, U))[U]]
             h == [s \in SUBSET T |-> IF s = {} THEN 0 ELSE g[Pick(s)] + V[s \ {Pick(s)}]]
  <2>1. ASSUME NEW U \in SUBSET T, U # T PROVE h[U] = V[U]
    <3>1. PICK i : i = CHOOSE j : SumsUp(j, g, U)
      OBVIOUS
    <3>2. SumsUp(i, g, U) /\ V[U] = i[U]
      BY <1>1, <2>1, <3>1
    <3>3. CASE U = {}
      BY <3>2, <3>3 DEF SumsUp
    <3>4. CASE U # {}
      <4> DEFINE W == U \ {Pick(U)}
      <4>1. W \in SUBSET T /\ W # T /\ W \subseteq U
        BY <2>1
      <4>2. PICK k : k = CHOOSE j : SumsUp(j, g, W)
        OBVIOUS
      <4>3. SumsUp(k, g, W) /\ V[W] = k[W]
        BY <1>1, <4>1, <4>2
      <4>4. IsFiniteSet(W)
        BY <4>1, FS_Subset
      <4>5. k[W] = i[W]
        BY <3>2, <4>1, <4>3, <4>4, SumsAgree
      <4>6. i[U] = g[Pick(U)] + i[W]
        BY <3>2, <3>4 DEF SumsUp
      <4> QED  BY <2>1, <3>2, <3>4, <4>3, <4>5, <4>6
    <3> QED  BY <3>3, <3>4
  <2>2. ASSUME NEW s \in SUBSET T, s # {} PROVE V[s \ {Pick(s)}] = h[s \ {Pick(s)}]
    <3>1. s \ {Pick(s)} \in SUBSET T /\ s \ {Pick(s)} # T
      BY <2>2, PickOne
    <3> QED  BY <2>1, <3>1
  <2>3. h = [s \in SUBSET T |-> IF s = {} THEN 0 ELSE g[Pick(s)] + h[s \ {Pick(s)}]]
    <3>1. ASSUME NEW s \in SUBSET T
          PROVE  h[s] = IF s = {} THEN 0 ELSE g[Pick(s)] + h[s \ {Pick(s)}]
      <4>1. CASE s = {}
        BY <4>1
      <4>2. CASE s # {}
        <5>1. h[s] = g[Pick(s)] + V[s \ {Pick(s)}]
          BY <4>2
        <5>2. V[s \ {Pick(s)}] = h[s \ {Pick(s)}]
          BY <2>2, <4>2
        <5> HIDE DEF h, V
        <5> QED  BY <4>2, <5>1, <5>2
      <4> QED  BY <4>1, <4>2
    <3>2. h = [s \in SUBSET T |-> h[s]]
      OBVIOUS
    <3> HIDE DEF h
    <3> QED  BY <3>1, <3>2
  <2>4. SumsUp(h, g, T)
    BY <2>3 DEF SumsUp
  <2> QED  BY <1>1, <2>4
<1>2. Bad = {}
  <2>1. Bad \subseteq SUBSET S
    OBVIOUS
  <2> HIDE DEF Bad
  <2> QED  BY <1>1, <2>1, MinimalSubset
<1> QED  BY <1>2

\* Any function that sums up gives the sum.
LEMMA SumIsSum ==
    ASSUME NEW g, NEW S, IsFiniteSet(S), NEW h, SumsUp(h, g, S)
    PROVE  h[S] = SumOver(g, S)
<1> DEFINE i == CHOOSE j : SumsUp(j, g, S)
<1>1. SumsUp(i, g, S)
  BY SumsExist
<1>2. SumOver(g, S) = i[S]
  BY DEF SumOver
<1> HIDE DEF i
<1> QED  BY <1>1, <1>2, SumsAgree

\* The sum over nothing.
LEMMA SumEmpty ==
    ASSUME NEW g
    PROVE  SumOver(g, {}) = 0
<1>1. PICK h : SumsUp(h, g, {})
  BY SumsExist, FS_EmptySet
<1>2. h[{}] = 0
  BY <1>1 DEF SumsUp
<1> QED  BY <1>1, <1>2, SumIsSum, FS_EmptySet

\* The sum over something, along the order of CHOOSE.
LEMMA SumPick ==
    ASSUME NEW g, NEW S, IsFiniteSet(S), S # {}
    PROVE  SumOver(g, S) = g[Pick(S)] + SumOver(g, S \ {Pick(S)})
<1> DEFINE U == S \ {Pick(S)}
<1>1. PICK h : SumsUp(h, g, S)
  BY SumsExist
<1>2. PICK i : SumsUp(i, g, U)
  BY SumsExist, FS_Subset
<1>3. h[S] = g[Pick(S)] + h[U]
  BY <1>1 DEF SumsUp
<1>4. IsFiniteSet(U)
  BY FS_Subset
<1>5. h[U] = i[U]
  BY <1>1, <1>2, <1>4, SumsAgree
<1> QED  BY <1>1, <1>2, <1>3, <1>4, <1>5, SumIsSum

\* A sum of integers is an integer.
LEMMA SumType ==
    ASSUME NEW g, NEW S, IsFiniteSet(S), Integral(g, S)
    PROVE  SumOver(g, S) \in Int
<1> DEFINE Bad == {s \in SUBSET S : SumOver(g, s) \notin Int}
<1>1. ASSUME NEW s \in Bad, \A u \in SUBSET s : u # s => u \notin Bad PROVE FALSE
  <2>0. IsFiniteSet(s)
    BY FS_Subset
  <2>1. s # {}
    BY SumEmpty
  <2>2. Pick(s) \in s
    BY <2>1, PickOne
  <2>3. SumOver(g, s \ {Pick(s)}) \in Int
    BY <1>1, <2>2
  <2>4. g[Pick(s)] \in Int
    BY <2>2 DEF Integral
  <2> QED  BY <2>0, <2>1, <2>3, <2>4, SumPick
<1>2. Bad = {}
  <2>1. Bad \subseteq SUBSET S
    OBVIOUS
  <2> HIDE DEF Bad
  <2> QED  BY <1>1, <2>1, MinimalSubset
<1> QED  BY <1>2

\* The order does not matter.
LEMMA SumRemove ==
    ASSUME NEW g, NEW S, IsFiniteSet(S), Integral(g, S), NEW x \in S
    PROVE  SumOver(g, S) = g[x] + SumOver(g, S \ {x})
<1> DEFINE Bad == {s \in SUBSET S : \E y \in s : SumOver(g, s) # g[y] + SumOver(g, s \ {y})}
<1>1. ASSUME NEW s \in Bad, \A u \in SUBSET s : u # s => u \notin Bad PROVE FALSE
  <2>0. \A u \in SUBSET s : IsFiniteSet(u) /\ SumOver(g, u) \in Int
    BY FS_Subset, SumType DEF Integral
  <2>1. PICK y \in s : SumOver(g, s) # g[y] + SumOver(g, s \ {y})
    OBVIOUS
  <2> DEFINE z == Pick(s)
  <2>2. z \in s
    BY <2>1, PickOne
  <2>3. SumOver(g, s) = g[z] + SumOver(g, s \ {z})
    BY <2>0, <2>1, SumPick
  <2> HIDE DEF z
  <2>4. y # z
    BY <2>1, <2>3
  <2>5. SumOver(g, s \ {z}) = g[y] + SumOver(g, (s \ {z}) \ {y})
    BY <1>1, <2>1, <2>2, <2>4
  <2>6. SumOver(g, s \ {y}) = g[z] + SumOver(g, (s \ {y}) \ {z})
    BY <1>1, <2>1, <2>2, <2>4
  <2>7. (s \ {z}) \ {y} = (s \ {y}) \ {z}
    OBVIOUS
  <2>8. g[y] \in Int /\ g[z] \in Int /\ SumOver(g, (s \ {y}) \ {z}) \in Int
    BY <2>0, <2>1, <2>2 DEF Integral
  <2>9. g[z] + (g[y] + SumOver(g, (s \ {y}) \ {z})) = g[y] + (g[z] + SumOver(g, (s \ {y}) \ {z}))
    BY <2>8, Swap
  <2> QED  BY ONLY <2>1, <2>3, <2>5, <2>6, <2>7, <2>9
<1>2. Bad = {}
  <2>1. Bad \subseteq SUBSET S
    OBVIOUS
  <2> HIDE DEF Bad
  <2> QED  BY <1>1, <2>1, MinimalSubset
<1> QED  BY <1>2

\* The sum of two sets without a common element.
LEMMA SumUnion ==
    ASSUME NEW g, NEW S, NEW T, IsFiniteSet(S), IsFiniteSet(T), S \cap T = {},
           Integral(g, S), Integral(g, T)
    PROVE  SumOver(g, S \cup T) = SumOver(g, S) + SumOver(g, T)
<1> DEFINE Bad == {t \in SUBSET T : SumOver(g, S \cup t) # SumOver(g, S) + SumOver(g, t)}
<1>0. SumOver(g, S) \in Int
  BY SumType
<1>1. ASSUME NEW t \in Bad, \A u \in SUBSET t : u # t => u \notin Bad PROVE FALSE
  <2>1. t # {}
    <3>1. S \cup {} = S /\ SumOver(g, {}) = 0
      BY SumEmpty
    <3>2. SumOver(g, S) + 0 = SumOver(g, S)
      BY <1>0
    <3> QED  BY ONLY <1>1, <3>1, <3>2
  <2>2. PICK x \in t : TRUE
    BY <2>1
  <2>3. IsFiniteSet(t) /\ IsFiniteSet(S \cup t) /\ IsFiniteSet(t \ {x})
    BY FS_Subset, FS_Union
  <2>4. SumOver(g, t) = g[x] + SumOver(g, t \ {x})
    BY <2>2, <2>3, SumRemove DEF Integral
  <2>5. SumOver(g, S \cup t) = g[x] + SumOver(g, (S \cup t) \ {x})
    BY <2>2, <2>3, SumRemove DEF Integral
  <2>6. (S \cup t) \ {x} = S \cup (t \ {x})
    BY <2>2
  <2>7. SumOver(g, S \cup (t \ {x})) = SumOver(g, S) + SumOver(g, t \ {x})
    BY <1>1, <2>2
  <2>8. g[x] \in Int /\ SumOver(g, t \ {x}) \in Int
    BY <2>2, <2>3, SumType DEF Integral
  <2>9. g[x] + (SumOver(g, S) + SumOver(g, t \ {x})) = SumOver(g, S) + (g[x] + SumOver(g, t \ {x}))
    BY <1>0, <2>8, Swap
  <2>10. SumOver(g, S \cup t) = SumOver(g, S) + SumOver(g, t)
    BY ONLY <2>4, <2>5, <2>6, <2>7, <2>9
  <2> QED  BY <1>1, <2>10
<1>2. Bad = {}
  <2>1. Bad \subseteq SUBSET T
    OBVIOUS
  <2> HIDE DEF Bad
  <2> QED  BY <1>1, <2>1, MinimalSubset
<1> QED  BY <1>2

\* Equal amounts have equal sums, through any renaming of what they are amounts of.
LEMMA SumRenamed ==
    ASSUME NEW g, NEW h, NEW f, NEW S, IsFiniteSet(S), Integral(g, S),
           \A x, y \in S : f[x] = f[y] => x = y,
           \A x \in S : h[f[x]] = g[x]
    PROVE  /\ IsFiniteSet({f[x] : x \in S})
           /\ SumOver(h, {f[x] : x \in S}) = SumOver(g, S)
<1> DEFINE Image(s) == {f[x] : x \in s}
           Bad == {s \in SUBSET S : ~(IsFiniteSet(Image(s)) /\ SumOver(h, Image(s)) = SumOver(g, s))}
<1>1. ASSUME NEW s \in Bad, \A u \in SUBSET s : u # s => u \notin Bad PROVE FALSE
  <2>1. s # {}
    <3>1. Image({}) = {}
      OBVIOUS
    <3> QED  BY <3>1, SumEmpty, FS_EmptySet
  <2>2. PICK x \in s : TRUE
    BY <2>1
  <2>3. s \ {x} \in SUBSET s /\ s \ {x} # s /\ s \ {x} \in SUBSET S
    BY <2>2
  <2>4. IsFiniteSet(Image(s \ {x})) /\ SumOver(h, Image(s \ {x})) = SumOver(g, s \ {x})
    BY <1>1, <2>3
  <2>5. Image(s) = Image(s \ {x}) \cup {f[x]} /\ f[x] \notin Image(s \ {x})
    BY <2>2
  <2>6. IsFiniteSet(Image(s))
    <3>1. \A U : IsFiniteSet(U) => IsFiniteSet(U \cup {f[x]})
      BY FS_AddElement
    <3>2. IsFiniteSet(Image(s \ {x}) \cup {f[x]})
      BY ONLY <2>4, <3>1
    <3> QED  BY ONLY <2>5, <3>2
  <2>7. Integral(h, Image(s))
    BY DEF Integral
  <2>8. SumOver(h, Image(s)) = h[f[x]] + SumOver(h, Image(s) \ {f[x]})
    BY <2>5, <2>6, <2>7, SumRemove
  <2>9. Image(s) \ {f[x]} = Image(s \ {x})
    BY <2>5
  <2>10. SumOver(g, s) = g[x] + SumOver(g, s \ {x})
    <3>1. IsFiniteSet(s) /\ Integral(g, s)
      BY FS_Subset DEF Integral
    <3> QED  BY <2>2, <3>1, SumRemove
  <2>11. h[f[x]] = g[x]
    BY <2>2
  <2> QED  BY <2>4, <2>6, <2>8, <2>9, <2>10, <2>11
<1>2. Bad = {}
  <2>1. Bad \subseteq SUBSET S
    OBVIOUS
  <2> HIDE DEF Bad
  <2> QED  BY <1>1, <2>1, MinimalSubset
<1>3. S \notin Bad
  BY <1>2
<1> QED  BY <1>3

\* The same elements with the same amounts.
LEMMA SumSame ==
    ASSUME NEW g, NEW h, NEW S, IsFiniteSet(S), Integral(g, S), \A x \in S : h[x] = g[x]
    PROVE  SumOver(h, S) = SumOver(g, S)
<1> DEFINE f == [x \in S |-> x]
<1>1. {f[x] : x \in S} = S
  OBVIOUS
<1>2. /\ \A x, y \in S : f[x] = f[y] => x = y
      /\ \A x \in S : h[f[x]] = g[x]
  OBVIOUS
<1> HIDE DEF f
<1> QED  BY <1>1, <1>2, SumRenamed

\* The sum of the negated amounts is the negated sum.
LEMMA SumNegated ==
    ASSUME NEW g, NEW h, NEW S, IsFiniteSet(S), Integral(g, S), \A x \in S : h[x] = -g[x]
    PROVE  SumOver(h, S) = -SumOver(g, S)
<1> DEFINE Bad == {s \in SUBSET S : SumOver(h, s) # -SumOver(g, s)}
<1>1. ASSUME Bad # {} PROVE FALSE
  <2>1. PICK s \in Bad : \A u \in SUBSET s : u # s => u \notin Bad
    <3>1. Bad \subseteq SUBSET S
      OBVIOUS
    <3> HIDE DEF Bad
    <3> QED  BY <1>1, <3>1, MinimalSubset
  <2>2. s \subseteq S /\ SumOver(h, s) # -SumOver(g, s)
    BY <2>1
  <2>3. s # {}
    BY <2>2, SumEmpty
  <2>4. PICK x \in s : TRUE
    BY <2>3
  <2>5. /\ IsFiniteSet(s) /\ Integral(g, s) /\ Integral(h, s) /\ g[x] \in Int /\ h[x] = -g[x]
        /\ IsFiniteSet(s \ {x}) /\ Integral(g, s \ {x})
    BY <2>2, <2>4, FS_Subset DEF Integral
  <2>6. SumOver(h, s) = h[x] + SumOver(h, s \ {x}) /\ SumOver(g, s) = g[x] + SumOver(g, s \ {x})
    BY <2>4, <2>5, SumRemove
  <2>7. SumOver(h, s \ {x}) = -SumOver(g, s \ {x})
    BY <2>1, <2>2, <2>4
  <2>8. SumOver(g, s \ {x}) \in Int
    BY <2>5, SumType
  <2> QED  BY <2>2, <2>5, <2>6, <2>7, <2>8
<1> QED  BY <1>1

\* What MapThenSumSet computes over a finite set is the sum.
LEMMA LibrarySum ==
    ASSUME NEW g, NEW S, IsFiniteSet(S)
    PROVE  MapThenSumSet(LAMBDA x : g[x], S) = SumOver(g, S)
<1> DEFINE F(i) == [s \in SUBSET S |->
                      IF s = {} THEN 0
                      ELSE g[CHOOSE x \in s : TRUE] + i[s \ {CHOOSE x \in s : TRUE}]]
           j == CHOOSE i : i = F(i)
<1>1. \E i : i = F(i)
  <2>1. PICK h : SumsUp(h, g, S)
    BY SumsExist
  <2>2. h = F(h)
    BY <2>1 DEF SumsUp, Pick
  <2> QED  BY <2>2
<1>2. j = F(j)
  BY <1>1
<1>3. MapThenSumSet(LAMBDA x : g[x], S) = j[S]
  BY DEF MapThenSumSet, MapThenFoldSet
<1>4. SumsUp(j, g, S)
  BY <1>2 DEF SumsUp, Pick
<1> HIDE DEF j
<1> QED  BY <1>3, <1>4, SumIsSum

\* A finite set with a strict order has an element with nothing above it.
LEMMA FiniteMaximal ==
    ASSUME NEW S, IsFiniteSet(S), S # {}, NEW R,
           \A x \in S : <<x, x>> \notin R,
           \A x, y, z \in S : <<x, y>> \in R /\ <<y, z>> \in R => <<x, z>> \in R
    PROVE  \E x \in S : \A y \in S : <<x, y>> \notin R
<1> DEFINE Top(T, x) == x \in T /\ \A y \in T : <<x, y>> \notin R
           Bad == {T \in SUBSET S : T # {} /\ ~\E x \in T : Top(T, x)}
<1>1. ASSUME NEW T \in Bad, \A U \in SUBSET T : U # T => U \notin Bad PROVE FALSE
  <2>1. PICK x \in T : TRUE
    OBVIOUS
  <2> DEFINE U == T \ {x}
  <2>2. CASE U = {}
    <3>1. Top(T, x)
      BY <2>1, <2>2
    <3> QED  BY <2>1, <3>1
  <2>3. CASE U # {}
    <3>0. U \in SUBSET T /\ U # T /\ U \in SUBSET S
      BY <2>1
    <3>1. PICK y \in U : Top(U, y)
      <4>1. U \notin Bad
        BY <1>1, <3>0
      <4> HIDE DEF U, Top
      <4> QED  BY <2>3, <3>0, <4>1
    <3>2. CASE <<y, x>> \in R
      <4>1. Top(T, x)
        BY <2>1, <3>1, <3>2
      <4> QED  BY <2>1, <4>1
    <3>3. CASE <<y, x>> \notin R
      <4>1. Top(T, y)
        BY <3>1, <3>3
      <4> QED  BY <3>1, <4>1
    <3> QED  BY <3>2, <3>3
  <2> QED  BY <2>2, <2>3
<1>2. Bad = {}
  <2>1. Bad \subseteq SUBSET S
    OBVIOUS
  <2> HIDE DEF Bad
  <2> QED  BY <1>1, <2>1, MinimalSubset
<1>3. S \notin Bad
  BY <1>2
<1> QED  BY <1>3

\* A sum by groups is the sum of the groups.
LEMMA SumByGroup ==
    ASSUME NEW g, NEW k, NEW part, NEW A, IsFiniteSet(A),
           \A a \in A : IsFiniteSet(part[a]) /\ Integral(g, part[a]) /\ k[a] = SumOver(g, part[a]),
           \A a, b \in A : a # b => part[a] \cap part[b] = {}
    PROVE  /\ IsFiniteSet(UNION {part[a] : a \in A})
           /\ SumOver(g, UNION {part[a] : a \in A}) = SumOver(k, A)
<1> DEFINE All(s) == UNION {part[a] : a \in s}
           Bad == {s \in SUBSET A : ~(IsFiniteSet(All(s)) /\ SumOver(g, All(s)) = SumOver(k, s))}
<1>0. \A s \in SUBSET A : Integral(g, All(s)) /\ Integral(k, s)
  BY SumType DEF Integral
<1>1. ASSUME NEW s \in Bad, \A u \in SUBSET s : u # s => u \notin Bad PROVE FALSE
  <2>1. s # {}
    <3>1. All({}) = {}
      OBVIOUS
    <3> QED  BY <3>1, SumEmpty, FS_EmptySet
  <2>2. PICK a \in s : TRUE
    BY <2>1
  <2> DEFINE u == s \ {a}
  <2>3. s \in SUBSET A /\ u \in SUBSET A /\ a \in A /\ IsFiniteSet(s)
    BY FS_Subset
  <2>4. IsFiniteSet(All(u)) /\ SumOver(g, All(u)) = SumOver(k, u)
    BY <1>1, <2>2, <2>3
  <2>5. All(s) = All(u) \cup part[a] /\ All(u) \cap part[a] = {}
    BY <2>2, <2>3
  <2>6. IsFiniteSet(part[a]) /\ Integral(g, part[a]) /\ k[a] = SumOver(g, part[a])
    BY <2>3
  <2>7. Integral(g, All(u)) /\ Integral(k, s) /\ k[a] \in Int /\ SumOver(k, u) \in Int
    <3>1. Integral(g, All(u)) /\ Integral(k, s) /\ Integral(k, u)
      BY <1>0, <2>3
    <3>2. IsFiniteSet(u)
      BY <2>3, FS_Subset
    <3> QED  BY <2>2, <3>1, <3>2, SumType DEF Integral
  <2>8. SumOver(k, s) = k[a] + SumOver(k, u)
    BY <2>2, <2>3, <2>7, SumRemove
  <2> HIDE DEF All, u
  <2>9. IsFiniteSet(All(s)) /\ SumOver(g, All(s)) = SumOver(g, All(u)) + SumOver(g, part[a])
    <3>1. IsFiniteSet(All(u)) /\ IsFiniteSet(part[a])
      BY <2>4, <2>6
    <3>2. IsFiniteSet(All(u) \cup part[a])
      BY <3>1, FS_Union
    <3> QED  BY <2>5, <2>6, <2>7, <3>1, <3>2, SumUnion
  <2>10. SumOver(k, u) + k[a] = k[a] + SumOver(k, u)
    BY <2>7
  <2> QED  BY <1>1, <2>4, <2>6, <2>8, <2>9, <2>10
<1>2. Bad = {}
  <2>1. Bad \subseteq SUBSET A
    OBVIOUS
  <2> HIDE DEF Bad
  <2> QED  BY <1>1, <2>1, MinimalSubset
<1> QED  BY <1>2

\* A sum of zeros.
LEMMA SumOfZeros ==
    ASSUME NEW g, NEW S, IsFiniteSet(S), \A x \in S : g[x] = 0
    PROVE  SumOver(g, S) = 0
<1>1. Integral(g, S) /\ \A x \in S : g[x] = -g[x]
  BY DEF Integral
<1>2. SumOver(g, S) = -SumOver(g, S) /\ SumOver(g, S) \in Int
  BY <1>1, SumNegated, SumType
<1> QED  BY <1>2

-----------------------------------------------------------------------------
\* Counting up from 0 in a set of numbers.
LEMMA CountUp ==
    ASSUME NEW n \in Nat, NEW S, 0 \in S, \A k \in 0 .. n - 1 : k \in S => k + 1 \in S
    PROVE  \A k \in 0 .. n : k \in S
<1> DEFINE T == {k \in 0 .. n : \A i \in 0 .. k : i \in S}
           R == {x \in Int \X Int : x[2] > x[1]}
<1>1. PICK k \in T : \A i \in T : <<k, i>> \notin R
  <2>1. 0 \in T /\ T \subseteq Int
    OBVIOUS
  <2>2. IsFiniteSet(T)
    <3>1. IsFiniteSet(0 .. n)
      BY FS_Interval
    <3> QED  BY <3>1, FS_Subset
  <2>3. \A x \in T : <<x, x>> \notin R
    BY <2>1
  <2>4. \A x, y, z \in T : <<x, y>> \in R /\ <<y, z>> \in R => <<x, z>> \in R
    BY <2>1
  <2> HIDE DEF T, R
  <2> QED  BY <2>1, <2>2, <2>3, <2>4, FiniteMaximal
<1>2. CASE k = n
  BY <1>2
<1>3. CASE k # n
  <2>1. k \in 0 .. n - 1 /\ k + 1 \in S
    BY <1>3
  <2>2. k + 1 \in T
    BY <2>1
  <2>3. <<k, k + 1>> \in R
    OBVIOUS
  <2> QED  BY <1>1, <2>2, <2>3
<1> QED  BY <1>2, <1>3

\* Division leaves a remainder.
LEMMA DivFacts ==
    ASSUME NEW n \in Nat, NEW p \in Nat \ {0}
    PROVE  n \div p \in Nat /\ n % p \in 0 .. p - 1 /\ n = p * (n \div p) + (n % p)
OBVIOUS

\* And only one quotient and remainder do.
LEMMA DivUnique ==
    ASSUME NEW n \in Nat, NEW p \in Nat \ {0}, NEW q \in Nat, NEW r \in 0 .. p - 1, n = p * q + r
    PROVE  n \div p = q /\ n % p = r
OBVIOUS

\* Dropping one more digit.
LEMMA DivTen ==
    ASSUME NEW n \in Nat, NEW p \in Nat \ {0}
    PROVE  n \div p = 10 * (n \div (10 * p)) + ((n \div p) % 10)
<1>1. PICK q \in Nat, r \in 0 .. p - 1 : n = p * q + r /\ q = n \div p
  BY DivFacts
<1>2. PICK s \in Nat, t \in 0 .. 9 : q = 10 * s + t /\ t = q % 10
  BY DivFacts
<1>3. n = (10 * p) * s + (p * t + r)
  <2>1. p * (10 * s + t) = (10 * p) * s + p * t
    OBVIOUS
  <2>2. n = p * (10 * s + t) + r
    BY <1>1, <1>2
  <2>3. PICK x, y \in Int : x = (10 * p) * s /\ y = p * t
    OBVIOUS
  <2> QED  BY <2>1, <2>2, <2>3
<1>4. p * t + r \in 0 .. 10 * p - 1
  <2>1. p * t \in 0 .. 9 * p
    OBVIOUS
  <2> QED  BY <2>1
<1>5. n \div (10 * p) = s
  <2>1. PICK u \in Nat, m \in Nat \ {0} : u = p * t + r /\ m = 10 * p
    BY <1>4
  <2>2. n = m * s + u /\ u \in 0 .. m - 1
    BY <1>3, <1>4, <2>1
  <2>3. n \div m = s
    BY <2>2, DivUnique
  <2> QED  BY <2>1, <2>3
<1> QED  BY <1>1, <1>2, <1>5

\* A set of numbers from 1 to n has a largest one.
LEMMA Largest ==
    ASSUME NEW n \in Nat, NEW S, S \subseteq 1 .. n, S # {}
    PROVE  \E i \in S : \A j \in S : j <= i
<1> DEFINE R == {x \in Int \X Int : x[2] > x[1]}
<1>1. S \subseteq Int /\ IsFiniteSet(S)
  <2>1. IsFiniteSet(1 .. n)
    BY FS_Interval
  <2>2. IsFiniteSet(S)
    BY <2>1, FS_Subset
  <2> QED  BY <2>2
<1>2. \A x \in S : <<x, x>> \notin R
  BY <1>1
<1>3. \A x, y, z \in S : <<x, y>> \in R /\ <<y, z>> \in R => <<x, z>> \in R
  BY <1>1
<1>4. PICK i \in S : \A y \in S : <<i, y>> \notin R
  <2> HIDE DEF R
  <2> QED  BY <1>1, <1>2, <1>3, FiniteMaximal
<1>5. ASSUME NEW j \in S PROVE j <= i
  <2>1. i \in Int /\ j \in Int /\ <<i, j>> \notin R
    BY <1>1, <1>4
  <2> QED  BY <2>1
<1> QED  BY <1>4, <1>5
=============================================================================
