----------------------------- MODULE SumTheorems -----------------------------
(***************************************************************************)
(* Lemmas on SumFunctionOnSet(f, S), the sum of f[x] for x in a finite     *)
(* set S, with which OrderTx and Trading add up cash and shares.  The      *)
(* library defines it by recursion over the subsets of S.  Induction is    *)
(* here the existence of a least subset with a property, which needs no    *)
(* operator to be instantiated.                                            *)
(***************************************************************************)
EXTENDS Functions, Integers, Sequences, FiniteSetTheorems, TLAPS

\* A set of subsets of a finite set has a least element.
LEMMA LeastSubset ==
    ASSUME NEW S, IsFiniteSet(S), NEW T \in SUBSET (SUBSET S), T # {}
    PROVE  \E A \in T : \A B \in T : B \subseteq A => B = A
<1>1. IsWellFoundedOn(StrictSubsetOrdering(S), FiniteSubsetsOf(S))
    BY FS_StrictSubsetOrderingWellFounded
<1>2. T \subseteq FiniteSubsetsOf(S)
    BY FS_FiniteSubsetsOfFinite
<1>3. PICK A \in T : \A B \in T : ~ (<<B, A>> \in StrictSubsetOrdering(S))
    BY <1>1, <1>2, WFMin
<1> SUFFICES ASSUME NEW B \in T, B \subseteq A, B # A PROVE FALSE
    BY <1>3
<1>4. <<B, A>> \in StrictSubsetOrdering(S)
    BY DEF StrictSubsetOrdering
<1> QED
    BY <1>3, <1>4

----------------------------------------------------------------------------
\* The recursion of the library is well defined

Pick(s) == CHOOSE x \in s : TRUE

Rest(s) == s \ {Pick(s)}

\* The function that the sum of f over A is defined with.
Adds(g, f, A) ==
    g = [s \in SUBSET A |-> IF s = {} THEN 0 ELSE f[Pick(s)] + g[Rest(s)]]

\* The recursion takes an element out of a set that is not empty ...
LEMMA PickIs ==
    ASSUME NEW s, s # {}
    PROVE  Pick(s) \in s /\ Rest(s) \subseteq s /\ Rest(s) # s
BY DEF Pick, Rest

\* ... and the sum is what it comes to for the whole set.
LEMMA SumIs ==
    ASSUME NEW f, NEW A
    PROVE  SumFunctionOnSet(f, A) = (CHOOSE g : Adds(g, f, A))[A]
BY DEF SumFunctionOnSet, FoldFunctionOnSet, MapThenFoldSet, Adds, Pick, Rest

\* Two functions that add f up agree where both are defined.
LEMMA AddsUnique ==
    ASSUME NEW f, NEW A, IsFiniteSet(A), NEW B \in SUBSET A, NEW g, NEW h,
           Adds(g, f, A), Adds(h, f, B)
    PROVE  \A s \in SUBSET B : g[s] = h[s]
<1> DEFINE T == {s \in SUBSET B : g[s] # h[s]}
<1> SUFFICES ASSUME T # {} PROVE FALSE
    OBVIOUS
<1>1. IsFiniteSet(B)
    BY FS_Subset
<1>2. T \in SUBSET (SUBSET B)
    OBVIOUS
<1> HIDE DEF T
<1>3. PICK s \in T : \A t \in T : t \subseteq s => t = s
    BY <1>1, <1>2, LeastSubset
<1> USE DEF T
<1>4. /\ g[s] = IF s = {} THEN 0 ELSE f[Pick(s)] + g[Rest(s)]
      /\ h[s] = IF s = {} THEN 0 ELSE f[Pick(s)] + h[Rest(s)]
    BY DEF Adds
<1>5. s # {} /\ g[Rest(s)] # h[Rest(s)]
    BY <1>4
<1>6. Rest(s) \in T /\ Rest(s) \subseteq s /\ Rest(s) # s
    BY <1>5, PickIs
<1> QED
    BY <1>3, <1>6

\* There is such a function for every finite set.
LEMMA AddsExists ==
    ASSUME NEW f, NEW S, IsFiniteSet(S)
    PROVE  \E g : Adds(g, f, S)
<1> DEFINE T == {A \in SUBSET S : ~ \E g : Adds(g, f, A)}
<1> SUFFICES ASSUME T # {} PROVE FALSE
    OBVIOUS
<1>1. T \in SUBSET (SUBSET S)
    OBVIOUS
<1> HIDE DEF T
<1>2. PICK A \in T : \A B \in T : B \subseteq A => B = A
    BY <1>1, LeastSubset
<1> USE DEF T
<1> DEFINE G(B) == CHOOSE g : Adds(g, f, B)
           g == [s \in SUBSET A |-> IF s = {} THEN 0 ELSE f[Pick(s)] + G(Rest(s))[Rest(s)]]
<1>3. \A B \in SUBSET A : B # A => Adds(G(B), f, B) /\ IsFiniteSet(B)
    BY <1>2, FS_Subset
<1>4. ASSUME NEW t \in SUBSET A, t # A
      PROVE  g[t] = G(t)[t]
  <2>1. Adds(G(t), f, t)
      BY <1>3, <1>4
  <2> HIDE DEF G
  <2>2. G(t)[t] = IF t = {} THEN 0 ELSE f[Pick(t)] + G(t)[Rest(t)]
      BY <2>1 DEF Adds
  <2>3. CASE t = {}
      BY <2>2, <2>3
  <2>4. CASE t # {}
    <3>1. Rest(t) \subseteq t /\ Rest(t) # A
        BY <2>4, PickIs
    <3>2. Adds(G(Rest(t)), f, Rest(t)) /\ IsFiniteSet(t)
        BY <1>3, <1>4, <3>1
    <3>3. G(t)[Rest(t)] = G(Rest(t))[Rest(t)]
        BY <2>1, <3>1, <3>2, AddsUnique
    <3> QED
        BY <2>2, <2>4, <3>3
  <2> QED
      BY <2>3, <2>4
<1> HIDE DEF G
<1>5. ASSUME NEW s \in SUBSET A, s # {}
      PROVE  g[Rest(s)] = G(Rest(s))[Rest(s)]
  <2>1. Rest(s) \in SUBSET A /\ Rest(s) # A
      BY <1>5, PickIs
  <2> HIDE DEF g
  <2> QED
      BY <1>4, <2>1
<1>6. Adds(g, f, A)
  <2>1. \A s \in SUBSET A : g[s] = IF s = {} THEN 0 ELSE f[Pick(s)] + g[Rest(s)]
      BY <1>5
  <2>2. g = [s \in SUBSET A |-> g[s]]
      OBVIOUS
  <2> QED
      BY <2>1, <2>2 DEF Adds
<1> QED
    BY <1>6

\* The equation that defines the sum.
LEMMA SumAdds ==
    ASSUME NEW f, NEW S, IsFiniteSet(S)
    PROVE  SumFunctionOnSet(f, S) =
                IF S = {} THEN 0 ELSE f[Pick(S)] + SumFunctionOnSet(f, Rest(S))
<1> DEFINE G(B) == CHOOSE g : Adds(g, f, B)
<1>1. \A B \in SUBSET S : Adds(G(B), f, B) /\ IsFiniteSet(B)
    BY AddsExists, FS_Subset
<1>2. \A B : SumFunctionOnSet(f, B) = G(B)[B]
    BY SumIs
<1> HIDE DEF G
<1>3. G(S)[S] = IF S = {} THEN 0 ELSE f[Pick(S)] + G(S)[Rest(S)]
    BY <1>1 DEF Adds
<1>4. S # {} => G(S)[Rest(S)] = G(Rest(S))[Rest(S)]
    BY <1>1, PickIs, AddsUnique
<1> QED
    BY <1>2, <1>3, <1>4

----------------------------------------------------------------------------
\* What a sum of integers is

\* Nothing adds up to zero.
LEMMA SumEmpty ==
    ASSUME NEW f
    PROVE  SumFunctionOnSet(f, {}) = 0
BY SumAdds, FS_EmptySet

\* The sum looks at the values of f on S only.
LEMMA SumAgree ==
    ASSUME NEW f, NEW g, NEW S, IsFiniteSet(S), \A x \in S : f[x] = g[x]
    PROVE  SumFunctionOnSet(f, S) = SumFunctionOnSet(g, S)
<1> DEFINE T == {A \in SUBSET S : SumFunctionOnSet(f, A) # SumFunctionOnSet(g, A)}
<1> SUFFICES ASSUME T # {} PROVE FALSE
    OBVIOUS
<1>1. T \in SUBSET (SUBSET S)
    OBVIOUS
<1> HIDE DEF T
<1>2. PICK A \in T : \A B \in T : B \subseteq A => B = A
    BY <1>1, LeastSubset
<1> USE DEF T
<1>3. A \subseteq S /\ IsFiniteSet(A)
    BY FS_Subset
<1>4. A # {}
    BY SumEmpty
<1>5. Pick(A) \in A /\ Rest(A) \subseteq A /\ Rest(A) # A
    BY <1>4, PickIs
<1>6. SumFunctionOnSet(f, Rest(A)) = SumFunctionOnSet(g, Rest(A))
    BY <1>2, <1>3, <1>5
<1> QED
    BY <1>3, <1>4, <1>5, <1>6, SumAdds

\* The sum of integers is an integer.
LEMMA SumInt ==
    ASSUME NEW f, NEW S, IsFiniteSet(S), \A x \in S : f[x] \in Int
    PROVE  SumFunctionOnSet(f, S) \in Int
<1> DEFINE T == {A \in SUBSET S : SumFunctionOnSet(f, A) \notin Int}
<1> SUFFICES ASSUME T # {} PROVE FALSE
    OBVIOUS
<1>1. T \in SUBSET (SUBSET S)
    OBVIOUS
<1> HIDE DEF T
<1>2. PICK A \in T : \A B \in T : B \subseteq A => B = A
    BY <1>1, LeastSubset
<1> USE DEF T
<1>3. A \subseteq S /\ IsFiniteSet(A)
    BY FS_Subset
<1>4. A # {}
    BY SumEmpty
<1>5. Pick(A) \in A /\ Rest(A) \subseteq A /\ Rest(A) # A
    BY <1>4, PickIs
<1>6. SumFunctionOnSet(f, Rest(A)) \in Int
    BY <1>2, <1>3, <1>5
<1>7. SumFunctionOnSet(f, A) = f[Pick(A)] + SumFunctionOnSet(f, Rest(A))
    BY <1>3, <1>4, SumAdds
<1> QED
    BY <1>3, <1>5, <1>6, <1>7

\* Zeros add up to zero.
LEMMA SumZero ==
    ASSUME NEW f, NEW S, IsFiniteSet(S), \A x \in S : f[x] = 0
    PROVE  SumFunctionOnSet(f, S) = 0
<1> DEFINE T == {A \in SUBSET S : SumFunctionOnSet(f, A) # 0}
<1> SUFFICES ASSUME T # {} PROVE FALSE
    OBVIOUS
<1>1. T \in SUBSET (SUBSET S)
    OBVIOUS
<1> HIDE DEF T
<1>2. PICK A \in T : \A B \in T : B \subseteq A => B = A
    BY <1>1, LeastSubset
<1> USE DEF T
<1>3. A \subseteq S /\ IsFiniteSet(A)
    BY FS_Subset
<1>4. A # {}
    BY SumEmpty
<1>5. Pick(A) \in A /\ Rest(A) \subseteq A /\ Rest(A) # A
    BY <1>4, PickIs
<1>6. SumFunctionOnSet(f, Rest(A)) = 0
    BY <1>2, <1>3, <1>5
<1>7. SumFunctionOnSet(f, A) = f[Pick(A)] + SumFunctionOnSet(f, Rest(A))
    BY <1>3, <1>4, SumAdds
<1> QED
    BY <1>3, <1>5, <1>6, <1>7

\* Any element may be the one that is added last.
LEMMA SumRemove ==
    ASSUME NEW f, NEW S, IsFiniteSet(S), \A y \in S : f[y] \in Int, NEW x \in S
    PROVE  SumFunctionOnSet(f, S) = f[x] + SumFunctionOnSet(f, S \ {x})
<1> DEFINE Last(A, y) == SumFunctionOnSet(f, A) = f[y] + SumFunctionOnSet(f, A \ {y})
           T == {A \in SUBSET S : \E y \in A : ~Last(A, y)}
<1> SUFFICES ASSUME T # {} PROVE FALSE
    OBVIOUS
<1>1. T \in SUBSET (SUBSET S)
    OBVIOUS
<1> HIDE DEF T
<1>2. PICK A \in T : \A B \in T : B \subseteq A => B = A
    BY <1>1, LeastSubset
<1> USE DEF T
<1> HIDE DEF Last
<1>3. PICK y \in A : ~Last(A, y)
    OBVIOUS
<1>4. A \subseteq S /\ IsFiniteSet(A)
    BY FS_Subset
<1> DEFINE p == Pick(A)
<1>5. p \in A /\ SumFunctionOnSet(f, A) = f[p] + SumFunctionOnSet(f, A \ {p})
    BY <1>3, <1>4, PickIs, SumAdds DEF Rest
<1>6. p # y
    BY <1>3, <1>5 DEF Last
<1> HIDE DEF p
<1>7. Last(A \ {p}, y)
    BY <1>2, <1>4, <1>5, <1>6
<1>8. Last(A \ {y}, p)
    BY <1>2, <1>3, <1>4, <1>5, <1>6
<1> DEFINE C == (A \ {p}) \ {y}
<1>9. C = (A \ {y}) \ {p} /\ C \subseteq S
    BY <1>4
<1>10. SumFunctionOnSet(f, C) \in Int
    BY <1>9, FS_Subset, SumInt
<1>11. f[p] \in Int /\ f[y] \in Int
    BY <1>4, <1>5
<1>12. /\ SumFunctionOnSet(f, A \ {p}) = f[y] + SumFunctionOnSet(f, C)
       /\ SumFunctionOnSet(f, A \ {y}) = f[p] + SumFunctionOnSet(f, C)
    BY <1>7, <1>8, <1>9 DEF Last
<1> HIDE DEF C
<1>13. SumFunctionOnSet(f, A) = f[y] + SumFunctionOnSet(f, A \ {y})
    BY <1>5, <1>10, <1>11, <1>12
<1> QED
    BY <1>3, <1>13 DEF Last

\* What x contributes to the sum over S.
Term(f, S, x) == IF x \in S THEN f[x] ELSE 0

\* A sum with, and without, the term of one element.
Splits(f, S, x) ==
    /\ Term(f, S, x) \in Int /\ SumFunctionOnSet(f, S \ {x}) \in Int
    /\ SumFunctionOnSet(f, S) = Term(f, S, x) + SumFunctionOnSet(f, S \ {x})

LEMMA SumSplit ==
    ASSUME NEW f, NEW S, IsFiniteSet(S), \A y \in S : f[y] \in Int, NEW x
    PROVE  Splits(f, S, x)
<1> DEFINE rest == SumFunctionOnSet(f, S \ {x})
<1>1. rest \in Int
    BY FS_Subset, SumInt
<1>2. Term(f, S, x) \in Int
    BY DEF Term
<1>3. SumFunctionOnSet(f, S) = Term(f, S, x) + rest
  <2>1. CASE x \in S
    <3>1. SumFunctionOnSet(f, S) = f[x] + rest
        BY <2>1, SumRemove
    <3>2. Term(f, S, x) = f[x]
        BY <2>1 DEF Term
    <3> QED
        BY <3>1, <3>2
  <2>2. CASE x \notin S
    <3>1. S \ {x} = S
        BY <2>2
    <3>2. SumFunctionOnSet(f, S) = rest
        BY <3>1
    <3>3. Term(f, S, x) = 0
        BY <2>2 DEF Term
    <3> HIDE DEF rest
    <3> QED
        BY <1>1, <3>2, <3>3
  <2> QED
      BY <2>1, <2>2
<1> QED
    BY <1>1, <1>2, <1>3 DEF Splits

\* Two sums that differ in what they make of one element.
LEMMA SumMoves ==
    ASSUME NEW f, NEW S, IsFiniteSet(S), \A y \in S : f[y] \in Int,
           NEW g, NEW T, IsFiniteSet(T), \A y \in T : g[y] \in Int,
           NEW x, S \ {x} = T \ {x}, \A y \in T \ {x} : g[y] = f[y]
    PROVE  SumFunctionOnSet(g, T) = SumFunctionOnSet(f, S) + Term(g, T, x) - Term(f, S, x)
<1>1. Splits(f, S, x) /\ Splits(g, T, x)
    BY SumSplit
<1>2. IsFiniteSet(T \ {x})
    BY FS_Subset
<1>3. SumFunctionOnSet(g, T \ {x}) = SumFunctionOnSet(f, S \ {x})
    BY <1>2, SumAgree
<1> QED
    BY <1>1, <1>3 DEF Splits

\* One term changes, and the sum with it.
LEMMA SumChange ==
    ASSUME NEW f, NEW g, NEW S, IsFiniteSet(S), NEW x \in S,
           \A y \in S : f[y] \in Int /\ g[y] \in Int,
           \A y \in S : y # x => g[y] = f[y]
    PROVE  SumFunctionOnSet(g, S) = SumFunctionOnSet(f, S) + g[x] - f[x]
<1>1. SumFunctionOnSet(g, S) = SumFunctionOnSet(f, S) + Term(g, S, x) - Term(f, S, x)
    BY SumMoves
<1> QED
    BY <1>1 DEF Term

----------------------------------------------------------------------------
\* The sum of a sequence

\* No prices add up to zero.
LEMMA SumNoElement == SumFunction(<<>>) = 0
<1>1. DOMAIN <<>> = {}
    OBVIOUS
<1> QED
    BY <1>1, SumEmpty DEF SumFunction

\* The sum of a sequence of integers is an integer.
LEMMA SumSeqInt ==
    ASSUME NEW s \in Seq(Int)
    PROVE  SumFunction(s) \in Int
<1>1. DOMAIN s = 1..Len(s) /\ Len(s) \in Nat /\ \A i \in 1..Len(s) : s[i] \in Int
    OBVIOUS
<1>2. IsFiniteSet(1..Len(s))
    BY <1>1, FS_Interval
<1> QED
    BY <1>1, <1>2, SumInt DEF SumFunction

\* One more element adds to the sum.
LEMMA SumAppend ==
    ASSUME NEW s \in Seq(Int), NEW v \in Int
    PROVE  SumFunction(Append(s, v)) = SumFunction(s) + v
<1> DEFINE a == Append(s, v)
           n == Len(s)
<1>1. n \in Nat /\ DOMAIN s = 1..n /\ \A i \in 1..n : s[i] \in Int
    OBVIOUS
<1>2. DOMAIN a = 1..(n + 1) /\ a[n + 1] = v /\ \A i \in 1..n : a[i] = s[i]
    OBVIOUS
<1> HIDE DEF a, n
<1>3. IsFiniteSet(1..n) /\ IsFiniteSet(1..(n + 1))
    BY <1>1, FS_Interval
<1>4. n + 1 \in 1..(n + 1) /\ (1..(n + 1)) \ {n + 1} = 1..n
    BY <1>1
<1>5. \A i \in 1..(n + 1) : a[i] \in Int
    BY <1>1, <1>2
<1>6. SumFunctionOnSet(a, 1..(n + 1)) = v + SumFunctionOnSet(a, 1..n)
  <2> DEFINE I == 1..(n + 1)
  <2>1. n + 1 \in I /\ IsFiniteSet(I) /\ \A i \in I : a[i] \in Int
      BY <1>3, <1>4, <1>5
  <2> HIDE DEF I
  <2>2. SumFunctionOnSet(a, I) = a[n + 1] + SumFunctionOnSet(a, I \ {n + 1})
      BY <2>1, SumRemove
  <2> QED
      BY <1>2, <1>4, <2>2 DEF I
<1>7. SumFunctionOnSet(a, 1..n) = SumFunctionOnSet(s, 1..n)
    BY <1>2, <1>3, SumAgree
<1>8. SumFunctionOnSet(s, 1..n) \in Int
    BY <1>1, <1>3, SumInt
<1>9. SumFunction(a) = SumFunction(s) + v
    BY <1>1, <1>2, <1>6, <1>7, <1>8 DEF SumFunction
<1> QED
    BY <1>9 DEF a

\* The sum of executions at natural prices.
LEMMA TapeInt ==
    ASSUME NEW x \in Seq(Nat)
    PROVE  /\ x \in Seq(Int) /\ SumFunction(x) \in Int /\ Len(x) \in Nat
           /\ \A p \in Nat : /\ SumFunction(Append(x, p)) = SumFunction(x) + p
                              /\ Len(Append(x, p)) = Len(x) + 1
<1>1. x \in Seq(Int)
    OBVIOUS
<1>2. SumFunction(x) \in Int /\ \A p \in Nat : SumFunction(Append(x, p)) = SumFunction(x) + p
    BY <1>1, SumSeqInt, SumAppend
<1>3. Len(x) \in Nat /\ \A p \in Nat : Len(Append(x, p)) = Len(x) + 1
    OBVIOUS
<1> QED
    BY <1>1, <1>2, <1>3

\* How many shares come and what they cost, with one more at price p.
LEMMA Multiply ==
    ASSUME NEW q \in Nat, NEW A \in Int, NEW n \in Nat, NEW p \in Nat
    PROVE  /\ q * (A + p) = q * A + p * q /\ q * A \in Int /\ p * q \in Int
           /\ (n + 1) * q = n * q + q /\ n * q \in Int
OBVIOUS
=============================================================================
