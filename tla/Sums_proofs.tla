----------------------------- MODULE Sums_proofs -----------------------------
(***************************************************************************)
(* What the sums of the models (SumFunctionOnSet of the community module   *)
(* Functions) are for every finite set.  The provers see the recursive     *)
(* function in its definition as a CHOOSE, so the function is first shown  *)
(* to exist.  Induction is by a smallest counterexample: a set of finite   *)
(* sets that is not empty has a member no proper subset of which is in it. *)
(* At the end, what Min and Max are of two numbers.                        *)
(***************************************************************************)
EXTENDS FiniteSetsExt, FiniteSetTheorems, TLAPS

(* A smallest member of a set of finite sets.                              *)
LEMMA SmallestSet ==
    ASSUME NEW S, IsFiniteSet(S), NEW Bad \in SUBSET SUBSET S, Bad # {}
    PROVE  \E T \in Bad : \A R \in SUBSET T : R # T => R \notin Bad
<1>1. IsWellFoundedOn(StrictSubsetOrdering(S), FiniteSubsetsOf(S))
    BY FS_StrictSubsetOrderingWellFounded
<1>2. Bad \subseteq FiniteSubsetsOf(S)
    BY FS_Subset DEF FiniteSubsetsOf
<1>3. PICK T \in Bad : \A R \in Bad : ~(<<R, T>> \in StrictSubsetOrdering(S))
    BY <1>1, <1>2, WFMin
<1>4. ASSUME NEW R \in SUBSET T, R # T PROVE R \notin Bad
    BY <1>3, <1>4 DEF StrictSubsetOrdering
<1> QED
    BY <1>4

(* The element that a sum takes from a set next.                           *)
Next1(s) == CHOOSE x \in s : TRUE
(* g gives the sum of f over every subset of S, as the library computes it.*)
Sums(g, f, S) ==
    g = [s \in SUBSET S |-> IF s = {} THEN 0 ELSE f[Next1(s)] + g[s \ {Next1(s)}]]

(* No two functions satisfy the equations of a sum over finite sets.       *)
LEMMA SumsUnique ==
    ASSUME NEW S, IsFiniteSet(S), NEW f, NEW g, NEW h, Sums(g, f, S), Sums(h, f, S)
    PROVE  g = h
<1> DEFINE Bad == {s \in SUBSET S : g[s] # h[s]}
<1>1. SUFFICES Bad = {}
    BY <1>1 DEF Sums
<1>2. SUFFICES ASSUME Bad # {} PROVE FALSE
    OBVIOUS
<1>3. PICK T \in Bad : \A R \in SUBSET T : R # T => R \notin Bad
  <2>1. Bad \in SUBSET SUBSET S
    OBVIOUS
  <2> HIDE DEF Bad
  <2> QED
    BY <1>2, <2>1, SmallestSet
<1>4. T \in SUBSET S /\ g[T] # h[T]
    BY <1>3
<1>5. g[T] = IF T = {} THEN 0 ELSE f[Next1(T)] + g[T \ {Next1(T)}]
    BY <1>4 DEF Sums
<1>6. h[T] = IF T = {} THEN 0 ELSE f[Next1(T)] + h[T \ {Next1(T)}]
    BY <1>4 DEF Sums
<1>7. T # {}
    BY <1>4, <1>5, <1>6
<1>8. Next1(T) \in T
    BY <1>7 DEF Next1
<1>9. T \ {Next1(T)} \notin Bad /\ T \ {Next1(T)} \in SUBSET S
    BY <1>3, <1>4, <1>8
<1> QED
    BY <1>4, <1>5, <1>6, <1>7, <1>9

(* One that does for a set does for its subsets.                           *)
LEMMA SumsOfSubset ==
    ASSUME NEW S, NEW f, NEW g, Sums(g, f, S), NEW T \in SUBSET S
    PROVE  Sums([s \in SUBSET T |-> g[s]], f, T)
<1> DEFINE h == [s \in SUBSET T |-> g[s]]
<1>1. ASSUME NEW s \in SUBSET T
      PROVE  h[s] = IF s = {} THEN 0 ELSE f[Next1(s)] + h[s \ {Next1(s)}]
  <2>1. s \in SUBSET S
    OBVIOUS
  <2>2. g[s] = IF s = {} THEN 0 ELSE f[Next1(s)] + g[s \ {Next1(s)}]
    BY <2>1 DEF Sums
  <2>3. h[s] = g[s] /\ h[s \ {Next1(s)}] = g[s \ {Next1(s)}]
    OBVIOUS
  <2> QED
    BY <2>2, <2>3
<1>2. h = [s \in SUBSET T |-> h[s]]
    OBVIOUS
<1> HIDE DEF h
<1>3. h = [s \in SUBSET T |-> IF s = {} THEN 0 ELSE f[Next1(s)] + h[s \ {Next1(s)}]]
    BY <1>1, <1>2
<1> QED
    BY <1>3 DEF Sums, h

(* And there is one for every finite set.                                  *)
LEMMA SumsExist ==
    ASSUME NEW S, IsFiniteSet(S), NEW f
    PROVE  \E g : Sums(g, f, S)
<1> DEFINE Bad == {s \in SUBSET S : ~\E g : Sums(g, f, s)}
<1>1. SUFFICES ASSUME Bad # {} PROVE FALSE
    OBVIOUS
<1>2. PICK T \in Bad : \A R \in SUBSET T : R # T => R \notin Bad
  <2>1. Bad \in SUBSET SUBSET S
    OBVIOUS
  <2> HIDE DEF Bad
  <2> QED
    BY <1>1, <2>1, SmallestSet
<1>3. T \in SUBSET S /\ ~\E g : Sums(g, f, T)
    BY <1>2
<1> DEFINE G(s) == CHOOSE g : Sums(g, f, s)
           V(s) == IF s = {} THEN 0 ELSE f[Next1(s)] + G(s \ {Next1(s)})[s \ {Next1(s)}]
           k == [s \in SUBSET T |-> V(s)]
<1>4. ASSUME NEW s \in SUBSET T, s # T PROVE Sums(G(s), f, s)
  <2>1. s \notin Bad /\ s \in SUBSET S
    BY <1>2, <1>3, <1>4
  <2>2. \E g : Sums(g, f, s)
    BY <2>1
  <2> QED
    BY <2>2
<1>5. ASSUME NEW s \in SUBSET T, s # T PROVE G(s)[s] = V(s)
  <2>1. Sums(G(s), f, s)
    BY <1>4, <1>5
  <2>2. G(s)[s] = IF s = {} THEN 0 ELSE f[Next1(s)] + G(s)[s \ {Next1(s)}]
    BY <2>1 DEF Sums
  <2>3. CASE s = {}
    BY <2>2, <2>3
  <2>4. CASE s # {}
    <3> DEFINE r == s \ {Next1(s)}
    <3>1. Next1(s) \in s
      BY <2>4 DEF Next1
    <3>2. r \in SUBSET s /\ r \in SUBSET T /\ r # T
      BY <3>1
    <3>3. Sums(G(r), f, r)
      BY <1>4, <3>2
    <3>4. Sums([q \in SUBSET r |-> G(s)[q]], f, r)
      BY <2>1, <3>2, SumsOfSubset
    <3>5. IsFiniteSet(r)
      BY <1>3, <3>2, FS_Subset
    <3> HIDE DEF G
    <3>6. G(r) = [q \in SUBSET r |-> G(s)[q]]
      BY <3>3, <3>4, <3>5, SumsUnique
    <3>7. G(r)[r] = G(s)[r]
      BY <3>6
    <3> QED
      BY <2>2, <2>4, <3>7
  <2> QED
    BY <2>3, <2>4
<1>6. ASSUME NEW s \in SUBSET T
      PROVE  k[s] = IF s = {} THEN 0 ELSE f[Next1(s)] + k[s \ {Next1(s)}]
  <2>1. CASE s = {}
    BY <2>1
  <2>2. CASE s # {}
    <3>1. Next1(s) \in s
      BY <2>2 DEF Next1
    <3>2. s \ {Next1(s)} \in SUBSET T /\ s \ {Next1(s)} # T
      BY <3>1
    <3>3. k[s \ {Next1(s)}] = G(s \ {Next1(s)})[s \ {Next1(s)}]
      <4> HIDE DEF G
      <4> QED BY <1>5, <3>2
    <3>4. k[s] = V(s)
      <4> HIDE DEF V
      <4> QED OBVIOUS
    <3> HIDE DEF k
    <3> QED
      BY <2>2, <3>3, <3>4
  <2> QED
    BY <2>1, <2>2
<1>7. k = [s \in SUBSET T |-> k[s]]
    OBVIOUS
<1> HIDE DEF k
<1>8. Sums(k, f, T)
    BY <1>6, <1>7 DEF Sums
<1> QED
    BY <1>3, <1>8

(* It is the one that the community module chooses.                        *)
LEMMA SumIs ==
    ASSUME NEW S, NEW f
    PROVE  SumFunctionOnSet(f, S) = (CHOOSE g : Sums(g, f, S))[S]
<1>1. FoldFunctionOnSet(+, 0, f, S)
        = MapThenFoldSet(+, 0, LAMBDA i : f[i], LAMBDA s : Next1(s), S)
    BY Zenon DEF FoldFunctionOnSet, Next1
<1>2. MapThenFoldSet(+, 0, LAMBDA i : f[i], LAMBDA s : Next1(s), S)
        = (CHOOSE g : Sums(g, f, S))[S]
    BY Zenon DEF MapThenFoldSet, Sums
<1> QED
    BY <1>1, <1>2, Zenon DEF SumFunctionOnSet

(* The first step of a sum.                                                *)
LEMMA SumFirst ==
    ASSUME NEW S, IsFiniteSet(S), NEW f
    PROVE  SumFunctionOnSet(f, S) =
             IF S = {} THEN 0
             ELSE f[Next1(S)] + SumFunctionOnSet(f, S \ {Next1(S)})
<1> DEFINE G(s) == CHOOSE g : Sums(g, f, s)
           r == S \ {Next1(S)}
<1>1. Sums(G(S), f, S)
    BY SumsExist
<1>2. SumFunctionOnSet(f, S) = G(S)[S] /\ SumFunctionOnSet(f, r) = G(r)[r]
    BY SumIs
<1>3. IsFiniteSet(r) /\ r \in SUBSET S
    BY FS_RemoveElement
<1>4. Sums(G(r), f, r)
    BY <1>3, SumsExist
<1> HIDE DEF G
<1>5. Sums([q \in SUBSET r |-> G(S)[q]], f, r)
    BY <1>1, <1>3, SumsOfSubset
<1>6. G(r) = [q \in SUBSET r |-> G(S)[q]]
    BY <1>3, <1>4, <1>5, SumsUnique
<1>7. G(r)[r] = G(S)[r]
    BY <1>6
<1>8. G(S)[S] = IF S = {} THEN 0 ELSE f[Next1(S)] + G(S)[r]
    BY <1>1 DEF Sums
<1> QED
    BY <1>2, <1>7, <1>8

(* The sum over no element.                                                *)
LEMMA SumEmpty ==
    ASSUME NEW f
    PROVE  SumFunctionOnSet(f, {}) = 0
    BY SumFirst, FS_EmptySet

(* A sum of integers is an integer, a sum of natural numbers one.          *)
LEMMA SumType ==
    ASSUME NEW S, IsFiniteSet(S), NEW f, NEW Values \in {Nat, Int},
           \A x \in S : f[x] \in Values
    PROVE  SumFunctionOnSet(f, S) \in Values
<1> DEFINE Bad == {s \in SUBSET S : SumFunctionOnSet(f, s) \notin Values}
<1>1. SUFFICES ASSUME Bad # {} PROVE FALSE
    OBVIOUS
<1>2. PICK T \in Bad : \A R \in SUBSET T : R # T => R \notin Bad
  <2>1. Bad \in SUBSET SUBSET S
    OBVIOUS
  <2> HIDE DEF Bad
  <2> QED
    BY <1>1, <2>1, SmallestSet
<1>3. T \in SUBSET S /\ SumFunctionOnSet(f, T) \notin Values /\ IsFiniteSet(T)
    BY <1>2, FS_Subset
<1>4. T # {}
    BY <1>3, SumEmpty
<1>5. Next1(T) \in T
    BY <1>4 DEF Next1
<1>6. SumFunctionOnSet(f, T \ {Next1(T)}) \in Values
    BY <1>2, <1>3, <1>5
<1>7. f[Next1(T)] \in Values
    BY <1>3, <1>5
<1>8. SumFunctionOnSet(f, T) = f[Next1(T)] + SumFunctionOnSet(f, T \ {Next1(T)})
    BY <1>3, <1>4, SumFirst
<1> QED
    BY <1>3, <1>6, <1>7, <1>8

(* The order does not matter: any element can be taken out first.          *)
LEMMA SumTakeOut ==
    ASSUME NEW S, IsFiniteSet(S), NEW f, \A x \in S : f[x] \in Int, NEW x \in S
    PROVE  SumFunctionOnSet(f, S) = f[x] + SumFunctionOnSet(f, S \ {x})
<1> DEFINE Sum(s) == SumFunctionOnSet(f, s)
           Bad == {s \in SUBSET S : \E y \in s : Sum(s) # f[y] + Sum(s \ {y})}
<1>1. SUFFICES ASSUME Bad # {} PROVE FALSE
    OBVIOUS
<1>2. PICK T \in Bad : \A R \in SUBSET T : R # T => R \notin Bad
  <2>1. Bad \in SUBSET SUBSET S
    OBVIOUS
  <2> HIDE DEF Bad
  <2> QED
    BY <1>1, <2>1, SmallestSet
<1>3. PICK y \in T : Sum(T) # f[y] + Sum(T \ {y})
    BY <1>2
<1> DEFINE n == Next1(T)
<1>4. T \in SUBSET S /\ IsFiniteSet(T) /\ n \in T
    BY <1>2, <1>3, FS_Subset DEF Next1
<1>5. Sum(T) = f[n] + Sum(T \ {n})
    BY <1>3, <1>4, SumFirst
<1>6. n # y
    BY <1>3, <1>5
<1>7. Sum(T \ {n}) = f[y] + Sum((T \ {n}) \ {y})
    BY <1>2, <1>4, <1>6
<1>8. Sum(T \ {y}) = f[n] + Sum((T \ {y}) \ {n})
    BY <1>2, <1>4, <1>6
<1>9. (T \ {n}) \ {y} = (T \ {y}) \ {n}
    OBVIOUS
<1>10. Sum((T \ {n}) \ {y}) \in Int /\ f[n] \in Int /\ f[y] \in Int
  <2>1. IsFiniteSet((T \ {n}) \ {y}) /\ (T \ {n}) \ {y} \in SUBSET S
    BY <1>4, FS_Subset
  <2> QED
    BY <1>4, <2>1, SumType
<1> HIDE DEF Sum, n
<1> QED
    BY <1>3, <1>5, <1>7, <1>8, <1>9, <1>10

(* Sums over a set of functions that agree on it.                          *)
LEMMA SumSame ==
    ASSUME NEW S, IsFiniteSet(S), NEW f, NEW g, \A x \in S : f[x] = g[x]
    PROVE  SumFunctionOnSet(f, S) = SumFunctionOnSet(g, S)
<1> DEFINE Bad == {s \in SUBSET S : SumFunctionOnSet(f, s) # SumFunctionOnSet(g, s)}
<1>1. SUFFICES ASSUME Bad # {} PROVE FALSE
    OBVIOUS
<1>2. PICK T \in Bad : \A R \in SUBSET T : R # T => R \notin Bad
  <2>1. Bad \in SUBSET SUBSET S
    OBVIOUS
  <2> HIDE DEF Bad
  <2> QED
    BY <1>1, <2>1, SmallestSet
<1>3. T \in SUBSET S /\ IsFiniteSet(T)
    BY <1>2, FS_Subset
<1>4. T # {}
    BY <1>2, SumEmpty
<1>5. Next1(T) \in T
    BY <1>4 DEF Next1
<1>6. SumFunctionOnSet(f, T \ {Next1(T)}) = SumFunctionOnSet(g, T \ {Next1(T)})
    BY <1>2, <1>3, <1>5
<1>7. f[Next1(T)] = g[Next1(T)]
    BY <1>3, <1>5
<1>8. SumFunctionOnSet(f, T) # SumFunctionOnSet(g, T)
    BY <1>2
<1> HIDE DEF Bad
<1> QED
    BY <1>3, <1>4, <1>6, <1>7, <1>8, SumFirst

(* The sum when a set gains an element.                                    *)
LEMMA SumAdd ==
    ASSUME NEW S, IsFiniteSet(S), NEW f, NEW x, x \notin S,
           \A y \in S \cup {x} : f[y] \in Int
    PROVE  SumFunctionOnSet(f, S \cup {x}) = SumFunctionOnSet(f, S) + f[x]
<1>1. IsFiniteSet(S \cup {x}) /\ (S \cup {x}) \ {x} = S /\ x \in S \cup {x}
    BY FS_AddElement
<1>2. SumFunctionOnSet(f, S \cup {x}) = f[x] + SumFunctionOnSet(f, (S \cup {x}) \ {x})
    BY <1>1, SumTakeOut
<1>3. SumFunctionOnSet(f, S) \in Int
    BY SumType
<1>4. SumFunctionOnSet(f, (S \cup {x}) \ {x}) = SumFunctionOnSet(f, S)
    BY <1>1, Zenon
<1> QED
    BY <1>2, <1>3, <1>4

(* The sum when the value of one element changes.                          *)
LEMMA SumChange ==
    ASSUME NEW S, IsFiniteSet(S), NEW f, NEW g, NEW x \in S,
           \A y \in S : f[y] \in Int /\ g[y] \in Int,
           \A y \in S \ {x} : f[y] = g[y]
    PROVE  SumFunctionOnSet(g, S) = SumFunctionOnSet(f, S) - f[x] + g[x]
<1> DEFINE r == SumFunctionOnSet(f, S \ {x})
<1>1. IsFiniteSet(S \ {x})
    BY FS_RemoveElement
<1>2. SumFunctionOnSet(g, S \ {x}) = r
    BY <1>1, SumSame
<1>3. SumFunctionOnSet(f, S) = f[x] + r
    BY SumTakeOut
<1>4. SumFunctionOnSet(g, S) = g[x] + r
    BY <1>2, SumTakeOut
<1>5. f[x] \in Int /\ g[x] \in Int
    OBVIOUS
<1>6. r \in Int
    BY <1>1, SumType
<1> HIDE DEF r
<1> QED
    BY <1>3, <1>4, <1>5, <1>6

(* Elements whose value is 0 do not count.                                 *)
LEMMA SumZeros ==
    ASSUME NEW S, IsFiniteSet(S), NEW T \in SUBSET S, NEW f,
           \A x \in S : f[x] \in Int, \A x \in S \ T : f[x] = 0
    PROVE  SumFunctionOnSet(f, S) = SumFunctionOnSet(f, T)
<1> DEFINE Bad == {s \in SUBSET S : SumFunctionOnSet(f, s) # SumFunctionOnSet(f, s \cap T)}
<1>1. ASSUME Bad # {} PROVE FALSE
  <2>1. PICK U \in Bad : \A R \in SUBSET U : R # U => R \notin Bad
    <3>1. Bad \in SUBSET SUBSET S
      OBVIOUS
    <3> HIDE DEF Bad
    <3> QED
      BY <1>1, <3>1, SmallestSet
  <2>2. U \in SUBSET S /\ IsFiniteSet(U)
    BY <2>1, FS_Subset
  <2>3. PICK x \in U : x \notin T
    <3>1. U \cap T # U
      BY <2>1
    <3> QED
      BY <3>1
  <2>4. f[x] = 0 /\ \A y \in U : f[y] \in Int
    BY <2>2, <2>3
  <2>5. SumFunctionOnSet(f, U) = f[x] + SumFunctionOnSet(f, U \ {x})
    BY <2>2, <2>4, SumTakeOut
  <2>6. SumFunctionOnSet(f, U \ {x}) = SumFunctionOnSet(f, (U \ {x}) \cap T)
    BY <2>1, <2>2, <2>3
  <2>7. SumFunctionOnSet(f, (U \ {x}) \cap T) = SumFunctionOnSet(f, U \cap T)
    <3>1. (U \ {x}) \cap T = U \cap T
      BY <2>3
    <3> QED
      BY <3>1, Zenon
  <2>8. SumFunctionOnSet(f, U \ {x}) \in Int
    <3>1. IsFiniteSet(U \ {x}) /\ \A y \in U \ {x} : f[y] \in Int
      BY <2>2, <2>4, FS_RemoveElement
    <3> QED
      BY <3>1, SumType
  <2>9. SumFunctionOnSet(f, U) = SumFunctionOnSet(f, U \cap T)
    BY <2>4, <2>5, <2>6, <2>7, <2>8
  <2> QED
    BY <2>1, <2>9
<1>2. S \cap T = T
    OBVIOUS
<1> QED
    BY <1>1, <1>2

(* A part of a sum of natural numbers is no more than the whole.           *)
LEMMA SumPart ==
    ASSUME NEW S, IsFiniteSet(S), NEW T \in SUBSET S, NEW f, \A x \in S : f[x] \in Nat
    PROVE  SumFunctionOnSet(f, T) <= SumFunctionOnSet(f, S)
<1> DEFINE Bad == {s \in SUBSET S : ~(SumFunctionOnSet(f, s \cap T) <= SumFunctionOnSet(f, s))}
<1>1. ASSUME Bad # {} PROVE FALSE
  <2>1. PICK U \in Bad : \A R \in SUBSET U : R # U => R \notin Bad
    <3>1. Bad \in SUBSET SUBSET S
      OBVIOUS
    <3> HIDE DEF Bad
    <3> QED
      BY <1>1, <3>1, SmallestSet
  <2>2. U \in SUBSET S /\ IsFiniteSet(U) /\ IsFiniteSet(U \cap T)
    BY <2>1, FS_Subset
  <2>3. PICK x \in U : x \notin T
    <3>1. SumFunctionOnSet(f, U) \in Nat
      BY <2>2, SumType
    <3>2. SUFFICES ASSUME U \cap T = U PROVE FALSE
      BY <2>1
    <3>3. SumFunctionOnSet(f, U \cap T) = SumFunctionOnSet(f, U)
      BY <3>2, Zenon
    <3> QED
      BY <2>1, <3>1, <3>3
  <2>4. f[x] \in Nat /\ \A y \in U : f[y] \in Int
    BY <2>2, <2>3
  <2>5. SumFunctionOnSet(f, U) = f[x] + SumFunctionOnSet(f, U \ {x})
    BY <2>2, <2>4, SumTakeOut
  <2>6. SumFunctionOnSet(f, (U \ {x}) \cap T) <= SumFunctionOnSet(f, U \ {x})
    BY <2>1, <2>2, <2>3
  <2>7. SumFunctionOnSet(f, (U \ {x}) \cap T) = SumFunctionOnSet(f, U \cap T)
    <3>1. (U \ {x}) \cap T = U \cap T
      BY <2>3
    <3> QED
      BY <3>1, Zenon
  <2>8. SumFunctionOnSet(f, U \ {x}) \in Int
    <3>1. IsFiniteSet(U \ {x}) /\ \A y \in U \ {x} : f[y] \in Int
      BY <2>2, <2>4, FS_RemoveElement
    <3> QED
      BY <3>1, SumType
  <2>9. SumFunctionOnSet(f, U \cap T) \in Int
    BY <2>2, <2>4, SumType
  <2>10. SumFunctionOnSet(f, U \cap T) <= SumFunctionOnSet(f, U)
    BY <2>4, <2>5, <2>6, <2>7, <2>8, <2>9
  <2> QED
    BY <2>1, <2>10
<1>2. S \cap T = T
    OBVIOUS
<1> QED
    BY <1>1, <1>2

(* The sum over one element.                                               *)
LEMMA SumOne ==
    ASSUME NEW f, NEW x, f[x] \in Int
    PROVE  SumFunctionOnSet(f, {x}) = f[x]
<1>1. IsFiniteSet({}) /\ x \notin {} /\ {} \cup {x} = {x}
    BY FS_EmptySet
<1>2. SumFunctionOnSet(f, {} \cup {x}) = SumFunctionOnSet(f, {}) + f[x]
    BY <1>1, SumAdd
<1>3. SumFunctionOnSet(f, {} \cup {x}) = SumFunctionOnSet(f, {x})
    BY <1>1, Zenon
<1> QED
    BY <1>2, <1>3, SumEmpty

(* A sum is that of a part and that of the rest.                           *)
LEMMA SumSplit ==
    ASSUME NEW S, IsFiniteSet(S), NEW T \in SUBSET S, NEW f, \A x \in S : f[x] \in Int
    PROVE  SumFunctionOnSet(f, S) = SumFunctionOnSet(f, T) + SumFunctionOnSet(f, S \ T)
<1> DEFINE Split(s) == SumFunctionOnSet(f, s \cup (S \ T)) =
                           SumFunctionOnSet(f, s) + SumFunctionOnSet(f, S \ T)
           Bad == {s \in SUBSET T : ~Split(s)}
<1>1. IsFiniteSet(T) /\ IsFiniteSet(S \ T) /\ SumFunctionOnSet(f, S \ T) \in Int
  <2>1. IsFiniteSet(T) /\ IsFiniteSet(S \ T)
    BY FS_Subset
  <2>2. \A x \in S \ T : f[x] \in Int
    OBVIOUS
  <2> QED
    BY <2>1, <2>2, SumType
<1>2. ASSUME Bad # {} PROVE FALSE
  <2>1. PICK U \in Bad : \A R \in SUBSET U : R # U => R \notin Bad
    <3>1. Bad \in SUBSET SUBSET T
      OBVIOUS
    <3> HIDE DEF Bad
    <3> QED
      BY <1>1, <1>2, <3>1, SmallestSet
  <2>2. U \in SUBSET T /\ ~Split(U)
    BY <2>1
  <2>3. Split({})
    <3>1. {} \cup (S \ T) = S \ T
      OBVIOUS
    <3>2. SumFunctionOnSet(f, {} \cup (S \ T)) = SumFunctionOnSet(f, S \ T)
      BY <3>1, Zenon
    <3> QED
      BY <1>1, <3>2, SumEmpty
  <2>4. U # {}
    BY <2>2, <2>3
  <2>5. PICK x \in U : TRUE
    BY <2>4
  <2> DEFINE R == U \ {x}
             V == R \cup (S \ T)
  <2>6. Split(R)
    <3>1. R \in SUBSET U /\ R # U /\ R \in SUBSET T
      BY <2>2, <2>5
    <3> HIDE DEF R, Split
    <3> QED
      BY <2>1, <3>1
  <2>7. /\ IsFiniteSet(R) /\ IsFiniteSet(V) /\ x \notin R /\ x \notin V
        /\ R \cup {x} = U /\ V \cup {x} = U \cup (S \ T)
        /\ R \subseteq S /\ V \subseteq S /\ x \in S
    BY <2>2, <2>5, FS_Subset
  <2> HIDE DEF R, V
  <2>8. SumFunctionOnSet(f, R \cup {x}) = SumFunctionOnSet(f, R) + f[x]
    BY <2>7, SumAdd
  <2>9. SumFunctionOnSet(f, V \cup {x}) = SumFunctionOnSet(f, V) + f[x]
    BY <2>7, SumAdd
  <2>10. SumFunctionOnSet(f, R) \in Int /\ f[x] \in Int
    <3>1. \A y \in R : f[y] \in Int
      BY <2>7
    <3> QED
      BY <2>7, <3>1, SumType
  <2>11. SumFunctionOnSet(f, V) = SumFunctionOnSet(f, R) + SumFunctionOnSet(f, S \ T)
    BY <2>6, Zenon DEF V
  <2>12. SumFunctionOnSet(f, U) = SumFunctionOnSet(f, R \cup {x})
    BY <2>7, Zenon
  <2>13. SumFunctionOnSet(f, U \cup (S \ T)) = SumFunctionOnSet(f, V \cup {x})
    BY <2>7, Zenon
  <2>14. SumFunctionOnSet(f, U \cup (S \ T)) =
             SumFunctionOnSet(f, U) + SumFunctionOnSet(f, S \ T)
    BY <1>1, <2>8, <2>9, <2>10, <2>11, <2>12, <2>13
  <2> QED
    BY <2>2, <2>14
<1>3. Split(T)
  <2>1. T \in SUBSET T
    OBVIOUS
  <2> HIDE DEF Split
  <2> QED
    BY <1>2, <2>1
<1>4. T \cup (S \ T) = S
    OBVIOUS
<1>5. SumFunctionOnSet(f, T \cup (S \ T)) = SumFunctionOnSet(f, S)
    BY <1>4, Zenon
<1> QED
    BY <1>3, <1>5
-----------------------------------------------------------------------------
(* The tables of the models give sums over the entries in use.             *)

(* The bytes of the entries S of table e. *)
Total(e, S) == SumFunction([s \in S |-> e[s].bytes])

(* A total over some of the entries, as a sum over a larger domain.        *)
LEMMA TotalIs ==
  ASSUME NEW e, NEW S, IsFiniteSet(S), NEW T \in SUBSET S
  PROVE  Total(e, T) = SumFunctionOnSet([s \in S |-> e[s].bytes], T)
<1> DEFINE f == [s \in T |-> e[s].bytes]
           g == [s \in S |-> e[s].bytes]
<1>1. DOMAIN f = T /\ IsFiniteSet(T)
  BY FS_Subset
<1>2. \A s \in T : f[s] = g[s]
  OBVIOUS
<1>3. Total(e, T) = SumFunctionOnSet(f, DOMAIN f)
  BY Zenon DEF Total, SumFunction
<1> HIDE DEF f, g
<1>4. SumFunctionOnSet(f, DOMAIN f) = SumFunctionOnSet(f, T)
  BY <1>1, Zenon
<1>5. SumFunctionOnSet(f, T) = SumFunctionOnSet(g, T)
  BY <1>1, <1>2, SumSame
<1> QED BY <1>3, <1>4, <1>5 DEF g

(* T and R are the parts of S; the entries of S have sizes. *)
Parts(S, T, R) == T \subseteq S /\ R = S \ T
Sized(e, S) == \A s \in S : e[s].bytes \in Nat

(* The total of a set is that of its two parts.                            *)
LEMMA TotalSplit ==
  ASSUME NEW e, NEW S, IsFiniteSet(S), NEW T, NEW R, Parts(S, T, R), Sized(e, S)
  PROVE  /\ Total(e, S) = Total(e, T) + Total(e, R)
         /\ Total(e, S) \in Nat /\ Total(e, T) \in Nat /\ Total(e, R) \in Nat
<1> DEFINE f == [s \in S |-> e[s].bytes]
<1>1. T \subseteq S /\ R = S \ T
  BY DEF Parts
<1>2. IsFiniteSet(S) /\ IsFiniteSet(T) /\ IsFiniteSet(R)
  BY <1>1, FS_Subset
<1>3. /\ Total(e, S) = SumFunctionOnSet(f, S)
      /\ Total(e, T) = SumFunctionOnSet(f, T)
      /\ Total(e, R) = SumFunctionOnSet(f, R)
  BY <1>1, <1>2, TotalIs
<1>4. \A s \in S : f[s] \in Nat /\ f[s] \in Int
  BY DEF Sized
<1> HIDE DEF f
<1>5. SumFunctionOnSet(f, S) = SumFunctionOnSet(f, T) + SumFunctionOnSet(f, R)
  BY <1>1, <1>2, <1>4, SumSplit
<1>6. \A Q \in SUBSET S : IsFiniteSet(Q) => SumFunctionOnSet(f, Q) \in Nat
  BY <1>4, SumType
<1> QED BY <1>1, <1>2, <1>3, <1>5, <1>6

(* The total of one entry is its size.                                     *)
LEMMA TotalOne ==
  ASSUME NEW e, NEW s, e[s].bytes \in Nat
  PROVE  Total(e, {s}) = e[s].bytes
<1> DEFINE f == [r \in {s} |-> e[r].bytes]
<1>1. DOMAIN f = {s} /\ f[s] = e[s].bytes /\ f[s] \in Int
  OBVIOUS
<1>2. Total(e, {s}) = SumFunctionOnSet(f, DOMAIN f)
  BY Zenon DEF Total, SumFunction
<1> HIDE DEF f
<1>3. SumFunctionOnSet(f, DOMAIN f) = SumFunctionOnSet(f, {s})
  BY <1>1, Zenon
<1> QED BY <1>1, <1>2, <1>3, SumOne

(* Totals depend on the sizes alone.                                       *)
LEMMA TotalSame ==
  ASSUME NEW e, NEW f, NEW S, \A s \in S : e[s].bytes = f[s].bytes
  PROVE  Total(e, S) = Total(f, S)
<1>1. [s \in S |-> e[s].bytes] = [s \in S |-> f[s].bytes]
  OBVIOUS
<1> QED BY <1>1, Zenon DEF Total

(* Nothing has no bytes.                                                   *)
LEMMA TotalEmpty ==
  ASSUME NEW e
  PROVE  Total(e, {}) = 0
<1> DEFINE f == [s \in {} |-> e[s].bytes]
<1>1. Total(e, {}) = SumFunctionOnSet(f, DOMAIN f)
  BY Zenon DEF Total, SumFunction
<1>2. DOMAIN f = {}
  OBVIOUS
<1> HIDE DEF f
<1>3. SumFunctionOnSet(f, DOMAIN f) = SumFunctionOnSet(f, {})
  BY <1>2, Zenon
<1> QED BY <1>1, <1>3, SumEmpty

(* One entry changes. *)
LEMMA TotalChange ==
  ASSUME NEW e, NEW f, NEW S, IsFiniteSet(S), NEW s \in S, Sized(e, S), Sized(f, S),
         \A r \in S \ {s} : e[r].bytes = f[r].bytes
  PROVE  /\ Total(f, S) = Total(e, S) - e[s].bytes + f[s].bytes
         /\ Total(e, S) \in Nat
<1> DEFINE R == S \ {s}
<1>1. Parts(S, {s}, R)
  BY DEF Parts
<1>2. Total(e, {s}) = e[s].bytes /\ Total(f, {s}) = f[s].bytes
  BY TotalOne DEF Sized
<1>3. Total(e, R) = Total(f, R)
  BY TotalSame
<1> HIDE DEF R
<1>4. /\ Total(e, S) = Total(e, {s}) + Total(e, R)
      /\ Total(e, S) \in Nat /\ Total(e, {s}) \in Nat /\ Total(e, R) \in Nat
  BY <1>1, TotalSplit
<1>5. Total(f, S) = Total(f, {s}) + Total(f, R) /\ Total(f, {s}) \in Nat
  BY <1>1, TotalSplit
<1> QED BY <1>2, <1>3, <1>4, <1>5

(* The table gains an entry. *)
LEMMA TotalAdd ==
  ASSUME NEW e, NEW f, NEW S, IsFiniteSet(S), NEW s, s \notin S, Sized(e, S),
         \A r \in S : f[r].bytes = e[r].bytes, f[s].bytes \in Nat
  PROVE  /\ Total(f, S \cup {s}) = Total(e, S) + f[s].bytes
         /\ Total(e, S) \in Nat
<1> DEFINE R == S \cup {s}
<1>1. Parts(R, {s}, S) /\ IsFiniteSet(R)
  BY FS_AddElement DEF Parts
<1>2. Sized(f, R)
  BY DEF Sized
<1>3. Total(f, S) = Total(e, S)
  BY TotalSame
<1>4. Total(f, {s}) = f[s].bytes
  BY TotalOne
<1> HIDE DEF R
<1>5. Total(f, R) = Total(f, {s}) + Total(f, S) /\ Total(f, S) \in Nat
  BY <1>1, <1>2, TotalSplit
<1>6. Total(f, R) = Total(e, S) + f[s].bytes /\ Total(e, S) \in Nat
  BY <1>3, <1>4, <1>5
<1> QED BY <1>6 DEF R

(* The table loses entries. *)
LEMMA TotalRemove ==
  ASSUME NEW e, NEW f, NEW S, IsFiniteSet(S), NEW T, NEW R, Parts(S, T, R), Sized(e, S),
         \A r \in R : f[r].bytes = e[r].bytes
  PROVE  /\ Total(f, R) = Total(e, S) - Total(e, T)
         /\ Total(e, S) \in Nat /\ Total(e, T) \in Nat /\ Total(f, R) \in Nat
<1>1. /\ Total(e, S) = Total(e, T) + Total(e, R)
      /\ Total(e, S) \in Nat /\ Total(e, T) \in Nat /\ Total(e, R) \in Nat
  BY TotalSplit
<1>2. Total(f, R) = Total(e, R)
  BY TotalSame
<1> QED BY <1>1, <1>2

-----------------------------------------------------------------------------
(* The smallest and the largest of two *)

(* The smaller of two numbers.                                             *)
LEMMA MinOf ==
    ASSUME NEW a \in Int, NEW b \in Int
    PROVE  Min({a, b}) = IF a <= b THEN a ELSE b
<1> DEFINE m == IF a <= b THEN a ELSE b
<1>1. m \in {a, b} /\ \A y \in {a, b} : m <= y
    OBVIOUS
<1>2. \A x \in {a, b} : (\A y \in {a, b} : x <= y) => x = m
    OBVIOUS
<1> QED
    BY <1>1, <1>2, Zenon DEF Min

(* The larger of two numbers.                                              *)
LEMMA MaxOf ==
    ASSUME NEW a \in Int, NEW b \in Int
    PROVE  Max({a, b}) = IF a >= b THEN a ELSE b
<1> DEFINE m == IF a >= b THEN a ELSE b
<1>1. m \in {a, b} /\ \A y \in {a, b} : m >= y
    OBVIOUS
<1>2. \A x \in {a, b} : (\A y \in {a, b} : x >= y) => x = m
    OBVIOUS
<1> QED
    BY <1>1, <1>2, Zenon DEF Max
=============================================================================
