----------------------------- MODULE FoldLemmas -----------------------------
(***************************************************************************)
(* What the sums, folds and filters of the models are built from: a        *)
(* function defined by recursion over the subsets of a finite set exists   *)
(* and is the only one, a sum does not depend on the order it is taken in, *)
(* and what Keep of module Filters keeps of a sequence.                    *)
(*                                                                         *)
(* The induction is by a smallest counterexample: the subsets of a finite  *)
(* set are well founded under inclusion, so a set of subsets for which     *)
(* something fails has a member none of whose proper subsets is in it.     *)
(* For sequences this gives SeqInduction, about a set of sequences that    *)
(* has the empty one and is closed under Append.                           *)
(***************************************************************************)
EXTENDS Filters, FiniteSets, FiniteSetsExt, FiniteSetTheorems, SequenceTheorems,
        WellFoundedInduction, TLAPS

\* Any nonempty set of subsets of a finite set has a smallest member.
LEMMA Smallest ==
    ASSUME NEW S, IsFiniteSet(S), NEW C, C \subseteq SUBSET S, C # {}
    PROVE  \E t \in C : \A u \in C : u \subseteq t => u = t
<1>1. IsWellFoundedOn(StrictSubsetOrdering(S), SUBSET S)
  BY FS_StrictSubsetOrderingWellFounded, FS_FiniteSubsetsOfFinite
<1>2. PICK t \in C : \A u \in C : ~(<<u, t>> \in StrictSubsetOrdering(S))
  BY <1>1, WFMin
<1>3. \A u \in C : u \subseteq t => u = t
  <2> TAKE u \in C
  <2>1. u \in SUBSET S /\ t \in SUBSET S
    OBVIOUS
  <2>2. QED
    BY <1>2, <2>1 DEF StrictSubsetOrdering
<1>4. QED
  BY <1>3

\* Any nonempty set of naturals, too.
LEMMA SmallestNat ==
    ASSUME NEW N, N \subseteq Nat, N # {}
    PROVE  \E n \in N : \A m \in N : n <= m
<1>1. PICK n \in N : \A m \in N : ~(<<m, n>> \in OpToRel(<, Nat))
  BY WFMin, NatLessThanWellFounded
<1>2. ASSUME NEW m \in N PROVE n <= m
  <2>1. m \in Nat /\ n \in Nat
    OBVIOUS
  <2>2. ~(m < n)
    BY <1>1, <2>1 DEF OpToRel
  <2>3. QED
    BY <2>1, <2>2
<1>3. QED
  BY <1>2

\* The last of a nonempty set of positions is one of them.
LEMMA MaxIn ==
    ASSUME NEW n \in Nat, NEW s \in SUBSET (1 .. n), s # {}
    PROVE  Max(s) \in s
<1> DEFINE Left == {n - x : x \in s}
<1>1. Left \subseteq Nat /\ Left # {}
  <2>1. PICK x \in s : TRUE
    OBVIOUS
  <2>2. n - x \in Left
    OBVIOUS
  <2>3. \A z \in s : n - z \in Nat
    OBVIOUS
  <2>4. QED
    BY <2>2, <2>3
<1> HIDE DEF Left
<1>2. PICK y \in Left : \A z \in Left : y <= z
  BY <1>1, SmallestNat
<1>3. PICK x \in s : y = n - x
  BY DEF Left
<1>4. ASSUME NEW z \in s PROVE x >= z
  <2>1. n - z \in Left
    BY DEF Left
  <2>2. y <= n - z
    BY <1>2, <2>1
  <2>3. QED
    BY <1>3, <2>2
<1>5. QED
  BY <1>4 DEF Max

-----------------------------------------------------------------------------
(* Recursion: g of a set is made of an element, pick[s], and of g of the rest. *)

Picks(pick, S) == \A s \in SUBSET S : s # {} => pick[s] \in s

FoldStep(g, pick, step, base, s) ==
    IF s = {} THEN base ELSE step[<<pick[s], g[s \ {pick[s]}]>>]

IsFold(g, pick, step, base, S) ==
    g = [s \in SUBSET S |-> FoldStep(g, pick, step, base, s)]

\* Two folds by the same steps agree where both are defined.
LEMMA FoldUnique ==
    ASSUME NEW S, NEW R, IsFiniteSet(S), S \subseteq R,
           NEW pick, NEW step, NEW base, Picks(pick, S), NEW g, NEW h,
           IsFold(g, pick, step, base, S), IsFold(h, pick, step, base, R)
    PROVE  \A s \in SUBSET S : g[s] = h[s]
<1> DEFINE Bad == {s \in SUBSET S : g[s] # h[s]}
<1> SUFFICES ASSUME Bad # {} PROVE FALSE
  OBVIOUS
<1>1. Bad \subseteq SUBSET S
  OBVIOUS
<1> HIDE DEF Bad
<1>2. PICK t \in Bad : \A u \in Bad : u \subseteq t => u = t
  BY <1>1, Smallest
<1>3. t \in SUBSET S /\ t \in SUBSET R /\ g[t] # h[t]
  BY DEF Bad
<1>4. g[t] = FoldStep(g, pick, step, base, t) /\ h[t] = FoldStep(h, pick, step, base, t)
  BY <1>3 DEF IsFold
<1>5. t # {} /\ pick[t] \in t
  BY <1>3, <1>4 DEF FoldStep, Picks
<1>6. t \ {pick[t]} \notin Bad
  BY <1>2, <1>5
<1>7. g[t \ {pick[t]}] = h[t \ {pick[t]}]
  BY <1>3, <1>6 DEF Bad
<1>8. QED
  BY <1>3, <1>4, <1>5, <1>7 DEF FoldStep

\* There is one.
LEMMA FoldExists ==
    ASSUME NEW S, IsFiniteSet(S), NEW pick, NEW step, NEW base, Picks(pick, S)
    PROVE  \E g : IsFold(g, pick, step, base, S)
<1> DEFINE Fold(g, s) == IsFold(g, pick, step, base, s)
           Bad == {s \in SUBSET S : ~\E g : Fold(g, s)}
<1> SUFFICES ASSUME Bad # {} PROVE FALSE
  OBVIOUS
<1>1. Bad \subseteq SUBSET S
  OBVIOUS
<1> HIDE DEF Bad
<1>2. PICK t \in Bad : \A u \in Bad : u \subseteq t => u = t
  BY <1>1, Smallest
<1>3. t \in SUBSET S /\ ~\E g : Fold(g, t)
  BY DEF Bad
<1>4. \A u \in SUBSET t : IsFiniteSet(u) /\ Picks(pick, u)
  BY <1>3, FS_Subset DEF Picks
<1>5. \A u \in SUBSET t : u # t => \E g : Fold(g, u)
  <2> TAKE u \in SUBSET t
  <2> HAVE u # t
  <2>1. u \notin Bad
    BY <1>2
  <2>2. QED
    BY <1>3, <2>1 DEF Bad
<1> DEFINE G(u) == CHOOSE g : Fold(g, u)
<1>6. \A u \in SUBSET t : u # t => Fold(G(u), u)
  BY <1>5
<1> HIDE DEF G
<1> DEFINE p == pick[t]
           f == [s \in SUBSET t |-> IF s # t THEN G(s)[s]
                                    ELSE FoldStep(G(t \ {p}), pick, step, base, t)]
<1>7. \A s \in SUBSET t : s # t => f[s] = G(s)[s]
  OBVIOUS
<1>8. ASSUME NEW s \in SUBSET t, s # t
      PROVE  f[s] = FoldStep(f, pick, step, base, s)
  <2>1. Fold(G(s), s)
    BY <1>6, <1>8
  <2>2. G(s)[s] = FoldStep(G(s), pick, step, base, s)
    BY <2>1 DEF IsFold
  <2>3. CASE s = {}
    BY <2>2, <2>3, <1>7, <1>8 DEF FoldStep
  <2>4. CASE s # {}
    <3> DEFINE q == s \ {pick[s]}
    <3>1. q \in SUBSET s /\ q \in SUBSET t /\ q # t
      BY <2>4, <1>4 DEF Picks
    <3>2. Fold(G(q), q) /\ IsFiniteSet(q) /\ Picks(pick, q)
      BY <1>4, <1>6, <3>1
    <3>3. G(q)[q] = G(s)[q]
      <4>1. \A u \in SUBSET q : G(q)[u] = G(s)[u]
        <5>1. IsFold(G(q), pick, step, base, q) /\ IsFold(G(s), pick, step, base, s)
          BY <3>2, <2>1
        <5>2. q \subseteq s /\ IsFiniteSet(q) /\ Picks(pick, q)
          BY <3>1, <3>2
        <5> HIDE DEF q, Fold
        <5>3. QED
          BY <5>1, <5>2, FoldUnique
      <4>2. QED
        BY <4>1
    <3>4. f[q] = G(q)[q]
      BY <1>7, <3>1
    <3> HIDE DEF f
    <3>5. QED
      BY <2>2, <2>4, <3>3, <3>4, <1>7, <1>8 DEF FoldStep
  <2>5. QED
    BY <2>3, <2>4
<1>9. f[t] = FoldStep(f, pick, step, base, t)
  <2>1. f[t] = FoldStep(G(t \ {p}), pick, step, base, t)
    OBVIOUS
  <2>2. CASE t = {}
    BY <2>1, <2>2 DEF FoldStep
  <2>3. CASE t # {}
    <3>1. t \ {p} \in SUBSET t /\ t \ {p} # t
      BY <2>3, <1>4 DEF Picks
    <3>2. f[t \ {p}] = G(t \ {p})[t \ {p}]
      BY <3>1, <1>7
    <3> HIDE DEF f
    <3>3. QED
      BY <2>1, <2>3, <3>2 DEF FoldStep
  <2>4. QED
    BY <2>2, <2>3
<1>10. f = [s \in SUBSET t |-> FoldStep(f, pick, step, base, s)]
  <2>1. \A s \in SUBSET t : f[s] = FoldStep(f, pick, step, base, s)
    BY <1>8, <1>9
  <2>2. f = [s \in SUBSET t |-> f[s]]
    OBVIOUS
  <2> HIDE DEF f
  <2>3. QED
    BY <2>1, <2>2
<1> HIDE DEF f
<1>11. IsFold(f, pick, step, base, t)
  BY <1>10 DEF IsFold
<1>12. QED
  BY <1>3, <1>11

\* Its values are of the type of the base and of the steps.
LEMMA FoldType ==
    ASSUME NEW S, IsFiniteSet(S), NEW pick, NEW step, NEW base, Picks(pick, S),
           NEW A, base \in A, \A x \in S, a \in A : step[<<x, a>>] \in A,
           NEW g, IsFold(g, pick, step, base, S)
    PROVE  \A s \in SUBSET S : g[s] \in A
<1> DEFINE Bad == {s \in SUBSET S : g[s] \notin A}
<1> SUFFICES ASSUME Bad # {} PROVE FALSE
  OBVIOUS
<1>1. Bad \subseteq SUBSET S
  OBVIOUS
<1> HIDE DEF Bad
<1>2. PICK t \in Bad : \A u \in Bad : u \subseteq t => u = t
  BY <1>1, Smallest
<1>3. t \in SUBSET S /\ g[t] \notin A /\ g[t] = FoldStep(g, pick, step, base, t)
  BY DEF Bad, IsFold
<1>4. t # {} /\ pick[t] \in t
  BY <1>3 DEF FoldStep, Picks
<1>5. t \ {pick[t]} \notin Bad
  BY <1>2, <1>4
<1>6. g[t \ {pick[t]}] \in A
  BY <1>3, <1>5 DEF Bad
<1>7. QED
  BY <1>3, <1>4, <1>6 DEF FoldStep

-----------------------------------------------------------------------------
(* Sums of the weights w[x], the elements taken as CHOOSE takes them. *)

Pick(s) == CHOOSE x \in s : TRUE

SumStep(g, w, s) == IF s = {} THEN 0 ELSE w[Pick(s)] + g[s \ {Pick(s)}]
IsSum(g, w, S) == g = [s \in SUBSET S |-> SumStep(g, w, s)]
SumOver(w, S) == (CHOOSE g : IsSum(g, w, S))[S]

LEMMA PickIn == ASSUME NEW s, s # {} PROVE Pick(s) \in s
  BY DEF Pick

LEMMA SumExists ==
    ASSUME NEW S, IsFiniteSet(S), NEW w, \A x \in S : w[x] \in Int
    PROVE  \E g : IsSum(g, w, S)
<1> DEFINE pick == [s \in SUBSET S |-> Pick(s)]
           step == [p \in S \X Int |-> w[p[1]] + p[2]]
<1>1. \A s \in SUBSET S : pick[s] = Pick(s)
  OBVIOUS
<1>2. \A x \in S, a \in Int : step[<<x, a>>] = w[x] + a /\ step[<<x, a>>] \in Int
  OBVIOUS
<1> HIDE DEF pick, step
<1>3. Picks(pick, S)
  BY <1>1, PickIn DEF Picks
<1>4. PICK g : IsFold(g, pick, step, 0, S)
  BY <1>3, FoldExists
<1>5. \A s \in SUBSET S : g[s] \in Int
  <2>1. 0 \in Int /\ \A x \in S, a \in Int : step[<<x, a>>] \in Int
    BY <1>2
  <2>2. QED
    BY <1>3, <1>4, <2>1, FoldType
<1>6. ASSUME NEW s \in SUBSET S PROVE FoldStep(g, pick, step, 0, s) = SumStep(g, w, s)
  <2>1. CASE s = {}
    BY <2>1 DEF FoldStep, SumStep
  <2>2. CASE s # {}
    <3>1. Pick(s) \in S /\ pick[s] = Pick(s) /\ g[s \ {Pick(s)}] \in Int
      BY <1>1, <1>5, <2>2, PickIn
    <3>2. QED
      BY <1>2, <2>2, <3>1 DEF FoldStep, SumStep
  <2>3. QED
    BY <2>1, <2>2
<1>7. g = [s \in SUBSET S |-> SumStep(g, w, s)]
  BY <1>4, <1>6 DEF IsFold
<1>8. QED
  BY <1>7 DEF IsSum

LEMMA SumUnique ==
    ASSUME NEW S, NEW R, IsFiniteSet(S), S \subseteq R, NEW w, NEW v,
           \A x \in S : w[x] = v[x], NEW g, NEW h, IsSum(g, w, S), IsSum(h, v, R)
    PROVE  \A s \in SUBSET S : g[s] = h[s]
<1> DEFINE Bad == {s \in SUBSET S : g[s] # h[s]}
<1> SUFFICES ASSUME Bad # {} PROVE FALSE
  OBVIOUS
<1>1. Bad \subseteq SUBSET S
  OBVIOUS
<1> HIDE DEF Bad
<1>2. PICK t \in Bad : \A u \in Bad : u \subseteq t => u = t
  BY <1>1, Smallest
<1>3. t \in SUBSET S /\ t \in SUBSET R /\ g[t] # h[t]
  BY DEF Bad
<1>4. g[t] = SumStep(g, w, t) /\ h[t] = SumStep(h, v, t)
  BY <1>3 DEF IsSum
<1>5. t # {} /\ Pick(t) \in t
  BY <1>3, <1>4, PickIn DEF SumStep
<1>6. t \ {Pick(t)} \notin Bad
  BY <1>2, <1>5
<1>7. g[t \ {Pick(t)}] = h[t \ {Pick(t)}]
  BY <1>3, <1>6 DEF Bad
<1>8. QED
  BY <1>3, <1>4, <1>5, <1>7 DEF SumStep

\* Any function that satisfies the recursion holds the sums.
LEMMA SumIs ==
    ASSUME NEW S, IsFiniteSet(S), NEW w, \A x \in S : w[x] \in Int, NEW g, IsSum(g, w, S)
    PROVE  \A s \in SUBSET S : SumOver(w, s) = g[s]
<1> TAKE s \in SUBSET S
<1>1. IsFiniteSet(s) /\ \A x \in s : w[x] \in Int /\ w[x] = w[x]
  BY FS_Subset
<1>2. IsSum(CHOOSE i : IsSum(i, w, s), w, s)
  BY <1>1, SumExists
<1> DEFINE h == CHOOSE i : IsSum(i, w, s)
<1>3. SumOver(w, s) = h[s] /\ IsSum(h, w, s)
  BY <1>2 DEF SumOver
<1> HIDE DEF h
<1>4. \A u \in SUBSET s : h[u] = g[u]
  BY <1>1, <1>3, SumUnique
<1>5. QED
  BY <1>3, <1>4

\* The empty sum; and a sum is its first element and the sum of the rest.
LEMMA SumRec ==
    ASSUME NEW S, IsFiniteSet(S), NEW w, \A x \in S : w[x] \in Int
    PROVE  /\ SumOver(w, {}) = 0
           /\ S # {} => SumOver(w, S) = w[Pick(S)] + SumOver(w, S \ {Pick(S)})
<1>1. PICK g : IsSum(g, w, S)
  BY SumExists
<1>2. \A s \in SUBSET S : SumOver(w, s) = g[s]
  BY <1>1, SumIs
<1>3. \A s \in SUBSET S : g[s] = SumStep(g, w, s)
  BY <1>1 DEF IsSum
<1>4. \A s \in SUBSET S : SumOver(w, s) = SumStep(g, w, s)
  BY <1>2, <1>3
<1>5. SumOver(w, {}) = 0
  BY <1>4 DEF SumStep
<1>6. ASSUME S # {} PROVE SumOver(w, S) = w[Pick(S)] + SumOver(w, S \ {Pick(S)})
  BY <1>2, <1>4, <1>6 DEF SumStep
<1>7. QED
  BY <1>5, <1>6

\* A sum is of the type of its weights, of naturals or of integers.
LEMMA SumType ==
    ASSUME NEW S, IsFiniteSet(S), NEW w, NEW A \in {Nat, Int}, \A x \in S : w[x] \in A
    PROVE  SumOver(w, S) \in A
<1> DEFINE Bad == {s \in SUBSET S : SumOver(w, s) \notin A}
<1> SUFFICES ASSUME Bad # {} PROVE FALSE
  OBVIOUS
<1>1. Bad \subseteq SUBSET S
  OBVIOUS
<1> HIDE DEF Bad
<1>2. PICK t \in Bad : \A u \in Bad : u \subseteq t => u = t
  BY <1>1, Smallest
<1>3. t \in SUBSET S /\ SumOver(w, t) \notin A
  BY DEF Bad
<1>4. IsFiniteSet(t) /\ \A x \in t : w[x] \in Int
  BY <1>3, FS_Subset
<1>5. t # {} /\ SumOver(w, t) = w[Pick(t)] + SumOver(w, t \ {Pick(t)})
  <2>1. SumOver(w, {}) = 0
    BY <1>4, SumRec
  <2>2. t # {}
    BY <1>3, <2>1
  <2>3. QED
    BY <1>4, <2>2, SumRec
<1>6. Pick(t) \in t
  BY <1>5, PickIn
<1>7. SumOver(w, t \ {Pick(t)}) \in A
  BY <1>1, <1>2, <1>3, <1>6 DEF Bad
<1>8. w[Pick(t)] \in A
  BY <1>3, <1>6
<1>9. QED
  BY <1>3, <1>5, <1>7, <1>8

\* A sum may be begun with any of its elements.
LEMMA SumAny ==
    ASSUME NEW S, IsFiniteSet(S), NEW w, \A x \in S : w[x] \in Int, NEW x \in S
    PROVE  SumOver(w, S) = w[x] + SumOver(w, S \ {x})
<1> DEFINE Off(s) == \E y \in s : SumOver(w, s) # w[y] + SumOver(w, s \ {y})
           Bad == {s \in SUBSET S : Off(s)}
<1> SUFFICES ASSUME Bad # {} PROVE FALSE
  OBVIOUS
<1>1. Bad \subseteq SUBSET S
  OBVIOUS
<1> HIDE DEF Bad
<1>2. PICK t \in Bad : \A u \in Bad : u \subseteq t => u = t
  BY <1>1, Smallest
<1>3. t \in SUBSET S /\ Off(t)
  BY DEF Bad
<1>4. PICK y \in t : SumOver(w, t) # w[y] + SumOver(w, t \ {y})
  BY <1>3
<1>5. \A s \in SUBSET t : /\ IsFiniteSet(s) /\ SumOver(w, s) \in Int
                          /\ \A z \in s : w[z] \in Int
  BY <1>3, FS_Subset, SumType
<1> DEFINE p == Pick(t)
<1>6. p \in t /\ SumOver(w, t) = w[p] + SumOver(w, t \ {p})
  BY <1>4, <1>5, PickIn, SumRec
<1>7. p # y
  BY <1>4, <1>6
<1> HIDE DEF p
<1>8. t \ {p} \notin Bad /\ t \ {y} \notin Bad
  BY <1>2, <1>6
<1>9. SumOver(w, t \ {p}) = w[y] + SumOver(w, (t \ {p}) \ {y})
  BY <1>3, <1>7, <1>8 DEF Bad
<1>10. SumOver(w, t \ {y}) = w[p] + SumOver(w, (t \ {y}) \ {p})
  BY <1>3, <1>6, <1>7, <1>8 DEF Bad
<1>11. (t \ {y}) \ {p} = (t \ {p}) \ {y}
  OBVIOUS
<1>12. SumOver(w, t \ {y}) = w[p] + SumOver(w, (t \ {p}) \ {y})
  BY <1>10, <1>11
<1>13. w[p] \in Int /\ w[y] \in Int /\ SumOver(w, (t \ {p}) \ {y}) \in Int
  BY <1>5, <1>6
<1>14. QED
  BY <1>4, <1>6, <1>9, <1>12, <1>13

\* One element more.
LEMMA SumAdd ==
    ASSUME NEW S, IsFiniteSet(S), NEW w, NEW x, x \notin S, \A y \in S \cup {x} : w[y] \in Int
    PROVE  SumOver(w, S \cup {x}) = w[x] + SumOver(w, S)
<1>1. IsFiniteSet(S \cup {x}) /\ (S \cup {x}) \ {x} = S
  BY FS_AddElement
<1>2. QED
  BY <1>1, SumAny

\* Only the weights of the elements count.
LEMMA SumSame ==
    ASSUME NEW S, IsFiniteSet(S), NEW w, NEW v, \A x \in S : w[x] \in Int /\ w[x] = v[x]
    PROVE  SumOver(w, S) = SumOver(v, S)
<1>1. PICK g : IsSum(g, w, S)
  BY SumExists
<1>2. PICK h : IsSum(h, v, S)
  BY SumExists
<1>3. \A s \in SUBSET S : g[s] = h[s]
  BY <1>1, <1>2, SumUnique
<1>4. SumOver(w, S) = g[S] /\ SumOver(v, S) = h[S]
  BY <1>1, <1>2, SumIs
<1>5. QED
  BY <1>3, <1>4

\* A larger set has the larger sum, if no weight is negative.
LEMMA SumMore ==
    ASSUME NEW T, IsFiniteSet(T), NEW S, S \subseteq T, NEW w, \A x \in T : w[x] \in Nat
    PROVE  SumOver(w, S) <= SumOver(w, T)
<1> DEFINE Bad == {s \in SUBSET (T \ S) : ~(SumOver(w, S) <= SumOver(w, S \cup s))}
<1> SUFFICES ASSUME Bad # {} PROVE FALSE
  <2>1. S \cup (T \ S) = T
    OBVIOUS
  <2>2. T \ S \notin Bad
    OBVIOUS
  <2>3. QED
    BY <2>1, <2>2
<1>1. IsFiniteSet(T \ S) /\ Bad \subseteq SUBSET (T \ S)
  BY FS_Subset
<1> HIDE DEF Bad
<1>2. PICK t \in Bad : \A u \in Bad : u \subseteq t => u = t
  BY <1>1, Smallest
<1>3. t \in SUBSET (T \ S) /\ ~(SumOver(w, S) <= SumOver(w, S \cup t))
  BY DEF Bad
<1>4. \A u \in SUBSET T : IsFiniteSet(u) /\ (\A x \in u : w[x] \in Nat)
  BY FS_Subset
<1>5. \A u \in SUBSET T : SumOver(w, u) \in Nat
  BY <1>4, SumType
<1>6. CASE t = {}
  <2>1. S \cup t = S
    BY <1>6
  <2>2. SumOver(w, S) \in Nat
    BY <1>5
  <2>3. QED
    BY <1>3, <2>1, <2>2
<1>7. CASE t # {}
  <2>1. PICK x \in t : TRUE
    BY <1>7
  <2> DEFINE u == t \ {x}
  <2>2. u \notin Bad
    BY <1>2, <2>1
  <2>3. SumOver(w, S) <= SumOver(w, S \cup u)
    BY <1>3, <2>2 DEF Bad
  <2>4. S \cup t = (S \cup u) \cup {x} /\ x \notin S \cup u
    BY <1>3, <2>1
  <2>5. IsFiniteSet(S \cup u) /\ \A y \in (S \cup u) \cup {x} : w[y] \in Int
    BY <1>3, <1>4, <2>1
  <2>6. SumOver(w, (S \cup u) \cup {x}) = w[x] + SumOver(w, S \cup u)
    BY <2>4, <2>5, SumAdd
  <2>7. SumOver(w, S) \in Nat /\ SumOver(w, S \cup u) \in Nat /\ w[x] \in Nat
    BY <1>3, <1>5, <2>1
  <2>8. SumOver(w, S \cup t) = w[x] + SumOver(w, S \cup u)
    BY <2>4, <2>6
  <2> HIDE DEF u
  <2>9. SumOver(w, S) <= SumOver(w, S \cup t)
    BY <2>3, <2>7, <2>8
  <2>10. QED
    BY <1>3, <2>9
<1>8. QED
  BY <1>6, <1>7

-----------------------------------------------------------------------------
(* Filters. *)

KeepStep(a, x, S) == IF x \in S THEN Append(a, x) ELSE a

\* The filter of every prefix.
IsKeep(f, s, S) ==
    f = [i \in 0 .. Len(s) |-> IF i = 0 THEN <<>> ELSE KeepStep(f[i - 1], s[i], S)]

LEMMA KeepExists ==
    ASSUME NEW T, NEW s \in Seq(T), NEW S
    PROVE  \E f : IsKeep(f, s, S)
<1> DEFINE n == Len(s)
           D == 1 .. n
           pick == [u \in SUBSET D |-> Max(u)]
           step == [p \in D \X Seq(T) |-> KeepStep(p[2], s[p[1]], S)]
<1>1. n \in Nat /\ \A i \in D : s[i] \in T
  OBVIOUS
<1>2. IsFiniteSet(D)
  BY <1>1, FS_Interval
<1>3. \A u \in SUBSET D : pick[u] = Max(u) /\ (u # {} => Max(u) \in u)
  BY <1>1, MaxIn
<1>4. \A x \in D, a \in Seq(T) : step[<<x, a>>] = KeepStep(a, s[x], S) /\ step[<<x, a>>] \in Seq(T)
  BY <1>1 DEF KeepStep
<1> HIDE DEF pick, step
<1>5. Picks(pick, D)
  BY <1>3 DEF Picks
<1>6. PICK g : IsFold(g, pick, step, <<>>, D)
  BY <1>2, <1>5, FoldExists
<1>7. \A u \in SUBSET D : g[u] \in Seq(T)
  <2>1. <<>> \in Seq(T) /\ \A x \in D, a \in Seq(T) : step[<<x, a>>] \in Seq(T)
    BY <1>4
  <2> HIDE DEF D
  <2>2. QED
    BY <1>2, <1>5, <1>6, <2>1, FoldType
<1> DEFINE f == [i \in 0 .. n |-> g[1 .. i]]
<1>8. ASSUME NEW i \in 0 .. n
      PROVE  f[i] = IF i = 0 THEN <<>> ELSE KeepStep(f[i - 1], s[i], S)
  <2>1. 1 .. i \in SUBSET D /\ f[i] = FoldStep(g, pick, step, <<>>, 1 .. i)
    BY <1>1, <1>6 DEF IsFold
  <2>2. CASE i = 0
    BY <2>1, <2>2 DEF FoldStep
  <2>3. CASE i \in D
    <3>1. pick[1 .. i] = i /\ 1 .. i # {}
      <4>1. 1 .. i \in SUBSET D /\ 1 \in 1 .. i
        BY <2>1, <2>3
      <4>2. i \in 1 .. i /\ \A y \in 1 .. i : i >= y
        BY <2>3
      <4>3. Max(1 .. i) \in 1 .. i /\ \A y \in 1 .. i : Max(1 .. i) >= y
        BY <4>2 DEF Max
      <4>4. QED
        BY <1>3, <4>1, <4>2, <4>3
    <3>2. (1 .. i) \ {i} = 1 .. (i - 1) /\ 1 .. (i - 1) \in SUBSET D /\ i - 1 \in 0 .. n
      BY <1>1, <2>3
    <3>3. f[i] = step[<<i, g[1 .. (i - 1)]>>]
      BY <2>1, <2>3, <3>1, <3>2 DEF FoldStep
    <3>4. f[i - 1] = g[1 .. (i - 1)]
      BY <3>2
    <3>5. QED
      BY <1>4, <1>7, <2>3, <3>2, <3>3, <3>4
  <2>4. QED
    BY <1>1, <2>2, <2>3
<1>9. f = [i \in 0 .. n |-> IF i = 0 THEN <<>> ELSE KeepStep(f[i - 1], s[i], S)]
  BY <1>8
<1> HIDE DEF f
<1>10. QED
  BY <1>9 DEF IsKeep

\* Filters of sequences that agree on a prefix agree there, and are sequences.
LEMMA KeepUnique ==
    ASSUME NEW T, NEW s \in Seq(T), NEW t \in Seq(T), NEW S, NEW n \in Nat,
           n <= Len(s), n <= Len(t), \A i \in 1 .. n : s[i] = t[i],
           NEW f, NEW h, IsKeep(f, s, S), IsKeep(h, t, S)
    PROVE  \A i \in 0 .. n : f[i] = h[i] /\ f[i] \in Seq(T)
<1> DEFINE Bad == {i \in 0 .. n : ~(f[i] = h[i] /\ f[i] \in Seq(T))}
<1> SUFFICES ASSUME Bad # {} PROVE FALSE
  OBVIOUS
<1>1. Bad \subseteq Nat
  OBVIOUS
<1> HIDE DEF Bad
<1>2. PICK i \in Bad : \A j \in Bad : i <= j
  BY <1>1, SmallestNat
<1>3. i \in 0 .. n /\ ~(f[i] = h[i] /\ f[i] \in Seq(T))
  BY DEF Bad
<1>4. /\ f[i] = IF i = 0 THEN <<>> ELSE KeepStep(f[i - 1], s[i], S)
      /\ h[i] = IF i = 0 THEN <<>> ELSE KeepStep(h[i - 1], t[i], S)
  <2>1. i \in 0 .. Len(s) /\ i \in 0 .. Len(t)
    BY <1>3
  <2>2. QED
    BY <2>1 DEF IsKeep
<1>5. i # 0
  BY <1>3, <1>4
<1>6. i - 1 \in 0 .. n /\ i - 1 \notin Bad
  BY <1>2, <1>3, <1>5
<1>7. f[i - 1] = h[i - 1] /\ f[i - 1] \in Seq(T) /\ s[i] = t[i] /\ s[i] \in T
  BY <1>3, <1>5, <1>6 DEF Bad
<1>8. QED
  BY <1>3, <1>4, <1>5, <1>7 DEF KeepStep

LEMMA KeepIs ==
    ASSUME NEW T, NEW s \in Seq(T), NEW S, NEW f, IsKeep(f, s, S)
    PROVE  Keep(s, S) = f[Len(s)] /\ Keep(s, S) \in Seq(T)
<1> DEFINE Keeps(h) == h = [i \in 0 .. Len(s) |-> IF i = 0 THEN <<>>
                              ELSE IF s[i] \in S THEN Append(h[i - 1], s[i]) ELSE h[i - 1]]
           kept == CHOOSE h : Keeps(h)
<1>1. Keep(s, S) = kept[Len(s)]
  BY DEF Keep
<1>2. \A h : Keeps(h) <=> IsKeep(h, s, S)
  BY DEF IsKeep, KeepStep
<1>3. Keeps(kept)
  BY <1>2
<1> HIDE DEF kept, Keeps
<1>4. IsKeep(kept, s, S)
  BY <1>2, <1>3
<1>5. Len(s) \in Nat /\ Len(s) <= Len(s) /\ \A i \in 1 .. Len(s) : s[i] = s[i]
  OBVIOUS
<1>6. \A i \in 0 .. Len(s) : kept[i] = f[i] /\ kept[i] \in Seq(T)
  BY <1>4, <1>5, KeepUnique
<1>7. QED
  BY <1>1, <1>5, <1>6

\* A filter is a sequence; of nothing it is nothing; and it takes one member after the other.
LEMMA KeepType == ASSUME NEW T, NEW s \in Seq(T), NEW S PROVE Keep(s, S) \in Seq(T)
  BY KeepExists, KeepIs

LEMMA KeepEmpty == ASSUME NEW S PROVE Keep(<<>>, S) = <<>>
<1>1. <<>> \in Seq({}) /\ Len(<<>>) = 0
  OBVIOUS
<1>2. PICK f : IsKeep(f, <<>>, S)
  BY <1>1, KeepExists
<1>3. Keep(<<>>, S) = f[0]
  BY <1>1, <1>2, KeepIs
<1>4. f[0] = <<>>
  BY <1>1, <1>2 DEF IsKeep
<1>5. QED
  BY <1>3, <1>4

LEMMA KeepAppend ==
    ASSUME NEW T, NEW s \in Seq(T), NEW x \in T, NEW S
    PROVE  Keep(Append(s, x), S) = IF x \in S THEN Append(Keep(s, S), x) ELSE Keep(s, S)
<1> DEFINE n == Len(s)
           t == Append(s, x)
<1>1. /\ n \in Nat /\ t \in Seq(T) /\ Len(t) = n + 1 /\ t[n + 1] = x
      /\ \A i \in 1 .. n : t[i] = s[i]
  OBVIOUS
<1> HIDE DEF t
<1>2. PICK f : IsKeep(f, s, S)
  BY KeepExists
<1>3. PICK h : IsKeep(h, t, S)
  BY <1>1, KeepExists
<1>4. Keep(s, S) = f[n] /\ Keep(t, S) = h[n + 1]
  BY <1>1, <1>2, <1>3, KeepIs
<1>5. n <= Len(s) /\ n <= Len(t) /\ \A i \in 1 .. n : s[i] = t[i]
  BY <1>1
<1>6. f[n] = h[n]
  <2>1. \A i \in 0 .. n : f[i] = h[i] /\ f[i] \in Seq(T)
    <3>1. n <= Len(s) /\ n <= Len(t)
      BY <1>1
    <3> HIDE DEF n
    <3>2. QED
      BY <3>1, <1>1, <1>2, <1>3, <1>5, KeepUnique
  <2>2. QED
    BY <1>1, <2>1
<1>7. h[n + 1] = KeepStep(h[n], x, S)
  BY <1>1, <1>3 DEF IsKeep
<1>8. QED
  BY <1>4, <1>6, <1>7 DEF KeepStep, t

-----------------------------------------------------------------------------
(* Sequences, one member after the other. *)

\* What holds of the empty sequence and of one member more holds of every sequence.
LEMMA SeqInduction ==
    ASSUME NEW T, NEW G, <<>> \in G, \A s \in Seq(T), x \in T : s \in G => Append(s, x) \in G
    PROVE  Seq(T) \subseteq G
<1> DEFINE Bad == {n \in Nat : \E s \in Seq(T) : Len(s) = n /\ s \notin G}
<1> SUFFICES ASSUME NEW b \in Seq(T), b \notin G PROVE FALSE
  OBVIOUS
<1>1. Bad \subseteq Nat /\ Len(b) \in Bad
  OBVIOUS
<1> HIDE DEF Bad
<1>2. PICK n \in Bad : \A m \in Bad : n <= m
  BY <1>1, SmallestNat
<1>3. PICK s \in Seq(T) : Len(s) = n /\ s \notin G
  BY DEF Bad
<1>4. PICK t \in Seq(T), x \in T : s = Append(t, x)
  BY <1>3, SequenceEmptyOrAppend
<1>5. Len(t) \in Nat /\ Len(t) < n
  BY <1>3, <1>4
<1>6. Len(t) \notin Bad
  BY <1>1, <1>2, <1>5
<1>7. t \in G
  BY <1>5, <1>6 DEF Bad
<1>8. QED
  BY <1>3, <1>4, <1>7

\* Sets with the same members among those of s filter s alike.
LEMMA KeepSame ==
    ASSUME NEW T, NEW s \in Seq(T), NEW S, NEW R, \A i \in 1 .. Len(s) : s[i] \in S <=> s[i] \in R
    PROVE  Keep(s, S) = Keep(s, R)
<1>1. PICK f : IsKeep(f, s, S)
  BY KeepExists
<1>2. ASSUME NEW i \in 0 .. Len(s), i # 0
      PROVE  KeepStep(f[i - 1], s[i], S) = KeepStep(f[i - 1], s[i], R)
  <2>1. i \in 1 .. Len(s)
    BY <1>2
  <2>2. QED
    BY <2>1 DEF KeepStep
<1>3. IsKeep(f, s, R)
  BY <1>1, <1>2 DEF IsKeep
<1>4. QED
  BY <1>1, <1>3, KeepIs

LEMMA KeepOne == ASSUME NEW x, NEW S PROVE Keep(<<x>>, S) = IF x \in S THEN <<x>> ELSE <<>>
<1>1. <<>> \in Seq({x}) /\ x \in {x} /\ Append(<<>>, x) = <<x>>
  OBVIOUS
<1>2. Keep(Append(<<>>, x), S) = IF x \in S THEN Append(Keep(<<>>, S), x) ELSE Keep(<<>>, S)
  BY <1>1, KeepAppend
<1>3. Keep(<<>>, S) = <<>>
  BY KeepEmpty
<1>4. QED
  BY <1>1, <1>2, <1>3

\* A filter keeps members of the set only.
LEMMA KeepIn ==
    ASSUME NEW T, NEW s \in Seq(T), NEW S, NEW U, \A x \in T : x \in S => x \in U
    PROVE  Keep(s, S) \in Seq(U)
<1> DEFINE P(t) == Keep(t, S) \in Seq(U)
           G == {t \in Seq(T) : P(t)}
<1>1. \A t \in Seq(T) : t \in G <=> P(t)
  OBVIOUS
<1> HIDE DEF G
<1>3. <<>> \in G
  <2>1. Keep(<<>>, S) = <<>>
    BY KeepEmpty
  <2>2. \A V : <<>> \in Seq(V)
    BY EmptySeq
  <2>3. P(<<>>) /\ <<>> \in Seq(T)
    BY <2>1, <2>2
  <2> HIDE DEF P
  <2>4. QED
    BY <1>1, <2>3
<1>4. ASSUME NEW t \in Seq(T), NEW x \in T, t \in G PROVE Append(t, x) \in G
  <2>1. Keep(Append(t, x), S) = IF x \in S THEN Append(Keep(t, S), x) ELSE Keep(t, S)
    BY KeepAppend
  <2>2. Keep(t, S) \in Seq(U)
    BY <1>1, <1>4
  <2>3. P(Append(t, x)) /\ Append(t, x) \in Seq(T)
    BY <2>1, <2>2
  <2> HIDE DEF P
  <2>4. QED
    BY <1>1, <2>3
<1>5. s \in G
  BY <1>3, <1>4, SeqInduction
<1>6. QED
  BY <1>1, <1>5

\* Members that are all in the set are all kept.
LEMMA KeepAll == ASSUME NEW T, NEW s \in Seq(T), NEW S, T \subseteq S PROVE Keep(s, S) = s
<1> DEFINE G == {t \in Seq(T) : Keep(t, S) = t}
<1>1. <<>> \in G
  BY KeepEmpty
<1>2. ASSUME NEW t \in Seq(T), NEW x \in T, t \in G PROVE Append(t, x) \in G
  BY <1>2, KeepAppend
<1> HIDE DEF G
<1>3. s \in G
  BY <1>1, <1>2, SeqInduction
<1>4. QED
  BY <1>3 DEF G

\* None is kept when none is in the set.
LEMMA KeepNone ==
    ASSUME NEW T, NEW s \in Seq(T), NEW S, \A x \in T : x \notin S
    PROVE  Keep(s, S) = <<>>
<1> DEFINE G == {t \in Seq(T) : Keep(t, S) = <<>>}
<1>1. <<>> \in G
  BY KeepEmpty
<1>2. ASSUME NEW t \in Seq(T), NEW x \in T, t \in G PROVE Append(t, x) \in G
  BY <1>2, KeepAppend
<1> HIDE DEF G
<1>3. s \in G
  BY <1>1, <1>2, SeqInduction
<1>4. QED
  BY <1>3 DEF G

\* The filter of two sequences, one behind the other.
LEMMA KeepConcat ==
    ASSUME NEW T, NEW s \in Seq(T), NEW u \in Seq(T), NEW S
    PROVE  Keep(s \o u, S) = Keep(s, S) \o Keep(u, S)
<1> DEFINE P(t) == Keep(s \o t, S) = Keep(s, S) \o Keep(t, S)
           G == {t \in Seq(T) : P(t)}
<1>1. \A t \in Seq(T) : t \in G <=> P(t)
  OBVIOUS
<1> HIDE DEF G
<1>2. <<>> \in G
  <2>1. Keep(s, S) \in Seq(T)
    BY KeepType
  <2>2. s \o <<>> = s /\ Keep(s, S) \o <<>> = Keep(s, S)
    BY <2>1
  <2>3. Keep(<<>>, S) = <<>>
    BY KeepEmpty
  <2>4. P(<<>>)
    BY <2>2, <2>3
  <2>5. <<>> \in Seq(T)
    BY EmptySeq
  <2> HIDE DEF P
  <2>6. QED
    BY <1>1, <2>4, <2>5
<1>3. ASSUME NEW t \in Seq(T), NEW x \in T, t \in G PROVE Append(t, x) \in G
  <2>1. s \o t \in Seq(T) /\ s \o Append(t, x) = Append(s \o t, x)
    BY ConcatProperties
  <2>2. Keep(s, S) \in Seq(T) /\ Keep(t, S) \in Seq(T)
    BY KeepType
  <2>3. Keep(s, S) \o Append(Keep(t, S), x) = Append(Keep(s, S) \o Keep(t, S), x)
    BY <2>2
  <2>4. Keep(Append(s \o t, x), S)
          = IF x \in S THEN Append(Keep(s \o t, S), x) ELSE Keep(s \o t, S)
    BY <2>1, KeepAppend
  <2>5. Keep(Append(t, x), S) = IF x \in S THEN Append(Keep(t, S), x) ELSE Keep(t, S)
    BY KeepAppend
  <2>6. Keep(s \o t, S) = Keep(s, S) \o Keep(t, S)
    BY <1>1, <1>3
  <2>7. P(Append(t, x)) /\ Append(t, x) \in Seq(T)
    BY <2>1, <2>3, <2>4, <2>5, <2>6
  <2> HIDE DEF P
  <2>8. QED
    BY <1>1, <2>7
<1>4. u \in G
  BY <1>2, <1>3, SeqInduction
<1>5. QED
  BY <1>1, <1>4

\* Two filters are one.
LEMMA KeepKeep ==
    ASSUME NEW T, NEW s \in Seq(T), NEW S, NEW R, NEW U,
           \A x \in T : x \in U <=> (x \in S /\ x \in R)
    PROVE  Keep(Keep(s, S), R) = Keep(s, U)
<1> DEFINE P(t) == Keep(Keep(t, S), R) = Keep(t, U)
           G == {t \in Seq(T) : P(t)}
<1>1. \A t \in Seq(T) : t \in G <=> P(t)
  OBVIOUS
<1> HIDE DEF G
<1>3. <<>> \in G
  <2>1. Keep(<<>>, S) = <<>> /\ Keep(<<>>, R) = <<>> /\ Keep(<<>>, U) = <<>>
    BY KeepEmpty
  <2>2. \A V : <<>> \in Seq(V)
    BY EmptySeq
  <2>3. P(<<>>) /\ <<>> \in Seq(T)
    BY <2>1, <2>2
  <2> HIDE DEF P
  <2>4. QED
    BY <1>1, <2>3
<1>4. ASSUME NEW t \in Seq(T), NEW x \in T, t \in G PROVE Append(t, x) \in G
  <2>1. Keep(t, S) \in Seq(T)
    BY KeepType
  <2>2. Keep(Append(Keep(t, S), x), R)
          = IF x \in R THEN Append(Keep(Keep(t, S), R), x) ELSE Keep(Keep(t, S), R)
    BY <2>1, KeepAppend
  <2>3. /\ Keep(Append(t, x), S) = IF x \in S THEN Append(Keep(t, S), x) ELSE Keep(t, S)
        /\ Keep(Append(t, x), U) = IF x \in U THEN Append(Keep(t, U), x) ELSE Keep(t, U)
    BY KeepAppend
  <2>4. Keep(Keep(t, S), R) = Keep(t, U)
    BY <1>1, <1>4
  <2>5. P(Append(t, x)) /\ Append(t, x) \in Seq(T)
    <3>1. CASE x \in S
      <4>1. Keep(Append(t, x), S) = Append(Keep(t, S), x)
        BY <2>3, <3>1
      <4>2. x \in U <=> x \in R
        BY <3>1
      <4>3. Keep(Keep(Append(t, x), S), R)
              = IF x \in R THEN Append(Keep(Keep(t, S), R), x) ELSE Keep(Keep(t, S), R)
        BY <2>2, <4>1
      <4>4. QED
        BY <2>3, <2>4, <4>2, <4>3
    <3>2. CASE x \notin S
      <4>1. Keep(Append(t, x), S) = Keep(t, S) /\ x \notin U
        BY <2>3, <3>2
      <4>2. QED
        BY <2>3, <2>4, <4>1
    <3>3. QED
      BY <3>1, <3>2
  <2> HIDE DEF P
  <2>6. QED
    BY <1>1, <2>5
<1>5. s \in G
  BY <1>3, <1>4, SeqInduction
<1>6. QED
  BY <1>1, <1>5

\* A sequence of different members has as many in a set as it has in that set.
LEMMA KeepCount ==
    ASSUME NEW T, NEW s \in Seq(T), NEW S,
           \A i, j \in 1 .. Len(s) : s[i] = s[j] => i = j
    PROVE  LET M == {x \in {s[i] : i \in 1 .. Len(s)} : x \in S}
           IN  IsFiniteSet(M) /\ Cardinality(M) = Len(Keep(s, S))
<1> DEFINE Members(t) == {x \in {t[i] : i \in 1 .. Len(t)} : x \in S}
           Different(t) == \A i, j \in 1 .. Len(t) : t[i] = t[j] => i = j
           P(t) == Different(t) => /\ IsFiniteSet(Members(t))
                                   /\ Cardinality(Members(t)) = Len(Keep(t, S))
           G == {t \in Seq(T) : P(t)}
<1>1. <<>> \in G
  <2>1. Members(<<>>) = {}
    OBVIOUS
  <2>2. Keep(<<>>, S) = <<>> /\ Len(<<>>) = 0 /\ <<>> \in Seq(T)
    BY KeepEmpty
  <2>3. IsFiniteSet({}) /\ Cardinality({}) = 0
    BY FS_EmptySet
  <2>4. P(<<>>)
    BY <2>1, <2>2, <2>3
  <2>5. QED
    BY <2>2, <2>4
<1>2. ASSUME NEW t \in Seq(T), NEW x \in T, t \in G PROVE Append(t, x) \in G
  <2> DEFINE u == Append(t, x)
  <2>1. /\ u \in Seq(T) /\ Len(t) \in Nat /\ Len(u) = Len(t) + 1 /\ u[Len(u)] = x
        /\ \A i \in 1 .. Len(t) : u[i] = t[i]
    OBVIOUS
  <2>2. Keep(u, S) = IF x \in S THEN Append(Keep(t, S), x) ELSE Keep(t, S)
    BY KeepAppend
  <2>3. Keep(t, S) \in Seq(T)
    BY KeepType
  <2> HIDE DEF u
  <2>4. ASSUME Different(u) PROVE IsFiniteSet(Members(u)) /\ Cardinality(Members(u)) = Len(Keep(u, S))
    <3>1. Different(t)
      BY <2>1, <2>4
    <3>2. IsFiniteSet(Members(t)) /\ Cardinality(Members(t)) = Len(Keep(t, S))
      BY <1>2, <3>1
    <3>3. {u[i] : i \in 1 .. Len(u)} = {t[i] : i \in 1 .. Len(t)} \cup {x}
      <4>1. \A i \in 1 .. Len(u) : i = Len(u) \/ i \in 1 .. Len(t)
        BY <2>1
      <4>2. Len(u) \in 1 .. Len(u) /\ \A i \in 1 .. Len(t) : i \in 1 .. Len(u)
        BY <2>1
      <4>3. QED
        BY <2>1, <4>1, <4>2
    <3>4. x \notin {t[i] : i \in 1 .. Len(t)}
      <4>1. \A i \in 1 .. Len(t) : u[i] # u[Len(u)]
        BY <2>1, <2>4
      <4>2. QED
        BY <2>1, <4>1
    <3>5. CASE x \in S
      <4>1. Members(u) = Members(t) \cup {x} /\ x \notin Members(t)
        BY <3>3, <3>4, <3>5
      <4>2. IsFiniteSet(Members(u)) /\ Cardinality(Members(u)) = Cardinality(Members(t)) + 1
        <5>1. PICK M : M = Members(t)
          OBVIOUS
        <5>2. IsFiniteSet(M \cup {x}) /\ Cardinality(M \cup {x}) = Cardinality(M) + 1
          BY <3>2, <4>1, <5>1, FS_AddElement
        <5>3. QED
          BY <4>1, <5>1, <5>2
      <4>3. Len(Keep(u, S)) = Len(Keep(t, S)) + 1
        BY <2>2, <2>3, <3>5
      <4>4. QED
        BY <3>2, <4>2, <4>3
    <3>6. CASE x \notin S
      <4>1. Members(u) = Members(t)
        BY <3>3, <3>6
      <4>2. QED
        BY <2>2, <3>2, <3>6, <4>1
    <3>7. QED
      BY <3>5, <3>6
  <2>5. P(u)
    BY <2>4
  <2>6. u \in G
    BY <2>1, <2>5
  <2>7. QED
    BY <2>6 DEF u
<1> HIDE DEF G
<1>3. Seq(T) \subseteq G
  BY <1>1, <1>2, SeqInduction
<1>4. P(s)
  BY <1>3 DEF G
<1>5. QED
  BY <1>4

\* Three sets that divide the members divide the sequence.
LEMMA KeepThree ==
    ASSUME NEW T, NEW s \in Seq(T), NEW A, NEW B, NEW C,
           \A x \in T : \/ x \in A /\ x \notin B /\ x \notin C
                        \/ x \notin A /\ x \in B /\ x \notin C
                        \/ x \notin A /\ x \notin B /\ x \in C
    PROVE  Len(Keep(s, A)) + Len(Keep(s, B)) + Len(Keep(s, C)) = Len(s)
<1> DEFINE P(t) == Len(Keep(t, A)) + Len(Keep(t, B)) + Len(Keep(t, C)) = Len(t)
           G == {t \in Seq(T) : P(t)}
<1>1. <<>> \in G
  <2>1. \A S : Keep(<<>>, S) = <<>>
    BY KeepEmpty
  <2>2. Len(<<>>) = 0 /\ <<>> \in Seq(T)
    OBVIOUS
  <2>3. P(<<>>)
    BY <2>1, <2>2
  <2>4. QED
    BY <2>2, <2>3
<1>2. ASSUME NEW t \in Seq(T), NEW x \in T, t \in G PROVE Append(t, x) \in G
  <2>1. ASSUME NEW S
        PROVE  /\ Len(Keep(t, S)) \in Nat
               /\ Len(Keep(Append(t, x), S)) = Len(Keep(t, S)) + (IF x \in S THEN 1 ELSE 0)
    <3>1. Keep(Append(t, x), S) = IF x \in S THEN Append(Keep(t, S), x) ELSE Keep(t, S)
      BY KeepAppend
    <3>2. PICK k \in Seq(T) : k = Keep(t, S)
      BY KeepType
    <3>3. Len(k) \in Nat /\ Len(Append(k, x)) = Len(k) + 1
      OBVIOUS
    <3>4. QED
      BY <3>1, <3>2, <3>3
  <2>2. Len(Append(t, x)) = Len(t) + 1 /\ Append(t, x) \in Seq(T) /\ Len(t) \in Nat
    OBVIOUS
  <2>3. Len(Keep(t, A)) + Len(Keep(t, B)) + Len(Keep(t, C)) = Len(t)
    BY <1>2
  <2>4. P(Append(t, x))
    <3>1. PICK a \in Nat, b \in Nat, c \in Nat, n \in Nat :
             a = Len(Keep(t, A)) /\ b = Len(Keep(t, B)) /\ c = Len(Keep(t, C)) /\ n = Len(t)
      BY <2>1, <2>2
    <3>2. /\ Len(Keep(Append(t, x), A)) = a + (IF x \in A THEN 1 ELSE 0)
          /\ Len(Keep(Append(t, x), B)) = b + (IF x \in B THEN 1 ELSE 0)
          /\ Len(Keep(Append(t, x), C)) = c + (IF x \in C THEN 1 ELSE 0)
      BY <2>1, <3>1
    <3>3. \/ x \in A /\ x \notin B /\ x \notin C
          \/ x \notin A /\ x \in B /\ x \notin C
          \/ x \notin A /\ x \notin B /\ x \in C
      OBVIOUS
    <3>4. (IF x \in A THEN 1 ELSE 0) + (IF x \in B THEN 1 ELSE 0) + (IF x \in C THEN 1 ELSE 0) = 1
      BY <3>3
    <3>5. PICK i \in {0, 1}, j \in {0, 1}, l \in {0, 1} :
             /\ i = IF x \in A THEN 1 ELSE 0
             /\ j = IF x \in B THEN 1 ELSE 0
             /\ l = IF x \in C THEN 1 ELSE 0
      OBVIOUS
    <3>6. i + j + l = 1
      BY <3>4, <3>5
    <3>7. (a + i) + (b + j) + (c + l) = n + 1
      BY <2>3, <3>1, <3>6
    <3>8. QED
      BY <2>2, <3>1, <3>2, <3>5, <3>7
  <2>5. QED
    BY <2>2, <2>4
<1> HIDE DEF G
<1>3. Seq(T) \subseteq G
  BY <1>1, <1>2, SeqInduction
<1>4. QED
  BY <1>3 DEF G

LEMMA SumZero ==
    ASSUME NEW S, IsFiniteSet(S), NEW w, \A x \in S : w[x] = 0
    PROVE  SumOver(w, S) = 0
<1>1. \A x \in S : w[x] \in Int
  OBVIOUS
<1> DEFINE Bad == {s \in SUBSET S : SumOver(w, s) # 0}
<1>2. Bad = {}
  <2> SUFFICES ASSUME Bad # {} PROVE FALSE
    OBVIOUS
  <2>1. Bad \subseteq SUBSET S /\ Bad # {}
    OBVIOUS
  <2> HIDE DEF Bad
  <2>2. PICK s \in Bad : \A u \in Bad : u \subseteq s => u = s
    BY <2>1, Smallest
  <2>3. s \subseteq S /\ SumOver(w, s) # 0 /\ IsFiniteSet(s) /\ \A x \in s : w[x] \in Int
    BY <1>1, <2>1, FS_Subset DEF Bad
  <2>4. s # {}
    BY <1>1, <2>3, SumRec
  <2>5. PICK x \in s : TRUE
    BY <2>4
  <2>6. SumOver(w, s) = w[x] + SumOver(w, s \ {x})
    BY <2>3, SumAny
  <2>7. s \ {x} \notin Bad
    BY <2>2, <2>5
  <2>8. SumOver(w, s \ {x}) = 0
    BY <2>3, <2>7 DEF Bad
  <2>9. w[x] = 0
    BY <2>3
  <2>10. QED
    BY <2>3, <2>6, <2>8, <2>9
<1>3. QED
  BY <1>2

\* Every member of a sequence is of one kind.
KindSum(kind, s, S) == SumOver([k \in S |-> Len(Keep(s, kind[k]))], S)

LEMMA KeepKinds ==
    ASSUME NEW T, NEW s \in Seq(T), NEW S, IsFiniteSet(S), NEW kind,
           \A x \in T : \E k \in S : x \in kind[k] /\ \A l \in S : x \in kind[l] => l = k
    PROVE  KindSum(kind, s, S) = Len(s)
<1> DEFINE W(t) == [k \in S |-> Len(Keep(t, kind[k]))]
           P(t) == SumOver(W(t), S) = Len(t)
           G == {t \in Seq(T) : P(t)}
<1>1. \A t \in Seq(T) : \A k \in S : W(t)[k] = Len(Keep(t, kind[k])) /\ W(t)[k] \in Nat
  <2> SUFFICES ASSUME NEW t \in Seq(T), NEW k \in S PROVE Len(Keep(t, kind[k])) \in Nat
    OBVIOUS
  <2>1. Keep(t, kind[k]) \in Seq(T)
    BY KeepType
  <2>2. QED
    BY <2>1
<1> HIDE DEF W
<1>2. <<>> \in G
  <2>1. <<>> \in Seq(T) /\ Len(<<>>) = 0
    OBVIOUS
  <2>2. \A k \in S : W(<<>>)[k] = 0
    BY <1>1, <2>1, KeepEmpty
  <2>3. PICK w : w = W(<<>>)
    OBVIOUS
  <2>4. SumOver(w, S) = 0
    BY <2>2, <2>3, SumZero
  <2>5. QED
    BY <2>1, <2>3, <2>4
<1>3. ASSUME NEW t \in Seq(T), NEW x \in T, t \in G PROVE Append(t, x) \in G
  <2>1. PICK k \in S : x \in kind[k] /\ \A l \in S : x \in kind[l] => l = k
    OBVIOUS
  <2>2. Append(t, x) \in Seq(T) /\ Len(Append(t, x)) = Len(t) + 1 /\ Len(t) \in Nat
    OBVIOUS
  <2>3. PICK w, v : w = W(t) /\ v = W(Append(t, x))
    OBVIOUS
  <2>4. \A l \in S : w[l] \in Nat /\ v[l] \in Nat
    BY <1>1, <2>2, <2>3
  <2>5. ASSUME NEW l \in S PROVE v[l] = w[l] + (IF l = k THEN 1 ELSE 0)
    <3>1. v[l] = Len(Keep(Append(t, x), kind[l])) /\ w[l] = Len(Keep(t, kind[l]))
      BY <1>1, <2>2, <2>3
    <3>2. Keep(Append(t, x), kind[l])
             = IF x \in kind[l] THEN Append(Keep(t, kind[l]), x) ELSE Keep(t, kind[l])
      BY KeepAppend
    <3>3. PICK m \in Seq(T) : m = Keep(t, kind[l])
      BY KeepType
    <3>4. Len(Append(m, x)) = Len(m) + 1 /\ Len(m) \in Nat
      OBVIOUS
    <3>5. QED
      BY <2>1, <3>1, <3>2, <3>3, <3>4
  <2>6. /\ SumOver(w, S) = w[k] + SumOver(w, S \ {k})
        /\ SumOver(v, S) = v[k] + SumOver(v, S \ {k})
    <3>1. \A l \in S : w[l] \in Int /\ v[l] \in Int
      BY <2>4
    <3>2. QED
      BY <3>1, SumAny
  <2>7. SumOver(w, S \ {k}) = SumOver(v, S \ {k}) /\ SumOver(w, S \ {k}) \in Nat
    <3>1. IsFiniteSet(S \ {k})
      BY FS_Subset
    <3>2. \A l \in S \ {k} : w[l] \in Int /\ w[l] = v[l] /\ w[l] \in Nat
      BY <2>4, <2>5
    <3>3. SumOver(w, S \ {k}) = SumOver(v, S \ {k})
      BY <3>1, <3>2, SumSame
    <3>4. SumOver(w, S \ {k}) \in Nat
      BY <3>1, <3>2, SumType
    <3>5. QED
      BY <3>3, <3>4
  <2>8. v[k] = w[k] + 1 /\ w[k] \in Nat
    BY <2>4, <2>5
  <2>9. SumOver(w, S) = Len(t)
    BY <1>3, <2>3
  <2>10. SumOver(v, S) = Len(t) + 1
    BY <2>2, <2>6, <2>7, <2>8, <2>9
  <2>11. QED
    BY <2>2, <2>3, <2>10
<1> HIDE DEF G
<1>4. Seq(T) \subseteq G
  BY <1>2, <1>3, SeqInduction
<1>5. P(s)
  BY <1>4 DEF G
<1>6. QED
  BY <1>5 DEF KindSum, W

\* What is in the set is kept, and what is not is not counted.
LEMMA KeepHas ==
    ASSUME NEW T, NEW s \in Seq(T), NEW S, NEW i \in 1 .. Len(s), s[i] \in S
    PROVE  \E j \in 1 .. Len(Keep(s, S)) : Keep(s, S)[j] = s[i]
<1> DEFINE P(t) == \A k \in 1 .. Len(t) :
                      t[k] \in S => \E j \in 1 .. Len(Keep(t, S)) : Keep(t, S)[j] = t[k]
           G == {t \in Seq(T) : P(t)}
<1>1. <<>> \in G
  <2>1. <<>> \in Seq(T) /\ 1 .. Len(<<>>) = {}
    OBVIOUS
  <2>2. QED
    BY <2>1
<1>2. ASSUME NEW t \in Seq(T), NEW x \in T, t \in G PROVE Append(t, x) \in G
  <2>1. PICK u : u = Append(t, x)
    OBVIOUS
  <2>2. /\ u \in Seq(T) /\ Len(t) \in Nat /\ Len(u) = Len(t) + 1 /\ u[Len(t) + 1] = x
        /\ \A k \in 1 .. Len(t) : u[k] = t[k]
    BY <2>1
  <2>3. PICK m \in Seq(T) : m = Keep(t, S)
    BY KeepType
  <2>4. Keep(u, S) = IF x \in S THEN Append(m, x) ELSE m
    BY <2>1, <2>3, KeepAppend
  <2>5. /\ Len(m) \in Nat /\ Len(Append(m, x)) = Len(m) + 1 /\ Append(m, x)[Len(m) + 1] = x
        /\ \A j \in 1 .. Len(m) : Append(m, x)[j] = m[j]
    OBVIOUS
  <2>6. ASSUME NEW k \in 1 .. Len(u), u[k] \in S
        PROVE  \E j \in 1 .. Len(Keep(u, S)) : Keep(u, S)[j] = u[k]
    <3>1. CASE k = Len(t) + 1
      <4>1. Keep(u, S) = Append(m, x) /\ u[k] = x
        BY <2>2, <2>4, <2>6, <3>1
      <4>2. Len(m) + 1 \in 1 .. Len(Append(m, x))
        BY <2>5
      <4>3. QED
        BY <2>5, <4>1, <4>2
    <3>2. CASE k \in 1 .. Len(t)
      <4>1. u[k] = t[k]
        BY <2>2, <3>2
      <4>2. PICK j \in 1 .. Len(m) : m[j] = t[k]
        BY <1>2, <2>3, <2>6, <3>2, <4>1
      <4>3. j \in 1 .. Len(Append(m, x)) /\ Append(m, x)[j] = m[j]
        BY <2>5
      <4>4. QED
        BY <2>4, <4>1, <4>2, <4>3
    <3>3. QED
      BY <2>2, <3>1, <3>2
  <2>7. QED
    BY <2>1, <2>2, <2>6
<1> HIDE DEF G
<1>3. Seq(T) \subseteq G
  BY <1>1, <1>2, SeqInduction
<1>4. P(s)
  BY <1>3 DEF G
<1>5. QED
  BY <1>4

LEMMA KeepFewer ==
    ASSUME NEW T, NEW s \in Seq(T), NEW S, NEW i \in 1 .. Len(s), s[i] \notin S
    PROVE  Len(Keep(s, S)) + 1 <= Len(s)
<1> DEFINE R == T \ S
           E == {x \in T : FALSE}
<1>1. \A x \in T : \/ x \in S /\ x \notin R /\ x \notin E
                   \/ x \notin S /\ x \in R /\ x \notin E
                   \/ x \notin S /\ x \notin R /\ x \in E
  OBVIOUS
<1>2. s[i] \in R
  BY ElementOfSeq
<1> HIDE DEF R, E
<1>3. Len(Keep(s, S)) + Len(Keep(s, R)) + Len(Keep(s, E)) = Len(s)
  BY <1>1, KeepThree
<1>4. Keep(s, S) \in Seq(T) /\ Keep(s, R) \in Seq(T) /\ Keep(s, E) \in Seq(T)
  BY KeepType
<1>5. \E j \in 1 .. Len(Keep(s, R)) : Keep(s, R)[j] = s[i]
  BY <1>2, KeepHas
<1>6. PICK a \in Nat, b \in Nat, c \in Nat :
         a = Len(Keep(s, S)) /\ b = Len(Keep(s, R)) /\ c = Len(Keep(s, E))
  BY <1>4
<1>7. b >= 1
  BY <1>5, <1>6
<1>8. QED
  BY <1>3, <1>6, <1>7

-----------------------------------------------------------------------------
(* Recursion over the numbers. *)

\* A function defined by recursion over 0 .. n exists, whatever its steps.
Steps(step, A, n) == \A i \in 1 .. n, a \in A : step[<<i, a>>] \in A

IsRec(f, step, base, A, n) ==
    /\ f \in [0 .. n -> A]
    /\ \A i \in 0 .. n : f[i] = IF i = 0 THEN base ELSE step[<<i, f[i - 1]>>]

LEMMA RecExists ==
    ASSUME NEW n \in Nat, NEW A, NEW base \in A, NEW step, Steps(step, A, n)
    PROVE  \E f : IsRec(f, step, base, A, n)
<1> DEFINE D == 1 .. n
           pick == [u \in SUBSET D |-> Max(u)]
<1>1. IsFiniteSet(D)
  BY FS_Interval
<1>2. \A u \in SUBSET D : pick[u] = Max(u) /\ (u # {} => Max(u) \in u)
  BY MaxIn
<1> HIDE DEF pick
<1>3. Picks(pick, D)
  BY <1>2 DEF Picks
<1>4. PICK g : IsFold(g, pick, step, base, D)
  BY <1>1, <1>3, FoldExists
<1>5. \A u \in SUBSET D : g[u] \in A
  <2>1. \A x \in D, a \in A : step[<<x, a>>] \in A
    BY DEF Steps
  <2> HIDE DEF D
  <2>2. QED
    BY <1>1, <1>3, <1>4, <2>1, FoldType
<1> DEFINE f == [i \in 0 .. n |-> g[1 .. i]]
<1>6. ASSUME NEW i \in 0 .. n
      PROVE  f[i] = (IF i = 0 THEN base ELSE step[<<i, f[i - 1]>>]) /\ f[i] \in A
  <2>4. 1 .. i \in SUBSET D /\ f[i] = g[1 .. i]
    OBVIOUS
  <2>1. f[i] = FoldStep(g, pick, step, base, 1 .. i) /\ f[i] \in A /\ 1 .. i \in SUBSET D
    BY <1>4, <1>5, <2>4 DEF IsFold
  <2>2. CASE i = 0
    BY <2>1, <2>2 DEF FoldStep
  <2>3. CASE i \in D
    <3>1. pick[1 .. i] = i /\ 1 .. i # {}
      <4>1. 1 .. i \in SUBSET D /\ 1 \in 1 .. i
        BY <2>1, <2>3
      <4>2. i \in 1 .. i /\ \A y \in 1 .. i : i >= y
        BY <2>3
      <4>3. Max(1 .. i) \in 1 .. i /\ \A y \in 1 .. i : Max(1 .. i) >= y
        BY <4>2 DEF Max
      <4>4. QED
        BY <1>2, <4>1, <4>2, <4>3
    <3>2. (1 .. i) \ {i} = 1 .. (i - 1) /\ i - 1 \in 0 .. n
      BY <2>3
    <3>3. f[i] = step[<<i, g[1 .. (i - 1)]>>]
      BY <2>1, <3>1, <3>2 DEF FoldStep
    <3>4. f[i - 1] = g[1 .. (i - 1)]
      BY <3>2
    <3>5. QED
      BY <2>1, <2>3, <3>3, <3>4
  <2>5. QED
    BY <2>2, <2>3
<1>7. f \in [0 .. n -> A]
  BY <1>6
<1> HIDE DEF f
<1>8. QED
  BY <1>6, <1>7 DEF IsRec

=============================================================================
