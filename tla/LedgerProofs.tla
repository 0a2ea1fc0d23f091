----------------------------- MODULE LedgerProofs -----------------------------
(***************************************************************************)
(* Theorems about the two ledgers that keep a running total beside the     *)
(* rows it is made of: ReputationLedger, for any participants, writers,    *)
(* events, stakes, baseline, cap and length of the history, and            *)
(* PredictionLedger, for any people, matches, posts, pollers, requests and *)
(* bounds.  Both totals are folds over sequences.                          *)
(***************************************************************************)
EXTENDS ReputationLedger, PredictionLedger, FiniteSetTheorems, NaturalsInduction,
        WellFoundedInduction, SequenceTheorems, TLAPS

-----------------------------------------------------------------------------
(* Folds.  Induction is the existence of a smallest counterexample.        *)

LEMMA Least == ASSUME NEW T \in SUBSET Nat, T # {} PROVE \E x \in T : \A y \in T : x <= y
<1> DEFINE R == {ss \in Nat \X Nat : ss[1] < ss[2]}
<1>1. IsWellFoundedOn(R, Nat)
  BY NatLessThanWellFounded DEF OpToRel
<1>2. \A x, y \in Nat : <<y, x>> \in R <=> y < x
  OBVIOUS
<1> HIDE DEF R
<1>3. PICK x \in T : \A y \in T : ~ (<<y, x>> \in R)
  BY <1>1, WFMin
<1>4. \A y \in T : ~(y < x)
  BY <1>2, <1>3
<1>5. \A y \in T : x <= y
  BY <1>4
<1> QED BY <1>5

LEMMA Smallest ==
    ASSUME NEW S, IsFiniteSet(S), NEW Q \in SUBSET SUBSET S, Q # {}
    PROVE  \E T \in Q : \A U \in Q : U \subseteq T => U = T
<1> DEFINE Sizes == {Cardinality(T) : T \in Q}
<1>1. \A T \in Q : IsFiniteSet(T) /\ Cardinality(T) \in Nat
  BY FS_Subset, FS_CardinalityType
<1>2. Sizes \in SUBSET Nat /\ Sizes # {}
  BY <1>1
<1>3. PICK n \in Sizes : \A m \in Sizes : n <= m
  BY <1>2, Least
<1>4. PICK T \in Q : n = Cardinality(T)
  OBVIOUS
<1>5. ASSUME NEW U \in Q, U \subseteq T, U # T PROVE FALSE
  <2>1. Cardinality(U) < Cardinality(T)
    BY <1>1, <1>5, FS_Subset
  <2>2. Cardinality(T) <= Cardinality(U)
    BY <1>3, <1>4
  <2> QED BY <1>1, <2>1, <2>2
<1> QED BY <1>5

\* One value of a fold: c chooses the element that is combined last, by g.
Folded(g, base, c, iter, s) ==
    IF s = {} THEN base ELSE g[<<c[s], iter[s \ {c[s]}]>>]

IsFold(iter, S, g, base, c) == iter = [s \in SUBSET S |-> Folded(g, base, c, iter, s)]

Chooses(c, S) == \A s \in SUBSET S : s # {} => c[s] \in s

\* What a fold is made of: a base of type V and a combination that keeps V.
Combines(S, g, base, c, V) ==
    IsFiniteSet(S) /\ Chooses(c, S) /\ base \in V /\ g \in [S \X V -> V]

\* A function that satisfies the equations of the fold wherever its own values
\* have the type.
Follows(jter, S, g, base, c, V) ==
    /\ jter[{}] = base
    /\ \A s \in SUBSET S : s # {} /\ jter[s \ {c[s]}] \in V =>
         jter[s] = g[<<c[s], jter[s \ {c[s]}]>>]

\* What a fold over S combines last: an element and the value of the rest.
EndsWith(iter, S, pair, g, base, c) ==
    IsFold(iter, S, g, base, c) /\ S # {} /\ pair = <<c[S], iter[S \ {c[S]}]>>

LEMMA FoldUnfolds ==
    ASSUME NEW iter, NEW S, NEW pair, NEW g, NEW base, NEW c, EndsWith(iter, S, pair, g, base, c)
    PROVE  iter[S] = g[pair]
<1>1. S \in SUBSET S
  OBVIOUS
<1>2. iter[S] = Folded(g, base, c, iter, S)
  BY <1>1 DEF EndsWith, IsFold
<1> QED BY <1>2 DEF EndsWith, Folded

\* A fold over the subsets of a finite set exists, from the smallest subset up.
LEMMA FoldExists ==
    ASSUME NEW S, IsFiniteSet(S), NEW c, Chooses(c, S), NEW g, NEW base
    PROVE  \E iter : IsFold(iter, S, g, base, c)
<1> DEFINE Up(n) == {s \in SUBSET S : Cardinality(s) <= n}
           Solves(h, n) == h = [s \in Up(n) |-> Folded(g, base, c, h, s)]
           Bad == {n \in Nat : ~ \E h : Solves(h, n)}
<1>1. \A s \in SUBSET S : IsFiniteSet(s) /\ Cardinality(s) \in Nat /\ Cardinality(s) <= Cardinality(S)
  BY FS_Subset, FS_CardinalityType
<1>2. \A s \in SUBSET S : s # {} =>
         /\ s \ {c[s]} \in SUBSET S
         /\ Cardinality(s \ {c[s]}) = Cardinality(s) - 1
  BY <1>1, FS_RemoveElement DEF Chooses
<1>3. Bad = {}
  <2> SUFFICES ASSUME Bad # {} PROVE FALSE
    OBVIOUS
  <2>1. PICK n \in Bad : \A m \in Bad : n <= m
    <3> HIDE DEF Solves
    <3>1. Bad \in SUBSET Nat
      OBVIOUS
    <3> QED BY <3>1, Least
  <2>2. n # 0
    <3> SUFFICES ASSUME n = 0 PROVE FALSE
      OBVIOUS
    <3>1. \A s \in Up(0) : s = {}
      BY <1>1, FS_EmptySet
    <3> DEFINE h == [s \in Up(0) |-> base]
    <3>2. \A s \in Up(0) : Folded(g, base, c, h, s) = base
      BY <3>1 DEF Folded
    <3>3. Solves(h, 0)
      BY <3>2
    <3> QED BY <3>3
  <2>3. n - 1 \in Nat /\ n - 1 \notin Bad
    <3>1. n \in Nat
      OBVIOUS
    <3> HIDE DEF Bad
    <3> QED BY <2>1, <2>2, <3>1
  <2>4. PICK f : Solves(f, n - 1)
    BY <2>3
  <2> DEFINE h == [s \in Up(n) |-> Folded(g, base, c, f, s)]
  <2>5. \A s \in Up(n) : Folded(g, base, c, f, s) = Folded(g, base, c, h, s)
    <3> SUFFICES ASSUME NEW s \in Up(n), s # {}
                 PROVE  Folded(g, base, c, f, s) = Folded(g, base, c, h, s)
      BY DEF Folded
    <3>1. s \ {c[s]} \in Up(n - 1) /\ s \ {c[s]} \in Up(n)
      BY <1>1, <1>2
    <3>2. h[s \ {c[s]}] = Folded(g, base, c, f, s \ {c[s]})
      BY <3>1
    <3>3. f[s \ {c[s]}] = Folded(g, base, c, f, s \ {c[s]})
      BY <2>4, <3>1
    <3> QED BY <3>2, <3>3 DEF Folded
  <2>6. Solves(h, n)
    BY <2>5
  <2> QED BY <2>6
<1>4. Cardinality(S) \in Nat
  BY FS_CardinalityType
<1>5. PICK h : Solves(h, Cardinality(S))
  BY <1>3, <1>4
<1>6. Up(Cardinality(S)) = SUBSET S
  BY <1>1
<1>7. h = [s \in SUBSET S |-> Folded(g, base, c, h, s)]
  BY <1>5, <1>6
<1> QED BY <1>7 DEF IsFold

\* Its values have the type that the base has and the combination keeps.
LEMMA FoldTyped ==
    ASSUME NEW S, NEW g, NEW base, NEW c, NEW V, Combines(S, g, base, c, V),
           NEW iter, IsFold(iter, S, g, base, c)
    PROVE  \A s \in SUBSET S : iter[s] \in V
<1>0. IsFiniteSet(S) /\ Chooses(c, S) /\ base \in V /\ g \in [S \X V -> V]
  BY DEF Combines
<1> DEFINE Bad == {s \in SUBSET S : iter[s] \notin V}
<1> SUFFICES ASSUME Bad # {} PROVE FALSE
  OBVIOUS
<1>1. PICK s \in Bad : \A u \in Bad : u \subseteq s => u = s
  <2> HIDE DEF Bad
  <2>1. Bad \in SUBSET SUBSET S
    BY DEF Bad
  <2> QED BY <1>0, <2>1, Smallest
<1>2. iter[s] = Folded(g, base, c, iter, s)
  BY DEF IsFold
<1>3. s # {}
  BY <1>0, <1>2 DEF Folded
<1>4. c[s] \in s /\ s \ {c[s]} \in SUBSET S /\ s \ {c[s]} # s
  BY <1>0, <1>3 DEF Chooses
<1>5. iter[s \ {c[s]}] \in V
  BY <1>1, <1>4
<1>6. <<c[s], iter[s \ {c[s]}]>> \in S \X V
  BY <1>4, <1>5
<1>7. iter[s] \in V
  BY <1>0, <1>2, <1>3, <1>6 DEF Folded
<1> QED BY <1>7

\* Two folds, over S and over U, combine the part T they share alike.
Alike(T, S, U, g, h, base, c, d, V) ==
    /\ IsFiniteSet(T) /\ T \subseteq S /\ T \subseteq U /\ base \in V
    /\ Chooses(c, T) /\ \A s \in SUBSET T : s # {} => c[s] = d[s]
    /\ \A x \in T, v \in V : g[<<x, v>>] = h[<<x, v>>] /\ g[<<x, v>>] \in V

\* Then they agree on that part.
LEMMA FoldsAgree ==
    ASSUME NEW T, NEW S, NEW U, NEW g, NEW h, NEW base, NEW c, NEW d, NEW V,
           Alike(T, S, U, g, h, base, c, d, V),
           NEW iter, IsFold(iter, S, g, base, c), NEW jter, IsFold(jter, U, h, base, d)
    PROVE  iter[T] = jter[T]
<1>0. /\ IsFiniteSet(T) /\ T \subseteq S /\ T \subseteq U /\ base \in V
      /\ Chooses(c, T) /\ \A s \in SUBSET T : s # {} => c[s] = d[s]
      /\ \A x \in T, v \in V : g[<<x, v>>] = h[<<x, v>>] /\ g[<<x, v>>] \in V
  BY DEF Alike
<1> DEFINE Bad == {s \in SUBSET T : ~ (iter[s] = jter[s] /\ iter[s] \in V)}
<1> SUFFICES ASSUME Bad # {} PROVE FALSE
  OBVIOUS
<1>1. PICK s \in Bad : \A u \in Bad : u \subseteq s => u = s
  <2> HIDE DEF Bad
  <2>1. Bad \in SUBSET SUBSET T
    BY DEF Bad
  <2> QED BY <1>0, <2>1, Smallest
<1>2. iter[s] = Folded(g, base, c, iter, s) /\ jter[s] = Folded(h, base, d, jter, s)
  BY <1>0 DEF IsFold
<1>3. s # {}
  BY <1>0, <1>2 DEF Folded
<1>4. c[s] \in T /\ s \ {c[s]} \in SUBSET T /\ s \ {c[s]} # s /\ c[s] = d[s]
  BY <1>0, <1>3 DEF Chooses
<1>5. iter[s \ {c[s]}] = jter[s \ {c[s]}] /\ iter[s \ {c[s]}] \in V
  BY <1>1, <1>4
<1>6. iter[s] = g[<<c[s], iter[s \ {c[s]}]>>] /\ jter[s] = h[<<c[s], iter[s \ {c[s]}]>>]
  BY <1>2, <1>3, <1>4, <1>5 DEF Folded
<1>7. iter[s] = jter[s] /\ iter[s] \in V
  BY <1>0, <1>4, <1>5, <1>6
<1> QED BY <1>7

\* The functions that satisfy the definition of a fold are one function.
LEMMA FoldUnique ==
    ASSUME NEW S, NEW g, NEW base, NEW c, NEW V, Combines(S, g, base, c, V),
           NEW iter, IsFold(iter, S, g, base, c),
           NEW jter, Follows(jter, S, g, base, c, V)
    PROVE  jter[S] = iter[S]
<1>0. IsFiniteSet(S) /\ Chooses(c, S) /\ base \in V /\ g \in [S \X V -> V]
  BY DEF Combines
<1> DEFINE Bad == {s \in SUBSET S : jter[s] # iter[s]}
<1> SUFFICES ASSUME Bad # {} PROVE FALSE
  OBVIOUS
<1>1. PICK s \in Bad : \A u \in Bad : u \subseteq s => u = s
  <2> HIDE DEF Bad
  <2>1. Bad \in SUBSET SUBSET S
    BY DEF Bad
  <2> QED BY <1>0, <2>1, Smallest
<1>2. iter[s] = Folded(g, base, c, iter, s)
  BY DEF IsFold
<1>3. s # {}
  BY <1>0, <1>2 DEF Folded, Follows
<1>4. c[s] \in s /\ s \ {c[s]} \in SUBSET S /\ s \ {c[s]} # s
  BY <1>0, <1>3 DEF Chooses
<1>5. jter[s \ {c[s]}] = iter[s \ {c[s]}]
  BY <1>1, <1>4
<1>6. iter[s \ {c[s]}] \in V
  BY <1>4, FoldTyped
<1>7. jter[s] = g[<<c[s], jter[s \ {c[s]}]>>]
  BY <1>3, <1>5, <1>6 DEF Follows
<1>8. jter[s] = iter[s]
  BY <1>2, <1>3, <1>5, <1>7 DEF Folded
<1> QED BY <1>8

\* Sums.
Adds(f, S) == [xv \in S \X Int |-> f[xv[1]].delta + xv[2]]
Drawn(S) == [s \in SUBSET S |-> CHOOSE x \in s : TRUE]

LEMMA DrawnChooses == ASSUME NEW S PROVE Chooses(Drawn(S), S)
  BY DEF Chooses, Drawn

LEMMA SumFolds ==
    ASSUME NEW f, NEW S, IsFiniteSet(S), \A x \in S : f[x].delta \in Int
    PROVE  \E iter : IsFold(iter, S, Adds(f, S), 0, Drawn(S)) /\ SumOf(f, S) = iter[S]
<1> DEFINE Body(iter) ==
             iter = [s \in SUBSET S |->
                       IF s = {} THEN 0
                       ELSE f[CHOOSE x \in s : TRUE].delta + iter[s \ {CHOOSE x \in s : TRUE}]]
           jter == CHOOSE iter : Body(iter)
<1>1. SumOf(f, S) = jter[S]
  BY DEF SumOf, MapThenSumSet, MapThenFoldSet
<1>2. Combines(S, Adds(f, S), 0, Drawn(S), Int)
  BY DrawnChooses DEF Adds, Combines
<1>3. PICK iter : IsFold(iter, S, Adds(f, S), 0, Drawn(S))
  BY FoldExists, DrawnChooses
<1>4. \A s \in SUBSET S : iter[s] \in Int
  BY <1>2, <1>3, FoldTyped
<1>5. Body(iter)
  <2>1. ASSUME NEW s \in SUBSET S, s # {}
        PROVE  Adds(f, S)[<<Drawn(S)[s], iter[s \ {Drawn(S)[s]}]>>]
                 = f[CHOOSE x \in s : TRUE].delta + iter[s \ {CHOOSE x \in s : TRUE}]
    <3>1. Drawn(S)[s] = CHOOSE x \in s : TRUE
      BY DEF Drawn
    <3>2. Drawn(S)[s] \in S /\ s \ {Drawn(S)[s]} \in SUBSET S
      BY <2>1, DrawnChooses DEF Chooses
    <3> HIDE DEF Body
    <3> QED BY <1>4, <3>1, <3>2 DEF Adds
  <2> QED BY <1>3, <2>1 DEF IsFold, Folded
<1>6. Body(jter)
  <2> HIDE DEF Body
  <2> QED BY <1>5
<1>7. jter[S] = iter[S]
  <2>1. jter[{}] = 0
    BY <1>6
  <2>2. ASSUME NEW s \in SUBSET S, s # {}, jter[s \ {Drawn(S)[s]}] \in Int
        PROVE  jter[s] = Adds(f, S)[<<Drawn(S)[s], jter[s \ {Drawn(S)[s]}]>>]
    <3>1. Drawn(S)[s] = CHOOSE x \in s : TRUE
      BY DEF Drawn
    <3>2. Drawn(S)[s] \in S
      BY <2>2, DrawnChooses DEF Chooses
    <3>3. jter[s] = f[Drawn(S)[s]].delta + jter[s \ {Drawn(S)[s]}]
      BY <1>6, <2>2, <3>1
    <3> HIDE DEF jter
    <3> QED BY <2>2, <3>2, <3>3 DEF Adds
  <2> HIDE DEF jter, Body
  <2>3. Follows(jter, S, Adds(f, S), 0, Drawn(S), Int)
    BY <2>1, <2>2 DEF Follows
  <2> QED BY <1>2, <1>3, <2>3, FoldUnique
<1> HIDE DEF jter, Body
<1> QED BY <1>1, <1>3, <1>7

Deltas(f, S) == IsFiniteSet(S) /\ \A x \in S : f[x].delta \in Int

LEMMA SumDetermined ==
    ASSUME NEW f, NEW g, NEW S, Deltas(f, S), \A x \in S : f[x].delta = g[x].delta
    PROVE  SumOf(f, S) \in Int /\ SumOf(f, S) = SumOf(g, S)
<1>1. PICK iter : IsFold(iter, S, Adds(f, S), 0, Drawn(S)) /\ SumOf(f, S) = iter[S]
  BY SumFolds DEF Deltas
<1>2. PICK jter : IsFold(jter, S, Adds(g, S), 0, Drawn(S)) /\ SumOf(g, S) = jter[S]
  BY SumFolds DEF Deltas
<1>3. Combines(S, Adds(f, S), 0, Drawn(S), Int) /\ Adds(f, S) = Adds(g, S)
  BY DrawnChooses DEF Adds, Deltas, Combines
<1>4. iter[S] = jter[S]
  <2>1. \A x \in S, v \in Int : Adds(f, S)[<<x, v>>] = Adds(g, S)[<<x, v>>] /\ Adds(f, S)[<<x, v>>] \in Int
    BY <1>3 DEF Combines
  <2>2. IsFiniteSet(S) /\ Chooses(Drawn(S), S)
    BY DrawnChooses DEF Deltas
  <2>3. Alike(S, S, S, Adds(f, S), Adds(g, S), 0, Drawn(S), Drawn(S), Int)
    BY <2>1, <2>2 DEF Alike
  <2> QED BY <1>1, <1>2, <2>3, FoldsAgree
<1>5. iter[S] \in Int
  BY <1>1, <1>3, FoldTyped
<1> QED BY <1>1, <1>2, <1>4, <1>5

LEMMA SumUnfolds ==
    ASSUME NEW f, NEW S, Deltas(f, S)
    PROVE  /\ S = {} => SumOf(f, S) = 0
           /\ S # {} => \E x \in S : SumOf(f, S) = f[x].delta + SumOf(f, S \ {x})
<1>1. PICK iter : IsFold(iter, S, Adds(f, S), 0, Drawn(S)) /\ SumOf(f, S) = iter[S]
  BY SumFolds DEF Deltas
<1>2. iter[S] = Folded(Adds(f, S), 0, Drawn(S), iter, S)
  BY <1>1 DEF IsFold
<1>3. CASE S = {}
  BY <1>1, <1>2, <1>3 DEF Folded
<1>4. CASE S # {}
  <2> DEFINE x == Drawn(S)[S]
             T == S \ {x}
  <2>1. x \in S
    BY <1>4, DrawnChooses DEF Chooses
  <2>2. iter[S] = Adds(f, S)[<<x, iter[T]>>]
    BY <1>2, <1>4 DEF Folded
  <2> HIDE DEF x
  <2>3. Deltas(f, T)
    BY FS_Subset DEF Deltas
  <2>4. PICK jter : IsFold(jter, T, Adds(f, T), 0, Drawn(T)) /\ SumOf(f, T) = jter[T]
    BY <2>3, SumFolds DEF Deltas
  <2>5. iter[T] = jter[T]
    <3>1. \A y \in T, v \in Int : Adds(f, S)[<<y, v>>] = Adds(f, T)[<<y, v>>] /\ Adds(f, S)[<<y, v>>] \in Int
      BY DEF Adds, Deltas
    <3>2. IsFiniteSet(T) /\ Chooses(Drawn(S), T) /\ T \subseteq S
      BY <2>3, FS_Subset DEF Deltas, Drawn, Chooses
    <3>3. \A s \in SUBSET T : s # {} => Drawn(S)[s] = Drawn(T)[s]
      BY DEF Drawn
    <3> HIDE DEF T
    <3>4. Alike(T, S, T, Adds(f, S), Adds(f, T), 0, Drawn(S), Drawn(T), Int)
      BY <3>1, <3>2, <3>3 DEF Alike
    <3> QED BY <1>1, <2>4, <3>4, FoldsAgree
  <2>6. SumOf(f, T) \in Int
    BY <2>3, SumDetermined
  <2>7. iter[S] = f[x].delta + SumOf(f, T)
    <3>1. iter[T] = SumOf(f, T)
      BY <2>4, <2>5
    <3> HIDE DEF T
    <3> QED BY <2>1, <2>2, <2>6, <3>1 DEF Adds
  <2> QED BY <1>1, <1>4, <2>1, <2>7
<1> QED BY <1>3, <1>4

\* Any member of a sum can be taken out first.
LEMMA SumRemoves ==
    ASSUME NEW f, NEW S, Deltas(f, S), NEW m \in S
    PROVE  SumOf(f, S) = f[m].delta + SumOf(f, S \ {m})
<1> DEFINE Bad == {s \in SUBSET S : ~ \A x \in s : SumOf(f, s) = f[x].delta + SumOf(f, s \ {x})}
<1>0. \A s \in SUBSET S : Deltas(f, s) /\ SumOf(f, s) \in Int
  <2>1. \A s \in SUBSET S : Deltas(f, s)
    BY FS_Subset DEF Deltas
  <2> QED BY <2>1, SumDetermined
<1> SUFFICES ASSUME Bad # {} PROVE FALSE
  OBVIOUS
<1>1. PICK s \in Bad : \A u \in Bad : u \subseteq s => u = s
  <2> HIDE DEF Bad
  <2>1. Bad \in SUBSET SUBSET S /\ IsFiniteSet(S)
    BY DEF Bad, Deltas
  <2> QED BY <2>1, Smallest
<1>2. PICK x \in s : SumOf(f, s) # f[x].delta + SumOf(f, s \ {x})
  OBVIOUS
<1>3. s \in SUBSET S /\ s # {}
  OBVIOUS
<1>4. PICK d \in s : SumOf(f, s) = f[d].delta + SumOf(f, s \ {d})
  BY <1>0, <1>3, SumUnfolds
<1>5. x # d
  BY <1>2, <1>4
<1>6. /\ s \ {d} \in SUBSET S /\ s \ {d} # s /\ x \in s \ {d}
      /\ s \ {x} \in SUBSET S /\ s \ {x} # s /\ d \in s \ {x}
      /\ (s \ {d}) \ {x} = (s \ {x}) \ {d}
      /\ (s \ {x}) \ {d} \in SUBSET S
  BY <1>3, <1>4, <1>5
<1>7. SumOf(f, s \ {d}) = f[x].delta + SumOf(f, (s \ {d}) \ {x})
  BY <1>1, <1>6
<1>8. SumOf(f, s \ {x}) = f[d].delta + SumOf(f, (s \ {x}) \ {d})
  BY <1>1, <1>6
<1> DEFINE rest == (s \ {x}) \ {d}
<1>9. SumOf(f, rest) \in Int /\ f[x].delta \in Int /\ f[d].delta \in Int
  BY <1>0, <1>3, <1>6 DEF Deltas
<1>10. SumOf(f, s \ {d}) = f[x].delta + SumOf(f, rest)
  BY <1>6, <1>7
<1>11. SumOf(f, s \ {x}) = f[d].delta + SumOf(f, rest)
  BY <1>8
<1> HIDE DEF rest, Bad
<1> QED BY <1>2, <1>4, <1>9, <1>10, <1>11

\* A sum of gains is not negative, and no part of it is larger.
LEMMA SumOfParts ==
    ASSUME NEW f, NEW S, Deltas(f, S), \A x \in S : f[x].delta >= 0, NEW T \in SUBSET S
    PROVE  /\ SumOf(f, T) \in Int /\ SumOf(f, S) \in Int
           /\ 0 <= SumOf(f, T) /\ SumOf(f, T) <= SumOf(f, S)
<1>0. \A s \in SUBSET S : Deltas(f, s) /\ SumOf(f, s) \in Int
  <2>1. \A s \in SUBSET S : Deltas(f, s)
    BY FS_Subset DEF Deltas
  <2> QED BY <2>1, SumDetermined
<1>1. \A s \in SUBSET S : 0 <= SumOf(f, s)
  <2> DEFINE Bad == {s \in SUBSET S : ~ (0 <= SumOf(f, s))}
  <2> SUFFICES ASSUME Bad # {} PROVE FALSE
    OBVIOUS
  <2>1. PICK s \in Bad : \A u \in Bad : u \subseteq s => u = s
    <3> HIDE DEF Bad
    <3>1. Bad \in SUBSET SUBSET S /\ IsFiniteSet(S)
      BY DEF Bad, Deltas
    <3> QED BY <3>1, Smallest
  <2>2. s # {}
    <3> SUFFICES ASSUME s = {} PROVE FALSE
      OBVIOUS
    <3>1. SumOf(f, s) = 0
      BY <1>0, SumUnfolds
    <3> QED BY <3>1
  <2>3. PICK x \in s : SumOf(f, s) = f[x].delta + SumOf(f, s \ {x})
    BY <1>0, <2>2, SumUnfolds
  <2>4. s \ {x} \in SUBSET S /\ s \ {x} # s
    OBVIOUS
  <2>5. 0 <= SumOf(f, s \ {x})
    BY <2>1, <2>4
  <2>6. f[x].delta \in Int /\ f[x].delta >= 0 /\ SumOf(f, s \ {x}) \in Int
    BY <1>0, <2>4 DEF Deltas
  <2>7. 0 <= SumOf(f, s)
    BY <2>3, <2>5, <2>6
  <2> QED BY <2>7
<1>2. \A s \in SUBSET S : T \subseteq s => SumOf(f, T) <= SumOf(f, s)
  <2> DEFINE Bad == {s \in SUBSET S : T \subseteq s /\ ~ (SumOf(f, T) <= SumOf(f, s))}
  <2> SUFFICES ASSUME Bad # {} PROVE FALSE
    OBVIOUS
  <2>1. PICK s \in Bad : \A u \in Bad : u \subseteq s => u = s
    <3> HIDE DEF Bad
    <3>1. Bad \in SUBSET SUBSET S /\ IsFiniteSet(S)
      BY DEF Bad, Deltas
    <3> QED BY <3>1, Smallest
  <2>2. s # T /\ T \subseteq s
    BY <1>0
  <2>3. PICK x \in s : x \notin T
    BY <2>2
  <2>4. SumOf(f, s) = f[x].delta + SumOf(f, s \ {x})
    BY <1>0, SumRemoves
  <2>5. s \ {x} \in SUBSET S /\ s \ {x} # s /\ T \subseteq s \ {x}
    BY <2>2, <2>3
  <2>6. SumOf(f, T) <= SumOf(f, s \ {x})
    BY <2>1, <2>5
  <2>7. /\ f[x].delta \in Int /\ f[x].delta >= 0
        /\ SumOf(f, s \ {x}) \in Int /\ SumOf(f, T) \in Int
    BY <1>0, <2>5 DEF Deltas
  <2>8. SumOf(f, T) <= SumOf(f, s)
    BY <2>4, <2>6, <2>7
  <2> QED BY <2>8
<1> QED BY <1>0, <1>1, <1>2

\* So many points of at most L each.
LEMMA SumBounded ==
    ASSUME NEW f, NEW S, Deltas(f, S), NEW L \in Nat, \A x \in S : f[x].delta <= L
    PROVE  SumOf(f, S) <= Cardinality(S) * L
<1>0. \A s \in SUBSET S : Deltas(f, s) /\ SumOf(f, s) \in Int /\ Cardinality(s) \in Nat
  <2>1. \A s \in SUBSET S : Deltas(f, s)
    BY FS_Subset DEF Deltas
  <2> QED BY <2>1, SumDetermined, FS_CardinalityType DEF Deltas
<1> DEFINE Bad == {s \in SUBSET S : ~ (SumOf(f, s) <= Cardinality(s) * L)}
<1> SUFFICES ASSUME Bad # {} PROVE FALSE
  OBVIOUS
<1>1. PICK s \in Bad : \A u \in Bad : u \subseteq s => u = s
  <2> HIDE DEF Bad
  <2>1. Bad \in SUBSET SUBSET S /\ IsFiniteSet(S)
    BY DEF Bad, Deltas
  <2> QED BY <2>1, Smallest
<1>2. s # {}
  <2> SUFFICES ASSUME s = {} PROVE FALSE
    OBVIOUS
  <2>1. SumOf(f, s) = 0 /\ Cardinality(s) = 0
    BY <1>0, SumUnfolds, FS_EmptySet
  <2> QED BY <2>1
<1>3. PICK x \in s : SumOf(f, s) = f[x].delta + SumOf(f, s \ {x})
  BY <1>0, <1>2, SumUnfolds
<1>4. s \ {x} \in SUBSET S /\ s \ {x} # s
  OBVIOUS
<1>5. SumOf(f, s \ {x}) <= Cardinality(s \ {x}) * L
  BY <1>1, <1>4
<1>6. Cardinality(s \ {x}) = Cardinality(s) - 1
  BY <1>0, FS_RemoveElement DEF Deltas
<1>7. /\ f[x].delta \in Int /\ f[x].delta <= L
      /\ SumOf(f, s \ {x}) \in Int /\ Cardinality(s) \in Nat
  BY <1>0, <1>4 DEF Deltas
<1> HIDE DEF Bad
<1>8. SumOf(f, s \ {x}) <= (Cardinality(s) - 1) * L
  BY <1>5, <1>6
<1>9. SumOf(f, s) <= Cardinality(s) * L
  <2>1. (Cardinality(s) - 1) * L = Cardinality(s) * L - L /\ Cardinality(s) * L \in Int
    BY <1>7
  <2> QED BY <1>3, <1>7, <1>8, <2>1
<1> QED BY <1>9 DEF Bad

-----------------------------------------------------------------------------
(* The formula.                                                            *)

LEMMA Larger == \A a, b \in Int : Max({a, b}) = IF a >= b THEN a ELSE b
<1> SUFFICES ASSUME NEW a \in Int, NEW b \in Int PROVE Max({a, b}) = IF a >= b THEN a ELSE b
  OBVIOUS
<1> DEFINE m == IF a >= b THEN a ELSE b
<1>1. m \in {a, b} /\ \A y \in {a, b} : m >= y
  OBVIOUS
<1>2. \A x \in {a, b} : (\A y \in {a, b} : x >= y) => x = m
  OBVIOUS
<1> HIDE DEF m
<1>3. Max({a, b}) = m
  BY <1>1, <1>2 DEF Max
<1> QED BY <1>3 DEF m

LEMMA Smaller == \A a, b \in Int : Min({a, b}) = IF a <= b THEN a ELSE b
<1> SUFFICES ASSUME NEW a \in Int, NEW b \in Int PROVE Min({a, b}) = IF a <= b THEN a ELSE b
  OBVIOUS
<1> DEFINE m == IF a <= b THEN a ELSE b
<1>1. m \in {a, b} /\ \A y \in {a, b} : m <= y
  OBVIOUS
<1>2. \A x \in {a, b} : (\A y \in {a, b} : x <= y) => x = m
  OBVIOUS
<1> HIDE DEF m
<1>3. Min({a, b}) = m
  BY <1>1, <1>2 DEF Min
<1> QED BY <1>3 DEF m

LEMMA Floored ==
    ASSUME NEW points \in Int
    PROVE  Floor(points) \in Nat /\ Floor(points) = IF points < 0 THEN 0 ELSE points
  BY Larger DEF Floor

\* A gain is never enlarged, neither by its scaling nor by the cap, and what the
\* cap leaves fits under it.
LEMMA ScaledBounded ==
    ASSUME NEW gain \in Nat, NEW current \in Nat
    PROVE  Scaled(gain, current) \in Nat /\ Scaled(gain, current) <= gain
<1>1. Baseline \in Nat \ {0}
  BY PointAssumption
<1>2. CASE current < Baseline
  BY <1>2 DEF Scaled
<1>3. CASE current >= Baseline
  <2> DEFINE a == 2 * Baseline * gain
             b == current + Baseline
  <2>1. a \in Nat /\ b \in Nat \ {0}
    BY <1>1
  <2>2. a <= gain * b
    BY <1>1, <1>3
  <2> HIDE DEF a, b
  <2>3. a \div b \in Nat /\ a \div b <= gain
    BY <2>1, <2>2
  <2>4. Scaled(gain, current) = a \div b
    BY <1>1, <1>3 DEF Scaled, a, b
  <2> QED BY <2>3, <2>4
<1> QED BY <1>1, <1>2, <1>3

LEMMA RoomBounded ==
    ASSUME NEW gain \in Nat, NEW gained \in Int
    PROVE  /\ Room(gain, gained) \in Nat
           /\ Room(gain, gained) <= gain
           /\ Room(gain, gained) > 0 => gained + Room(gain, gained) <= Cap
<1>1. Cap \in Nat /\ Cap - gained \in Int
  BY PointAssumption
<1>2. Floor(Cap - gained) \in Nat /\ Floor(Cap - gained) = IF Cap - gained < 0 THEN 0 ELSE Cap - gained
  BY <1>1, Floored
<1>3. Room(gain, gained) = IF gain <= Floor(Cap - gained) THEN gain ELSE Floor(Cap - gained)
  BY <1>2, Smaller DEF Room
<1> QED BY <1>1, <1>2, <1>3

-----------------------------------------------------------------------------
(* The replay.                                                             *)

ReplayStates == [score : Nat, day : Int, gained : Int]
Start == [score |-> Baseline, day |-> 0, gained |-> 0]
Replays(rows) == [iv \in (DOMAIN rows) \X ReplayStates |-> ReplayRow(iv[2], rows[iv[1]])]
Lasts(rows) == [is \in SUBSET DOMAIN rows |-> Latest(rows, is)]

LEMMA DayIsPositive == Day \in Nat \ {0}
  BY ClockAssumption DEF Day

LEMMA ReplayRowTyped ==
    ASSUME NEW replay \in ReplayStates, NEW entry \in Rows
    PROVE  ReplayRow(replay, entry) \in ReplayStates
<1>1. /\ replay.score \in Nat /\ replay.gained \in Int
      /\ entry.delta \in Int /\ entry.at \in Nat /\ entry.kind \in Events \cup {"stake"}
      /\ entry.at \div Day \in Int
  BY DayIsPositive, ClockAssumption DEF ReplayStates, Rows, Kinds
<1> DEFINE gained == ReplayedBefore(replay, entry)
           base == Base[entry.kind]
           delta == CASE entry.kind = "stake" -> entry.delta
                      [] entry.kind # "stake" /\ base > 0 -> Room(Scaled(base, replay.score), gained)
                      [] OTHER -> base
<1>2. gained \in Int
  BY <1>1 DEF ReplayedBefore
<1>3. entry.kind # "stake" => base \in Int
  <2> SUFFICES ASSUME entry.kind # "stake" PROVE base \in Int
    OBVIOUS
  <2>1. entry.kind \in Events
    BY <1>1
  <2> QED BY <2>1, EventAssumption
<1>4. entry.kind # "stake" /\ base > 0 => Room(Scaled(base, replay.score), gained) \in Nat
  <2> SUFFICES ASSUME entry.kind # "stake", base > 0
               PROVE  Room(Scaled(base, replay.score), gained) \in Nat
    OBVIOUS
  <2>1. base \in Nat
    BY <1>3
  <2> HIDE DEF base, gained
  <2>2. Scaled(base, replay.score) \in Nat
    BY <1>1, <2>1, ScaledBounded
  <2> QED BY <1>2, <2>2, RoomBounded
<1>5. delta \in Int
  <2>1. CASE entry.kind = "stake"
    BY <1>1, <2>1
  <2>2. CASE entry.kind # "stake" /\ base > 0
    BY <1>4, <2>2
  <2>3. CASE entry.kind # "stake" /\ ~(base > 0)
    BY <1>3, <2>3
  <2> QED BY <2>1, <2>2, <2>3
<1>6. Floor(replay.score + delta) \in Nat
  BY <1>1, <1>5, Floored
<1>7. ReplayRow(replay, entry) =
        [score |-> Floor(replay.score + delta), day |-> entry.at \div Day,
         gained |-> IF entry.kind # "stake" /\ base > 0 THEN gained + delta ELSE gained]
  BY DEF ReplayRow
<1> HIDE DEF gained, base, delta
<1> QED BY <1>1, <1>2, <1>5, <1>6, <1>7 DEF ReplayStates

LEMMA RowsAreRows ==
    ASSUME NEW rows \in Seq(Rows), NEW i \in DOMAIN rows
    PROVE  rows[i] \in Rows
  OBVIOUS

LEMMA LatestIsLast ==
    ASSUME NEW rows \in Seq(Rows), NEW is \in SUBSET DOMAIN rows, is # {}
    PROVE  Latest(rows, is) \in is /\ \A j \in is : rows[j].at <= rows[Latest(rows, is)].at
<1>1. ASSUME NEW i \in is PROVE rows[i].at \in Nat /\ MaxClock - rows[i].at \in Nat
  <2>1. rows[i] \in Rows
    BY RowsAreRows
  <2>2. rows[i].at \in 0 .. MaxClock
    BY <2>1 DEF Rows
  <2> QED BY <2>2, ClockAssumption
<1> DEFINE Ages == {MaxClock - rows[i].at : i \in is}
<1>2. Ages \in SUBSET Nat /\ Ages # {}
  BY <1>1
<1>3. PICK n \in Ages : \A m \in Ages : n <= m
  BY <1>2, Least
<1>4. PICK i \in is : n = MaxClock - rows[i].at
  OBVIOUS
<1>5. ASSUME NEW j \in is PROVE rows[j].at <= rows[i].at
  <2>1. n <= MaxClock - rows[j].at
    BY <1>3
  <2>2. MaxClock - rows[i].at <= MaxClock - rows[j].at
    BY <1>4, <2>1
  <2>3. rows[i].at \in Nat /\ rows[j].at \in Nat /\ MaxClock \in Nat
    BY <1>1, ClockAssumption
  <2> DEFINE a == rows[i].at
             b == rows[j].at
  <2>4. a \in Nat /\ b \in Nat /\ MaxClock - a <= MaxClock - b
    BY <2>2, <2>3
  <2> HIDE DEF a, b
  <2>5. b <= a
    BY <2>3, <2>4
  <2> QED BY <2>5 DEF a, b
<1> QED BY <1>5 DEF Latest

LEMMA ReplayCombines ==
    ASSUME NEW rows \in Seq(Rows)
    PROVE  Combines(DOMAIN rows, Replays(rows), Start, Lasts(rows), ReplayStates)
<1>1. IsFiniteSet(DOMAIN rows)
  BY FS_Interval
<1>2. Chooses(Lasts(rows), DOMAIN rows)
  BY LatestIsLast DEF Chooses, Lasts
<1>3. Start \in ReplayStates
  BY PointAssumption DEF Start, ReplayStates
<1>4. Replays(rows) \in [(DOMAIN rows) \X ReplayStates -> ReplayStates]
  BY ReplayRowTyped DEF Replays
<1> QED BY <1>1, <1>2, <1>3, <1>4 DEF Combines

LEMMA ReplayFolds ==
    ASSUME NEW rows \in Seq(Rows)
    PROVE  \E iter : /\ IsFold(iter, DOMAIN rows, Replays(rows), Start, Lasts(rows))
                     /\ Replayed(rows) = iter[DOMAIN rows]
<1> DEFINE S == DOMAIN rows
           Body(iter) ==
             iter = [s \in SUBSET S |->
                       IF s = {} THEN Start
                       ELSE ReplayRow(iter[s \ {Latest(rows, s)}], rows[Latest(rows, s)])]
           jter == CHOOSE iter : Body(iter)
<1>1. Replayed(rows) = jter[S]
  BY DEF Replayed, MapThenFoldSet, Start
<1>2. Combines(S, Replays(rows), Start, Lasts(rows), ReplayStates)
  BY ReplayCombines
<1>3. PICK iter : IsFold(iter, S, Replays(rows), Start, Lasts(rows))
  BY <1>2, FoldExists DEF Combines
<1>4. \A s \in SUBSET S : iter[s] \in ReplayStates
  BY <1>2, <1>3, FoldTyped
<1>5. ASSUME NEW s \in SUBSET S, s # {}
      PROVE  /\ Lasts(rows)[s] = Latest(rows, s)
             /\ Latest(rows, s) \in S
             /\ s \ {Latest(rows, s)} \in SUBSET S
  BY <1>5, LatestIsLast DEF Lasts
<1>6. Body(iter)
  <2>1. ASSUME NEW s \in SUBSET S, s # {}
        PROVE  Replays(rows)[<<Lasts(rows)[s], iter[s \ {Lasts(rows)[s]}]>>]
                 = ReplayRow(iter[s \ {Latest(rows, s)}], rows[Latest(rows, s)])
    <3>1. Latest(rows, s) \in DOMAIN rows /\ iter[s \ {Latest(rows, s)}] \in ReplayStates
      BY <1>4, <1>5, <2>1
    <3> QED BY <1>5, <2>1, <3>1 DEF Replays
  <2> QED BY <1>3, <2>1 DEF IsFold, Folded
<1>7. Body(jter)
  <2> HIDE DEF Body
  <2> QED BY <1>6
<1>8. Follows(jter, S, Replays(rows), Start, Lasts(rows), ReplayStates)
  <2>1. jter[{}] = Start
    BY <1>7
  <2>2. ASSUME NEW s \in SUBSET S, s # {}, jter[s \ {Lasts(rows)[s]}] \in ReplayStates
        PROVE  jter[s] = Replays(rows)[<<Lasts(rows)[s], jter[s \ {Lasts(rows)[s]}]>>]
    <3>1. jter[s] = ReplayRow(jter[s \ {Latest(rows, s)}], rows[Latest(rows, s)])
      BY <1>7, <2>2
    <3> HIDE DEF jter
    <3>2. /\ Lasts(rows)[s] = Latest(rows, s)
          /\ Latest(rows, s) \in DOMAIN rows
          /\ jter[s \ {Latest(rows, s)}] \in ReplayStates
      BY <1>5, <2>2
    <3> QED BY <3>1, <3>2 DEF Replays
  <2> HIDE DEF jter, Body, S
  <2> QED BY <2>1, <2>2 DEF Follows
<1> HIDE DEF jter, Body, S
<1>9. jter[S] = iter[S]
  BY <1>2, <1>3, <1>8, FoldUnique
<1> QED BY <1>1, <1>3, <1>9 DEF S

LEMMA ReplayTyped == ASSUME NEW rows \in Seq(Rows) PROVE Replayed(rows) \in ReplayStates
<1>1. PICK iter : /\ IsFold(iter, DOMAIN rows, Replays(rows), Start, Lasts(rows))
                  /\ Replayed(rows) = iter[DOMAIN rows]
  BY ReplayFolds
<1>2. \A s \in SUBSET DOMAIN rows : iter[s] \in ReplayStates
  BY <1>1, ReplayCombines, FoldTyped
<1> QED BY <1>1, <1>2

LEMMA ReplayOfNothing == Replayed(<<>>) = Start
<1>0. <<>> \in Seq(Rows)
  OBVIOUS
<1>1. PICK iter : /\ IsFold(iter, DOMAIN <<>>, Replays(<<>>), Start, Lasts(<<>>))
                  /\ Replayed(<<>>) = iter[DOMAIN <<>>]
  BY <1>0, ReplayFolds
<1>2. DOMAIN <<>> = {}
  OBVIOUS
<1> QED BY <1>1, <1>2 DEF IsFold, Folded

\* An entry that is later than all others is replayed after them.
LEMMA ReplayAppends ==
    ASSUME NEW rows \in Seq(Rows), NEW entry \in Rows, InOrder(Append(rows, entry))
    PROVE  Replayed(Append(rows, entry)) = ReplayRow(Replayed(rows), entry)
<1> DEFINE more == Append(rows, entry)
           n == Len(rows)
           S == DOMAIN more
           T == DOMAIN rows
<1>1. /\ more \in Seq(Rows) /\ n \in Nat /\ S = 1 .. n + 1 /\ T = 1 .. n
      /\ more[n + 1] = entry /\ \A i \in T : more[i] = rows[i]
  OBVIOUS
<1>2. PICK iter : IsFold(iter, S, Replays(more), Start, Lasts(more)) /\ Replayed(more) = iter[S]
  BY <1>1, ReplayFolds
<1>3. PICK jter : IsFold(jter, T, Replays(rows), Start, Lasts(rows)) /\ Replayed(rows) = jter[T]
  BY ReplayFolds
<1>4. \A i, j \in S : i < j => more[i].at < more[j].at
  BY DEF InOrder
<1>0. ASSUME NEW i \in S PROVE more[i].at \in Nat
  <2> HIDE DEF more
  <2>1. more[i] \in Rows
    BY <1>1, RowsAreRows
  <2> QED BY <2>1, ClockAssumption DEF Rows
<1> HIDE DEF more, n, S, T
<1>5. ASSUME NEW s \in SUBSET S, s # {}, NEW i \in s, \A j \in s : more[j].at <= more[i].at
      PROVE  Lasts(more)[s] = i
  <2>1. Latest(more, s) \in s /\ \A j \in s : more[j].at <= more[Latest(more, s)].at
    BY <1>1, <1>5, LatestIsLast DEF S
  <2>2. Latest(more, s) \in S /\ i \in S
    BY <1>5, <2>1
  <2>3. /\ more[Latest(more, s)].at \in Nat /\ more[i].at \in Nat
        /\ more[i].at <= more[Latest(more, s)].at /\ more[Latest(more, s)].at <= more[i].at
    BY <1>0, <1>5, <2>1, <2>2
  <2>4. ~(Latest(more, s) < i) /\ ~(i < Latest(more, s))
    BY <1>4, <2>2, <2>3
  <2>5. Latest(more, s) \in Int /\ i \in Int
    BY <1>1, <2>2
  <2>6. Latest(more, s) = i
    BY <2>4, <2>5
  <2> QED BY <2>6 DEF Lasts, S
<1>6. Lasts(more)[S] = n + 1
  <2>1. n + 1 \in S
    BY <1>1
  <2>2. ASSUME NEW j \in S PROVE more[j].at <= more[n + 1].at
    <3>1. j = n + 1 \/ j < n + 1
      BY <1>1
    <3>2. more[j].at \in Nat /\ more[n + 1].at \in Nat
      BY <1>0, <2>1
    <3> QED BY <1>4, <2>1, <3>1, <3>2
  <2> QED BY <1>5, <2>1, <2>2
<1>7. S \ {n + 1} = T
  BY <1>1
<1>8. iter[S] = Replays(more)[<<n + 1, iter[T]>>]
  <2>1. S # {}
    <3>1. n + 1 \in 1 .. n + 1
      BY <1>1
    <3> QED BY <1>1, <3>1
  <2>2. PICK pair : pair = <<n + 1, iter[T]>>
    OBVIOUS
  <2>3. EndsWith(iter, S, pair, Replays(more), Start, Lasts(more))
    BY <1>2, <1>6, <1>7, <2>1, <2>2 DEF EndsWith
  <2>4. iter[S] = Replays(more)[pair]
    BY <2>3, FoldUnfolds
  <2> QED BY <2>2, <2>4
<1>9. iter[T] = jter[T]
  <2>1. T \subseteq S /\ IsFiniteSet(T)
    BY <1>1, FS_Interval
  <2>2. Chooses(Lasts(more), T)
    BY <1>1, <2>1, LatestIsLast DEF Chooses, Lasts, S
  <2>3. ASSUME NEW s \in SUBSET T, s # {} PROVE Lasts(more)[s] = Lasts(rows)[s]
    <3>1. Latest(rows, s) \in s /\ \A j \in s : rows[j].at <= rows[Latest(rows, s)].at
      BY <2>3, LatestIsLast DEF T
    <3>2. \A j \in s : more[j].at <= more[Latest(rows, s)].at
      BY <1>1, <3>1
    <3>3. Lasts(more)[s] = Latest(rows, s)
      BY <1>5, <2>1, <2>3, <3>1, <3>2
    <3> QED BY <3>3 DEF Lasts, T
  <2>4. Start \in ReplayStates
    BY PointAssumption DEF Start, ReplayStates
  <2>5. ASSUME NEW x \in T, NEW v \in ReplayStates
        PROVE  /\ Replays(more)[<<x, v>>] = Replays(rows)[<<x, v>>]
               /\ Replays(more)[<<x, v>>] \in ReplayStates
    <3>1. Replays(more)[<<x, v>>] = ReplayRow(v, rows[x])
      BY <1>1, <2>1 DEF Replays, S
    <3>2. Replays(rows)[<<x, v>>] = ReplayRow(v, rows[x])
      BY DEF Replays, T
    <3>3. rows[x] \in Rows
      BY DEF T
    <3> QED BY <3>1, <3>2, <3>3, ReplayRowTyped
  <2>6. Alike(T, S, T, Replays(more), Replays(rows), Start, Lasts(more), Lasts(rows), ReplayStates)
    BY <2>1, <2>2, <2>3, <2>4, <2>5 DEF Alike
  <2> QED BY <1>2, <1>3, <2>6, FoldsAgree
<1>10. Replayed(rows) \in ReplayStates
  BY ReplayTyped
<1>11. Replays(more)[<<n + 1, Replayed(rows)>>] = ReplayRow(Replayed(rows), entry)
  BY <1>1, <1>10 DEF Replays, S
<1> QED BY <1>2, <1>3, <1>8, <1>9, <1>11 DEF more

-----------------------------------------------------------------------------
(* The points after a list of rows.                                        *)

Step(points, entry) == IF points + entry.delta < 0 THEN 0 ELSE points + entry.delta
Steps(rows) == [iv \in (DOMAIN rows) \X Nat |-> Step(iv[2], rows[iv[1]])]
Ends(rows) == [is \in SUBSET DOMAIN rows |-> Max(is)]

LEMMA MaxIsLast ==
    ASSUME NEW n \in Nat, NEW is \in SUBSET (1 .. n), is # {}
    PROVE  Max(is) \in is /\ \A j \in is : j <= Max(is)
<1> DEFINE Rests == {n - i : i \in is}
<1>1. Rests \in SUBSET Nat /\ Rests # {}
  <2>1. \A i \in is : n - i \in Nat
    OBVIOUS
  <2> QED BY <2>1
<1>2. PICK m \in Rests : \A k \in Rests : m <= k
  BY <1>1, Least
<1>3. PICK i \in is : m = n - i
  OBVIOUS
<1>4. ASSUME NEW j \in is PROVE i >= j
  <2>1. m <= n - j
    BY <1>2
  <2>2. i \in Nat /\ j \in Nat /\ n - i <= n - j
    BY <1>3, <2>1
  <2> QED BY <2>2
<1>5. Max(is) \in is /\ \A j \in is : Max(is) >= j
  BY <1>4 DEF Max
<1> QED BY <1>5

LEMMA RowOf ==
    ASSUME NEW rows \in Seq(Rows)
    PROVE  /\ Len(rows) \in Nat /\ DOMAIN rows = 1 .. Len(rows)
           /\ \A i \in DOMAIN rows : rows[i] \in Rows /\ rows[i].delta \in Int /\ rows[i].at \in Nat
<1>1. ASSUME NEW i \in DOMAIN rows PROVE rows[i] \in Rows
  OBVIOUS
<1>2. \A entry \in Rows : entry.delta \in Int /\ entry.at \in Nat
  BY ClockAssumption DEF Rows
<1> QED BY <1>1, <1>2

LEMMA StepTyped == ASSUME NEW points \in Nat, NEW entry, entry.delta \in Int PROVE Step(points, entry) \in Nat
  BY DEF Step

LEMMA StepsCombine ==
    ASSUME NEW rows \in Seq(Rows), NEW from \in Nat
    PROVE  Combines(DOMAIN rows, Steps(rows), from, Ends(rows), Nat)
<1>1. IsFiniteSet(DOMAIN rows)
  BY FS_Interval
<1>2. Chooses(Ends(rows), DOMAIN rows)
  BY RowOf, MaxIsLast DEF Chooses, Ends
<1>3. Steps(rows) \in [(DOMAIN rows) \X Nat -> Nat]
  BY RowOf, StepTyped DEF Steps
<1> QED BY <1>1, <1>2, <1>3 DEF Combines

LEMMA PointsFold ==
    ASSUME NEW rows \in Seq(Rows), NEW from \in Nat
    PROVE  \E iter : /\ IsFold(iter, DOMAIN rows, Steps(rows), from, Ends(rows))
                     /\ Sum(from, rows) = iter[DOMAIN rows]
<1> DEFINE S == DOMAIN rows
           Body(iter) ==
             iter = [s \in SUBSET S |->
                       IF s = {} THEN from
                       ELSE Step(iter[s \ {Max(s)}], rows[Max(s)])]
           jter == CHOOSE iter : Body(iter)
<1>1. Sum(from, rows) = jter[S]
  BY DEF Sum, FoldLeft, MapThenFoldSet, Step
<1>2. Combines(S, Steps(rows), from, Ends(rows), Nat)
  BY StepsCombine
<1>3. PICK iter : IsFold(iter, S, Steps(rows), from, Ends(rows))
  BY <1>2, FoldExists DEF Combines
<1>4. \A s \in SUBSET S : iter[s] \in Nat
  BY <1>2, <1>3, FoldTyped
<1>5. ASSUME NEW s \in SUBSET S, s # {}
      PROVE  /\ Ends(rows)[s] = Max(s)
             /\ Max(s) \in S
             /\ s \ {Max(s)} \in SUBSET S
  BY <1>5, RowOf, MaxIsLast DEF Ends
<1>6. Body(iter)
  <2>1. ASSUME NEW s \in SUBSET S, s # {}
        PROVE  Steps(rows)[<<Ends(rows)[s], iter[s \ {Ends(rows)[s]}]>>]
                 = Step(iter[s \ {Max(s)}], rows[Max(s)])
    <3>1. Max(s) \in DOMAIN rows /\ iter[s \ {Max(s)}] \in Nat
      BY <1>4, <1>5, <2>1
    <3> QED BY <1>5, <2>1, <3>1 DEF Steps
  <2> QED BY <1>3, <2>1 DEF IsFold, Folded
<1>7. Body(jter)
  <2> HIDE DEF Body
  <2> QED BY <1>6
<1>8. Follows(jter, S, Steps(rows), from, Ends(rows), Nat)
  <2>1. jter[{}] = from
    BY <1>7
  <2>2. ASSUME NEW s \in SUBSET S, s # {}, jter[s \ {Ends(rows)[s]}] \in Nat
        PROVE  jter[s] = Steps(rows)[<<Ends(rows)[s], jter[s \ {Ends(rows)[s]}]>>]
    <3>1. jter[s] = Step(jter[s \ {Max(s)}], rows[Max(s)])
      BY <1>7, <2>2
    <3> HIDE DEF jter
    <3>2. /\ Ends(rows)[s] = Max(s)
          /\ Max(s) \in DOMAIN rows
          /\ jter[s \ {Max(s)}] \in Nat
      BY <1>5, <2>2
    <3> QED BY <3>1, <3>2 DEF Steps
  <2> HIDE DEF jter, Body, S
  <2> QED BY <2>1, <2>2 DEF Follows
<1> HIDE DEF jter, Body, S
<1>9. jter[S] = iter[S]
  BY <1>2, <1>3, <1>8, FoldUnique
<1> QED BY <1>1, <1>3, <1>9 DEF S

LEMMA PointsOfNothing == ASSUME NEW from \in Nat PROVE Sum(from, <<>>) = from
<1>0. <<>> \in Seq(Rows)
  OBVIOUS
<1>1. PICK iter : /\ IsFold(iter, DOMAIN <<>>, Steps(<<>>), from, Ends(<<>>))
                  /\ Sum(from, <<>>) = iter[DOMAIN <<>>]
  BY <1>0, PointsFold
<1>2. DOMAIN <<>> = {}
  OBVIOUS
<1> QED BY <1>1, <1>2 DEF IsFold, Folded

\* An entry committed after the others is added to what they leave.
LEMMA PointsAppend ==
    ASSUME NEW rows \in Seq(Rows), NEW entry \in Rows, NEW from \in Nat
    PROVE  Sum(from, Append(rows, entry)) = Step(Sum(from, rows), entry)
<1> DEFINE more == Append(rows, entry)
           n == Len(rows)
           S == DOMAIN more
           T == DOMAIN rows
<1>1. /\ more \in Seq(Rows) /\ n \in Nat /\ S = 1 .. n + 1 /\ T = 1 .. n
      /\ more[n + 1] = entry /\ \A i \in T : more[i] = rows[i]
  OBVIOUS
<1>2. PICK iter : IsFold(iter, S, Steps(more), from, Ends(more)) /\ Sum(from, more) = iter[S]
  BY <1>1, PointsFold
<1>3. PICK jter : IsFold(jter, T, Steps(rows), from, Ends(rows)) /\ Sum(from, rows) = jter[T]
  BY PointsFold
<1> HIDE DEF more, n, S, T
<1>6. Ends(more)[S] = n + 1
  <2>1. n + 1 \in Nat /\ n + 1 \in 1 .. n + 1 /\ 1 .. n + 1 \in SUBSET (1 .. n + 1)
    BY <1>1
  <2>3. Max(1 .. n + 1) \in 1 .. n + 1 /\ \A j \in 1 .. n + 1 : j <= Max(1 .. n + 1)
    BY <2>1, MaxIsLast
  <2>2. Max(S) = n + 1
    BY <1>1, <2>1, <2>3
  <2> QED BY <2>2 DEF Ends, S
<1>7. S \ {n + 1} = T
  BY <1>1
<1>8. iter[S] = Steps(more)[<<n + 1, iter[T]>>]
  <2>1. S # {}
    <3>1. n + 1 \in 1 .. n + 1
      BY <1>1
    <3> QED BY <1>1, <3>1
  <2>2. PICK pair : pair = <<n + 1, iter[T]>>
    OBVIOUS
  <2>3. EndsWith(iter, S, pair, Steps(more), from, Ends(more))
    BY <1>2, <1>6, <1>7, <2>1, <2>2 DEF EndsWith
  <2>4. iter[S] = Steps(more)[pair]
    BY <2>3, FoldUnfolds
  <2> QED BY <2>2, <2>4
<1>9. iter[T] = jter[T]
  <2>1. T \subseteq S /\ IsFiniteSet(T)
    <3>1. T \subseteq S
      BY <1>1
    <3>2. IsFiniteSet(1 .. n)
      BY <1>1, FS_Interval
    <3> QED BY <1>1, <3>1, <3>2
  <2>2. Chooses(Ends(more), T)
    BY <1>1, <2>1, MaxIsLast DEF Chooses, Ends, S
  <2>3. ASSUME NEW s \in SUBSET T, s # {} PROVE Ends(more)[s] = Ends(rows)[s]
    BY <2>1 DEF Ends, S, T
  <2>5. ASSUME NEW x \in T, NEW v \in Nat
        PROVE  /\ Steps(more)[<<x, v>>] = Steps(rows)[<<x, v>>]
               /\ Steps(more)[<<x, v>>] \in Nat
    <3>1. Steps(more)[<<x, v>>] = Step(v, rows[x])
      BY <1>1, <2>1 DEF Steps, S
    <3>2. Steps(rows)[<<x, v>>] = Step(v, rows[x])
      BY DEF Steps, T
    <3>3. rows[x].delta \in Int
      BY RowOf DEF T
    <3> QED BY <3>1, <3>2, <3>3, StepTyped
  <2>6. Alike(T, S, T, Steps(more), Steps(rows), from, Ends(more), Ends(rows), Nat)
    BY <2>1, <2>2, <2>3, <2>5 DEF Alike
  <2> QED BY <1>2, <1>3, <2>6, FoldsAgree
<1>10. iter[T] \in Nat /\ n + 1 \in S
  <2>1. \A s \in SUBSET S : iter[s] \in Nat
    BY <1>1, <1>2, StepsCombine, FoldTyped DEF S
  <2> QED BY <1>1, <2>1
<1>11. Steps(more)[<<n + 1, iter[T]>>] = Step(iter[T], entry)
  BY <1>1, <1>10 DEF Steps, S
<1> QED BY <1>2, <1>3, <1>8, <1>9, <1>11 DEF more

-----------------------------------------------------------------------------
(* Rows that are appended.                                                 *)

Today(rows, at) == {i \in DOMAIN rows : rows[i].at > at - Day /\ rows[i].delta > 0}
Lately(rows, time) ==
    {i \in DOMAIN rows : rows[i].kind # "stake" /\ rows[i].at > time - Day /\ rows[i].delta > 0}
Positive(rows) == {i \in DOMAIN rows : rows[i].kind # "stake" /\ rows[i].delta > 0}

LEMMA RowsAppend ==
    ASSUME NEW rows \in Seq(Rows), NEW entry \in Rows
    PROVE  /\ Append(rows, entry) \in Seq(Rows)
           /\ Len(Append(rows, entry)) = Len(rows) + 1 /\ Len(rows) \in Nat
           /\ DOMAIN rows = 1 .. Len(rows)
           /\ DOMAIN Append(rows, entry) = (DOMAIN rows) \cup {Len(rows) + 1}
           /\ Len(rows) + 1 \notin DOMAIN rows
           /\ Append(rows, entry)[Len(rows) + 1] = entry
           /\ \A i \in DOMAIN rows : Append(rows, entry)[i] = rows[i]
<1>1. /\ Append(rows, entry) \in Seq(Rows)
      /\ Len(Append(rows, entry)) = Len(rows) + 1 /\ Len(rows) \in Nat
      /\ DOMAIN rows = 1 .. Len(rows)
      /\ DOMAIN Append(rows, entry) = 1 .. Len(rows) + 1
      /\ Append(rows, entry)[Len(rows) + 1] = entry
      /\ \A i \in DOMAIN rows : Append(rows, entry)[i] = rows[i]
  OBVIOUS
<1> QED BY <1>1

LEMMA RowSums ==
    ASSUME NEW rows \in Seq(Rows), NEW chosen \in SUBSET DOMAIN rows
    PROVE  Deltas(rows, chosen) /\ SumOf(rows, chosen) \in Int
<1>1. IsFiniteSet(DOMAIN rows)
  BY RowOf, FS_Interval
<1>2. Deltas(rows, chosen)
  BY <1>1, FS_Subset, RowOf DEF Deltas
<1> QED BY <1>2, SumDetermined

\* An entry that is not among those counted leaves their sum alone; one that is
\* counted adds its points.
LEMMA SumAppend ==
    ASSUME NEW rows \in Seq(Rows), NEW entry \in Rows, NEW chosen \in SUBSET DOMAIN rows
    PROVE  /\ SumOf(Append(rows, entry), chosen) = SumOf(rows, chosen)
           /\ SumOf(Append(rows, entry), chosen \cup {Len(rows) + 1}) = SumOf(rows, chosen) + entry.delta
<1> DEFINE more == Append(rows, entry)
           n == Len(rows) + 1
           all == chosen \cup {n}
<1>1. /\ more \in Seq(Rows) /\ DOMAIN more = (DOMAIN rows) \cup {n} /\ n \notin DOMAIN rows
      /\ more[n] = entry /\ \A i \in DOMAIN rows : more[i] = rows[i]
  BY RowsAppend
<1> HIDE DEF more, n
<1>2. Deltas(rows, chosen) /\ SumOf(rows, chosen) \in Int
  BY RowSums
<1>3. SumOf(rows, chosen) = SumOf(more, chosen)
  <2>1. \A i \in chosen : rows[i].delta = more[i].delta
    BY <1>1
  <2> QED BY <1>2, <2>1, SumDetermined
<1>4. Deltas(more, all) /\ SumOf(more, all) \in Int
  BY <1>1, RowSums
<1>5. n \in all /\ all \ {n} = chosen
  BY <1>1
<1> HIDE DEF all
<1>6. SumOf(more, all) = more[n].delta + SumOf(more, all \ {n})
  BY <1>4, <1>5, SumRemoves
<1>7. entry.delta \in Int
  BY DEF Rows
<1>8. SumOf(more, all) = entry.delta + SumOf(rows, chosen)
  <2>1. more[n].delta = entry.delta /\ SumOf(more, all \ {n}) = SumOf(rows, chosen)
    BY <1>1, <1>3, <1>5
  <2> QED BY <1>6, <2>1
<1>9. SumOf(more, all) = SumOf(rows, chosen) + entry.delta
  BY <1>2, <1>7, <1>8
<1> QED BY <1>3, <1>9 DEF more, n, all

LEMMA SinceAppend ==
    ASSUME NEW rows \in Seq(Rows), NEW entry \in Rows, NEW k \in 0 .. Len(rows)
    PROVE  /\ SubSeq(rows, k + 1, Len(rows)) \in Seq(Rows)
           /\ SubSeq(Append(rows, entry), k + 1, Len(rows) + 1)
                = Append(SubSeq(rows, k + 1, Len(rows)), entry)
           /\ SubSeq(rows, Len(rows) + 1, Len(rows)) = <<>>
<1>1. /\ SubSeq(rows, k + 1, Len(rows)) \in Seq(Rows)
      /\ Len(SubSeq(rows, k + 1, Len(rows))) = Len(rows) - k
      /\ \A i \in 1 .. Len(rows) - k : SubSeq(rows, k + 1, Len(rows))[i] = rows[k + i]
  OBVIOUS
<1>2. SubSeq(rows, Len(rows) + 1, Len(rows)) = <<>>
  OBVIOUS
<1>3. /\ SubSeq(Append(rows, entry), k + 1, Len(rows) + 1) \in Seq(Rows)
      /\ Len(SubSeq(Append(rows, entry), k + 1, Len(rows) + 1)) = Len(rows) + 1 - k
      /\ \A i \in 1 .. Len(rows) + 1 - k :
            SubSeq(Append(rows, entry), k + 1, Len(rows) + 1)[i] = Append(rows, entry)[k + i]
  OBVIOUS
<1> DEFINE left == SubSeq(rows, k + 1, Len(rows))
           right == SubSeq(Append(rows, entry), k + 1, Len(rows) + 1)
           m == Len(rows) + 1 - k
<1>4. m \in Nat /\ m - 1 \in Nat /\ Len(rows) - k = m - 1 /\ k + m = Len(rows) + 1
  OBVIOUS
<1>5. ASSUME NEW i \in 1 .. m - 1 PROVE Append(rows, entry)[k + i] = rows[k + i]
  BY RowsAppend
<1>6. Append(rows, entry)[k + m] = entry
  BY <1>4, RowsAppend
<1>7. /\ left \in Seq(Rows) /\ Len(left) = m - 1 /\ \A i \in 1 .. m - 1 : left[i] = rows[k + i]
      /\ right \in Seq(Rows) /\ Len(right) = m
      /\ \A i \in 1 .. m : right[i] = Append(rows, entry)[k + i]
  BY <1>1, <1>3, <1>4
<1> HIDE DEF left, right, m
<1>8. /\ Append(left, entry) \in Seq(Rows) /\ Len(Append(left, entry)) = m
      /\ Append(left, entry)[m] = entry /\ \A i \in 1 .. m - 1 : Append(left, entry)[i] = left[i]
  BY <1>4, <1>7
<1>9. ASSUME NEW i \in 1 .. m PROVE right[i] = Append(left, entry)[i]
  <2>1. i = m \/ i \in 1 .. m - 1
    BY <1>4
  <2> QED BY <1>5, <1>6, <1>7, <1>8, <2>1
<1>10. right = Append(left, entry)
  BY <1>7, <1>8, <1>9, SeqEqual
<1> QED BY <1>2, <1>7, <1>10 DEF left, right

-----------------------------------------------------------------------------
(* The inductive invariant: what a transaction knows.                      *)

Working == {"scored", "capped", "locked"}
Unread == {"idle", "begun"}

\* What holds of a transaction whether or not others have committed since.
Sound(t, time) ==
    /\ t.pc \notin Unread => t.who \in Participants
    /\ t.pc \in Working \cup {"begun"} => t.at <= time
    /\ t.pc \in {"scored", "capped"} => t.kind \in Events
    /\ t.pc = "scored" => Base[t.kind] > 0 /\ t.delta = Scaled(Base[t.kind], t.read)
    /\ t.pc = "capped" => IF Base[t.kind] > 0 THEN t.delta \in 0 .. Base[t.kind]
                          ELSE t.delta = Base[t.kind]
    /\ t.pc = "locked" => t.kind = "stake" /\ ~t.stale

\* What holds while nobody has: its reads are those it would make now.
Current(t, points, rows) ==
    /\ t.pc \in Working => t.read = points
    /\ t.pc = "capped" /\ Base[t.kind] > 0 =>
         t.delta = Room(Scaled(Base[t.kind], points), SumOf(rows, Today(rows, t.at)))
    /\ t.pc = "replayed" => t.read = Replay(rows)

Fresh(w) == tx[w].pc \notin Unread /\ ~tx[w].stale

TxInv ==
    /\ TypeOK
    /\ \A w \in Writers : Sound(tx[w], clock)
    /\ \A w \in Writers : Fresh(w) => Current(tx[w], score[tx[w].who], history[tx[w].who])
    /\ \A v, w \in Writers :
          tx[v].pc = "locked" /\ tx[w].pc = "locked" /\ tx[v].who = tx[w].who => v = w

\* What holds of a participant: the score is explained by the rows, the rows that
\* nobody crossed keep the cap, and their replay agrees when they are in order.
Explains(p) ==
    /\ origin[p].rows <= Len(history[p])
    /\ ~crossed[p] => score[p] = Sum(origin[p].score, Since(p))

Keeps(p) == ~crossed[p] => SumOf(history[p], Lately(history[p], clock)) <= Cap

\* The gains that open transactions may still add.
Pending(open, p) ==
    {w \in Writers : open[w].who = p /\ open[w].pc = "capped" /\ open[w].delta > 0}

Exceeds(p) ==
    SumOf(history[p], Lately(history[p], clock)) + SumOf(tx, Pending(tx, p))
      <= Cap + (Cardinality(Writers) - 1) * LargestGain

Agreed(rows, points) ==
    /\ Replayed(rows).score = points
    /\ Replayed(rows).gained = SumOf(rows, Positive(rows))
    /\ rows # <<>> => Replayed(rows).day = rows[1].at \div Day

Agrees(p) ==
    ~crossed[p] /\ InOrder(history[p]) /\ Plain(history[p]) => Agreed(history[p], score[p])

LedgerInv ==
    /\ TxInv
    /\ \A p \in Participants : Explains(p) /\ Keeps(p) /\ Exceeds(p) /\ Agrees(p)

-----------------------------------------------------------------------------
(* Its steps: a writer moves on and commits nothing, appends its entry, or    *)
(* writes a replayed score.                                                *)

Moves(w, t) ==
    /\ tx' = [tx EXCEPT ![w] = t]
    /\ clock' \in clock .. MaxClock
    /\ UNCHANGED <<score, history, crossed, origin>>

Appends(w) ==
    LET p == tx[w].who IN
    /\ tx[w].pc \in {"capped", "locked"}
    /\ RowFree(p) \/ tx[w].pc = "locked"
    /\ Len(history[p]) < MaxEvents
    /\ history' = [history EXCEPT ![p] = Append(@, EventRow(w))]
    /\ score' = [score EXCEPT ![p] = Floor(tx[w].read + tx[w].delta)]
    /\ crossed' = [crossed EXCEPT ![p] = @ \/ tx[w].stale]
    /\ tx' = Committed(w)
    /\ UNCHANGED <<clock, origin>>

\* What a transaction moves on to.
Allowed(w, t) ==
    /\ t \in Transactions
    /\ Sound(t, clock')
    /\ t.pc \notin Unread /\ ~t.stale => Current(t, score[t.who], history[t.who])
    /\ t.pc = "locked" => RowFree(t.who)
    /\ t.pc = "capped" /\ t.delta > 0 =>
         SumOf(history[t.who], Today(history[t.who], t.at)) + t.delta <= Cap

Waits == clock' \in clock .. MaxClock /\ UNCHANGED <<score, history, tx, crossed, origin>>

LEMMA MoveTyped ==
    ASSUME TypeOK, NEW w \in Writers, NEW t \in Transactions, Moves(w, t)
    PROVE  TypeOK'
  BY ClockAssumption DEF TypeOK, Moves

\* The entry a commit appends is an entry, and every reading of a transaction types.
LEMMA Reads ==
    ASSUME TypeOK, NEW w \in Writers, Sound(tx[w], clock), tx[w].pc \notin Unread
    PROVE  /\ tx[w] \in Transactions /\ tx[w].who \in Participants
           /\ tx[w].read \in Nat /\ tx[w].delta \in Int /\ tx[w].at \in 0 .. MaxClock
           /\ tx[w].stale \in BOOLEAN
           /\ EventRow(w) \in Rows
           /\ Floor(tx[w].read + tx[w].delta) \in Nat
<1>1. /\ tx[w] \in Transactions /\ tx[w].who \in Participants
      /\ tx[w].read \in Nat /\ tx[w].delta \in Int /\ tx[w].at \in 0 .. MaxClock
      /\ tx[w].stale \in BOOLEAN /\ tx[w].kind \in Kinds
  BY DEF TypeOK, Transactions, Sound
<1>2. EventRow(w) \in Rows
  BY <1>1 DEF EventRow, Rows
<1>3. Floor(tx[w].read + tx[w].delta) \in Nat
  BY <1>1, Floored
<1> QED BY <1>1, <1>2, <1>3

LEMMA BeginMoves ==
    ASSUME TxInv, NEW w \in Writers, Begin(w)
    PROVE  \E t : Moves(w, t) /\ Allowed(w, t)
<1> DEFINE u == [Idle EXCEPT !.pc = "begun"]
           t == [u EXCEPT !.at = clock']
<1>1. clock \in 0 .. MaxClock /\ clock' = clock + 1 /\ clock < MaxClock
  BY DEF TxInv, TypeOK, Begin
<1>2. Idle \in Transactions
  BY ClockAssumption DEF Idle, Transactions, Kinds
<1>3. Moves(w, t)
  BY <1>1, ClockAssumption DEF Begin, Moves
<1> HIDE DEF Idle
<1>4. u \in Transactions /\ u.pc = "begun"
  BY <1>2 DEF Transactions
<1> HIDE DEF u
<1>5. t \in Transactions /\ t.pc = "begun" /\ t.at = clock'
  BY <1>1, <1>4, ClockAssumption DEF Transactions
<1> HIDE DEF t
<1>6. Sound(t, clock')
  BY <1>1, <1>5 DEF Sound, Working, Unread
<1> QED BY <1>3, <1>5, <1>6 DEF Allowed, Unread

LEMMA ReadScoreMoves ==
    ASSUME TxInv, NEW w \in Writers, NEW p \in Participants, NEW e \in Events, ReadScore(w, p, e)
    PROVE  \E t : Moves(w, t) /\ Allowed(w, t)
<1> DEFINE t == [pc |-> IF Base[e] > 0 THEN "scored" ELSE "capped", who |-> p,
                 kind |-> e, read |-> score[p],
                 delta |-> IF Base[e] > 0 THEN Scaled(Base[e], score[p]) ELSE Base[e],
                 at |-> tx[w].at, stale |-> FALSE]
<1>1. /\ score[p] \in Nat /\ history[p] \in Seq(Rows) /\ clock \in 0 .. MaxClock
      /\ clock' = clock /\ tx[w].at \in 0 .. MaxClock /\ tx[w].at <= clock
  BY DEF TxInv, TypeOK, ReadScore, Transactions, Sound
<1>2. Base[e] \in Int /\ (Base[e] > 0 => Scaled(Base[e], score[p]) \in Nat)
  <2>1. Base[e] \in Int
    BY EventAssumption
  <2>2. ASSUME Base[e] > 0 PROVE Scaled(Base[e], score[p]) \in Nat
    <3>1. Base[e] \in Nat
      BY <2>1, <2>2
    <3> QED BY <1>1, <3>1, ScaledBounded
  <2> QED BY <2>1, <2>2
<1>3. Moves(w, t)
  BY <1>1, ClockAssumption DEF ReadScore, Moves
<1>4. t \in Transactions
  BY <1>1, <1>2, ClockAssumption DEF Transactions, Kinds
<1>5. Sound(t, clock')
  <2>1. /\ t.who \in Participants /\ t.at <= clock' /\ t.kind \in Events /\ t.pc # "locked"
        /\ t.pc = "scored" => Base[t.kind] > 0 /\ t.delta = Scaled(Base[t.kind], t.read)
        /\ t.pc = "capped" => ~(Base[t.kind] > 0) /\ t.delta = Base[t.kind]
    BY <1>1, <1>2
  <2> HIDE DEF t
  <2> QED BY <2>1 DEF Sound
<1>6. Current(t, score[t.who], history[t.who])
  <2>1. /\ t.who = p /\ t.read = score[p] /\ t.pc \in {"scored", "capped"}
        /\ t.pc = "capped" => ~(Base[t.kind] > 0)
    OBVIOUS
  <2> HIDE DEF t
  <2> QED BY <2>1 DEF Current
<1>7. t.pc # "locked" /\ ~(t.pc = "capped" /\ t.delta > 0)
  BY <1>2
<1> QED BY <1>3, <1>4, <1>5, <1>6, <1>7 DEF Allowed

LEMMA ReadGainsMoves ==
    ASSUME TxInv, NEW w \in Writers, ReadGains(w)
    PROVE  \E t : Moves(w, t) /\ Allowed(w, t)
<1> DEFINE q == tx[w].who
           p == tx[w].kind
           room == Room(tx[w].delta, GainedToday(q, tx[w].at))
           t == [tx[w] EXCEPT !.pc = "capped", !.delta = room]
<1>0. TypeOK /\ Sound(tx[w], clock) /\ (Fresh(w) => Current(tx[w], score[q], history[q]))
  BY DEF TxInv
<1>1. /\ tx[w].pc = "scored" /\ q \in Participants /\ tx[w] \in Transactions
      /\ history[q] \in Seq(Rows) /\ tx[w].at <= clock /\ p \in Events
      /\ Base[p] > 0 /\ tx[w].delta = Scaled(Base[p], tx[w].read) /\ tx[w].read \in Nat
  BY <1>0, Reads DEF TypeOK, Sound, ReadGains, Working, Unread
<1>2. /\ Base[p] \in Nat /\ tx[w].delta \in Nat /\ tx[w].delta <= Base[p]
  <2>1. Base[p] \in Nat
    BY <1>1, EventAssumption
  <2> QED BY <1>1, <2>1, ScaledBounded
<1>3. GainedToday(q, tx[w].at) = SumOf(history[q], Today(history[q], tx[w].at))
  BY DEF GainedToday, Today
<1>4. SumOf(history[q], Today(history[q], tx[w].at)) \in Int
  BY <1>1, RowSums DEF Today
<1>5. /\ room \in Nat /\ room <= tx[w].delta
      /\ room > 0 => SumOf(history[q], Today(history[q], tx[w].at)) + room <= Cap
  BY <1>2, <1>3, <1>4, RoomBounded
<1>6. /\ t.pc = "capped" /\ t.who = q /\ t.kind = p /\ t.at = tx[w].at /\ t.delta = room
      /\ t.read = tx[w].read /\ t.stale = tx[w].stale /\ t \in Transactions
  <2> DEFINE u == [tx[w] EXCEPT !.pc = "capped"]
  <2>1. /\ u.pc = "capped" /\ u.who = q /\ u.kind = p /\ u.at = tx[w].at
        /\ u.read = tx[w].read /\ u.stale = tx[w].stale /\ u \in Transactions
    BY <1>1 DEF Transactions
  <2>2. t = [u EXCEPT !.delta = room]
    OBVIOUS
  <2> HIDE DEF u, t, room
  <2>3. room \in Int
    BY <1>5
  <2> QED BY <2>1, <2>2, <2>3 DEF Transactions
<1>7. Moves(w, t)
  <2>1. clock' = clock /\ UNCHANGED <<score, history, crossed, origin>> /\ clock \in 0 .. MaxClock
    BY <1>0 DEF ReadGains, TypeOK
  <2>2. tx' = [tx EXCEPT ![w] = t]
    BY <1>0, <1>1 DEF ReadGains, TypeOK
  <2> QED BY <2>1, <2>2, ClockAssumption DEF Moves
<1>8. clock' = clock
  BY DEF ReadGains
<1> HIDE DEF t, q, p, room
<1>9. Sound(t, clock')
  <2>1. room \in 0 .. Base[p]
    BY <1>2, <1>5
  <2> QED BY <1>1, <1>6, <1>8, <2>1 DEF Sound
<1>10. ASSUME ~t.stale PROVE Current(t, score[q], history[q])
  <2>1. Current(tx[w], score[q], history[q])
    BY <1>0, <1>1, <1>6, <1>10 DEF Fresh, Unread
  <2>2. tx[w].read = score[q]
    BY <1>1, <2>1 DEF Current, Working
  <2>3. room = Room(Scaled(Base[p], score[q]), SumOf(history[q], Today(history[q], tx[w].at)))
    BY <1>1, <1>3, <2>2 DEF room
  <2> QED BY <1>6, <2>2, <2>3 DEF Current, Working
<1> QED BY <1>5, <1>6, <1>7, <1>9, <1>10 DEF Allowed

LEMMA LockMoves ==
    ASSUME TxInv, NEW w \in Writers, NEW p \in Participants, NEW stake \in Stakes,
           LockScore(w, p, stake)
    PROVE  \E t : Moves(w, t) /\ Allowed(w, t)
<1> DEFINE t == [pc |-> "locked", who |-> p, kind |-> "stake", read |-> score[p],
                 delta |-> Max({stake, -score[p]}), at |-> tx[w].at, stale |-> FALSE]
<1>1. /\ score[p] \in Nat /\ history[p] \in Seq(Rows) /\ clock \in 0 .. MaxClock
      /\ clock' = clock /\ RowFree(p) /\ tx[w].at \in 0 .. MaxClock /\ tx[w].at <= clock
  BY DEF TxInv, TypeOK, LockScore, Transactions, Sound
<1>2. Max({stake, -score[p]}) \in Int
  <2>1. stake \in Int /\ -score[p] \in Int
    BY <1>1, PointAssumption
  <2> QED BY <2>1, Larger
<1>3. Moves(w, t)
  BY <1>1, ClockAssumption DEF LockScore, Moves
<1>4. t \in Transactions
  BY <1>1, <1>2, ClockAssumption DEF Transactions, Kinds
<1>5. Sound(t, clock')
  BY <1>1, ClockAssumption DEF Sound, Working, Unread
<1>6. Current(t, score[t.who], history[t.who])
  <2>1. t.who = p /\ t.read = score[p] /\ t.pc = "locked"
    OBVIOUS
  <2> HIDE DEF t
  <2> QED BY <2>1 DEF Current
<1> QED BY <1>1, <1>3, <1>4, <1>5, <1>6 DEF Allowed

LEMMA ReadHistoryMoves ==
    ASSUME TxInv, NEW w \in Writers, NEW p \in Participants, ReadHistory(w, p)
    PROVE  \E t : Moves(w, t) /\ Allowed(w, t)
<1> DEFINE t == [Idle EXCEPT !.pc = "replayed", !.who = p, !.read = Replay(history[p])]
<1>1. /\ history[p] \in Seq(Rows) /\ clock \in 0 .. MaxClock /\ clock' = clock
  BY DEF TxInv, TypeOK, ReadHistory
<1>2. Replay(history[p]) \in Nat
  BY <1>1, ReplayTyped DEF Replay, ReplayStates
<1>3. Moves(w, t)
  BY <1>1, ClockAssumption DEF ReadHistory, Moves
<1>4. /\ t.pc = "replayed" /\ t.who = p /\ t.read = Replay(history[p]) /\ t.stale = FALSE
      /\ t \in Transactions
  <2> DEFINE u == [Idle EXCEPT !.pc = "replayed"]
             v == [u EXCEPT !.who = p]
  <2>1. Idle \in Transactions /\ Idle.stale = FALSE
    BY ClockAssumption DEF Idle, Transactions, Kinds
  <2> HIDE DEF Idle
  <2>2. u \in Transactions /\ u.pc = "replayed" /\ u.stale = FALSE
    BY <2>1 DEF Transactions
  <2>3. t = [v EXCEPT !.read = Replay(history[p])]
    OBVIOUS
  <2> HIDE DEF u, t
  <2>4. v \in Transactions /\ v.pc = "replayed" /\ v.stale = FALSE /\ v.who = p
    BY <2>2 DEF Transactions
  <2> HIDE DEF v
  <2> QED BY <1>2, <2>3, <2>4 DEF Transactions
<1> HIDE DEF t
<1>5. Sound(t, clock') /\ Current(t, score[t.who], history[t.who])
  BY <1>4 DEF Sound, Current, Working
<1> QED BY <1>3, <1>4, <1>5 DEF Allowed

LEMMA RollbackMoves ==
    ASSUME TxInv, NEW w \in Writers, Rollback(w)
    PROVE  \E t : Moves(w, t) /\ Allowed(w, t)
<1>1. clock \in 0 .. MaxClock /\ clock' = clock
  BY DEF TxInv, TypeOK, Rollback
<1>2. Moves(w, Idle)
  BY <1>1, ClockAssumption DEF Rollback, Moves
<1>3. Idle \in Transactions /\ Idle.pc = "idle"
  BY ClockAssumption DEF Idle, Transactions, Kinds
<1>4. Sound(Idle, clock')
  BY <1>3 DEF Sound, Working, Unread
<1> QED BY <1>2, <1>3, <1>4 DEF Allowed, Unread

LEMMA StepsAre ==
    ASSUME TxInv, [Next]_vars
    PROVE  \/ Waits
           \/ \E w \in Writers : \E t : Moves(w, t) /\ Allowed(w, t)
           \/ \E w \in Writers : Appends(w)
           \/ \E w \in Writers : WriteReplay(w)
<1>1. ASSUME NEW w \in Writers, CommitEvent(w) PROVE Appends(w)
  BY <1>1 DEF CommitEvent, Appends
<1>2. ASSUME NEW w \in Writers, CommitStake(w) PROVE Appends(w)
  <2>1. tx[w].pc = "locked" /\ tx[w].kind = "stake" /\ tx[w].stale = FALSE
    BY <1>2, Reads DEF CommitStake, TxInv, Sound
  <2>2. EventRow(w) = StakeRow(w)
    BY <2>1 DEF EventRow, StakeRow
  <2>3. crossed' = [crossed EXCEPT ![tx[w].who] = @ \/ tx[w].stale]
    BY <1>2, <2>1 DEF CommitStake, TxInv, TypeOK
  <2> QED BY <1>2, <2>1, <2>2, <2>3 DEF CommitStake, Appends
<1>3. CASE TimePasses
  <2>1. clock \in 0 .. MaxClock
    BY DEF TxInv, TypeOK
  <2>2. clock' \in clock .. MaxClock
    BY <1>3, <2>1, ClockAssumption DEF TimePasses
  <2> QED BY <1>3, <2>2 DEF TimePasses, Waits
<1>4. CASE UNCHANGED vars
  BY <1>4, ClockAssumption DEF vars, Waits, TxInv, TypeOK
<1> QED BY <1>1, <1>2, <1>3, <1>4, BeginMoves, ReadScoreMoves, ReadGainsMoves, LockMoves, ReadHistoryMoves,
           RollbackMoves DEF Next

-----------------------------------------------------------------------------
(* What the transactions know survives every step.                         *)

LEMMA WaitKeeps == ASSUME TxInv, Waits PROVE TxInv'
<1>0. clock \in Nat /\ clock' \in Nat /\ clock <= clock'
  BY ClockAssumption DEF TxInv, TypeOK, Waits
<1>1. TypeOK'
  BY ClockAssumption DEF TxInv, TypeOK, Waits
<1>2. ASSUME NEW w \in Writers PROVE Sound(tx'[w], clock')
  <2>1. Sound(tx[w], clock) /\ tx'[w] = tx[w] /\ tx[w].at \in Nat
    BY ClockAssumption DEF TxInv, Waits, TypeOK, Transactions
  <2> QED BY <1>0, <2>1 DEF Sound
<1>3. ASSUME NEW w \in Writers, Fresh(w)' PROVE Current(tx'[w], score'[tx'[w].who], history'[tx'[w].who])
  BY <1>3 DEF TxInv, Waits, Fresh
<1>4. \A v, w \in Writers :
        tx'[v].pc = "locked" /\ tx'[w].pc = "locked" /\ tx'[v].who = tx'[w].who => v = w
  BY DEF TxInv, Waits
<1> QED BY <1>1, <1>2, <1>3, <1>4 DEF TxInv

LEMMA MoveKeeps ==
    ASSUME TxInv, NEW w \in Writers, NEW t, Moves(w, t), Allowed(w, t)
    PROVE  TxInv'
<1>0. clock \in Nat /\ clock' \in Nat /\ clock <= clock' /\ t \in Transactions
  BY ClockAssumption DEF TxInv, TypeOK, Moves, Allowed
<1>1. TypeOK'
  BY <1>0, MoveTyped DEF TxInv
<1>2. tx'[w] = t /\ \A v \in Writers : v # w => tx'[v] = tx[v]
  BY DEF TxInv, TypeOK, Moves
<1>3. ASSUME NEW v \in Writers PROVE Sound(tx'[v], clock')
  <2>1. CASE v = w
    BY <1>2, <2>1 DEF Allowed
  <2>2. CASE v # w
    <3>1. Sound(tx[v], clock) /\ tx'[v] = tx[v] /\ tx[v].at \in Nat
      BY <1>2, <2>2, ClockAssumption DEF TxInv, TypeOK, Transactions
    <3> QED BY <1>0, <3>1 DEF Sound
  <2> QED BY <2>1, <2>2
<1>4. ASSUME NEW v \in Writers, Fresh(v)' PROVE Current(tx'[v], score'[tx'[v].who], history'[tx'[v].who])
  <2>1. score' = score /\ history' = history
    BY DEF Moves
  <2>2. CASE v = w
    BY <1>2, <1>4, <2>1, <2>2 DEF Allowed, Fresh
  <2>3. CASE v # w
    BY <1>2, <1>4, <2>1, <2>3 DEF TxInv, Fresh
  <2> QED BY <2>2, <2>3
<1>5. ASSUME NEW u \in Writers, NEW v \in Writers, tx'[u].pc = "locked", tx'[v].pc = "locked",
             tx'[u].who = tx'[v].who, u # v
      PROVE  FALSE
  <2>1. t.pc = "locked" => ~Held(t.who)
    BY DEF Allowed, RowFree
  <2>2. CASE u # w /\ v # w
    BY <1>2, <1>5, <2>2 DEF TxInv
  <2>3. CASE u = w
    <3>1. t.pc = "locked" /\ tx[v].pc = "locked" /\ tx[v].who = t.who
      BY <1>2, <1>5, <2>3
    <3> QED BY <2>1, <3>1 DEF Held
  <2>4. CASE v = w
    <3>1. t.pc = "locked" /\ tx[u].pc = "locked" /\ tx[u].who = t.who
      BY <1>2, <1>5, <2>4
    <3> QED BY <2>1, <3>1 DEF Held
  <2> QED BY <2>2, <2>3, <2>4
<1> QED BY <1>1, <1>3, <1>4, <1>5 DEF TxInv

\* What a commit leaves of the other transactions: those of the participant are
\* stale and hold no lock.
LEMMA Bystanders ==
    ASSUME TxInv, NEW w \in Writers, tx[w].pc # "idle", tx' = Committed(w),
           RowFree(tx[w].who) \/ tx[w].pc = "locked"
    PROVE  /\ tx' \in [Writers -> Transactions] /\ tx'[w] = Idle
           /\ \A v \in Writers : v # w /\ tx[v].who # tx[w].who => tx'[v] = tx[v]
           /\ \A v \in Writers : v # w /\ tx[v].who = tx[w].who =>
                 tx[v].pc # "locked" /\ tx'[v] = [tx[v] EXCEPT !.stale = TRUE]
<1>1. tx'[w] = Idle /\ \A v \in Writers : v # w =>
        tx'[v] = IF tx[v].who = tx[w].who THEN [tx[v] EXCEPT !.stale = TRUE] ELSE tx[v]
  BY DEF Committed
<1>2. tx' \in [Writers -> Transactions]
  <2>1. Idle \in Transactions
    BY ClockAssumption DEF Idle, Transactions, Kinds
  <2>2. ASSUME NEW v \in Writers PROVE tx[v] \in Transactions /\ [tx[v] EXCEPT !.stale = TRUE] \in Transactions
    BY DEF TxInv, TypeOK, Transactions
  <2>3. \A v \in Writers : tx'[v] \in Transactions
    BY <1>1, <2>1, <2>2
  <2>4. tx' = [v \in Writers |-> tx'[v]]
    BY DEF Committed
  <2> QED BY <2>3, <2>4
<1>3. ASSUME NEW v \in Writers, v # w, tx[v].who = tx[w].who, tx[v].pc = "locked" PROVE FALSE
  BY <1>3 DEF TxInv, RowFree, Held
<1> QED BY <1>1, <1>2, <1>3

LEMMA CommitKeeps ==
    ASSUME TxInv, NEW w \in Writers, tx[w].pc # "idle", tx' = Committed(w), clock' = clock,
           RowFree(tx[w].who) \/ tx[w].pc = "locked",
           TypeOK',
           \A p \in Participants : p # tx[w].who =>
              score'[p] = score[p] /\ history'[p] = history[p]
    PROVE  TxInv'
<1>1. /\ tx'[w] = Idle
      /\ \A v \in Writers : v # w /\ tx[v].who # tx[w].who => tx'[v] = tx[v]
      /\ \A v \in Writers : v # w /\ tx[v].who = tx[w].who =>
            tx[v].pc # "locked" /\ tx'[v] = [tx[v] EXCEPT !.stale = TRUE]
  BY Bystanders
<1>2. \A v \in Writers : tx[v] \in Transactions
  BY DEF TxInv, TypeOK
<1>3. ASSUME NEW v \in Writers
      PROVE  /\ tx'[v].pc = "locked" => v # w /\ tx'[v] = tx[v]
             /\ Fresh(v)' => v # w /\ tx'[v] = tx[v] /\ tx[v].who # tx[w].who /\ Fresh(v)
  <2>1. CASE v = w
    BY <1>1, <2>1 DEF Idle, Fresh, Unread
  <2>2. CASE v # w /\ tx[v].who # tx[w].who
    BY <1>1, <2>2 DEF Fresh, Unread
  <2>3. CASE v # w /\ tx[v].who = tx[w].who
    <3>1. tx'[v].stale = TRUE /\ tx'[v].pc = tx[v].pc /\ tx[v].pc # "locked"
      BY <1>1, <1>2, <2>3 DEF Transactions
    <3> QED BY <3>1 DEF Fresh, Unread
  <2> QED BY <2>1, <2>2, <2>3
<1>4. ASSUME NEW v \in Writers PROVE Sound(tx'[v], clock')
  <2>1. CASE v = w
    BY <1>1, <2>1 DEF Idle, Sound, Working, Unread
  <2>2. CASE v # w /\ tx[v].who # tx[w].who
    BY <1>1, <2>2 DEF TxInv
  <2>3. CASE v # w /\ tx[v].who = tx[w].who
    <3>1. /\ tx'[v].pc = tx[v].pc /\ tx'[v].who = tx[v].who /\ tx'[v].kind = tx[v].kind
          /\ tx'[v].read = tx[v].read /\ tx'[v].delta = tx[v].delta /\ tx'[v].at = tx[v].at
          /\ tx[v].pc # "locked" /\ Sound(tx[v], clock)
      BY <1>1, <1>2, <2>3 DEF Transactions, TxInv
    <3> QED BY <3>1 DEF Sound
  <2> QED BY <2>1, <2>2, <2>3
<1>5. ASSUME NEW v \in Writers, Fresh(v)' PROVE Current(tx'[v], score'[tx'[v].who], history'[tx'[v].who])
  <2>1. /\ tx'[v] = tx[v] /\ tx[v].who # tx[w].who /\ Fresh(v)
    BY <1>3, <1>5
  <2>2. tx[v].who \in Participants
    BY <2>1 DEF Fresh, TxInv, Sound
  <2> QED BY <2>1, <2>2 DEF TxInv
<1>6. ASSUME NEW u \in Writers, NEW v \in Writers, tx'[u].pc = "locked", tx'[v].pc = "locked",
             tx'[u].who = tx'[v].who
      PROVE  u = v
  <2>1. tx'[u] = tx[u] /\ tx'[v] = tx[v]
    BY <1>3, <1>6
  <2> QED BY <1>6, <2>1 DEF TxInv
<1> QED BY <1>4, <1>5, <1>6 DEF TxInv

LEMMA AppendKeeps ==
    ASSUME TxInv, NEW w \in Writers, Appends(w)
    PROVE  /\ TxInv'
           /\ tx[w].who \in Participants /\ EventRow(w) \in Rows
           /\ history'[tx[w].who] = Append(history[tx[w].who], EventRow(w))
           /\ score'[tx[w].who] = Floor(tx[w].read + tx[w].delta)
           /\ \A p \in Participants : p # tx[w].who =>
                 /\ score'[p] = score[p] /\ history'[p] = history[p] /\ crossed'[p] = crossed[p]
           /\ ~crossed'[tx[w].who] =>
                 ~crossed[tx[w].who] /\ Current(tx[w], score[tx[w].who], history[tx[w].who])
           /\ tx' = Committed(w) /\ clock' = clock /\ origin' = origin
<1> DEFINE q == tx[w].who
<1>0. TypeOK /\ Sound(tx[w], clock) /\ tx[w].pc # "idle"
  BY DEF TxInv, Appends
<1>1. /\ tx[w] \in Transactions /\ q \in Participants /\ EventRow(w) \in Rows
      /\ Floor(tx[w].read + tx[w].delta) \in Nat /\ tx[w].stale \in BOOLEAN
      /\ tx[w].at \in Nat /\ tx[w].at <= clock /\ EventRow(w).at = tx[w].at
  BY <1>0, Reads, ClockAssumption DEF Sound, Appends, Working, Unread, EventRow
<1>2. /\ history'[q] = Append(history[q], EventRow(w))
      /\ score'[q] = Floor(tx[w].read + tx[w].delta)
      /\ crossed'[q] = (crossed[q] \/ tx[w].stale)
      /\ \A p \in Participants : p # q =>
            /\ score'[p] = score[p] /\ history'[p] = history[p] /\ crossed'[p] = crossed[p]
      /\ tx' = Committed(w) /\ clock' = clock /\ origin' = origin
      /\ RowFree(q) \/ tx[w].pc = "locked"
  BY <1>0, <1>1 DEF Appends, TypeOK
<1>3. /\ Append(history[q], EventRow(w)) \in Seq(Rows)
      /\ Len(Append(history[q], EventRow(w))) <= MaxEvents
  <2>1. history[q] \in Seq(Rows) /\ Len(history[q]) < MaxEvents
    BY <1>0, <1>1 DEF TypeOK, Appends
  <2> QED BY <1>1, <2>1, RowsAppend, ClockAssumption
<1>4. TypeOK'
  <2>1. tx' \in [Writers -> Transactions]
    BY <1>0, <1>2, Bystanders
  <2>2. history' \in [Participants -> Seq(Rows)] /\ \A p \in Participants : Len(history'[p]) <= MaxEvents
    <3>1. \A p \in Participants : history'[p] \in Seq(Rows) /\ Len(history'[p]) <= MaxEvents
      BY <1>0, <1>2, <1>3 DEF TypeOK
    <3>2. history' = [p \in Participants |-> history'[p]]
      BY <1>0 DEF TypeOK, Appends
    <3> QED BY <3>1, <3>2
  <2>3. score' \in [Participants -> Nat] /\ crossed' \in [Participants -> BOOLEAN]
    BY <1>0, <1>1 DEF TypeOK, Appends
  <2> QED BY <1>0, <1>2, <2>1, <2>2, <2>3 DEF TypeOK
<1>5. TxInv'
  BY <1>0, <1>2, <1>4, CommitKeeps
<1>6. ASSUME ~crossed'[q] PROVE ~crossed[q] /\ Current(tx[w], score[q], history[q])
  <2>1. ~crossed[q] /\ Fresh(w)
    BY <1>0, <1>2, <1>6 DEF Fresh, Unread, Appends
  <2> QED BY <2>1 DEF TxInv
<1> QED BY <1>1, <1>2, <1>5, <1>6

LEMMA WriteKeeps ==
    ASSUME TxInv, NEW w \in Writers, WriteReplay(w)
    PROVE  /\ TxInv'
           /\ tx[w].who \in Participants /\ tx[w].read \in Nat
           /\ score'[tx[w].who] = tx[w].read /\ history' = history /\ clock' = clock
           /\ origin'[tx[w].who] = [score |-> tx[w].read, rows |-> Len(history[tx[w].who])]
           /\ \A p \in Participants : p # tx[w].who =>
                 /\ score'[p] = score[p] /\ crossed'[p] = crossed[p] /\ origin'[p] = origin[p]
           /\ ~crossed'[tx[w].who] =>
                 ~crossed[tx[w].who] /\ tx[w].read = Replay(history[tx[w].who])
           /\ tx' = Committed(w)
<1> DEFINE q == tx[w].who
<1>0. TypeOK /\ Sound(tx[w], clock) /\ tx[w].pc = "replayed"
  BY DEF TxInv, WriteReplay
<1>1. tx[w] \in Transactions /\ q \in Participants /\ tx[w].read \in Nat /\ tx[w].stale \in BOOLEAN
  BY <1>0, Reads DEF Unread
<1>2. /\ score'[q] = tx[w].read
      /\ crossed'[q] = (crossed[q] \/ tx[w].stale)
      /\ origin'[q] = [score |-> tx[w].read, rows |-> Len(history[q])]
      /\ \A p \in Participants : p # q =>
            /\ score'[p] = score[p] /\ crossed'[p] = crossed[p] /\ origin'[p] = origin[p]
      /\ tx' = Committed(w) /\ clock' = clock /\ history' = history /\ RowFree(q)
  BY <1>0, <1>1 DEF WriteReplay, TypeOK
<1>3. TypeOK'
  <2>1. tx' \in [Writers -> Transactions]
    BY <1>0, <1>2, Bystanders
  <2>2. [score |-> tx[w].read, rows |-> Len(history[q])] \in [score : Nat, rows : 0 .. MaxEvents]
    <3>1. Len(history[q]) \in Nat /\ Len(history[q]) <= MaxEvents
      BY <1>0, <1>1 DEF TypeOK
    <3> QED BY <1>1, <3>1, ClockAssumption
  <2>3. /\ score' \in [Participants -> Nat] /\ crossed' \in [Participants -> BOOLEAN]
        /\ origin' \in [Participants -> [score : Nat, rows : 0 .. MaxEvents]]
    BY <1>0, <1>1, <2>2 DEF TypeOK, WriteReplay
  <2> QED BY <1>0, <1>2, <2>1, <2>3 DEF TypeOK
<1>4. TxInv'
  BY <1>0, <1>2, <1>3, CommitKeeps
<1>5. ASSUME ~crossed'[q] PROVE ~crossed[q] /\ tx[w].read = Replay(history[q])
  <2>1. ~crossed[q] /\ Fresh(w)
    BY <1>0, <1>2, <1>5 DEF Fresh, Unread
  <2> QED BY <1>0, <2>1 DEF TxInv, Current
<1> QED BY <1>1, <1>2, <1>4, <1>5

-----------------------------------------------------------------------------
(* Which rows count.                                                       *)

LEMMA LatelyShrinks ==
    ASSUME NEW rows \in Seq(Rows), NEW at \in Nat, NEW time \in Nat, at <= time
    PROVE  /\ SumOf(rows, Lately(rows, at)) \in Int /\ SumOf(rows, Lately(rows, time)) \in Int
           /\ SumOf(rows, Today(rows, at)) \in Int
           /\ SumOf(rows, Lately(rows, time)) <= SumOf(rows, Lately(rows, at))
           /\ SumOf(rows, Lately(rows, time)) <= SumOf(rows, Today(rows, at))
<1>1. /\ \A i \in DOMAIN rows : rows[i].at \in Nat /\ rows[i].delta \in Int
      /\ at - Day \in Int /\ time - Day \in Int /\ at - Day <= time - Day
  BY RowOf, DayIsPositive
<1>2. ASSUME NEW i \in DOMAIN rows, rows[i].at > time - Day PROVE rows[i].at > at - Day
  BY <1>1, <1>2
<1>3. /\ Lately(rows, time) \in SUBSET Lately(rows, at)
      /\ Lately(rows, time) \in SUBSET Today(rows, at)
  BY <1>2 DEF Lately, Today
<1>4. /\ Deltas(rows, Lately(rows, at)) /\ Deltas(rows, Today(rows, at))
      /\ SumOf(rows, Lately(rows, at)) \in Int /\ SumOf(rows, Today(rows, at)) \in Int
      /\ SumOf(rows, Lately(rows, time)) \in Int
  BY RowSums DEF Lately, Today
<1>5. /\ \A i \in Lately(rows, at) : rows[i].delta >= 0
      /\ \A i \in Today(rows, at) : rows[i].delta >= 0
  BY <1>1 DEF Lately, Today
<1>6. SumOf(rows, Lately(rows, time)) <= SumOf(rows, Lately(rows, at))
  BY <1>3, <1>4, <1>5, SumOfParts
<1>7. SumOf(rows, Lately(rows, time)) <= SumOf(rows, Today(rows, at))
  BY <1>3, <1>4, <1>5, SumOfParts
<1> QED BY <1>4, <1>6, <1>7

\* An entry adds its points to the gains it is counted with and to no others.
LEMMA CountsAppend ==
    ASSUME NEW rows \in Seq(Rows), NEW entry \in Rows, NEW time \in Nat
    PROVE  /\ SumOf(Append(rows, entry), Lately(Append(rows, entry), time)) =
                 IF entry.kind # "stake" /\ entry.at > time - Day /\ entry.delta > 0
                 THEN SumOf(rows, Lately(rows, time)) + entry.delta
                 ELSE SumOf(rows, Lately(rows, time))
           /\ SumOf(Append(rows, entry), Positive(Append(rows, entry))) =
                 IF entry.kind # "stake" /\ entry.delta > 0
                 THEN SumOf(rows, Positive(rows)) + entry.delta
                 ELSE SumOf(rows, Positive(rows))
<1> DEFINE more == Append(rows, entry)
           n == Len(rows) + 1
<1>1. /\ DOMAIN more = (DOMAIN rows) \cup {n} /\ n \notin DOMAIN rows
      /\ more[n] = entry /\ \A i \in DOMAIN rows : more[i] = rows[i]
  BY RowsAppend
<1>2. \A chosen \in SUBSET DOMAIN rows :
        /\ SumOf(more, chosen) = SumOf(rows, chosen)
        /\ SumOf(more, chosen \cup {n}) = SumOf(rows, chosen) + entry.delta
  BY SumAppend
<1> HIDE DEF more, n
<1>3. Lately(more, time) = IF entry.kind # "stake" /\ entry.at > time - Day /\ entry.delta > 0
                          THEN Lately(rows, time) \cup {n} ELSE Lately(rows, time)
  <2>1. \A i \in DOMAIN rows : i \in Lately(more, time) <=> i \in Lately(rows, time)
    BY <1>1 DEF Lately
  <2>2. n \in Lately(more, time) <=> entry.kind # "stake" /\ entry.at > time - Day /\ entry.delta > 0
    BY <1>1 DEF Lately
  <2>3. Lately(more, time) \subseteq (DOMAIN rows) \cup {n} /\ Lately(rows, time) \subseteq DOMAIN rows
    BY <1>1 DEF Lately
  <2>4. CASE entry.kind # "stake" /\ entry.at > time - Day /\ entry.delta > 0
    <3>1. \A i : i \in Lately(more, time) <=> i \in Lately(rows, time) \cup {n}
      BY <1>1, <2>1, <2>2, <2>3, <2>4
    <3> QED BY <2>4, <3>1
  <2>5. CASE ~(entry.kind # "stake" /\ entry.at > time - Day /\ entry.delta > 0)
    <3>1. \A i : i \in Lately(more, time) <=> i \in Lately(rows, time)
      BY <1>1, <2>1, <2>2, <2>3, <2>5
    <3> QED BY <2>5, <3>1
  <2> QED BY <2>4, <2>5
<1>4. Positive(more) = IF entry.kind # "stake" /\ entry.delta > 0
                       THEN Positive(rows) \cup {n} ELSE Positive(rows)
  <2>1. \A i \in DOMAIN rows : i \in Positive(more) <=> i \in Positive(rows)
    BY <1>1 DEF Positive
  <2>2. n \in Positive(more) <=> entry.kind # "stake" /\ entry.delta > 0
    BY <1>1 DEF Positive
  <2>3. Positive(more) \subseteq (DOMAIN rows) \cup {n} /\ Positive(rows) \subseteq DOMAIN rows
    BY <1>1 DEF Positive
  <2>4. CASE entry.kind # "stake" /\ entry.delta > 0
    <3>1. \A i : i \in Positive(more) <=> i \in Positive(rows) \cup {n}
      BY <1>1, <2>1, <2>2, <2>3, <2>4
    <3> QED BY <2>4, <3>1
  <2>5. CASE ~(entry.kind # "stake" /\ entry.delta > 0)
    <3>1. \A i : i \in Positive(more) <=> i \in Positive(rows)
      BY <1>1, <2>1, <2>2, <2>3, <2>5
    <3> QED BY <2>5, <3>1
  <2> QED BY <2>4, <2>5
<1>5. Lately(rows, time) \in SUBSET DOMAIN rows /\ Positive(rows) \in SUBSET DOMAIN rows
  BY DEF Lately, Positive
<1>6. SumOf(more, Lately(more, time)) =
        IF entry.kind # "stake" /\ entry.at > time - Day /\ entry.delta > 0
        THEN SumOf(rows, Lately(rows, time)) + entry.delta
        ELSE SumOf(rows, Lately(rows, time))
  BY <1>2, <1>3, <1>5
<1>7. SumOf(more, Positive(more)) =
        IF entry.kind # "stake" /\ entry.delta > 0
        THEN SumOf(rows, Positive(rows)) + entry.delta
        ELSE SumOf(rows, Positive(rows))
  BY <1>2, <1>4, <1>5
<1> QED BY <1>6, <1>7 DEF more

LEMMA NothingCounts == SumOf(<<>>, Positive(<<>>)) = 0 /\ \A time : SumOf(<<>>, Lately(<<>>, time)) = 0
<1>1. <<>> \in Seq(Rows) /\ DOMAIN <<>> = {}
  OBVIOUS
<1>2. Positive(<<>>) = {} /\ \A time : Lately(<<>>, time) = {}
  BY <1>1 DEF Positive, Lately
<1>3. Deltas(<<>>, {})
  BY FS_EmptySet DEF Deltas
<1>4. SumOf(<<>>, {}) = 0
  BY <1>3, SumUnfolds
<1> QED BY <1>2, <1>4

LEMMA OrderedPrefix ==
    ASSUME NEW rows \in Seq(Rows), NEW entry \in Rows, InOrder(Append(rows, entry))
    PROVE  InOrder(rows)
<1> SUFFICES ASSUME NEW i \in DOMAIN rows, NEW j \in DOMAIN rows, i < j
             PROVE  rows[i].at < rows[j].at
  BY DEF InOrder
<1>1. /\ Append(rows, entry)[i] = rows[i] /\ Append(rows, entry)[j] = rows[j]
      /\ i \in DOMAIN Append(rows, entry) /\ j \in DOMAIN Append(rows, entry)
  BY RowsAppend
<1> QED BY <1>1 DEF InOrder

-----------------------------------------------------------------------------
(* A participant's score, cap and replay.                                  *)

LEMMA Histories ==
    ASSUME TypeOK, NEW p \in Participants
    PROVE  /\ score[p] \in Nat /\ history[p] \in Seq(Rows) /\ crossed[p] \in BOOLEAN
           /\ origin[p].score \in Nat /\ origin[p].rows \in Nat /\ clock \in Nat
           /\ Len(history[p]) \in Nat
  BY ClockAssumption DEF TypeOK

LEMMA LargestBounds ==
    /\ LargestGain \in Nat /\ \A e \in Events : Base[e] <= LargestGain
    /\ Cardinality(Writers) - 1 \in Nat
    /\ (Cardinality(Writers) - 1) * LargestGain \in Nat
<1> DEFINE S == {Base[e] : e \in Events} \cup {0}
           Above(x) == {y \in S : y > x}
           Q == {Above(x) : x \in S}
<1>1. IsFiniteSet(S) /\ S \in SUBSET Int /\ 0 \in S
  <2>1. IsFiniteSet({Base[e] : e \in Events})
    <3> DEFINE T == {Base[e] : e \in Events}
    <3>1. Base \in Surjection(Events, T)
      BY EventAssumption DEF Surjection
    <3> HIDE DEF T
    <3>2. IsFiniteSet(T)
      BY <3>1, KindAssumption, FS_Surjection
    <3> QED BY <3>2 DEF T
  <2>2. IsFiniteSet({0})
    BY FS_Singleton
  <2>3. \A e \in Events : Base[e] \in Int
    BY EventAssumption
  <2>4. IsFiniteSet(S)
    BY <2>1, <2>2, FS_Union
  <2> QED BY <2>3, <2>4
<1> HIDE DEF S
<1>2. PICK T \in Q : \A U \in Q : U \subseteq T => U = T
  <2>1. Above(0) \in Q /\ \A x \in S : Above(x) \in SUBSET S
    BY <1>1
  <2>2. Q \in SUBSET SUBSET S /\ Q # {}
    BY <2>1
  <2> HIDE DEF Q
  <2>3. IsFiniteSet(S)
    BY <1>1
  <2> QED BY <2>2, <2>3, Smallest
<1>3. PICK x \in S : T = Above(x)
  OBVIOUS
<1>4. ASSUME NEW y \in S PROVE x >= y
  <2>1. x \in Int /\ y \in Int
    BY <1>1
  <2>2. ASSUME y > x PROVE FALSE
    <3>1. Above(y) \in Q
      OBVIOUS
    <3>2. \A z \in S : z > y => z > x
      BY <1>1, <2>1, <2>2
    <3>3. Above(y) \subseteq Above(x)
      BY <3>2
    <3>4. y \in Above(x)
      BY <2>2
    <3>5. y \notin Above(y)
      BY <2>1
    <3> HIDE DEF Above, Q
    <3> QED BY <1>2, <1>3, <3>1, <3>3, <3>4, <3>5
  <2> HIDE DEF Above, Q
  <2> QED BY <2>1, <2>2
<1>5. Max(S) \in S /\ \A y \in S : Max(S) >= y
  BY <1>4 DEF Max
<1> HIDE DEF Above, Q
<1>6. LargestGain = Max(S) /\ \A e \in Events : Base[e] \in S
  BY DEF LargestGain, S
<1>7. LargestGain \in Nat /\ \A e \in Events : Base[e] <= LargestGain
  <2>1. LargestGain \in Int /\ LargestGain >= 0
    BY <1>1, <1>5, <1>6
  <2>2. ASSUME NEW e \in Events PROVE Base[e] <= LargestGain
    <3>1. Base[e] \in Int /\ LargestGain >= Base[e]
      BY <1>1, <1>5, <1>6
    <3> QED BY <2>1, <3>1
  <2>3. LargestGain \in Nat
    BY <2>1
  <2> QED BY <2>2, <2>3
<1>8. Cardinality(Writers) - 1 \in Nat
  BY WriterAssumption, FS_CardinalityType, FS_EmptySet
<1>9. (Cardinality(Writers) - 1) * LargestGain \in Nat
  BY <1>7, <1>8
<1> QED BY <1>7, <1>8, <1>9

LEMMA LedgerInitially == Init => LedgerInv
<1> SUFFICES ASSUME Init PROVE LedgerInv
  OBVIOUS
<1>1. TypeOK
  <2>1. Idle \in Transactions
    BY ClockAssumption DEF Idle, Transactions, Kinds
  <2>2. Baseline \in Nat /\ <<>> \in Seq(Rows) /\ Len(<<>>) = 0 /\ 0 \in 0 .. MaxClock
        /\ 0 \in 0 .. MaxEvents
    BY PointAssumption, ClockAssumption
  <2> QED BY <2>1, <2>2, ClockAssumption DEF Init, TypeOK
<1>2. TxInv
  <2>1. ASSUME NEW w \in Writers PROVE tx[w].pc = "idle" /\ Sound(tx[w], clock)
    BY DEF Init, Idle, Sound, Working, Unread
  <2> QED BY <1>1, <2>1 DEF TxInv, Fresh, Unread
<1>3. ASSUME NEW p \in Participants PROVE Explains(p) /\ Keeps(p) /\ Exceeds(p) /\ Agrees(p)
  <2>1. /\ history[p] = <<>> /\ score[p] = Baseline /\ origin[p] = [score |-> Baseline, rows |-> 0]
        /\ Baseline \in Nat /\ Cap \in Nat /\ Len(<<>>) = 0
    BY PointAssumption DEF Init
  <2>2. SubSeq(<<>>, 1, 0) = <<>>
    OBVIOUS
  <2>3. Explains(p)
    <3>1. Since(p) = <<>>
      BY <2>1, <2>2 DEF Since
    <3> QED BY <2>1, <3>1, PointsOfNothing DEF Explains
  <2>4. SumOf(history[p], Lately(history[p], clock)) = 0
    BY <2>1, NothingCounts
  <2>5. Keeps(p)
    BY <2>1, <2>4 DEF Keeps
  <2>6. Exceeds(p)
    <3>1. Pending(tx, p) = {}
      BY DEF Init, Idle, Pending
    <3>2. SumOf(tx, {}) = 0
      <4>1. Deltas(tx, {})
        BY FS_EmptySet DEF Deltas
      <4> QED BY <4>1, SumUnfolds
    <3>3. (Cardinality(Writers) - 1) * LargestGain \in Nat
      BY LargestBounds
    <3> QED BY <2>1, <2>4, <3>1, <3>2, <3>3 DEF Exceeds
  <2>7. Agrees(p)
    <3>1. Replayed(<<>>) = Start /\ SumOf(<<>>, Positive(<<>>)) = 0
      BY ReplayOfNothing, NothingCounts
    <3> QED BY <2>1, <3>1 DEF Agrees, Agreed, Start
  <2> QED BY <2>3, <2>5, <2>6, <2>7
<1> QED BY <1>2, <1>3 DEF LedgerInv

\* Nothing is committed: the history, the score and its origin stay, and the clock
\* only lets rows expire.
LEMMA StillKeeps ==
    ASSUME TypeOK, NEW p \in Participants, Explains(p), Keeps(p), Agrees(p),
           history'[p] = history[p], score'[p] = score[p], crossed'[p] = crossed[p],
           origin'[p] = origin[p], clock' \in Nat, clock <= clock'
    PROVE  Explains(p)' /\ Keeps(p)' /\ Agrees(p)'
<1>1. Explains(p)'
  BY DEF Explains, Since
<1>2. Keeps(p)'
  <2>1. /\ SumOf(history[p], Lately(history[p], clock)) \in Int
        /\ SumOf(history[p], Lately(history[p], clock')) \in Int
        /\ SumOf(history[p], Lately(history[p], clock')) <= SumOf(history[p], Lately(history[p], clock))
    BY Histories, LatelyShrinks
  <2>2. Cap \in Int
    BY PointAssumption
  <2> QED BY <2>1, <2>2 DEF Keeps
<1>3. Agrees(p)'
  BY DEF Agrees
<1> QED BY <1>1, <1>2, <1>3

LEMMA ExplainsAppend ==
    ASSUME TxInv, NEW w \in Writers, Appends(w), NEW p \in Participants, p = tx[w].who, Explains(p)
    PROVE  Explains(p)'
<1> DEFINE entry == EventRow(w)
<1>1. /\ entry \in Rows /\ history'[p] = Append(history[p], entry)
      /\ score'[p] = Floor(tx[w].read + tx[w].delta) /\ origin' = origin
      /\ ~crossed'[p] => ~crossed[p] /\ Current(tx[w], score[p], history[p])
  BY AppendKeeps
<1>2. /\ history[p] \in Seq(Rows) /\ origin[p].rows \in 0 .. Len(history[p])
      /\ origin[p].score \in Nat /\ score[p] \in Nat /\ tx[w].delta \in Int
      /\ entry.delta = tx[w].delta
  <2>1. tx[w].delta \in Int
    BY DEF TxInv, TypeOK, Transactions
  <2> QED BY <2>1, Histories DEF TxInv, Explains, EventRow
<1> HIDE DEF entry
<1>3. Len(history'[p]) = Len(history[p]) + 1 /\ Len(history[p]) \in Nat
  BY <1>1, <1>2, RowsAppend
<1>4. ASSUME ~crossed'[p]
      PROVE  score'[p] = Sum(origin'[p].score, SubSeq(history'[p], origin'[p].rows + 1, Len(history'[p])))
  <2> DEFINE since == SubSeq(history[p], origin[p].rows + 1, Len(history[p]))
  <2>1. since \in Seq(Rows) /\ score[p] = Sum(origin[p].score, since)
    BY <1>1, <1>2, <1>4, SinceAppend DEF Explains, Since
  <2>2. tx[w].read = score[p]
    BY <1>1, <1>4 DEF Current, Appends, Working
  <2>3. score'[p] = Step(score[p], entry)
    <3>1. tx[w].read + tx[w].delta \in Int
      BY <1>2, <2>2
    <3> QED BY <1>1, <1>2, <2>2, <3>1, Floored DEF Step
  <2>4. SubSeq(history'[p], origin'[p].rows + 1, Len(history'[p])) = Append(since, entry)
    BY <1>1, <1>2, <1>3, SinceAppend
  <2> HIDE DEF since
  <2>5. Sum(origin[p].score, Append(since, entry)) = Step(Sum(origin[p].score, since), entry)
    BY <1>1, <1>2, <2>1, PointsAppend
  <2> QED BY <1>1, <2>1, <2>3, <2>4, <2>5
<1>5. origin'[p].rows <= Len(history'[p])
  BY <1>1, <1>2, <1>3
<1> QED BY <1>4, <1>5 DEF Explains, Since

\* The entry of a gain that keeps the cap: what it was cut to, after the gains that
\* the last day still holds.
LEMMA KeepsAppend ==
    ASSUME TxInv, NEW w \in Writers, Appends(w), NEW p \in Participants, p = tx[w].who, Keeps(p)
    PROVE  Keeps(p)'
<1> DEFINE entry == EventRow(w)
           rows == history[p]
<1> SUFFICES ASSUME ~crossed'[p]
             PROVE  SumOf(history'[p], Lately(history'[p], clock')) <= Cap
  BY DEF Keeps
<1>1. /\ entry \in Rows /\ history'[p] = Append(rows, entry) /\ clock' = clock
      /\ ~crossed[p] /\ Current(tx[w], score[p], rows)
  BY AppendKeeps
<1>2. /\ rows \in Seq(Rows) /\ score[p] \in Nat /\ clock \in Nat /\ Cap \in Int
      /\ entry.kind = tx[w].kind /\ entry.delta = tx[w].delta /\ entry.at = tx[w].at
      /\ tx[w].delta \in Int /\ tx[w].at \in Nat /\ tx[w].at <= clock
      /\ tx[w].pc \in {"capped", "locked"} /\ Sound(tx[w], clock)
  BY Histories, PointAssumption, ClockAssumption
     DEF TxInv, TypeOK, Transactions, EventRow, Appends, Sound, Working, Unread
<1> HIDE DEF entry, rows
<1>3. SumOf(rows, Lately(rows, clock)) <= Cap
  BY <1>1 DEF Keeps, rows
<1>4. SumOf(history'[p], Lately(history'[p], clock)) =
        IF entry.kind # "stake" /\ entry.at > clock - Day /\ entry.delta > 0
        THEN SumOf(rows, Lately(rows, clock)) + entry.delta
        ELSE SumOf(rows, Lately(rows, clock))
  BY <1>1, <1>2, CountsAppend
<1>5. ASSUME entry.kind # "stake", entry.delta > 0
      PROVE  SumOf(rows, Lately(rows, clock)) + entry.delta <= Cap
  <2> DEFINE e == tx[w].kind
             today == SumOf(rows, Today(rows, tx[w].at))
  <2>1. tx[w].pc = "capped" /\ e \in Events /\ Base[e] \in Int
    <3>1. tx[w].pc = "capped" /\ e \in Events
      BY <1>2, <1>5 DEF Sound
    <3> QED BY <3>1, EventAssumption
  <2>2. Base[e] > 0
    BY <1>2, <1>5, <2>1 DEF Sound
  <2>3. entry.delta = Room(Scaled(Base[e], score[p]), today)
    BY <1>1, <1>2, <2>1, <2>2 DEF Current
  <2>4. Scaled(Base[e], score[p]) \in Nat
    <3>1. Base[e] \in Nat
      BY <2>1, <2>2
    <3> QED BY <1>2, <3>1, ScaledBounded
  <2>5. /\ SumOf(rows, Lately(rows, clock)) \in Int /\ today \in Int
        /\ SumOf(rows, Lately(rows, clock)) <= today
    BY <1>2, LatelyShrinks
  <2> HIDE DEF today, e
  <2>6. today + entry.delta <= Cap
    BY <1>5, <2>3, <2>4, <2>5, RoomBounded
  <2> QED BY <1>2, <2>5, <2>6
<1>6. SumOf(history'[p], Lately(history'[p], clock)) <= Cap
  BY <1>3, <1>4, <1>5
<1> QED BY <1>1, <1>6

LEMMA PlainPrefix ==
    ASSUME NEW rows \in Seq(Rows), NEW entry \in Rows, Plain(Append(rows, entry))
    PROVE  /\ Plain(rows) /\ Append(rows, entry)[1].at \div Day = entry.at \div Day
           /\ \A i \in DOMAIN rows : rows[i].at \div Day = entry.at \div Day
<1> DEFINE more == Append(rows, entry)
           n == Len(rows) + 1
<1>1. /\ DOMAIN more = (DOMAIN rows) \cup {n} /\ DOMAIN rows = 1 .. Len(rows) /\ Len(rows) \in Nat
      /\ more[n] = entry /\ \A i \in DOMAIN rows : more[i] = rows[i]
  BY RowsAppend
<1>2. /\ \A i \in DOMAIN more : more[i].at \div Day = more[1].at \div Day
      /\ \A i \in DOMAIN more : more[i].kind = "stake" => more[i].delta <= 0
  BY DEF Plain
<1> HIDE DEF more
<1>3. more[1].at \div Day = entry.at \div Day
  BY <1>1, <1>2
<1>4. ASSUME NEW i \in DOMAIN rows
      PROVE  /\ rows[i].at \div Day = entry.at \div Day
             /\ rows[i].at \div Day = rows[1].at \div Day
             /\ rows[i].kind = "stake" => rows[i].delta <= 0
  <2>1. 1 \in DOMAIN rows /\ i \in DOMAIN more /\ 1 \in DOMAIN more
    BY <1>1
  <2>2. more[i] = rows[i] /\ more[1] = rows[1]
    BY <1>1, <2>1
  <2> QED BY <1>2, <1>3, <2>1, <2>2
<1> QED BY <1>3, <1>4 DEF more, Plain

LEMMA SameDay ==
    ASSUME NEW a \in Nat, NEW b \in Nat, NEW day \in Nat \ {0}, a \div day = b \div day
    PROVE  a > b - day
  OBVIOUS

\* Rows of one UTC day lie within 24 hours of each other, and gains are all that
\* raises a score when no stake was won.
LEMMA TodayIsPositive ==
    ASSUME NEW rows \in Seq(Rows), NEW at \in Nat, Plain(rows),
           \A i \in DOMAIN rows : rows[i].at \div Day = at \div Day
    PROVE  Today(rows, at) = Positive(rows)
<1>1. ASSUME NEW i \in DOMAIN rows PROVE i \in Today(rows, at) <=> i \in Positive(rows)
  <2>1. rows[i].at \in Nat /\ rows[i].delta \in Int /\ Day \in Nat \ {0}
    BY RowOf, DayIsPositive
  <2>2. rows[i].at > at - Day
    BY <2>1, SameDay
  <2>3. rows[i].kind = "stake" => ~(rows[i].delta > 0)
    <3>1. rows[i].kind = "stake" => rows[i].delta <= 0
      BY DEF Plain
    <3> QED BY <2>1, <3>1
  <2> QED BY <2>2, <2>3 DEF Today, Positive
<1>2. Today(rows, at) \subseteq DOMAIN rows /\ Positive(rows) \subseteq DOMAIN rows
  BY DEF Today, Positive
<1> QED BY <1>1, <1>2

\* The replay takes an entry as its commit did: the day's gains it remembers are
\* those the transaction summed.
LEMMA ReplayTakes ==
    ASSUME NEW rows \in Seq(Rows), NEW entry \in Rows, NEW points \in Nat,
           InOrder(Append(rows, entry)), Plain(Append(rows, entry)), Agreed(rows, points),
           entry.kind # "stake" /\ Base[entry.kind] > 0 =>
             entry.delta = Room(Scaled(Base[entry.kind], points), SumOf(rows, Today(rows, entry.at))),
           entry.kind # "stake" /\ ~(Base[entry.kind] > 0) => entry.delta = Base[entry.kind]
    PROVE  Agreed(Append(rows, entry), Floor(points + entry.delta))
<1> DEFINE replay == Replayed(rows)
           more == Append(rows, entry)
           sum == SumOf(rows, Positive(rows))
           base == Base[entry.kind]
           gain == entry.kind # "stake" /\ base > 0
           delta == CASE entry.kind = "stake" -> entry.delta
                      [] entry.kind # "stake" /\ base > 0 ->
                           Room(Scaled(base, replay.score), ReplayedBefore(replay, entry))
                      [] OTHER -> base
<1>1. /\ entry.at \in Nat /\ entry.delta \in Int /\ entry.kind \in Kinds
      /\ entry.kind # "stake" => entry.kind \in Events
  BY ClockAssumption DEF Rows, Kinds
<1>2. /\ Plain(rows) /\ more[1].at \div Day = entry.at \div Day /\ more # <<>>
      /\ \A i \in DOMAIN rows : rows[i].at \div Day = entry.at \div Day
  <2>1. more # <<>>
    <3>1. Len(more) = Len(rows) + 1 /\ Len(rows) \in Nat
      BY RowsAppend
    <3> HIDE DEF more
    <3>2. Len(<<>>) = 0
      OBVIOUS
    <3> QED BY <3>1, <3>2
  <2> QED BY <2>1, PlainPrefix
<1>3. replay \in ReplayStates /\ sum \in Int /\ replay.score = points /\ replay.gained = sum
  BY ReplayTyped, RowSums DEF Positive, Agreed
<1>4. ReplayedBefore(replay, entry) = sum
  <2>1. CASE rows = <<>>
    <3>1. sum = 0
      BY <2>1, NothingCounts
    <3> QED BY <1>3, <3>1 DEF ReplayedBefore
  <2>2. CASE rows # <<>>
    <3>1. 1 \in DOMAIN rows
      BY <2>2
    <3>2. replay.day = entry.at \div Day
      BY <1>2, <2>2, <3>1 DEF Agreed
    <3> QED BY <1>3, <3>2 DEF ReplayedBefore
  <2> QED BY <2>1, <2>2
<1>5. SumOf(rows, Today(rows, entry.at)) = sum
  BY <1>1, <1>2, TodayIsPositive
<1> HIDE DEF sum, replay, base
<1>6. gain => entry.delta = Room(Scaled(base, points), sum)
  BY <1>5 DEF base
<1>7. delta = entry.delta
  <2>1. CASE entry.kind = "stake"
    BY <2>1
  <2>2. CASE gain
    BY <1>3, <1>4, <1>6, <2>2
  <2>3. CASE entry.kind # "stake" /\ ~(base > 0)
    <3>1. entry.delta = base
      BY <2>3 DEF base
    <3> QED BY <2>3, <3>1
  <2> QED BY <2>1, <2>2, <2>3
<1>8. Replayed(more) = [score |-> Floor(points + entry.delta), day |-> entry.at \div Day,
                        gained |-> IF gain THEN sum + entry.delta ELSE sum]
  <2>1. Replayed(more) = ReplayRow(replay, entry)
    BY ReplayAppends DEF replay
  <2>2. ReplayRow(replay, entry) =
          [score |-> Floor(replay.score + delta), day |-> entry.at \div Day,
           gained |-> IF gain THEN ReplayedBefore(replay, entry) + delta ELSE ReplayedBefore(replay, entry)]
    BY DEF ReplayRow, base
  <2> HIDE DEF delta
  <2> QED BY <1>3, <1>4, <1>7, <2>1, <2>2
<1>9. SumOf(more, Positive(more)) = IF entry.kind # "stake" /\ entry.delta > 0 THEN sum + entry.delta ELSE sum
  BY CountsAppend, <1>1 DEF sum
<1>10. (IF gain THEN sum + entry.delta ELSE sum)
         = IF entry.kind # "stake" /\ entry.delta > 0 THEN sum + entry.delta ELSE sum
  <2>1. CASE entry.kind = "stake"
    BY <2>1
  <2>2. CASE gain
    <3>1. base \in Nat
      BY <1>1, <2>2, EventAssumption DEF base
    <3>2. Scaled(base, points) \in Nat
      BY <3>1, ScaledBounded
    <3>3. entry.delta \in Nat
      BY <1>3, <1>6, <2>2, <3>2, RoomBounded
    <3>4. entry.delta = 0 \/ entry.delta > 0
      BY <3>3
    <3> QED BY <1>3, <2>2, <3>4
  <2>3. CASE entry.kind # "stake" /\ ~(base > 0)
    <3>1. ~(entry.delta > 0)
      BY <2>3 DEF base
    <3> QED BY <2>3, <3>1
  <2> QED BY <2>1, <2>2, <2>3
<1> HIDE DEF more, gain
<1>11. /\ Replayed(more).score = Floor(points + entry.delta)
       /\ Replayed(more).gained = SumOf(more, Positive(more))
       /\ Replayed(more).day = more[1].at \div Day
  BY <1>2, <1>8, <1>9, <1>10
<1> QED BY <1>11 DEF Agreed, more

LEMMA AgreesAppend ==
    ASSUME TxInv, NEW w \in Writers, Appends(w), NEW p \in Participants, p = tx[w].who,
           Agrees(p)
    PROVE  Agrees(p)'
<1> DEFINE entry == EventRow(w)
           rows == history[p]
           more == Append(rows, entry)
<1> SUFFICES ASSUME ~crossed'[p], InOrder(history'[p]), Plain(history'[p])
             PROVE  Agreed(history'[p], score'[p])
  BY DEF Agrees
<1>1. /\ entry \in Rows /\ history'[p] = more /\ score'[p] = Floor(tx[w].read + tx[w].delta)
      /\ ~crossed[p] /\ Current(tx[w], score[p], rows)
  BY AppendKeeps
<1>2. /\ rows \in Seq(Rows) /\ score[p] \in Nat
      /\ entry.kind = tx[w].kind /\ entry.delta = tx[w].delta /\ entry.at = tx[w].at
      /\ tx[w].pc \in {"capped", "locked"} /\ Sound(tx[w], clock)
  BY Histories DEF TxInv, TypeOK, EventRow, Appends
<1>3. /\ InOrder(more) /\ Plain(more)
      /\ InOrder(rows) /\ Plain(rows) => Agreed(rows, score[p])
  BY <1>1 DEF Agrees
<1> HIDE DEF entry, rows
<1>4. InOrder(rows) /\ Plain(rows)
  BY <1>1, <1>2, <1>3, OrderedPrefix, PlainPrefix
<1>5. entry.kind # "stake" /\ Base[entry.kind] > 0 =>
        entry.delta = Room(Scaled(Base[entry.kind], score[p]), SumOf(rows, Today(rows, entry.at)))
  BY <1>1, <1>2 DEF Current, Sound
<1>6. entry.kind # "stake" /\ ~(Base[entry.kind] > 0) => entry.delta = Base[entry.kind]
  BY <1>2 DEF Sound
<1>7. Agreed(more, Floor(score[p] + entry.delta))
  BY <1>1, <1>2, <1>3, <1>4, <1>5, <1>6, ReplayTakes
<1>8. tx[w].read = score[p]
  BY <1>1, <1>2 DEF Current, Working
<1> QED BY <1>1, <1>2, <1>7, <1>8

\* The gains that open transactions may still add, each of one event at most.
LEMMA OpenSums ==
    ASSUME NEW open \in [Writers -> Transactions], NEW S \in SUBSET Writers
    PROVE  IsFiniteSet(S) /\ Deltas(open, S) /\ SumOf(open, S) \in Int
<1>1. IsFiniteSet(S)
  BY WriterAssumption, FS_Subset
<1>2. \A w \in S : open[w].delta \in Int
  BY DEF Transactions
<1> QED BY <1>1, <1>2, SumDetermined DEF Deltas

LEMMA PendingBounded ==
    ASSUME NEW open \in [Writers -> Transactions], NEW time, NEW p, NEW w \in Pending(open, p),
           Sound(open[w], time)
    PROVE  open[w].delta \in Nat /\ open[w].delta <= LargestGain
<1>1. /\ w \in Writers /\ open[w].pc = "capped" /\ open[w].delta > 0 /\ open[w].delta \in Int
      /\ open[w].kind \in Events
  BY DEF Pending, Transactions, Sound
<1>2. Base[open[w].kind] \in Int /\ Base[open[w].kind] <= LargestGain /\ LargestGain \in Nat
  BY <1>1, EventAssumption, LargestBounds
<1>3. open[w].delta <= Base[open[w].kind]
  BY <1>1, <1>2 DEF Sound
<1> QED BY <1>1, <1>2, <1>3

LEMMA PendingShrinks ==
    ASSUME NEW open \in [Writers -> Transactions], NEW next \in [Writers -> Transactions],
           NEW p, NEW S \in SUBSET Pending(open, p), Pending(next, p) \subseteq S,
           \A w \in Pending(next, p) : next[w].delta = open[w].delta
    PROVE  /\ SumOf(next, Pending(next, p)) \in Int /\ SumOf(open, S) \in Int
           /\ SumOf(next, Pending(next, p)) <= SumOf(open, S)
<1> DEFINE T == Pending(next, p)
<1>1. S \in SUBSET Writers /\ T \in SUBSET Writers /\ T \in SUBSET S
  BY DEF Pending
<1>2. Deltas(next, T) /\ Deltas(open, S)
  BY <1>1, OpenSums
<1>3. SumOf(next, T) \in Int /\ SumOf(next, T) = SumOf(open, T)
  BY <1>2, SumDetermined
<1>4. \A w \in S : open[w].delta >= 0
  BY <1>1 DEF Pending, Transactions
<1> HIDE DEF T
<1>5. SumOf(open, S) \in Int /\ SumOf(open, T) <= SumOf(open, S)
  BY <1>1, <1>2, <1>4, SumOfParts
<1>6. SumOf(next, T) <= SumOf(open, S)
  BY <1>3, <1>5
<1> QED BY <1>3, <1>5, <1>6 DEF T

LEMMA TimesGrows == ASSUME NEW a \in Nat, NEW b \in Nat, a <= b, NEW c \in Nat PROVE a * c <= b * c
  OBVIOUS

\* No transaction adds to what is pending: what has been earned and what is
\* pending stay below the bound.
LEMMA ExceedsKept ==
    ASSUME TxInv, TxInv', NEW p \in Participants, Exceeds(p),
           NEW S \in SUBSET Pending(tx, p), Pending(tx', p) \subseteq S,
           \A w \in Pending(tx', p) : tx'[w].delta = tx[w].delta,
           NEW earned \in Int, earned <= SumOf(history[p], Lately(history[p], clock)),
           SumOf(history'[p], Lately(history'[p], clock')) - earned
             <= SumOf(tx, Pending(tx, p)) - SumOf(tx, S)
    PROVE  Exceeds(p)'
<1> DEFINE before == SumOf(history[p], Lately(history[p], clock))
           after == SumOf(history'[p], Lately(history'[p], clock'))
           bound == Cap + (Cardinality(Writers) - 1) * LargestGain
           pending == SumOf(tx, Pending(tx, p))
           still == SumOf(tx', Pending(tx', p))
           part == SumOf(tx, S)
<1>1. tx \in [Writers -> Transactions] /\ tx' \in [Writers -> Transactions]
  BY DEF TxInv, TypeOK
<1>2. still \in Int /\ part \in Int /\ still <= part
  BY <1>1, PendingShrinks
<1>3. before \in Int /\ after \in Int
  BY RowSums DEF TxInv, TypeOK, Lately
<1>4. pending \in Int /\ bound \in Int
  <2>1. Pending(tx, p) \in SUBSET Writers
    BY DEF Pending
  <2>2. Cap \in Int /\ (Cardinality(Writers) - 1) * LargestGain \in Int
    BY PointAssumption, LargestBounds
  <2> QED BY <1>1, <2>1, <2>2, OpenSums
<1>5. before + pending <= bound /\ earned <= before /\ after - earned <= pending - part
  BY DEF Exceeds
<1>6. (after + still <= bound) => Exceeds(p)'
  BY DEF Exceeds
<1> HIDE DEF before, after, bound, pending, still, part
<1>7. after + still <= bound
  BY <1>2, <1>3, <1>4, <1>5
<1> QED BY <1>6, <1>7

LEMMA ExceedsMove ==
    ASSUME TxInv, TxInv', NEW w \in Writers, NEW t, Moves(w, t), Allowed(w, t),
           NEW p \in Participants, Exceeds(p)
    PROVE  Exceeds(p)'
<1>1. /\ tx \in [Writers -> Transactions] /\ tx' \in [Writers -> Transactions]
      /\ tx'[w] = t /\ \A v \in Writers : v # w => tx'[v] = tx[v]
      /\ history' = history /\ history[p] \in Seq(Rows)
      /\ clock \in Nat /\ clock' \in Nat /\ clock <= clock' /\ Cap \in Int
  BY PointAssumption, ClockAssumption DEF TxInv, TypeOK, Moves
<1>2. CASE w \notin Pending(tx', p)
  <2>1. /\ Pending(tx', p) \subseteq Pending(tx, p)
        /\ \A v \in Pending(tx', p) : tx'[v].delta = tx[v].delta
    BY <1>1, <1>2 DEF Pending
  <2>2. /\ SumOf(history[p], Lately(history[p], clock)) \in Int
        /\ SumOf(history[p], Lately(history[p], clock')) \in Int
        /\ SumOf(history[p], Lately(history[p], clock')) <= SumOf(history[p], Lately(history[p], clock))
    BY <1>1, LatelyShrinks
  <2>3. Pending(tx, p) \in SUBSET Pending(tx, p) /\ SumOf(tx, Pending(tx, p)) \in Int
    BY <1>1, OpenSums DEF Pending
  <2>4. SumOf(history'[p], Lately(history'[p], clock')) - SumOf(history[p], Lately(history[p], clock))
          <= SumOf(tx, Pending(tx, p)) - SumOf(tx, Pending(tx, p))
    BY <1>1, <2>2, <2>3
  <2> QED BY <2>1, <2>2, <2>3, <2>4, ExceedsKept
<1>3. CASE w \in Pending(tx', p)
  <2> DEFINE T == Pending(tx', p)
             after == SumOf(history[p], Lately(history[p], clock'))
             today == SumOf(history[p], Today(history[p], t.at))
  <2>1. /\ t.who = p /\ t.pc = "capped" /\ t.delta > 0 /\ t.delta \in Int /\ t.at \in Nat
        /\ t.at <= clock'
    BY <1>1, <1>3, ClockAssumption DEF Pending, Allowed, Transactions, Sound, Working, Unread
  <2>2. today + t.delta <= Cap
    BY <2>1 DEF Allowed
  <2>3. after \in Int /\ today \in Int /\ after <= today
    BY <1>1, <2>1, LatelyShrinks
  <2>4. T \in SUBSET Writers /\ w \in T
    BY <1>3 DEF Pending
  <2>5. \A v \in T : tx'[v].delta \in Nat /\ tx'[v].delta <= LargestGain
    BY <1>1, <2>4, PendingBounded DEF TxInv
  <2>6. /\ Deltas(tx', T) /\ Deltas(tx', T \ {w}) /\ SumOf(tx', T) \in Int
        /\ SumOf(tx', T \ {w}) \in Int /\ IsFiniteSet(T \ {w})
    BY <1>1, <2>4, OpenSums
  <2>7. SumOf(tx', T) = t.delta + SumOf(tx', T \ {w})
    BY <1>1, <2>4, <2>6, SumRemoves
  <2>8. SumOf(tx', T \ {w}) <= Cardinality(T \ {w}) * LargestGain
    BY <2>5, <2>6, LargestBounds, SumBounded
  <2>9. /\ Cardinality(T \ {w}) \in Nat /\ Cardinality(T \ {w}) <= Cardinality(Writers) - 1
    <3>1. T \ {w} \in SUBSET (Writers \ {w})
      BY <2>4
    <3>2. /\ IsFiniteSet(Writers \ {w}) /\ Cardinality(Writers \ {w}) = Cardinality(Writers) - 1
      BY WriterAssumption, FS_RemoveElement
    <3> QED BY <2>6, <3>1, <3>2, FS_Subset, FS_CardinalityType
  <2>10. Cardinality(T \ {w}) * LargestGain <= (Cardinality(Writers) - 1) * LargestGain
    BY <2>9, LargestBounds, TimesGrows
  <2>11. /\ Cardinality(T \ {w}) * LargestGain \in Int
         /\ (Cardinality(Writers) - 1) * LargestGain \in Int
    BY <2>9, LargestBounds
  <2> HIDE DEF T, after, today
  <2>12. after + SumOf(tx', T) <= Cap + (Cardinality(Writers) - 1) * LargestGain
    <3> DEFINE few == Cardinality(T \ {w}) * LargestGain
               many == (Cardinality(Writers) - 1) * LargestGain
               others == SumOf(tx', T \ {w})
    <3>1. few \in Int /\ many \in Int /\ few <= many /\ others \in Int /\ others <= few
      BY <2>6, <2>8, <2>10, <2>11
    <3>2. SumOf(tx', T) = t.delta + others /\ t.delta \in Int /\ Cap \in Int
      BY <1>1, <2>1, <2>7
    <3> HIDE DEF few, many, others
    <3>3. after + (t.delta + others) <= Cap + many
      BY <2>2, <2>3, <3>1, <3>2
    <3> QED BY <3>2, <3>3 DEF many
  <2>13. Exceeds(p)' <=> after + SumOf(tx', T) <= Cap + (Cardinality(Writers) - 1) * LargestGain
    BY <1>1 DEF Exceeds, after, T
  <2> QED BY <2>12, <2>13
<1> QED BY <1>2, <1>3

LEMMA ExceedsWait ==
    ASSUME TxInv, TxInv', Waits, NEW p \in Participants, Exceeds(p)
    PROVE  Exceeds(p)'
<1>1. /\ tx \in [Writers -> Transactions] /\ tx' = tx
      /\ history' = history /\ history[p] \in Seq(Rows)
      /\ clock \in Nat /\ clock' \in Nat /\ clock <= clock'
  BY ClockAssumption DEF TxInv, TypeOK, Waits
<1>2. /\ SumOf(history[p], Lately(history[p], clock)) \in Int
      /\ SumOf(history[p], Lately(history[p], clock')) \in Int
      /\ SumOf(history[p], Lately(history[p], clock')) <= SumOf(history[p], Lately(history[p], clock))
  BY <1>1, LatelyShrinks
<1>3. Pending(tx, p) \in SUBSET Pending(tx, p) /\ SumOf(tx, Pending(tx, p)) \in Int
  BY <1>1, OpenSums DEF Pending
<1>4. SumOf(history'[p], Lately(history'[p], clock')) - SumOf(history[p], Lately(history[p], clock))
        <= SumOf(tx, Pending(tx, p)) - SumOf(tx, Pending(tx, p))
  BY <1>1, <1>2, <1>3
<1> QED BY <1>1, <1>2, <1>3, <1>4, ExceedsKept

\* A commit: the writer's gain moves from the pending ones to the history.
LEMMA PendingCommitted ==
    ASSUME TxInv, NEW w \in Writers, tx[w].pc # "idle", tx' = Committed(w),
           RowFree(tx[w].who) \/ tx[w].pc = "locked", NEW p
    PROVE  /\ Pending(tx', p) \subseteq Pending(tx, p) \ {w}
           /\ \A v \in Pending(tx', p) : tx'[v].delta = tx[v].delta
<1>1. /\ tx'[w] = Idle /\ \A v \in Writers : tx[v] \in Transactions
      /\ \A v \in Writers : v # w =>
            tx'[v] = tx[v] \/ tx'[v] = [tx[v] EXCEPT !.stale = TRUE]
  BY Bystanders DEF TxInv, TypeOK
<1>2. \A v \in Writers : v # w =>
        tx'[v].who = tx[v].who /\ tx'[v].pc = tx[v].pc /\ tx'[v].delta = tx[v].delta
  BY <1>1 DEF Transactions
<1>3. w \notin Pending(tx', p)
  BY <1>1 DEF Pending, Idle
<1> QED BY <1>2, <1>3 DEF Pending

LEMMA ExceedsAppend ==
    ASSUME TxInv, NEW w \in Writers, Appends(w), NEW p \in Participants, Exceeds(p)
    PROVE  Exceeds(p)'
<1> DEFINE rows == history[p]
           entry == EventRow(w)
           before == SumOf(rows, Lately(rows, clock))
           S == Pending(tx, p) \ {w}
<1>1. /\ TxInv' /\ entry \in Rows /\ clock' = clock
      /\ p = tx[w].who => history'[p] = Append(rows, entry)
      /\ p # tx[w].who => history'[p] = rows
  BY AppendKeeps
<1>2. /\ rows \in Seq(Rows) /\ clock \in Nat /\ tx \in [Writers -> Transactions]
      /\ entry.kind = tx[w].kind /\ entry.delta = tx[w].delta /\ entry.at = tx[w].at
      /\ tx[w].delta \in Int /\ tx[w].pc \in {"capped", "locked"} /\ Sound(tx[w], clock)
  BY Histories DEF TxInv, TypeOK, Transactions, EventRow, Appends
<1>3. /\ Pending(tx', p) \subseteq S
      /\ \A v \in Pending(tx', p) : tx'[v].delta = tx[v].delta
  <2>1. tx[w].pc # "idle" /\ tx' = Committed(w) /\ (RowFree(tx[w].who) \/ tx[w].pc = "locked")
    BY DEF Appends
  <2> QED BY <2>1, PendingCommitted
<1>4. before \in Int
  BY <1>2, RowSums DEF Lately
<1>5. Pending(tx, p) \in SUBSET Writers
  BY DEF Pending
<1>6. SumOf(tx, Pending(tx, p)) \in Int /\ SumOf(tx, S) \in Int /\ Deltas(tx, Pending(tx, p))
  BY <1>2, <1>5, OpenSums
<1>7. /\ w \in Pending(tx, p) => SumOf(tx, Pending(tx, p)) = tx[w].delta + SumOf(tx, S)
      /\ SumOf(tx, S) <= SumOf(tx, Pending(tx, p))
  <2>1. w \in Pending(tx, p) => SumOf(tx, Pending(tx, p)) = tx[w].delta + SumOf(tx, S)
    BY <1>6, SumRemoves
  <2>2. \A v \in Pending(tx, p) : tx[v].delta >= 0
    BY <1>2 DEF Pending, Transactions
  <2>3. S \in SUBSET Pending(tx, p)
    OBVIOUS
  <2> HIDE DEF S
  <2> QED BY <1>6, <2>1, <2>2, <2>3, SumOfParts
<1> HIDE DEF rows, entry, S
<1>8. SumOf(history'[p], Lately(history'[p], clock')) - before
        <= SumOf(tx, Pending(tx, p)) - SumOf(tx, S)
  <2>1. CASE p # tx[w].who
    BY <1>1, <1>4, <1>6, <1>7, <2>1
  <2>2. CASE p = tx[w].who
    <3>1. SumOf(history'[p], Lately(history'[p], clock')) =
            IF entry.kind # "stake" /\ entry.at > clock - Day /\ entry.delta > 0
            THEN before + entry.delta ELSE before
      BY <1>1, <1>2, <2>2, CountsAppend
    <3>2. CASE entry.kind # "stake" /\ entry.delta > 0
      <4>1. w \in Pending(tx, p)
        BY <1>2, <2>2, <3>2 DEF Pending, Sound
      <4>2. SumOf(tx, Pending(tx, p)) = entry.delta + SumOf(tx, S)
        BY <1>2, <1>7, <4>1
      <4>3. entry.delta \in Int
        BY <1>2
      <4> QED BY <1>4, <1>6, <3>1, <3>2, <4>2, <4>3
    <3>3. CASE ~(entry.kind # "stake" /\ entry.delta > 0)
      BY <1>4, <1>6, <1>7, <3>1, <3>3
    <3> QED BY <3>2, <3>3
  <2> QED BY <2>1, <2>2
<1>9. S \in SUBSET Pending(tx, p) /\ before <= SumOf(history[p], Lately(history[p], clock))
  BY <1>4 DEF S, rows
<1> HIDE DEF before
<1> QED BY <1>1, <1>3, <1>4, <1>8, <1>9, ExceedsKept

LEMMA ExceedsWrite ==
    ASSUME TxInv, NEW w \in Writers, WriteReplay(w), NEW p \in Participants, Exceeds(p)
    PROVE  Exceeds(p)'
<1>1. TxInv' /\ history' = history /\ clock' = clock
  BY WriteKeeps
<1>2. /\ tx \in [Writers -> Transactions] /\ history[p] \in Seq(Rows)
  BY DEF TxInv, TypeOK
<1>3. /\ Pending(tx', p) \subseteq Pending(tx, p)
      /\ \A v \in Pending(tx', p) : tx'[v].delta = tx[v].delta
  <2>1. tx[w].pc # "idle" /\ tx' = Committed(w) /\ RowFree(tx[w].who)
    BY DEF WriteReplay
  <2> QED BY <2>1, PendingCommitted
<1>4. SumOf(history[p], Lately(history[p], clock)) \in Int
  BY <1>2, RowSums DEF Lately
<1>5. Pending(tx, p) \in SUBSET Pending(tx, p) /\ SumOf(tx, Pending(tx, p)) \in Int
  BY <1>2, OpenSums DEF Pending
<1>6. SumOf(history'[p], Lately(history'[p], clock')) - SumOf(history[p], Lately(history[p], clock))
        <= SumOf(tx, Pending(tx, p)) - SumOf(tx, Pending(tx, p))
  BY <1>1, <1>4, <1>5
<1>7. SumOf(history[p], Lately(history[p], clock)) <= SumOf(history[p], Lately(history[p], clock))
  BY <1>4
<1> QED BY <1>1, <1>3, <1>4, <1>5, <1>6, <1>7, ExceedsKept

LEMMA WriteReplayKeeps ==
    ASSUME TxInv, NEW w \in Writers, WriteReplay(w), NEW p \in Participants,
           Explains(p), Keeps(p), Agrees(p)
    PROVE  Explains(p)' /\ Keeps(p)' /\ Agrees(p)'
<1>1. /\ history' = history /\ clock' = clock /\ tx[w].read \in Nat
      /\ p = tx[w].who =>
           /\ score'[p] = tx[w].read
           /\ origin'[p] = [score |-> tx[w].read, rows |-> Len(history[p])]
           /\ ~crossed'[p] => ~crossed[p] /\ tx[w].read = Replay(history[p])
      /\ p # tx[w].who => score'[p] = score[p] /\ crossed'[p] = crossed[p] /\ origin'[p] = origin[p]
  BY WriteKeeps
<1>2. /\ history[p] \in Seq(Rows) /\ clock \in Nat /\ Len(history[p]) \in Nat /\ TypeOK
  BY Histories DEF TxInv
<1>3. CASE p # tx[w].who
  BY <1>1, <1>2, <1>3, StillKeeps
<1>4. CASE p = tx[w].who
  <2>1. Explains(p)'
    <3>1. SubSeq(history[p], Len(history[p]) + 1, Len(history[p])) = <<>>
      <4>1. SubSeq(history[p], Len(history[p]) + 1, Len(history[p])) = <<>>
        BY <1>2, SubSeqEmpty
      <4> QED BY <4>1
    <3>2. Since(p)' = <<>>
      BY <1>1, <1>4, <3>1 DEF Since
    <3>3. origin'[p].rows = Len(history'[p]) /\ origin'[p].score = tx[w].read
      BY <1>1, <1>4
    <3> QED BY <1>1, <1>2, <1>4, <3>2, <3>3, PointsOfNothing DEF Explains
  <2>2. Keeps(p)'
    BY <1>1, <1>4 DEF Keeps
  <2>3. Agrees(p)'
    BY <1>1, <1>4 DEF Agrees, Agreed, Replay
  <2> QED BY <2>1, <2>2, <2>3
<1> QED BY <1>3, <1>4

LEMMA LedgerInvariance == LedgerInv /\ [Next]_vars => LedgerInv'
<1> SUFFICES ASSUME LedgerInv, [Next]_vars PROVE LedgerInv'
  OBVIOUS
<1>1. TxInv /\ \A p \in Participants : Explains(p) /\ Keeps(p) /\ Exceeds(p) /\ Agrees(p)
  BY DEF LedgerInv
<1>2. CASE Waits
  <2>1. TxInv'
    BY <1>1, <1>2, WaitKeeps
  <2>2. ASSUME NEW p \in Participants PROVE Explains(p)' /\ Keeps(p)' /\ Agrees(p)'
    <3>1. /\ history' = history /\ score' = score /\ crossed' = crossed /\ origin' = origin
          /\ clock' \in Nat /\ clock <= clock' /\ TypeOK
      BY <1>1, <1>2, ClockAssumption DEF Waits, TxInv, TypeOK
    <3> QED BY <1>1, <3>1, StillKeeps
  <2>3. ASSUME NEW p \in Participants PROVE Exceeds(p)'
    BY <1>1, <1>2, <2>1, ExceedsWait
  <2> QED BY <2>1, <2>2, <2>3 DEF LedgerInv
<1>3. ASSUME NEW w \in Writers, NEW t, Moves(w, t), Allowed(w, t) PROVE LedgerInv'
  <2>1. TxInv'
    BY <1>1, <1>3, MoveKeeps
  <2>2. ASSUME NEW p \in Participants PROVE Explains(p)' /\ Keeps(p)' /\ Agrees(p)'
    <3>1. /\ history' = history /\ score' = score /\ crossed' = crossed /\ origin' = origin
          /\ clock' \in Nat /\ clock <= clock' /\ TypeOK
      BY <1>1, <1>3, ClockAssumption DEF Moves, TxInv, TypeOK
    <3> QED BY <1>1, <3>1, StillKeeps
  <2>3. ASSUME NEW p \in Participants PROVE Exceeds(p)'
    BY <1>1, <1>3, <2>1, ExceedsMove
  <2> QED BY <2>1, <2>2, <2>3 DEF LedgerInv
<1>4. ASSUME NEW w \in Writers, Appends(w) PROVE LedgerInv'
  <2>1. TxInv'
    BY <1>1, <1>4, AppendKeeps
  <2>2. ASSUME NEW p \in Participants PROVE Explains(p)' /\ Keeps(p)' /\ Agrees(p)'
    <3>1. CASE p = tx[w].who
      BY <1>1, <1>4, <3>1, ExplainsAppend, KeepsAppend, AgreesAppend
    <3>2. CASE p # tx[w].who
      <4>1. /\ history'[p] = history[p] /\ score'[p] = score[p] /\ crossed'[p] = crossed[p]
            /\ origin' = origin /\ clock' = clock
        BY <1>1, <1>4, <3>2, AppendKeeps
      <4>2. clock \in Nat /\ clock' \in Nat /\ clock <= clock' /\ TypeOK
        BY <1>1, <4>1, ClockAssumption DEF TxInv, TypeOK
      <4> QED BY <1>1, <4>1, <4>2, StillKeeps
    <3> QED BY <3>1, <3>2
  <2>3. ASSUME NEW p \in Participants PROVE Exceeds(p)'
    BY <1>1, <1>4, ExceedsAppend
  <2> QED BY <2>1, <2>2, <2>3 DEF LedgerInv
<1>5. ASSUME NEW w \in Writers, WriteReplay(w) PROVE LedgerInv'
  <2>1. TxInv'
    BY <1>1, <1>5, WriteKeeps
  <2>2. ASSUME NEW p \in Participants PROVE Explains(p)' /\ Keeps(p)' /\ Agrees(p)'
    BY <1>1, <1>5, WriteReplayKeeps
  <2>3. ASSUME NEW p \in Participants PROVE Exceeds(p)'
    BY <1>1, <1>5, ExceedsWrite
  <2> QED BY <2>1, <2>2, <2>3 DEF LedgerInv
<1> QED BY <1>1, <1>2, <1>3, <1>4, <1>5, StepsAre

\* The invariant holds of every reachable state.
THEOREM LedgerInvariant == Spec => []LedgerInv
  BY LedgerInitially, LedgerInvariance, PTL DEF Spec

-----------------------------------------------------------------------------
(* What follows.                                                           *)

\* No score is ever negative and every entry keeps its type, whatever the events
\* are worth and whichever transactions overlap.
THEOREM TypeCorrect == Spec => []TypeOK
<1>1. LedgerInv => TypeOK
  BY DEF LedgerInv, TxInv
<1> QED BY <1>1, LedgerInvariant, PTL

\* The score of a participant whose writers never overwrote an unread score is
\* what its rows add up to since the last recalculation (ApplyReputationEventTx,
\* ApplyExactReputationDeltaTx and Recalculate against reputation_events).
THEOREM ScoresAreExplained == Spec => []ScoreExplained
<1>1. LedgerInv => ScoreExplained
  BY DEF LedgerInv, Explains, ScoreExplained
<1> QED BY <1>1, LedgerInvariant, PTL

\* The score a stake settlement read FOR UPDATE is the committed one until the
\* settlement ends, although ApplyReputationEventTx reads without a lock.
THEOREM LocksHold == Spec => []LockedScoreIsCurrent
<1>1. LedgerInv => LockedScoreIsCurrent
  BY DEF LedgerInv, TxInv, Sound, Current, Fresh, Working, Unread, LockedScoreIsCurrent
<1> QED BY <1>1, LedgerInvariant, PTL

\* The daily cap: exact without overlap, and exceeded by at most one event for
\* each further open transaction, for any number of them.
THEOREM CapIsKept == Spec => []CapKept
<1>1. LedgerInv => CapKept
  <2> SUFFICES ASSUME LedgerInv, NEW p \in Participants
               PROVE  /\ ~crossed[p] => Gained(p) <= Cap
                      /\ Gained(p) <= Cap + (Cardinality(Writers) - 1) * LargestGain
    BY DEF CapKept
  <2> DEFINE gained == SumOf(history[p], Lately(history[p], clock))
             pending == SumOf(tx, Pending(tx, p))
             bound == Cap + (Cardinality(Writers) - 1) * LargestGain
  <2>1. Gained(p) = gained
    BY DEF Gained, Lately
  <2>2. /\ ~crossed[p] => gained <= Cap
        /\ gained + pending <= bound
    BY DEF LedgerInv, Keeps, Exceeds
  <2>3. /\ history[p] \in Seq(Rows) /\ tx \in [Writers -> Transactions]
    BY DEF LedgerInv, TxInv, TypeOK
  <2>4. gained \in Int
    BY <2>3, RowSums DEF Lately
  <2>5. pending \in Int /\ 0 <= pending
    <3>1. Pending(tx, p) \in SUBSET Writers /\ Pending(tx, p) \in SUBSET Pending(tx, p)
      BY DEF Pending
    <3>2. Deltas(tx, Pending(tx, p))
      BY <2>3, <3>1, OpenSums
    <3>3. \A w \in Pending(tx, p) : tx[w].delta >= 0
      BY <2>3 DEF Pending, Transactions
    <3> QED BY <3>1, <3>2, <3>3, SumOfParts
  <2>6. bound \in Int
    <3>1. Cap \in Int /\ (Cardinality(Writers) - 1) * LargestGain \in Int
      BY PointAssumption, LargestBounds
    <3> QED BY <3>1
  <2> HIDE DEF gained, pending, bound
  <2>7. gained <= bound
    BY <2>2, <2>4, <2>5, <2>6
  <2> QED BY <2>1, <2>2, <2>7 DEF bound
<1> QED BY <1>1, LedgerInvariant, PTL

\* The two computations of the formula agree: replaying an uncrossed history of
\* one UTC day without won stakes, whose transactions committed in the order in
\* which they began, gives the score the events left
\* (ApplyReputationEventTx against Recalculate), however long it is.
THEOREM ReplaysAgree == Spec => []ReplayAgrees
<1>1. LedgerInv => ReplayAgrees
  BY DEF LedgerInv, Agrees, Agreed, Replay, ReplayAgrees
<1> QED BY <1>1, LedgerInvariant, PTL

-----------------------------------------------------------------------------
(* Forecasts: what a settlement, a resolution and a late revision rely on. *)

\* The stored fixture, and the one a poller has fetched, is one the feed has
\* had: a kickoff is only ever put off.
CopiesAreOld ==
    \A m \in Matches :
        /\ match[m].kickoff <= feed[m].kickoff
        /\ \A r \in Replicas : poll[r].snap[m].kickoff <= feed[m].kickoff

FinalsArePast == \A m \in Matches : feed[m].score # Unknown => feed[m].kickoff < now

\* A forecast on a match is written before full time: at most a unit after its
\* request began, which was before the kickoff.
ForecastsAreTimely ==
    \A r \in Requests : req[r].op = "forecast" =>
        /\ req[r].at <= now /\ now <= req[r].at + 1
        /\ OnMatch(req[r].key) =>
             req[r].at < req[r].kickoff /\ req[r].kickoff <= feed[Subject(req[r].key)].kickoff

\* The row a resolution has locked is not graded, and is locked by nobody else.
ResolutionsLock ==
    /\ \A r \in Requests : req[r].op = "resolve" => Ungraded(req[r].key)
    /\ \A r, s \in Requests :
         req[r].op = "resolve" /\ req[s].op = "resolve" /\ req[r].key = req[s].key => r = s

GradesAreWhole ==
    \A k \in Keys : row[k].outcome # "none" => row[k].pick # Unknown /\ row[k].resolution # Unknown

PollersSettle == \A r \in Replicas : poll[r].pc = "settle" => poll[r].match \in Matches

ForecastInv ==
    /\ ForecastTypeOK
    /\ CopiesAreOld
    /\ FinalsArePast
    /\ ForecastsAreTimely
    /\ ResolutionsLock
    /\ GradesAreWhole
    /\ PollersSettle
    /\ StatsExplained

-----------------------------------------------------------------------------
(* The tally of the rows graded, in their order. *)

Counts(rows, ks) ==
    [it \in (DOMAIN ks) \X Tallies |-> Counted(it[2], rows[ks[it[1]]].outcome)]

LEMMA CountedTyped ==
    ASSUME NEW tally \in Tallies, NEW outcome
    PROVE  Counted(tally, outcome) \in Tallies
  BY DEF Counted, Tallies

LEMMA CountsCombine ==
    ASSUME NEW rows, NEW ks \in Seq(Keys)
    PROVE  Combines(DOMAIN ks, Counts(rows, ks), NoTally, Ends(ks), Tallies)
<1>1. DOMAIN ks = 1 .. Len(ks) /\ Len(ks) \in Nat
  OBVIOUS
<1>2. IsFiniteSet(DOMAIN ks)
  BY <1>1, FS_Interval
<1>3. Chooses(Ends(ks), DOMAIN ks)
  BY <1>1, MaxIsLast DEF Chooses, Ends
<1>4. Counts(rows, ks) \in [(DOMAIN ks) \X Tallies -> Tallies]
  BY CountedTyped DEF Counts
<1>5. NoTally \in Tallies
  BY DEF NoTally, Tallies
<1> QED BY <1>2, <1>3, <1>4, <1>5 DEF Combines

LEMMA TallyFold ==
    ASSUME NEW rows, NEW ks \in Seq(Keys)
    PROVE  \E iter : /\ IsFold(iter, DOMAIN ks, Counts(rows, ks), NoTally, Ends(ks))
                     /\ TallyOf(rows, ks) = iter[DOMAIN ks]
<1> DEFINE S == DOMAIN ks
           Body(iter) ==
             iter = [s \in SUBSET S |->
                       IF s = {} THEN NoTally
                       ELSE Counted(iter[s \ {Max(s)}], rows[ks[Max(s)]].outcome)]
           jter == CHOOSE iter : Body(iter)
<1>0. DOMAIN ks = 1 .. Len(ks) /\ Len(ks) \in Nat
  OBVIOUS
<1>1. TallyOf(rows, ks) = jter[S]
  BY DEF TallyOf, FoldLeft, MapThenFoldSet
<1>2. Combines(S, Counts(rows, ks), NoTally, Ends(ks), Tallies)
  BY CountsCombine
<1>3. PICK iter : IsFold(iter, S, Counts(rows, ks), NoTally, Ends(ks))
  BY <1>2, FoldExists DEF Combines
<1>4. \A s \in SUBSET S : iter[s] \in Tallies
  BY <1>2, <1>3, FoldTyped
<1>5. ASSUME NEW s \in SUBSET S, s # {}
      PROVE  /\ Ends(ks)[s] = Max(s)
             /\ Max(s) \in S
             /\ s \ {Max(s)} \in SUBSET S
  BY <1>0, <1>5, MaxIsLast DEF Ends
<1>6. Body(iter)
  <2>1. ASSUME NEW s \in SUBSET S, s # {}
        PROVE  Counts(rows, ks)[<<Ends(ks)[s], iter[s \ {Ends(ks)[s]}]>>]
                 = Counted(iter[s \ {Max(s)}], rows[ks[Max(s)]].outcome)
    <3>1. Max(s) \in DOMAIN ks /\ iter[s \ {Max(s)}] \in Tallies
      BY <1>4, <1>5, <2>1
    <3> QED BY <1>5, <2>1, <3>1 DEF Counts
  <2> QED BY <1>3, <2>1 DEF IsFold, Folded
<1>7. Body(jter)
  <2> HIDE DEF Body
  <2> QED BY <1>6
<1>8. Follows(jter, S, Counts(rows, ks), NoTally, Ends(ks), Tallies)
  <2>1. jter[{}] = NoTally
    BY <1>7
  <2>2. ASSUME NEW s \in SUBSET S, s # {}, jter[s \ {Ends(ks)[s]}] \in Tallies
        PROVE  jter[s] = Counts(rows, ks)[<<Ends(ks)[s], jter[s \ {Ends(ks)[s]}]>>]
    <3>1. jter[s] = Counted(jter[s \ {Max(s)}], rows[ks[Max(s)]].outcome)
      BY <1>7, <2>2
    <3> HIDE DEF jter
    <3>2. /\ Ends(ks)[s] = Max(s)
          /\ Max(s) \in DOMAIN ks
          /\ jter[s \ {Max(s)}] \in Tallies
      BY <1>5, <2>2
    <3> QED BY <3>1, <3>2 DEF Counts
  <2> HIDE DEF jter, Body, S
  <2> QED BY <2>1, <2>2 DEF Follows
<1> HIDE DEF jter, Body, S
<1>9. jter[S] = iter[S]
  BY <1>2, <1>3, <1>8, FoldUnique
<1> QED BY <1>1, <1>3, <1>9 DEF S

LEMMA TallyOfNothing == ASSUME NEW rows PROVE TallyOf(rows, <<>>) = NoTally
<1>1. <<>> \in Seq(Keys) /\ DOMAIN <<>> = {}
  OBVIOUS
<1>2. PICK iter : /\ IsFold(iter, DOMAIN <<>>, Counts(rows, <<>>), NoTally, Ends(<<>>))
                  /\ TallyOf(rows, <<>>) = iter[DOMAIN <<>>]
  BY <1>1, TallyFold
<1> QED BY <1>1, <1>2 DEF IsFold, Folded

\* Only the outcomes of the rows listed matter, and the last one is counted last.
LEMMA TallyAppends ==
    ASSUME NEW rows, NEW later, NEW ks \in Seq(Keys), NEW k \in Keys,
           \A i \in DOMAIN ks : later[ks[i]].outcome = rows[ks[i]].outcome
    PROVE  TallyOf(later, Append(ks, k)) = Counted(TallyOf(rows, ks), later[k].outcome)
<1> DEFINE more == Append(ks, k)
           n == Len(ks)
           S == DOMAIN more
           T == DOMAIN ks
<1>1. /\ more \in Seq(Keys) /\ n \in Nat /\ S = 1 .. n + 1 /\ T = 1 .. n
      /\ more[n + 1] = k /\ \A i \in T : more[i] = ks[i]
  OBVIOUS
<1>2. PICK iter : IsFold(iter, S, Counts(later, more), NoTally, Ends(more)) /\ TallyOf(later, more) = iter[S]
  BY <1>1, TallyFold
<1>3. PICK jter : IsFold(jter, T, Counts(rows, ks), NoTally, Ends(ks)) /\ TallyOf(rows, ks) = jter[T]
  BY TallyFold
<1>4. \A i \in T : later[ks[i]].outcome = rows[ks[i]].outcome
  OBVIOUS
<1> HIDE DEF more, n, S, T
<1>5. Ends(more)[S] = n + 1
  <2>1. n + 1 \in Nat /\ n + 1 \in 1 .. n + 1 /\ 1 .. n + 1 \in SUBSET (1 .. n + 1)
    BY <1>1
  <2>2. Max(1 .. n + 1) \in 1 .. n + 1 /\ \A j \in 1 .. n + 1 : j <= Max(1 .. n + 1)
    BY <2>1, MaxIsLast
  <2>3. Max(S) = n + 1
    BY <1>1, <2>1, <2>2
  <2> QED BY <2>3 DEF Ends, S
<1>6. S \ {n + 1} = T
  BY <1>1
<1>7. iter[S] = Counts(later, more)[<<n + 1, iter[T]>>]
  <2>1. S # {}
    <3>1. n + 1 \in 1 .. n + 1
      BY <1>1
    <3> QED BY <1>1, <3>1
  <2>2. PICK pair : pair = <<n + 1, iter[T]>>
    OBVIOUS
  <2>3. EndsWith(iter, S, pair, Counts(later, more), NoTally, Ends(more))
    BY <1>2, <1>5, <1>6, <2>1, <2>2 DEF EndsWith
  <2>4. iter[S] = Counts(later, more)[pair]
    BY <2>3, FoldUnfolds
  <2> QED BY <2>2, <2>4
<1>8. T \subseteq S /\ IsFiniteSet(T)
  <2>1. IsFiniteSet(1 .. n)
    BY <1>1, FS_Interval
  <2> QED BY <1>1, <2>1
<1>9. iter[T] = jter[T]
  <2>1. Chooses(Ends(more), T)
    BY <1>1, <1>8, MaxIsLast DEF Chooses, Ends, S
  <2>2. ASSUME NEW s \in SUBSET T, s # {} PROVE Ends(more)[s] = Ends(ks)[s]
    BY <1>8 DEF Ends, S, T
  <2>3. ASSUME NEW x \in T, NEW v \in Tallies
        PROVE  /\ Counts(later, more)[<<x, v>>] = Counts(rows, ks)[<<x, v>>]
               /\ Counts(later, more)[<<x, v>>] \in Tallies
    <3>1. Counts(later, more)[<<x, v>>] = Counted(v, later[ks[x]].outcome)
      BY <1>1, <1>8 DEF Counts, S
    <3>2. Counts(rows, ks)[<<x, v>>] = Counted(v, rows[ks[x]].outcome)
      BY DEF Counts, T
    <3> QED BY <1>4, <3>1, <3>2, CountedTyped
  <2>4. NoTally \in Tallies
    BY DEF NoTally, Tallies
  <2>5. Alike(T, S, T, Counts(later, more), Counts(rows, ks), NoTally, Ends(more), Ends(ks), Tallies)
    BY <1>8, <2>1, <2>2, <2>3, <2>4 DEF Alike
  <2> QED BY <1>2, <1>3, <2>5, FoldsAgree
<1>10. iter[T] \in Tallies /\ n + 1 \in S
  <2>1. \A s \in SUBSET S : iter[s] \in Tallies
    BY <1>1, <1>2, CountsCombine, FoldTyped DEF S
  <2> QED BY <1>1, <1>8, <2>1
<1>11. Counts(later, more)[<<n + 1, iter[T]>>] = Counted(iter[T], later[k].outcome)
  BY <1>1, <1>10 DEF Counts, S
<1> QED BY <1>2, <1>3, <1>7, <1>9, <1>11 DEF more

LEMMA TallyAgrees ==
    ASSUME NEW rows, NEW later, NEW ks \in Seq(Keys),
           \A i \in DOMAIN ks : later[ks[i]].outcome = rows[ks[i]].outcome
    PROVE  TallyOf(later, ks) = TallyOf(rows, ks)
<1> DEFINE T == DOMAIN ks
<1>1. PICK iter : IsFold(iter, T, Counts(later, ks), NoTally, Ends(ks)) /\ TallyOf(later, ks) = iter[T]
  BY TallyFold
<1>2. PICK jter : IsFold(jter, T, Counts(rows, ks), NoTally, Ends(ks)) /\ TallyOf(rows, ks) = jter[T]
  BY TallyFold
<1>3. Combines(T, Counts(later, ks), NoTally, Ends(ks), Tallies)
  BY CountsCombine
<1>4. ASSUME NEW x \in T, NEW v \in Tallies
      PROVE  /\ Counts(later, ks)[<<x, v>>] = Counts(rows, ks)[<<x, v>>]
             /\ Counts(later, ks)[<<x, v>>] \in Tallies
  BY CountedTyped DEF Counts
<1>5. Alike(T, T, T, Counts(later, ks), Counts(rows, ks), NoTally, Ends(ks), Ends(ks), Tallies)
  BY <1>3, <1>4 DEF Alike, Combines
<1> QED BY <1>1, <1>2, <1>5, FoldsAgree

\* A person's rows of one match, or of one resolution, are one or none.
LEMMA NobodyListed == SetToSeq({}) = <<>>
<1>1. Cardinality({}) = 0
  BY FS_EmptySet
<1>2. <<>> \in [1 .. 0 -> {}]
  OBVIOUS
<1>3. ASSUME NEW f \in [1 .. 0 -> {}] PROVE f = <<>>
  <2>1. f \in Seq({})
    OBVIOUS
  <2>2. Len(f) = 0
    OBVIOUS
  <2> QED BY <2>1, <2>2, EmptySeq
<1>4. IsInjective(<<>>)
  BY DEF IsInjective
<1> QED BY <1>1, <1>2, <1>3, <1>4 DEF SetToSeq

LEMMA OneListed == ASSUME NEW k PROVE SetToSeq({k}) = <<k>>
<1>1. Cardinality({k}) = 1
  BY FS_Singleton
<1>2. \A f : f \in [1 .. 1 -> {k}] <=> f = <<k>>
  OBVIOUS
<1>3. IsInjective(<<k>>)
  BY DEF IsInjective
<1> QED BY <1>1, <1>2, <1>3 DEF SetToSeq

LEMMA ListGrows ==
    ASSUME NEW S, NEW list \in Seq(S), NEW k \in S, IsInjective(list),
           \A i \in DOMAIN list : list[i] # k
    PROVE  IsInjective(Append(list, k)) /\ ToSet(Append(list, k)) = ToSet(list) \cup {k}
<1> DEFINE more == Append(list, k)
           n == Len(list)
<1>1. /\ n \in Nat /\ DOMAIN list = 1 .. n /\ DOMAIN more = 1 .. n + 1
      /\ more[n + 1] = k /\ \A i \in 1 .. n : more[i] = list[i]
  OBVIOUS
<1> HIDE DEF more, n
<1>2. DOMAIN more = (DOMAIN list) \cup {n + 1} /\ n + 1 \notin DOMAIN list
  BY <1>1
<1>3. IsInjective(more)
  BY <1>1, <1>2 DEF IsInjective
<1>4. ToSet(more) = ToSet(list) \cup {k}
  BY <1>1, <1>2 DEF ToSet
<1> QED BY <1>3, <1>4 DEF more

-----------------------------------------------------------------------------
(* Grading. *)

LEMMA KeysTyped ==
    /\ \A k \in Keys : Owner(k) \in People /\ (OnMatch(k) => Subject(k) \in Matches)
    /\ \A k, l \in Keys : Owner(k) = Owner(l) /\ Subject(k) = Subject(l) => k = l
    /\ NoRequest.key \in Keys
<1>1. \A k \in Keys : Owner(k) \in People /\ (OnMatch(k) => Subject(k) \in Matches)
  BY AuthorAssumption DEF Keys, Owner, Subject, OnMatch
<1>2. \A k, l \in Keys : Owner(k) = Owner(l) /\ Subject(k) = Subject(l) => k = l
  BY DEF Keys, Owner, Subject
<1>3. NoRequest.key \in Keys
  <2>1. \E k \in Keys : TRUE
    BY KeysAssumption
  <2> QED BY <2>1 DEF NoRequest
<1> QED BY <1>1, <1>2, <1>3

\* Without a grading the tallies go on to explain the stats.
LEMMA TalliesKept ==
    ASSUME ForecastTypeOK, StatsExplained, UNCHANGED <<stats, graded>>,
           \A k \in Keys : row'[k].outcome = row[k].outcome
    PROVE  StatsExplained'
<1> SUFFICES ASSUME NEW p \in People
             PROVE  /\ IsInjective(graded'[p])
                    /\ ToSet(graded'[p]) = {k \in Keys : Owner(k) = p /\ row'[k].outcome # "none"}
                    /\ stats'[p] = TallyOf(row', graded'[p])
  BY DEF StatsExplained
<1>1. /\ IsInjective(graded[p])
      /\ ToSet(graded[p]) = {k \in Keys : Owner(k) = p /\ row[k].outcome # "none"}
      /\ stats[p] = TallyOf(row, graded[p])
  BY DEF StatsExplained
<1>2. graded[p] \in Seq(Keys)
  BY DEF ForecastTypeOK
<1>3. \A i \in DOMAIN graded[p] : row'[graded[p][i]].outcome = row[graded[p][i]].outcome
  BY <1>2
<1>4. TallyOf(row', graded[p]) = TallyOf(row, graded[p])
  BY <1>2, <1>3, TallyAgrees
<1> QED BY <1>1, <1>4

Apiece(ks) == \A k, l \in ks : Owner(k) = Owner(l) => k = l

\* Rows that were open, one of a person: each is graded whole and its owner's
\* record counts it once, after the others.
LEMMA GradeKeeps ==
    ASSUME ForecastTypeOK, StatsExplained, GradesAreWhole,
           NEW ks \in SUBSET Keys, \A k \in ks : Ungraded(k), Apiece(ks),
           NEW resolution \in Picks, Grade(ks, resolution)
    PROVE  /\ row' \in [Keys -> Forecasts]
           /\ stats' \in [People -> Tallies]
           /\ graded' \in [People -> Seq(Keys)]
           /\ \A k \in Keys : k \notin ks => row'[k] = row[k]
           /\ GradesAreWhole'
           /\ StatsExplained'
<1>0. /\ row \in [Keys -> Forecasts] /\ stats \in [People -> Tallies]
      /\ graded \in [People -> Seq(Keys)]
  BY DEF ForecastTypeOK
<1>1. ASSUME NEW k \in ks
      PROVE  /\ row'[k] = Graded(k, resolution) /\ row'[k] \in Forecasts
             /\ row'[k].outcome # "none" /\ row'[k].pick # Unknown /\ row'[k].resolution # Unknown
  <2>1. row'[k] = Graded(k, resolution)
    BY DEF Grade
  <2>2. row[k] \in Forecasts /\ row[k].pick # Unknown /\ resolution # Unknown
    BY <1>0, UnknownAssumption DEF Ungraded
  <2>3. /\ Graded(k, resolution) \in Forecasts
        /\ Graded(k, resolution).outcome \in {"correct", "wrong"}
        /\ Graded(k, resolution).pick = row[k].pick
        /\ Graded(k, resolution).resolution = resolution
    BY <2>2 DEF Graded, Forecasts
  <2> QED BY <2>1, <2>2, <2>3
<1>2. \A k \in Keys : k \notin ks => row'[k] = row[k]
  BY DEF Grade
<1>3. row' \in [Keys -> Forecasts]
  <2>1. row' = [k \in Keys |-> IF k \in ks THEN Graded(k, resolution) ELSE row[k]]
    BY DEF Grade
  <2>2. \A k \in Keys : (IF k \in ks THEN Graded(k, resolution) ELSE row[k]) \in Forecasts
    BY <1>0, <1>1
  <2> QED BY <2>1, <2>2
<1>4. GradesAreWhole'
  BY <1>1, <1>2 DEF GradesAreWhole
<1> DEFINE Mine(p) == {k \in ks : Owner(k) = p}
<1>5. ASSUME NEW p \in People, Mine(p) = {}
      PROVE  stats'[p] = stats[p] /\ graded'[p] = graded[p]
  <2>1. stats'[p] = stats[p]
    BY <1>5 DEF Grade
  <2>2. graded'[p] = graded[p] \o SetToSeq(Mine(p))
    BY DEF Grade
  <2>3. graded[p] \o <<>> = graded[p]
    BY <1>0, ConcatEmptySeq
  <2> QED BY <1>5, <2>1, <2>2, <2>3, NobodyListed
<1>6. ASSUME NEW k \in ks
      PROVE  /\ Owner(k) \in People /\ Mine(Owner(k)) = {k}
             /\ stats'[Owner(k)] = Counted(stats[Owner(k)], row'[k].outcome)
             /\ graded'[Owner(k)] = Append(graded[Owner(k)], k)
  <2> DEFINE p == Owner(k)
  <2>1. p \in People
    BY KeysTyped
  <2>2. Mine(p) = {k}
    BY DEF Apiece
  <2>3. (CHOOSE l \in Mine(p) : TRUE) = k
    BY <2>2
  <2>4. stats'[p] = Counted(stats[p], Graded(CHOOSE l \in Mine(p) : TRUE, resolution).outcome)
    <3>1. Mine(p) # {}
      BY <2>2
    <3> QED BY <2>1, <3>1 DEF Grade
  <2>5. graded'[p] = graded[p] \o SetToSeq(Mine(p))
    BY <2>1 DEF Grade
  <2>6. SetToSeq(Mine(p)) = <<k>>
    BY <2>2, OneListed
  <2>7. graded[p] \o <<k>> = Append(graded[p], k)
    BY <1>0, <2>1
  <2> HIDE DEF Mine
  <2> QED BY <1>1, <2>1, <2>2, <2>3, <2>4, <2>5, <2>6, <2>7
<1>7. ASSUME NEW p \in People PROVE Mine(p) = {} \/ \E k \in ks : p = Owner(k)
  OBVIOUS
<1>8. stats' \in [People -> Tallies] /\ graded' \in [People -> Seq(Keys)]
  <2>1. ASSUME NEW p \in People PROVE stats'[p] \in Tallies /\ graded'[p] \in Seq(Keys)
    <3>1. CASE Mine(p) = {}
      BY <1>0, <1>5, <3>1
    <3>2. ASSUME NEW k \in ks, p = Owner(k) PROVE stats'[p] \in Tallies /\ graded'[p] \in Seq(Keys)
      <4>1. stats[p] \in Tallies /\ graded[p] \in Seq(Keys)
        BY <1>0
      <4>2. stats'[p] = Counted(stats[p], row'[k].outcome) /\ graded'[p] = Append(graded[p], k)
        BY <1>6, <3>2
      <4>3. Counted(stats[p], row'[k].outcome) \in Tallies
        BY <4>1, CountedTyped
      <4>4. Append(graded[p], k) \in Seq(Keys)
        BY <4>1
      <4> QED BY <4>2, <4>3, <4>4
    <3> HIDE DEF Mine
    <3> QED BY <1>7, <3>1, <3>2
  <2>2. stats' = [p \in People |-> stats'[p]] /\ graded' = [p \in People |-> graded'[p]]
    BY DEF Grade
  <2> QED BY <2>1, <2>2
<1>9. StatsExplained'
  <2> SUFFICES ASSUME NEW p \in People
               PROVE  /\ IsInjective(graded'[p])
                      /\ ToSet(graded'[p]) = {k \in Keys : Owner(k) = p /\ row'[k].outcome # "none"}
                      /\ stats'[p] = TallyOf(row', graded'[p])
    BY DEF StatsExplained
  <2> DEFINE list == graded[p]
  <2>1. /\ IsInjective(list)
        /\ ToSet(list) = {k \in Keys : Owner(k) = p /\ row[k].outcome # "none"}
        /\ stats[p] = TallyOf(row, list)
    BY DEF StatsExplained
  <2>2. list \in Seq(Keys)
    BY <1>0
  <2>3. \A k \in ks : row[k].outcome = "none"
    BY DEF Ungraded
  <2>4. \A i \in DOMAIN list : list[i] \in Keys /\ list[i] \notin ks
    <3>1. \A i \in DOMAIN list : list[i] \in ToSet(list)
      BY DEF ToSet
    <3> QED BY <2>1, <2>3, <3>1
  <2>5. \A i \in DOMAIN list : row'[list[i]].outcome = row[list[i]].outcome
    BY <1>2, <2>4
  <2>6. CASE Mine(p) = {}
    <3>1. stats'[p] = stats[p] /\ graded'[p] = list
      BY <1>5, <2>6
    <3>2. TallyOf(row', list) = TallyOf(row, list)
      BY <2>2, <2>5, TallyAgrees
    <3>3. \A k \in Keys : Owner(k) = p => row'[k] = row[k]
      BY <1>2, <2>6
    <3> HIDE DEF list, Mine
    <3>4. {k \in Keys : Owner(k) = p /\ row'[k].outcome # "none"}
            = {k \in Keys : Owner(k) = p /\ row[k].outcome # "none"}
      BY <3>3
    <3> QED BY <2>1, <3>1, <3>2, <3>4
  <2>7. ASSUME NEW k \in ks, p = Owner(k)
        PROVE  /\ IsInjective(graded'[p])
               /\ ToSet(graded'[p]) = {l \in Keys : Owner(l) = p /\ row'[l].outcome # "none"}
               /\ stats'[p] = TallyOf(row', graded'[p])
    <3>1. /\ Mine(p) = {k} /\ stats'[p] = Counted(stats[p], row'[k].outcome)
          /\ graded'[p] = Append(list, k)
      BY <1>6, <2>7
    <3>2. TallyOf(row', Append(list, k)) = Counted(TallyOf(row, list), row'[k].outcome)
      BY <2>2, <2>5, TallyAppends
    <3>3. stats'[p] = TallyOf(row', graded'[p])
      <4> HIDE DEF list, Mine
      <4> QED BY <2>1, <3>1, <3>2
    <3>4. IsInjective(Append(list, k)) /\ ToSet(Append(list, k)) = ToSet(list) \cup {k}
      <4>1. \A i \in DOMAIN list : list[i] # k
        BY <2>4
      <4> HIDE DEF list
      <4> QED BY <2>1, <2>2, <4>1, ListGrows
    <3>5. \A l \in Keys : Owner(l) = p /\ l # k => row'[l] = row[l]
      BY <1>2, <3>1
    <3>6. row'[k].outcome # "none"
      BY <1>1
    <3>7. ToSet(list) \cup {k} = {l \in Keys : Owner(l) = p /\ row'[l].outcome # "none"}
      <4> HIDE DEF list, Mine
      <4> QED BY <2>1, <2>3, <2>7, <3>5, <3>6
    <3> HIDE DEF list, Mine
    <3> QED BY <3>1, <3>3, <3>4, <3>7
  <2> HIDE DEF list, Mine
  <2> QED BY <1>7, <2>6, <2>7
<1> QED BY <1>2, <1>3, <1>4, <1>8, <1>9

-----------------------------------------------------------------------------
(* The steps. *)

LEMMA NothingWritten ==
    ASSUME ForecastInv, ForecastTypeOK', UNCHANGED <<row, stats, graded>>
    PROVE  GradesAreWhole' /\ StatsExplained'
<1>1. GradesAreWhole'
  BY DEF ForecastInv, GradesAreWhole
<1>2. StatsExplained'
  BY TalliesKept DEF ForecastInv
<1> QED BY <1>1, <1>2

LEMMA TickKeeps == ASSUME ForecastInv, Tick PROVE ForecastInv'
<1>1. ForecastTypeOK'
  BY BoundAssumption DEF ForecastInv, ForecastTypeOK, Tick
<1>2. CopiesAreOld'
  BY DEF ForecastInv, CopiesAreOld, Tick
<1>3. FinalsArePast'
  <2>1. now \in Nat /\ now' = now + 1 /\ feed' = feed
    BY BoundAssumption DEF ForecastInv, ForecastTypeOK, Tick
  <2>2. \A m \in Matches : feed[m].kickoff \in Nat
    BY BoundAssumption DEF ForecastInv, ForecastTypeOK, Fixtures
  <2> QED BY <2>1, <2>2 DEF ForecastInv, FinalsArePast
<1>4. ForecastsAreTimely'
  <2>1. now \in Nat /\ now' = now + 1 /\ UNCHANGED <<feed, req>>
    BY BoundAssumption DEF ForecastInv, ForecastTypeOK, Tick
  <2>2. \A r \in Requests : req[r].op = "forecast" => req[r].at = now
    BY DEF Tick
  <2> QED BY <2>1, <2>2 DEF ForecastInv, ForecastsAreTimely
<1>5. ResolutionsLock' /\ PollersSettle'
  BY DEF ForecastInv, ResolutionsLock, Ungraded, PollersSettle, Tick
<1>6. GradesAreWhole' /\ StatsExplained'
  BY <1>1, NothingWritten DEF Tick
<1> QED BY <1>1, <1>2, <1>3, <1>4, <1>5, <1>6 DEF ForecastInv

\* The feed puts a kickoff off, ends a match that has begun, or corrects it.
LEMMA FeedKeeps ==
    ASSUME ForecastInv,
           NEW m \in Matches, Postpone(m) \/ \E s \in Picks : Finish(m, s) \/ Correct(m, s)
    PROVE  ForecastInv'
<1>0. /\ now \in 0 .. MaxTime /\ feed \in [Matches -> Fixtures] /\ match \in [Matches -> Fixtures]
      /\ \A r \in Replicas, n \in Matches : poll[r].snap[n] \in Fixtures
      /\ \A r \in Requests : req[r].kickoff \in 0 .. MaxTime
  BY DEF ForecastInv, ForecastTypeOK
<1>1. UNCHANGED <<now, match, row, stats, poll, req, graded>>
  BY DEF Postpone, Finish, Correct
<1>2. fixes' \in 0 .. MaxFixes
  BY BoundAssumption DEF ForecastInv, ForecastTypeOK, Postpone, Finish, Correct
<1>3. feed' \in [Matches -> Fixtures]
  BY <1>0, BoundAssumption DEF Fixtures, Postpone, Finish, Correct
<1>4. \A n \in Matches :
        /\ feed[n].kickoff \in Nat /\ feed'[n].kickoff \in Nat /\ feed[n].kickoff <= feed'[n].kickoff
        /\ feed'[n].score # Unknown => feed'[n].kickoff = feed[n].kickoff
                                       /\ (feed[n].score # Unknown \/ feed[n].kickoff < now)
  <2>1. CASE Postpone(m)
    BY <1>0, <2>1, BoundAssumption DEF Fixtures, Postpone
  <2>2. ASSUME NEW s \in Picks, Finish(m, s) \/ Correct(m, s)
        PROVE  \A n \in Matches :
                 /\ feed'[n].kickoff = feed[n].kickoff
                 /\ feed[n].score # Unknown \/ feed'[n].score = Unknown \/ feed[n].kickoff < now
    BY <1>0, <2>2 DEF Fixtures, Finish, Correct
  <2>3. \A n \in Matches : feed[n].kickoff \in Nat
    BY <1>0, BoundAssumption DEF Fixtures
  <2> QED BY <2>1, <2>2, <2>3
<1>5. ForecastTypeOK'
  BY <1>1, <1>2, <1>3 DEF ForecastInv, ForecastTypeOK
<1>6. CopiesAreOld'
  <2>1. \A n \in Matches : match[n].kickoff \in Nat /\ \A r \in Replicas : poll[r].snap[n].kickoff \in Nat
    BY <1>0, BoundAssumption DEF Fixtures
  <2> QED BY <1>1, <1>4, <2>1 DEF ForecastInv, CopiesAreOld
<1>7. FinalsArePast'
  BY <1>1, <1>4 DEF ForecastInv, FinalsArePast
<1>8. ForecastsAreTimely'
  <2>1. \A r \in Requests : OnMatch(req[r].key) => Subject(req[r].key) \in Matches
    BY DEF OnMatch
  <2>2. \A r \in Requests : req[r].kickoff \in Nat
    BY <1>0, BoundAssumption
  <2> QED BY <1>1, <1>4, <2>1, <2>2 DEF ForecastInv, ForecastsAreTimely
<1>9. ResolutionsLock' /\ PollersSettle'
  BY <1>1 DEF ForecastInv, ResolutionsLock, Ungraded, PollersSettle
<1>10. GradesAreWhole' /\ StatsExplained'
  BY <1>1, <1>5, NothingWritten
<1> QED BY <1>5, <1>6, <1>7, <1>8, <1>9, <1>10 DEF ForecastInv

\* A poller fetches, or fails: it goes on with the feed as it is, or with none.
Pollers == [pc : {"sleep", "upsert", "settle"}, todo : SUBSET Matches,
            match : Matches \cup {Unknown}, snap : [Matches -> Fixtures]]

LEMMA RestingTyped ==
    /\ Resting \in Pollers
    /\ Resting.pc = "sleep" /\ \A m \in Matches : Resting.snap[m].kickoff = 0
<1>1. NoSnap \in [Matches -> Fixtures]
  BY BoundAssumption DEF NoSnap, Fixtures
<1> QED BY <1>1 DEF Resting, NoSnap, Pollers

\* What a poller becomes by a step: its copy of the feed stays, or is new, or
\* is dropped.
PollerSound(t) ==
    /\ t \in Pollers
    /\ t.pc = "settle" => t.match \in Matches
    /\ \A m \in Matches : t.snap[m].kickoff <= feed[m].kickoff

LEMMA PollerKeeps ==
    ASSUME ForecastInv, NEW r \in Replicas, NEW t, PollerSound(t),
           poll' = [poll EXCEPT ![r] = t], UNCHANGED <<now, feed, req, fixes>>,
           match' \in [Matches -> Fixtures],
           \A m \in Matches : match'[m].kickoff <= feed[m].kickoff
    PROVE  CopiesAreOld' /\ FinalsArePast' /\ ForecastsAreTimely' /\ PollersSettle' /\ poll' \in [Replicas -> Pollers]
<1>0. poll \in [Replicas -> Pollers]
  BY DEF ForecastInv, ForecastTypeOK, Pollers
<1>1. \A q \in Replicas : poll'[q] = IF q = r THEN t ELSE poll[q]
  BY <1>0
<1>2. CopiesAreOld'
  BY <1>1 DEF ForecastInv, CopiesAreOld, PollerSound
<1>3. FinalsArePast' /\ ForecastsAreTimely'
  BY DEF ForecastInv, FinalsArePast, ForecastsAreTimely
<1>4. PollersSettle'
  BY <1>1 DEF ForecastInv, PollersSettle, PollerSound
<1>5. poll' \in [Replicas -> Pollers]
  BY <1>0 DEF PollerSound
<1> QED BY <1>2, <1>3, <1>4, <1>5

LEMMA PollersSound == ASSUME ForecastInv, NEW r \in Replicas PROVE PollerSound(poll[r]) /\ PollerSound(Resting)
<1>1. PollerSound(poll[r])
  BY DEF ForecastInv, ForecastTypeOK, PollerSound, Pollers, PollersSettle, CopiesAreOld
<1>2. PollerSound(Resting)
  <2>1. \A m \in Matches : 0 <= feed[m].kickoff
    BY DEF ForecastInv, ForecastTypeOK, Fixtures
  <2> QED BY <2>1, RestingTyped DEF PollerSound, Pollers
<1> QED BY <1>1, <1>2

LEMMA PollKeeps ==
    ASSUME ForecastInv, NEW r \in Replicas,
           Fetch(r) \/ PollFails(r) \/ \E m \in Matches : UpsertMatch(r, m)
    PROVE  ForecastInv'
<1>0. feed \in [Matches -> Fixtures] /\ match \in [Matches -> Fixtures]
  BY DEF ForecastInv, ForecastTypeOK
<1>1. UNCHANGED <<now, feed, row, stats, req, graded, fixes>>
  BY DEF Fetch, PollFails, UpsertMatch
<1>2. /\ CopiesAreOld' /\ FinalsArePast' /\ ForecastsAreTimely' /\ PollersSettle'
      /\ poll' \in [Replicas -> Pollers] /\ match' \in [Matches -> Fixtures]
  <2>1. CASE Fetch(r)
    <3> DEFINE t == [pc |-> "upsert", todo |-> Matches, match |-> Unknown, snap |-> feed]
    <3>1. PollerSound(t)
      <4>1. \A m \in Matches : feed[m].kickoff <= feed[m].kickoff
        BY <1>0, BoundAssumption DEF Fixtures
      <4> QED BY <1>0, <4>1 DEF PollerSound, Pollers
    <3>2. poll' = [poll EXCEPT ![r] = t] /\ match' = match
      BY <2>1 DEF Fetch
    <3> HIDE DEF t
    <3> QED BY <1>0, <1>1, <3>1, <3>2, PollerKeeps DEF ForecastInv, CopiesAreOld
  <2>2. CASE PollFails(r)
    <3>1. poll' = [poll EXCEPT ![r] = Resting] /\ match' = match
      BY <2>2 DEF PollFails
    <3> QED BY <1>0, <1>1, <3>1, PollerKeeps, PollersSound DEF ForecastInv, CopiesAreOld
  <2>3. ASSUME NEW m \in Matches, UpsertMatch(r, m)
        PROVE  /\ CopiesAreOld' /\ FinalsArePast' /\ ForecastsAreTimely' /\ PollersSettle'
               /\ poll' \in [Replicas -> Pollers] /\ match' \in [Matches -> Fixtures]
    <3> DEFINE rest == poll[r].todo \ {m}
               settling == [poll[r] EXCEPT !.pc = "settle", !.todo = rest, !.match = m]
               going == [poll[r] EXCEPT !.todo = rest]
    <3>1. PollerSound(poll[r]) /\ PollerSound(Resting)
      BY PollersSound
    <3>2. PollerSound(settling)
      BY <3>1 DEF PollerSound, Pollers
    <3>3. PollerSound(going)
      BY <3>1 DEF PollerSound, Pollers
    <3>4. PICK t \in {settling, going, Resting} : poll' = [poll EXCEPT ![r] = t]
      BY <2>3 DEF UpsertMatch
    <3>5. PollerSound(t)
      BY <3>1, <3>2, <3>3, <3>4
    <3>6. match' = [match EXCEPT ![m] = poll[r].snap[m]]
      BY <2>3 DEF UpsertMatch
    <3>7. poll[r].snap[m] \in Fixtures /\ poll[r].snap[m].kickoff <= feed[m].kickoff
      BY <3>1 DEF PollerSound, Pollers
    <3>8. match' \in [Matches -> Fixtures]
      BY <1>0, <3>6, <3>7
    <3>9. \A n \in Matches : match'[n].kickoff <= feed[n].kickoff
      BY <1>0, <3>6, <3>7 DEF ForecastInv, CopiesAreOld
    <3> HIDE DEF settling, going
    <3> QED BY <1>1, <3>4, <3>5, <3>8, <3>9, PollerKeeps
  <2> QED BY <2>1, <2>2, <2>3
<1>3. ForecastTypeOK'
  BY <1>1, <1>2 DEF ForecastInv, ForecastTypeOK, Pollers
<1>4. ResolutionsLock'
  BY <1>1 DEF ForecastInv, ResolutionsLock, Ungraded
<1>5. GradesAreWhole' /\ StatsExplained'
  BY <1>1, <1>3, NothingWritten
<1> QED BY <1>2, <1>3, <1>4, <1>5 DEF ForecastInv

\* A settlement grades what is open and locked by nobody.
LEMMA SettleKeeps == ASSUME ForecastInv, NEW r \in Replicas, SettleMatch(r) PROVE ForecastInv'
<1> DEFINE m == poll[r].match
           open == {k \in Keys : Subject(k) = m /\ Ungraded(k)}
<1>0. /\ match \in [Matches -> Fixtures] /\ feed \in [Matches -> Fixtures]
      /\ row \in [Keys -> Forecasts] /\ stats \in [People -> Tallies] /\ graded \in [People -> Seq(Keys)]
  BY DEF ForecastInv, ForecastTypeOK
<1>1. UNCHANGED <<now, feed, match, req, fixes>>
  BY DEF SettleMatch
<1>2. /\ CopiesAreOld' /\ FinalsArePast' /\ ForecastsAreTimely' /\ PollersSettle'
      /\ poll' \in [Replicas -> Pollers]
  <2>1. PollerSound(poll[r]) /\ PollerSound(Resting)
    BY PollersSound
  <2>2. PollerSound(Advanced(r))
    BY <2>1 DEF Advanced, PollerSound, Pollers
  <2>3. poll' = [poll EXCEPT ![r] = Advanced(r)]
    BY DEF SettleMatch
  <2> QED BY <1>0, <1>1, <2>2, <2>3, PollerKeeps DEF ForecastInv, CopiesAreOld
<1>3. m \in Matches
  BY DEF ForecastInv, PollersSettle, SettleMatch
<1>4. /\ row' \in [Keys -> Forecasts] /\ stats' \in [People -> Tallies]
      /\ graded' \in [People -> Seq(Keys)] /\ GradesAreWhole' /\ StatsExplained'
      /\ \A k \in Keys : k \notin open => row'[k] = row[k]
  <2>1. CASE match[m].score = Unknown
    <3>1. UNCHANGED <<row, stats, graded>>
      BY <2>1 DEF SettleMatch
    <3>2. StatsExplained'
      BY <3>1, TalliesKept DEF ForecastInv
    <3> QED BY <1>0, <3>1, <3>2 DEF ForecastInv, GradesAreWhole
  <2>2. CASE match[m].score # Unknown
    <3>1. Grade(open, match[m].score)
      BY <2>2 DEF SettleMatch
    <3>2. match[m].score \in Picks
      BY <1>0, <1>3, <2>2 DEF Fixtures
    <3>3. Apiece(open)
      BY KeysTyped DEF Apiece
    <3>4. open \in SUBSET Keys /\ \A k \in open : Ungraded(k)
      OBVIOUS
    <3> HIDE DEF open
    <3> QED BY <3>1, <3>2, <3>3, <3>4, GradeKeeps DEF ForecastInv
  <2> QED BY <2>1, <2>2
<1>5. ForecastTypeOK'
  BY <1>1, <1>2, <1>4 DEF ForecastInv, ForecastTypeOK, Pollers
<1>6. ResolutionsLock'
  <2>1. \A q \in Requests : req[q].op = "resolve" => req[q].key \in Keys /\ req[q].key \notin open
    BY DEF ForecastInv, ForecastTypeOK, SettleMatch, Locked
  <2> HIDE DEF open
  <2> QED BY <1>1, <1>4, <2>1 DEF ForecastInv, ResolutionsLock, Ungraded
<1> QED BY <1>2, <1>4, <1>5, <1>6 DEF ForecastInv

Served == [op : {"idle", "forecast", "resolve"}, key : Keys, kickoff : 0 .. MaxTime, at : 0 .. MaxTime]

\* What a request becomes by a step, which may have written a row that no other
\* request has locked.
RequestSound(r, t) ==
    /\ t \in Served
    /\ t.op = "forecast" =>
         /\ t.at <= now /\ now <= t.at + 1
         /\ OnMatch(t.key) => t.at < t.kickoff /\ t.kickoff <= feed[Subject(t.key)].kickoff
    /\ t.op = "resolve" =>
         Ungraded(t.key) /\ \A q \in Requests \ {r} : req[q].op = "resolve" => req[q].key # t.key

LEMMA RequestMoves ==
    ASSUME ForecastInv, NEW r \in Requests, NEW t, RequestSound(r, t),
           t.op = "resolve" => UNCHANGED row,
           \A q \in Requests \ {r} : req[q].op = "resolve" => row'[req[q].key] = row[req[q].key],
           req' = [req EXCEPT ![r] = t], UNCHANGED <<now, feed, match, poll, fixes>>
    PROVE  /\ CopiesAreOld' /\ FinalsArePast' /\ ForecastsAreTimely' /\ ResolutionsLock' /\ PollersSettle'
           /\ req' \in [Requests -> Served]
<1>0. req \in [Requests -> Served]
  BY DEF ForecastInv, ForecastTypeOK, Served
<1>1. \A q \in Requests : req'[q] = IF q = r THEN t ELSE req[q]
  BY <1>0
<1>2. CopiesAreOld' /\ FinalsArePast' /\ PollersSettle'
  BY DEF ForecastInv, CopiesAreOld, FinalsArePast, PollersSettle
<1>3. ForecastsAreTimely'
  BY <1>1 DEF ForecastInv, ForecastsAreTimely, RequestSound
<1>4. ResolutionsLock'
  <2>1. ASSUME NEW q \in Requests, req'[q].op = "resolve" PROVE Ungraded(req[q].key)'
    <3>1. CASE q = r
      BY <1>1, <2>1, <3>1 DEF RequestSound, Ungraded
    <3>2. CASE q # r
      BY <1>1, <2>1, <3>2 DEF ForecastInv, ResolutionsLock, Ungraded
    <3> QED BY <3>1, <3>2
  <2>2. ASSUME NEW q \in Requests, NEW s \in Requests,
               req'[q].op = "resolve", req'[s].op = "resolve", req'[q].key = req'[s].key
        PROVE  q = s
    <3>1. CASE q = r
      BY <1>1, <2>2, <3>1 DEF RequestSound
    <3>2. CASE s = r
      BY <1>1, <2>2, <3>2 DEF RequestSound
    <3>3. CASE q # r /\ s # r
      BY <1>1, <2>2, <3>3 DEF ForecastInv, ResolutionsLock
    <3> QED BY <3>1, <3>2, <3>3
  <2> QED BY <2>1, <2>2 DEF ResolutionsLock
<1>5. req' \in [Requests -> Served]
  BY <1>0 DEF RequestSound
<1> QED BY <1>2, <1>3, <1>4, <1>5

LEMMA NoRequestSound == ASSUME ForecastInv, NEW r \in Requests PROVE RequestSound(r, NoRequest)
<1>1. NoRequest \in Served /\ NoRequest.op = "idle"
  BY KeysTyped, BoundAssumption DEF NoRequest, Served
<1> QED BY <1>1 DEF RequestSound

\* A request that begins finds the kickoff ahead, or the row open and unlocked.
LEMMA AskKeeps ==
    ASSUME ForecastInv, NEW r \in Requests, Asking(r) \/ RequestFails(r)
    PROVE  ForecastInv'
<1>0. /\ now \in 0 .. MaxTime /\ match \in [Matches -> Fixtures] /\ feed \in [Matches -> Fixtures]
      /\ req \in [Requests -> Served]
  BY DEF ForecastInv, ForecastTypeOK, Served
<1>1. UNCHANGED <<now, feed, match, row, stats, poll, graded, fixes>>
  BY DEF Asking, RequestFails, BeginForecast, BeginPostForecast, ResolveLock
<1>2. \E t : RequestSound(r, t) /\ req' = [req EXCEPT ![r] = t]
  <2>1. CASE RequestFails(r)
    BY <2>1, NoRequestSound DEF RequestFails
  <2>2. ASSUME NEW k \in Keys, BeginForecast(r, k)
        PROVE  \E t : RequestSound(r, t) /\ req' = [req EXCEPT ![r] = t]
    <3> DEFINE t == [op |-> "forecast", key |-> k, kickoff |-> match[Subject(k)].kickoff, at |-> now]
    <3>1. req' = [req EXCEPT ![r] = t] /\ OnMatch(k) /\ match[Subject(k)].kickoff > now
      BY <2>2 DEF BeginForecast
    <3>2. /\ Subject(k) \in Matches /\ match[Subject(k)].kickoff \in 0 .. MaxTime
          /\ match[Subject(k)].kickoff <= feed[Subject(k)].kickoff
      BY <1>0, <3>1, KeysTyped DEF Fixtures, ForecastInv, CopiesAreOld
    <3>3. now \in Nat /\ match[Subject(k)].kickoff \in Nat /\ now < match[Subject(k)].kickoff
      BY <1>0, <3>1, <3>2, BoundAssumption
    <3>4. t \in Served
      BY <1>0, <3>2 DEF Served
    <3>5. t.at <= now /\ now <= t.at + 1
      BY <3>3
    <3>6. t.at < t.kickoff /\ t.kickoff <= feed[Subject(t.key)].kickoff
      BY <3>2, <3>3
    <3>7. t.op = "forecast"
      OBVIOUS
    <3> HIDE DEF t
    <3>8. RequestSound(r, t)
      BY <3>4, <3>5, <3>6, <3>7 DEF RequestSound
    <3> QED BY <3>1, <3>8
  <2>3. ASSUME NEW k \in Keys, BeginPostForecast(r, k)
        PROVE  \E t : RequestSound(r, t) /\ req' = [req EXCEPT ![r] = t]
    <3> DEFINE t == [op |-> "forecast", key |-> k, kickoff |-> 0, at |-> now]
    <3>1. req' = [req EXCEPT ![r] = t] /\ ~OnMatch(k)
      BY <2>3 DEF BeginPostForecast
    <3>2. t \in Served
      BY <1>0, BoundAssumption DEF Served
    <3>3. t.at <= now /\ now <= t.at + 1 /\ t.key = k /\ t.op = "forecast"
      BY <1>0, BoundAssumption
    <3> HIDE DEF t
    <3>4. RequestSound(r, t)
      BY <3>1, <3>2, <3>3 DEF RequestSound
    <3> QED BY <3>1, <3>4
  <2>4. ASSUME NEW k \in Keys, ResolveLock(r, k)
        PROVE  \E t : RequestSound(r, t) /\ req' = [req EXCEPT ![r] = t]
    <3> DEFINE t == [op |-> "resolve", key |-> k, kickoff |-> 0, at |-> 0]
    <3>1. req' = [req EXCEPT ![r] = t] /\ ~Locked(k) /\ Ungraded(k)
      BY <2>4 DEF ResolveLock
    <3>2. t \in Served
      BY BoundAssumption DEF Served
    <3>3. RequestSound(r, t)
      BY <3>1, <3>2 DEF RequestSound, Locked
    <3> HIDE DEF t
    <3> QED BY <3>1, <3>3
  <2> QED BY <2>1, <2>2, <2>3, <2>4 DEF Asking
<1>3. PICK t : RequestSound(r, t) /\ req' = [req EXCEPT ![r] = t]
  BY <1>2
<1>4. /\ CopiesAreOld' /\ FinalsArePast' /\ ForecastsAreTimely' /\ ResolutionsLock' /\ PollersSettle'
      /\ req' \in [Requests -> Served]
  BY <1>1, <1>3, RequestMoves
<1>5. ForecastTypeOK'
  BY <1>1, <1>4 DEF ForecastInv, ForecastTypeOK, Served
<1>6. GradesAreWhole' /\ StatsExplained'
  BY <1>1, <1>5, NothingWritten
<1> QED BY <1>4, <1>5, <1>6 DEF ForecastInv

\* A forecast replaces pick and deadline, never resolution and outcome.
LEMMA RevisionKeeps ==
    ASSUME ForecastInv, NEW r \in Requests,
           NEW pick \in Picks, UpsertPrediction(r, pick) \/ \E due \in 1 .. MaxTime - 1 : UpsertPostPrediction(r, pick, due)
    PROVE  ForecastInv'
<1> DEFINE k == req[r].key
<1>0. row \in [Keys -> Forecasts] /\ req \in [Requests -> Served]
  BY DEF ForecastInv, ForecastTypeOK, Served
<1>1. /\ UNCHANGED <<now, feed, match, stats, poll, graded, fixes>>
      /\ req' = [req EXCEPT ![r] = NoRequest] /\ ~Locked(k)
      /\ row' = row \/ \E due \in 0 .. MaxTime : row' = [row EXCEPT ![k].pick = pick, ![k].due = due]
  <2>1. CASE UpsertPrediction(r, pick)
    <3>1. req[r].kickoff \in 0 .. MaxTime
      BY <1>0 DEF Served
    <3> QED BY <2>1, <3>1 DEF UpsertPrediction, Written
  <2>2. ASSUME NEW due \in 1 .. MaxTime - 1, UpsertPostPrediction(r, pick, due)
        PROVE  /\ UNCHANGED <<now, feed, match, stats, poll, graded, fixes>>
               /\ req' = [req EXCEPT ![r] = NoRequest] /\ ~Locked(k)
               /\ row' = row \/ \E d \in 0 .. MaxTime : row' = [row EXCEPT ![k].pick = pick, ![k].due = d]
    <3>1. due \in 0 .. MaxTime
      BY BoundAssumption
    <3> QED BY <2>2, <3>1 DEF UpsertPostPrediction, Written
  <2> QED BY <2>1, <2>2
<1>2. k \in Keys
  BY <1>0 DEF Served
<1>3. /\ row' \in [Keys -> Forecasts]
      /\ \A l \in Keys : l # k => row'[l] = row[l]
      /\ \A l \in Keys : row'[l].outcome = row[l].outcome /\ row'[l].resolution = row[l].resolution
      /\ row'[k].pick \in {row[k].pick, pick}
  <2>1. CASE row' = row
    BY <1>0, <2>1
  <2>2. ASSUME NEW due \in 0 .. MaxTime, row' = [row EXCEPT ![k].pick = pick, ![k].due = due]
        PROVE  /\ row' \in [Keys -> Forecasts]
               /\ \A l \in Keys : l # k => row'[l] = row[l]
               /\ \A l \in Keys : row'[l].outcome = row[l].outcome /\ row'[l].resolution = row[l].resolution
               /\ row'[k].pick \in {row[k].pick, pick}
    <3> DEFINE new == [row[k] EXCEPT !.pick = pick, !.due = due]
    <3>1. row' = [row EXCEPT ![k] = new]
      BY <1>0, <1>2, <2>2 DEF Forecasts
    <3>2. /\ new \in Forecasts /\ new.pick = pick
          /\ new.outcome = row[k].outcome /\ new.resolution = row[k].resolution
      BY <1>0, <1>2 DEF Forecasts
    <3> HIDE DEF new
    <3> QED BY <1>0, <1>2, <3>1, <3>2
  <2> QED BY <1>1, <2>1, <2>2
<1>4. /\ CopiesAreOld' /\ FinalsArePast' /\ ForecastsAreTimely' /\ ResolutionsLock' /\ PollersSettle'
      /\ req' \in [Requests -> Served]
  <2>1. \A q \in Requests \ {r} : req[q].op = "resolve" => row'[req[q].key] = row[req[q].key]
    BY <1>0, <1>1, <1>3 DEF Locked, Served
  <2>2. NoRequest.op # "resolve"
    BY DEF NoRequest
  <2> QED BY <1>1, <2>1, <2>2, NoRequestSound, RequestMoves
<1>5. ForecastTypeOK'
  BY <1>1, <1>3, <1>4 DEF ForecastInv, ForecastTypeOK, Served
<1>6. GradesAreWhole'
  BY <1>3, UnknownAssumption DEF ForecastInv, GradesAreWhole
<1>7. StatsExplained'
  BY <1>1, <1>3, TalliesKept DEF ForecastInv
<1> QED BY <1>4, <1>5, <1>6, <1>7 DEF ForecastInv

\* A resolution grades the one row it has locked.
LEMMA ResolveKeeps ==
    ASSUME ForecastInv, NEW r \in Requests, NEW pick \in Picks, ResolveCommit(r, pick)
    PROVE  ForecastInv'
<1> DEFINE k == req[r].key
<1>0. req \in [Requests -> Served]
  BY DEF ForecastInv, ForecastTypeOK, Served
<1>1. /\ UNCHANGED <<now, feed, match, poll, fixes>> /\ req' = [req EXCEPT ![r] = NoRequest]
      /\ req[r].op = "resolve" /\ Grade({k}, pick)
  BY DEF ResolveCommit
<1>2. k \in Keys /\ Ungraded(k)
  BY <1>0, <1>1 DEF ForecastInv, ResolutionsLock, Served
<1>3. /\ row' \in [Keys -> Forecasts] /\ stats' \in [People -> Tallies]
      /\ graded' \in [People -> Seq(Keys)] /\ GradesAreWhole' /\ StatsExplained'
      /\ \A l \in Keys : l # k => row'[l] = row[l]
  <2>1. {k} \in SUBSET Keys /\ (\A l \in {k} : Ungraded(l)) /\ Apiece({k})
    BY <1>2 DEF Apiece
  <2>2. \A l : l # k => l \notin {k}
    OBVIOUS
  <2> HIDE DEF k
  <2> QED BY <1>1, <2>1, <2>2, GradeKeeps DEF ForecastInv
<1>4. /\ CopiesAreOld' /\ FinalsArePast' /\ ForecastsAreTimely' /\ ResolutionsLock' /\ PollersSettle'
      /\ req' \in [Requests -> Served]
  <2>1. \A q \in Requests \ {r} : req[q].op = "resolve" => row'[req[q].key] = row[req[q].key]
    BY <1>0, <1>1, <1>3 DEF ForecastInv, ResolutionsLock, Served
  <2>2. NoRequest.op # "resolve"
    BY DEF NoRequest
  <2> QED BY <1>1, <2>1, <2>2, NoRequestSound, RequestMoves
<1>5. ForecastTypeOK'
  BY <1>1, <1>3, <1>4 DEF ForecastInv, ForecastTypeOK, Served
<1> QED BY <1>3, <1>4, <1>5 DEF ForecastInv

LEMMA ForecastInitially == ForecastInit => ForecastInv
<1> SUFFICES ASSUME ForecastInit PROVE ForecastInv
  OBVIOUS
<1>1. ForecastTypeOK
  <2>1. feed \in [Matches -> Fixtures] /\ match \in [Matches -> Fixtures]
    BY BoundAssumption DEF ForecastInit, Fixtures
  <2>2. row \in [Keys -> Forecasts]
    BY BoundAssumption DEF ForecastInit, NoForecast, Forecasts
  <2>3. stats \in [People -> Tallies] /\ graded \in [People -> Seq(Keys)]
    BY DEF ForecastInit, Tallies
  <2>4. poll \in [Replicas -> Pollers]
    BY RestingTyped DEF ForecastInit, Pollers
  <2>5. req \in [Requests -> Served]
    BY KeysTyped, BoundAssumption DEF ForecastInit, NoRequest, Served
  <2>6. now \in 0 .. MaxTime /\ fixes \in 0 .. MaxFixes
    BY BoundAssumption DEF ForecastInit
  <2> QED BY <2>1, <2>2, <2>3, <2>4, <2>5, <2>6 DEF ForecastTypeOK, Pollers, Served
<1>2. CopiesAreOld /\ FinalsArePast
  BY RestingTyped DEF ForecastInit, CopiesAreOld, FinalsArePast
<1>3. ForecastsAreTimely /\ ResolutionsLock
  BY DEF ForecastInit, NoRequest, ForecastsAreTimely, ResolutionsLock
<1>4. GradesAreWhole /\ PollersSettle
  BY DEF ForecastInit, NoForecast, Resting, GradesAreWhole, PollersSettle
<1>5. StatsExplained
  <2>1. IsInjective(<<>>) /\ ToSet(<<>>) = {}
    BY DEF IsInjective, ToSet
  <2>2. ASSUME NEW p \in People
        PROVE  /\ graded[p] = <<>> /\ stats[p] = NoTally
               /\ {k \in Keys : Owner(k) = p /\ row[k].outcome # "none"} = {}
    BY DEF ForecastInit, NoTally, NoForecast
  <2> QED BY <2>1, <2>2, TallyOfNothing DEF StatsExplained
<1> QED BY <1>1, <1>2, <1>3, <1>4, <1>5 DEF ForecastInv

LEMMA ForecastInvariance == ForecastInv /\ [ForecastNext]_forecastVars => ForecastInv'
<1> SUFFICES ASSUME ForecastInv, [ForecastNext]_forecastVars PROVE ForecastInv'
  OBVIOUS
<1>1. CASE UNCHANGED forecastVars
  <2>1. UNCHANGED <<now, feed, match, row, stats, poll, req, graded, fixes>>
    BY <1>1 DEF forecastVars
  <2>2. ForecastTypeOK'
    BY <2>1 DEF ForecastInv, ForecastTypeOK
  <2>3. CopiesAreOld' /\ FinalsArePast' /\ ForecastsAreTimely' /\ ResolutionsLock' /\ PollersSettle'
    BY <2>1 DEF ForecastInv, CopiesAreOld, FinalsArePast, ForecastsAreTimely, ResolutionsLock, Ungraded, PollersSettle
  <2> QED BY <2>1, <2>2, <2>3, NothingWritten DEF ForecastInv
<1>2. CASE Outside
  BY <1>2, TickKeeps, FeedKeeps DEF Outside
<1>3. ASSUME NEW r \in Replicas, Polling(r) \/ PollFails(r) PROVE ForecastInv'
  BY <1>3, PollKeeps, SettleKeeps DEF Polling
<1>4. ASSUME NEW r \in Requests, Asking(r) \/ Serving(r) \/ RequestFails(r) PROVE ForecastInv'
  <2>1. CASE Asking(r) \/ RequestFails(r)
    BY <2>1, AskKeeps
  <2>2. ASSUME NEW pick \in Picks,
               \/ UpsertPrediction(r, pick)
               \/ \E due \in 1 .. MaxTime - 1 : UpsertPostPrediction(r, pick, due)
        PROVE  ForecastInv'
    BY <2>2, RevisionKeeps
  <2>3. ASSUME NEW pick \in Picks, ResolveCommit(r, pick) PROVE ForecastInv'
    BY <2>3, ResolveKeeps
  <2> QED BY <1>4, <2>1, <2>2, <2>3 DEF Serving
<1> QED BY <1>1, <1>2, <1>3, <1>4 DEF ForecastNext

\* The invariant holds of every reachable state.
THEOREM ForecastInvariant == ForecastSpec => []ForecastInv
  BY ForecastInitially, ForecastInvariance, PTL DEF ForecastSpec

\* Matches, forecasts, records, pollers and requests keep their types, for any
\* sets of them.
THEOREM ForecastsTyped == ForecastSpec => []ForecastTypeOK
<1>1. ForecastInv => ForecastTypeOK
  BY DEF ForecastInv
<1> QED BY <1>1, ForecastInvariant, PTL

\* However many pollers of however many processes settle a match, and authors
\* resolve: prediction_stats counts each graded forecast once, by its outcome.
THEOREM StatsAreExplained == ForecastSpec => []StatsExplained
<1>1. ForecastInv => StatsExplained
  BY DEF ForecastInv
<1> QED BY <1>1, ForecastInvariant, PTL

\* A graded forecast is changed by no step: not by a second settlement, a second
\* resolution or a revision that began before the deadline, and on a match from
\* full time on.
THEOREM GradesStand == ForecastSpec => GradedStands
<1> DEFINE Stand(k) == row[k].outcome # "none" /\ (OnMatch(k) => feed[Subject(k)].score # Unknown)
<1>1. ASSUME ForecastInv, [ForecastNext]_forecastVars, NEW k \in Keys, Stand(k)
      PROVE  row'[k] = row[k]
  <2>0. row \in [Keys -> Forecasts] /\ req \in [Requests -> Served]
    BY <1>1 DEF ForecastInv, ForecastTypeOK, Served
  <2>1. ~Ungraded(k)
    BY <1>1 DEF Ungraded
  <2>2. ASSUME NEW ks \in SUBSET Keys, \A l \in ks : Ungraded(l), NEW resolution, Grade(ks, resolution)
        PROVE  row'[k] = row[k]
    BY <2>1, <2>2 DEF Grade
  <2>3. ASSUME NEW r \in Replicas, SettleMatch(r) PROVE row'[k] = row[k]
    <3> DEFINE open == {l \in Keys : Subject(l) = poll[r].match /\ Ungraded(l)}
    <3>1. UNCHANGED row \/ \E s : Grade(open, s)
      BY <2>3 DEF SettleMatch
    <3>2. open \in SUBSET Keys /\ \A l \in open : Ungraded(l)
      OBVIOUS
    <3> HIDE DEF open
    <3> QED BY <2>2, <3>1, <3>2
  <2>4. ASSUME NEW r \in Requests, NEW pick \in Picks, ResolveCommit(r, pick) PROVE row'[k] = row[k]
    <3>1. req[r].key \in Keys /\ Ungraded(req[r].key) /\ Grade({req[r].key}, pick)
      BY <1>1, <2>0, <2>4 DEF ResolveCommit, ForecastInv, ResolutionsLock, Served
    <3>2. {req[r].key} \in SUBSET Keys /\ \A l \in {req[r].key} : Ungraded(l)
      BY <3>1
    <3> QED BY <2>2, <3>1, <3>2
  <2>5. ASSUME NEW r \in Requests, NEW pick \in Picks, UpsertPrediction(r, pick) PROVE row'[k] = row[k]
    <3> DEFINE l == req[r].key
    <3>1. /\ req[r].op = "forecast" /\ OnMatch(l)
          /\ row' = [row EXCEPT ![l].pick = pick, ![l].due = req[r].kickoff]
      BY <2>5 DEF UpsertPrediction, Written
    <3>2. l \in Keys /\ Subject(l) \in Matches
      BY <2>0, <3>1, KeysTyped DEF Served
    <3>3. /\ now \in Nat /\ req[r].at \in Nat /\ req[r].kickoff \in Nat /\ feed[Subject(l)].kickoff \in Nat
      BY <1>1, <2>0, <3>2, BoundAssumption DEF ForecastInv, ForecastTypeOK, Served, Fixtures
    <3>4. now <= req[r].at + 1 /\ req[r].at < req[r].kickoff /\ req[r].kickoff <= feed[Subject(l)].kickoff
      BY <1>1, <3>1 DEF ForecastInv, ForecastsAreTimely
    <3>5. now <= feed[Subject(l)].kickoff
      <4> HIDE DEF l
      <4> QED BY <3>3, <3>4
    <3>6. feed[Subject(l)].score = Unknown
      <4> HIDE DEF l
      <4> QED BY <1>1, <3>2, <3>3, <3>5 DEF ForecastInv, FinalsArePast
    <3>7. l # k
      BY <1>1, <3>1, <3>6
    <3> QED BY <2>0, <3>1, <3>2, <3>7
  <2>6. ASSUME NEW r \in Requests, NEW pick \in Picks, NEW due, UpsertPostPrediction(r, pick, due)
        PROVE  row'[k] = row[k]
    <3> DEFINE l == req[r].key
    <3>1. l \in Keys
      BY <2>0 DEF Served
    <3>2. CASE Revisable(l, req[r].at)
      <4>1. row' = [row EXCEPT ![l].pick = pick, ![l].due = due]
        BY <2>6, <3>2 DEF UpsertPostPrediction, Written
      <4>2. row[l].outcome = "none"
        BY <1>1, <3>1, <3>2 DEF ForecastInv, GradesAreWhole, Revisable
      <4>3. l # k
        BY <1>1, <4>2
      <4> HIDE DEF l
      <4> QED BY <2>0, <3>1, <4>1, <4>3
    <3>3. CASE ~Revisable(l, req[r].at)
      BY <2>6, <3>3 DEF UpsertPostPrediction
    <3> QED BY <3>2, <3>3
  <2>7. CASE \/ UNCHANGED forecastVars \/ Outside
             \/ \E r \in Replicas : Fetch(r) \/ PollFails(r) \/ \E m \in Matches : UpsertMatch(r, m)
             \/ \E r \in Requests : Asking(r) \/ RequestFails(r)
    <3>1. UNCHANGED row
      BY <2>7 DEF forecastVars, Outside, Tick, Postpone, Finish, Correct, Fetch, PollFails, UpsertMatch,
                  Asking, RequestFails, BeginForecast, BeginPostForecast, ResolveLock
    <3> QED BY <3>1
  <2> QED BY <1>1, <2>3, <2>4, <2>5, <2>6, <2>7 DEF ForecastNext, Polling, Serving
<1>2. ForecastInv /\ [ForecastNext]_forecastVars =>
        [\A k \in Keys : Stand(k) => row'[k] = row[k]]_forecastVars
  BY <1>1
<1> QED BY <1>2, ForecastInvariant, PTL DEF ForecastSpec, GradedStands
=============================================================================
