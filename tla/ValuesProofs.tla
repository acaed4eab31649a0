----------------------------- MODULE ValuesProofs -----------------------------
(***************************************************************************)
(* The algorithms of the worker compute what they are meant to on every    *)
(* input, of any size: timelines with any number of elements, templates of *)
(* any duration and timescale, segments with any pattern of silence.       *)
(*                                                                         *)
(* They are folds, so that the proofs are inductions.  The induction       *)
(* theorems of the library take the predicate as a parameter; here a set   *)
(* takes its place, and the step of a recursion is a function.             *)
(***************************************************************************)
EXTENDS Values, FiniteSetTheorems, TLAPS

\* Induction: what holds 0, and n + 1 with every n, holds every number.  Otherwise
\* taking 1 from a number outside S would map the numbers up to n outside S, of which
\* there are finitely many, one to one to themselves without reaching n.
LEMMA SetInduction ==
    ASSUME NEW S, 0 \in S, \A n \in Nat : n \in S => n + 1 \in S
    PROVE  Nat \subseteq S
<1>1. SUFFICES ASSUME NEW n \in Nat, n \notin S PROVE FALSE
  OBVIOUS
<1> DEFINE T == {k \in 0..n : k \notin S}
           f == [k \in T |-> k - 1]
<1>2. IsFiniteSet(T)
  <2>1. IsFiniteSet(0..n)
    BY FS_Interval
  <2>2. QED
    BY <2>1, FS_Subset
<1>3. \A k \in T : k - 1 \in T
  <2>1. SUFFICES ASSUME NEW k \in T PROVE k - 1 \in T
    OBVIOUS
  <2>2. k - 1 \in Nat /\ (k - 1) + 1 = k /\ k <= n /\ k \notin S
    BY <1>1
  <2>3. QED
    BY <1>1, <2>2
<1>4. f \in Injection(T, T)
  <2>1. f \in [T -> T]
    BY <1>3
  <2>2. \A k, l \in T : f[k] = f[l] => k = l
    OBVIOUS
  <2>3. QED
    BY <2>1, <2>2 DEF Injection, IsInjective
<1>5. f \in Surjection(T, T)
  BY <1>2, <1>4, FS_Injection
<1>6. n \in T
  BY <1>1
<1>7. PICK k \in T : f[k] = n
  BY <1>5, <1>6 DEF Surjection
<1>8. QED
  BY <1>7

\* A fold over a set: pick tells which element is taken next, and step what is made of it.
Picks(pick, S) == \A T \in SUBSET S : T # {} => pick[T] \in T

IsFold(g, S, base, pick, step) ==
    \A T \in SUBSET S :
        g[T] = IF T = {} THEN base ELSE step[<<g[T \ {pick[T]}], pick[T]>>]

\* Over a finite set there is a function that the equation describes.
LEMMA FoldExists ==
    ASSUME NEW S, IsFiniteSet(S), NEW R, NEW base \in R, NEW pick, Picks(pick, S),
           NEW step \in [R \X S -> R]
    PROVE  \E g \in [SUBSET S -> R] : IsFold(g, S, base, pick, step)
<1> USE DEF Picks
<1> DEFINE Small(n) == {T \in SUBSET S : Cardinality(T) <= n}
           Folds(g, n) == \A T \in Small(n) :
               g[T] = IF T = {} THEN base ELSE step[<<g[T \ {pick[T]}], pick[T]>>]
           N == {n \in Nat : \E g \in [Small(n) -> R] : Folds(g, n)}
<1>1. \A T \in SUBSET S : IsFiniteSet(T) /\ Cardinality(T) \in Nat
                          /\ Cardinality(T) <= Cardinality(S) /\ (Cardinality(T) = 0 <=> T = {})
  BY FS_Subset, FS_CardinalityType, FS_EmptySet
<1>2. 0 \in N
  <2> DEFINE g == [T \in Small(0) |-> base]
  <2>1. \A T \in Small(0) : T = {}
    BY <1>1
  <2>2. g \in [Small(0) -> R] /\ Folds(g, 0)
    BY <2>1
  <2>3. QED
    BY <2>2
<1>3. ASSUME NEW n \in Nat, n \in N PROVE n + 1 \in N
  <2>1. PICK g \in [Small(n) -> R] : Folds(g, n)
    BY <1>3
  <2> DEFINE h == [T \in Small(n + 1) |->
                     IF T = {} THEN base ELSE step[<<g[T \ {pick[T]}], pick[T]>>]]
  <2>2. ASSUME NEW T \in Small(n + 1), T # {}
        PROVE  T \ {pick[T]} \in Small(n) /\ pick[T] \in S
    <3>1. T \in SUBSET S /\ pick[T] \in T /\ IsFiniteSet(T)
          /\ Cardinality(T) \in Nat /\ Cardinality(T) <= n + 1
      BY <1>1, <2>2
    <3>2. Cardinality(T \ {pick[T]}) = Cardinality(T) - 1
      BY <3>1, FS_RemoveElement
    <3>3. Cardinality(T \ {pick[T]}) <= n /\ T \ {pick[T]} \in SUBSET S
      BY <3>1, <3>2
    <3>4. QED
      BY <3>1, <3>3
  <2>3. \A T \in Small(n) : T \in Small(n + 1) /\ h[T] = g[T]
    <3>1. \A T \in Small(n) : T \in Small(n + 1)
      BY <1>1
    <3>2. QED
      BY <2>1, <3>1
  <2>4. h \in [Small(n + 1) -> R]
    BY <2>1, <2>2
  <2>5. Folds(h, n + 1)
    BY <2>2, <2>3
  <2> HIDE DEF h, Small, Folds
  <2>6. n + 1 \in Nat /\ \E k \in [Small(n + 1) -> R] : Folds(k, n + 1)
    BY <2>4, <2>5
  <2>7. QED
    BY <2>6
<1>4. Cardinality(S) \in N
  <2>1. Nat \subseteq N
    <3> HIDE DEF N
    <3>1. QED
      BY <1>2, <1>3, SetInduction
  <2>2. QED
    BY <2>1, FS_CardinalityType
<1>5. Small(Cardinality(S)) = SUBSET S
  BY <1>1
<1>6. QED
  BY <1>4, <1>5 DEF IsFold

-----------------------------------------------------------------------------
\* Intervals of a segment.

\* The ticks that lie in one of the intervals of S.
Within(S) == UNION {i[1]..(i[2] - 1) : i \in S}

LEMMA IntervalTyped ==
    ASSUME NEW quiet, NEW i \in Intervals(quiet)
    PROVE  /\ i[1] \in Nat /\ i[2] \in Nat /\ i[1] < i[2] /\ i[2] <= Total
           /\ i = <<i[1], i[2]>>
           /\ i[1]..(i[2] - 1) \subseteq quiet /\ i[1] - 1 \notin quiet /\ i[2] \notin quiet
BY MeasureAssumption DEF Intervals

LEMMA IntervalsFinite ==
    ASSUME NEW quiet PROVE IsFiniteSet(Intervals(quiet))
<1>1. IsFiniteSet(0..Total)
  BY MeasureAssumption, FS_Interval
<1>2. IsFiniteSet((0..Total) \X (0..Total))
  BY <1>1, FS_Product
<1>3. QED
  BY <1>2, FS_Subset DEF Intervals

\* Of two intervals none begins or ends inside the other, as what is next to an interval
\* is not quiet.
LEMMA IntervalsDisjoint ==
    ASSUME NEW quiet, NEW i \in Intervals(quiet), NEW j \in Intervals(quiet),
           NEW t \in (i[1]..(i[2] - 1)) \cap (j[1]..(j[2] - 1))
    PROVE  i = j
<1>1. /\ i[1] \in Nat /\ i[2] \in Nat /\ i = <<i[1], i[2]>>
      /\ i[1]..(i[2] - 1) \subseteq quiet /\ i[1] - 1 \notin quiet /\ i[2] \notin quiet
  BY IntervalTyped
<1>2. /\ j[1] \in Nat /\ j[2] \in Nat /\ j = <<j[1], j[2]>>
      /\ j[1]..(j[2] - 1) \subseteq quiet /\ j[1] - 1 \notin quiet /\ j[2] \notin quiet
  BY IntervalTyped
<1>3. ~(i[1] < j[1])
  <2>1. SUFFICES ASSUME i[1] < j[1] PROVE FALSE
    OBVIOUS
  <2>2. j[1] - 1 \in i[1]..(i[2] - 1)
    BY <1>1, <1>2, <2>1
  <2>3. QED
    BY <1>1, <1>2, <2>2
<1>4. ~(j[1] < i[1])
  <2>1. SUFFICES ASSUME j[1] < i[1] PROVE FALSE
    OBVIOUS
  <2>2. i[1] - 1 \in j[1]..(j[2] - 1)
    BY <1>1, <1>2, <2>1
  <2>3. QED
    BY <1>1, <1>2, <2>2
<1>5. ~(i[2] < j[2])
  <2>1. SUFFICES ASSUME i[2] < j[2] PROVE FALSE
    OBVIOUS
  <2>2. i[2] \in j[1]..(j[2] - 1)
    BY <1>1, <1>2, <2>1
  <2>3. QED
    BY <1>1, <1>2, <2>2
<1>6. ~(j[2] < i[2])
  <2>1. SUFFICES ASSUME j[2] < i[2] PROVE FALSE
    OBVIOUS
  <2>2. j[2] \in i[1]..(i[2] - 1)
    BY <1>1, <1>2, <2>1
  <2>3. QED
    BY <1>1, <1>2, <2>2
<1>7. QED
  BY <1>1, <1>2, <1>3, <1>4, <1>5, <1>6

LEMMA IntervalTicks ==
    ASSUME NEW a \in Nat, NEW b \in Nat, a < b
    PROVE  IsFiniteSet(a..(b - 1)) /\ Cardinality(a..(b - 1)) = b - a
<1>1. a \in Int /\ b - 1 \in Int /\ (IF a > b - 1 THEN 0 ELSE (b - 1) - a + 1) = b - a
  OBVIOUS
<1>2. QED
  BY <1>1, FS_Interval

LEMMA OneLess ==
    ASSUME NEW quiet, NEW S \in SUBSET Intervals(quiet), NEW i \in S,
           IsFiniteSet(Within(S \ {i}))
    PROVE  /\ IsFiniteSet(Within(S))
           /\ Cardinality(Within(S)) = Cardinality(Within(S \ {i})) + Span(i)
<1> DEFINE T == i[1]..(i[2] - 1)
<1>1. i[1] \in Nat /\ i[2] \in Nat /\ i[1] < i[2]
  BY IntervalTyped
<1>2. IsFiniteSet(T) /\ Cardinality(T) = i[2] - i[1]
  BY <1>1, IntervalTicks
<1>3. Within(S) = Within(S \ {i}) \cup T
  BY DEF Within
<1>4. Within(S \ {i}) \cap T = {}
  BY IntervalsDisjoint DEF Within
<1> HIDE DEF T
<1>5. /\ IsFiniteSet(Within(S \ {i}) \cup T)
      /\ Cardinality(Within(S \ {i}) \cup T) =
            Cardinality(Within(S \ {i})) + Cardinality(T) - Cardinality(Within(S \ {i}) \cap T)
  BY <1>2, FS_Union
<1>6. Cardinality(Within(S \ {i}) \cap T) = 0 /\ Cardinality(Within(S \ {i})) \in Nat
  BY <1>4, FS_EmptySet, FS_CardinalityType
<1>7. QED
  BY <1>1, <1>2, <1>3, <1>5, <1>6 DEF Span

\* The sum over intervals of a segment is the number of ticks in them.
LEMMA SpansAdded ==
    ASSUME NEW quiet, NEW S \in SUBSET Intervals(quiet)
    PROVE  /\ IsFiniteSet(Within(S))
           /\ MapThenSumSet(Span, S) = Cardinality(Within(S))
<1> DEFINE any(T) == CHOOSE x \in T : TRUE
           Sum(f) == f = [T \in SUBSET S |->
                             IF T = {} THEN 0 ELSE Span(any(T)) + f[T \ {any(T)}]]
           iter == CHOOSE f : Sum(f)
<1>1. MapThenSumSet(Span, S) = iter[S]
  BY DEF MapThenSumSet, MapThenFoldSet
<1>2. IsFiniteSet(S)
  BY IntervalsFinite, FS_Subset
<1>3. \A i \in S : Span(i) \in Int
  <2>1. \A i \in S : i[1] \in Int /\ i[2] \in Int
    BY IntervalTyped
  <2>2. QED
    BY <2>1 DEF Span
<1>4. Sum(iter)
  <2> DEFINE pick == [T \in SUBSET S |-> any(T)]
             step == [p \in Int \X S |-> Span(p[2]) + p[1]]
  <2>1. Picks(pick, S)
    BY DEF Picks
  <2>2. step \in [Int \X S -> Int] /\ 0 \in Int
    BY <1>3
  <2> HIDE DEF pick, step
  <2>3. PICK g \in [SUBSET S -> Int] : IsFold(g, S, 0, pick, step)
    BY <1>2, <2>1, <2>2, FoldExists
  <2>4. ASSUME NEW T \in SUBSET S, T # {}
        PROVE  g[T] = Span(any(T)) + g[T \ {any(T)}]
    <3>1. pick[T] = any(T) /\ any(T) \in S
      BY <2>4 DEF pick
    <3> HIDE DEF any
    <3>2. <<g[T \ {any(T)}], any(T)>> \in Int \X S
      <4>1. T \ {any(T)} \in SUBSET S
        OBVIOUS
      <4>2. g[T \ {any(T)}] \in Int
        BY <4>1
      <4>3. QED
        BY <3>1, <4>2
    <3>3. step[<<g[T \ {any(T)}], any(T)>>] = Span(any(T)) + g[T \ {any(T)}]
      BY <3>2 DEF step
    <3>4. QED
      BY <2>3, <2>4, <3>1, <3>3 DEF IsFold
  <2>5. Sum(g)
    <3>1. \A T \in SUBSET S :
             g[T] = IF T = {} THEN 0 ELSE Span(any(T)) + g[T \ {any(T)}]
      BY <2>3, <2>4 DEF IsFold
    <3> HIDE DEF any
    <3>2. QED
      BY <3>1
  <2>6. QED
    BY <2>5
<1> DEFINE N == {n \in Nat : \A T \in SUBSET S : Cardinality(T) = n =>
                     IsFiniteSet(Within(T)) /\ iter[T] = Cardinality(Within(T))}
<1> HIDE DEF iter, any
<1>5. \A T \in SUBSET S :
        /\ IsFiniteSet(T) /\ Cardinality(T) \in Nat /\ (Cardinality(T) = 0 <=> T = {})
        /\ iter[T] = IF T = {} THEN 0 ELSE Span(any(T)) + iter[T \ {any(T)}]
        /\ T # {} => any(T) \in T
  <2>1. \A T \in SUBSET S :
          IsFiniteSet(T) /\ Cardinality(T) \in Nat /\ (Cardinality(T) = 0 <=> T = {})
    BY <1>2, FS_Subset, FS_CardinalityType, FS_EmptySet
  <2>2. \A T \in SUBSET S :
          iter[T] = IF T = {} THEN 0 ELSE Span(any(T)) + iter[T \ {any(T)}]
    BY <1>4
  <2>3. \A T \in SUBSET S : T # {} => any(T) \in T
    BY DEF any
  <2>4. QED
    BY <2>1, <2>2, <2>3
<1>6. 0 \in N
  <2>1. Within({}) = {}
    BY DEF Within
  <2>2. QED
    BY <1>5, <2>1, FS_EmptySet
<1>7. ASSUME NEW n \in Nat, n \in N PROVE n + 1 \in N
  <2>1. SUFFICES ASSUME NEW T \in SUBSET S, Cardinality(T) = n + 1
                 PROVE  IsFiniteSet(Within(T)) /\ iter[T] = Cardinality(Within(T))
    OBVIOUS
  <2>2. T # {} /\ any(T) \in T /\ IsFiniteSet(T)
    <3>1. n + 1 # 0
      OBVIOUS
    <3>2. QED
      BY <1>5, <2>1, <3>1
  <2>3. Cardinality(T \ {any(T)}) = n
    <3>1. Cardinality(T \ {any(T)}) = (n + 1) - 1
      BY <2>1, <2>2, FS_RemoveElement
    <3>2. QED
      BY <3>1
  <2>4. /\ IsFiniteSet(Within(T \ {any(T)}))
        /\ iter[T \ {any(T)}] = Cardinality(Within(T \ {any(T)}))
    BY <1>7, <2>3
  <2>5. /\ IsFiniteSet(Within(T))
        /\ Cardinality(Within(T)) = Cardinality(Within(T \ {any(T)})) + Span(any(T))
    BY <2>2, <2>4, OneLess
  <2>6. Cardinality(Within(T \ {any(T)})) \in Nat /\ Span(any(T)) \in Int
    BY <1>3, <2>2, <2>4, FS_CardinalityType
  <2>7. iter[T] = Span(any(T)) + iter[T \ {any(T)}]
    BY <1>5, <2>2
  <2>8. QED
    BY <2>4, <2>5, <2>6, <2>7
<1>8. Cardinality(S) \in N
  <2> HIDE DEF N
  <2>1. Nat \subseteq N
    BY <1>6, <1>7, SetInduction
  <2>2. QED
    BY <1>5, <2>1
<1>9. QED
  BY <1>1, <1>8

\* Intervals that share a tick are one: no two begin alike, or end alike.
LEMMA IntervalsApart ==
    ASSUME NEW quiet, NEW i \in Intervals(quiet), NEW j \in Intervals(quiet), i # j
    PROVE  i[1] # j[1] /\ i[2] # j[2] /\ ~(i[1] <= j[1] /\ j[1] < i[2])
<1>1. /\ i[1] \in Nat /\ i[2] \in Nat /\ i[1] < i[2]
      /\ j[1] \in Nat /\ j[2] \in Nat /\ j[1] < j[2]
  BY IntervalTyped
<1>2. ~(i[1] <= j[1] /\ j[1] < i[2])
  <2>1. i[1] <= j[1] /\ j[1] < i[2] => j[1] \in (i[1]..(i[2] - 1)) \cap (j[1]..(j[2] - 1))
    BY <1>1
  <2>2. QED
    BY <2>1, IntervalsDisjoint
<1>3. i[1] # j[1]
  BY <1>1, <1>2
<1>4. i[2] # j[2]
  <2>1. i[2] = j[2] => i[2] - 1 \in (i[1]..(i[2] - 1)) \cap (j[1]..(j[2] - 1))
    BY <1>1
  <2>2. QED
    BY <2>1, IntervalsDisjoint
<1>5. QED
  BY <1>2, <1>3, <1>4

\* Every start that is printed is printed of another interval.
LEMMA StartsCounted ==
    ASSUME NEW quiet, NEW B \in SUBSET Intervals(quiet)
    PROVE  IsFiniteSet({i[1] : i \in B}) /\ Cardinality({i[1] : i \in B}) = Cardinality(B)
<1> DEFINE T == {i[1] : i \in B}
           f == [i \in B |-> i[1]]
<1>1. IsFiniteSet(B)
  BY IntervalsFinite, FS_Subset
<1>2. f \in Surjection(B, T)
  BY DEF Surjection
<1>3. f \in Injection(B, T)
  <2>1. \A i, j \in B : f[i] = f[j] => i = j
    BY IntervalsApart
  <2>2. QED
    BY <1>2, <2>1 DEF Surjection, Injection, IsInjective
<1>4. QED
  BY <1>1, <1>2, <1>3, FS_Surjection

\* What detectSilence makes of the lines of any segment.
LEMMA SilenceOfAll ==
    ASSUME NEW quiet \in SUBSET (0..(Total - 1)), NEW early \in BOOLEAN, NEW open \in BOOLEAN
    PROVE  LET measured == SilenceDuration(Printed(quiet, early, open))
               all      == BlackDuration(quiet)
               unended  == {i \in Intervals(quiet) : open /\ i[2] = Total}
               unbegun  == {i \in Intervals(quiet) : early /\ i[1] = 0}
           IN  /\ measured \in Nat /\ all \in Nat /\ Cardinality(quiet) \in Nat
               /\ measured <= all /\ all <= Cardinality(quiet)
               /\ unended = {} \/ unbegun = {} => measured = all
<1> DEFINE I == Intervals(quiet)
           E == {i \in I : ~(open /\ i[2] = Total)}
           B == {i \in I : ~(early /\ i[1] = 0)}
           starts == {i[1] : i \in B}
           all == BlackDuration(quiet)
           kept == Cardinality(Within(E))
           measured == SilenceDuration(Printed(quiet, early, open))
<1>1. /\ IsFiniteSet(I) /\ IsFiniteSet(E) /\ IsFiniteSet(B)
      /\ E \in SUBSET I /\ B \in SUBSET I
      /\ Cardinality(I) \in Nat /\ Cardinality(E) \in Nat /\ Cardinality(B) \in Nat
      /\ Cardinality(B) <= Cardinality(I)
  BY IntervalsFinite, FS_Subset, FS_CardinalityType
<1>2. all = Cardinality(Within(I)) /\ IsFiniteSet(Within(I)) /\ all \in Nat
  BY SpansAdded, FS_CardinalityType DEF BlackDuration
<1>3. Cardinality(quiet) \in Nat /\ all <= Cardinality(quiet)
  <2>1. IsFiniteSet(0..(Total - 1))
    BY MeasureAssumption, FS_Interval
  <2>2. IsFiniteSet(quiet)
    BY <2>1, FS_Subset
  <2>3. Within(I) \subseteq quiet
    BY IntervalTyped DEF Within
  <2>4. QED
    BY <1>2, <2>2, <2>3, FS_Subset, FS_CardinalityType
<1>4. Cardinality(starts) = Cardinality(B)
  BY <1>1, StartsCounted
<1>5. kept \in Nat /\ measured = kept + (IF Cardinality(B) > Cardinality(E)
                                         THEN Total - Max(starts) ELSE 0)
  <2>1. Printed(quiet, early, open) = [starts |-> starts, ends |-> E]
    BY DEF Printed
  <2>2. IsFiniteSet(Within(E)) /\ MapThenSumSet(Span, E) = kept
    BY <1>1, SpansAdded
  <2>3. measured = MapThenSumSet(Span, E) +
                      (IF Cardinality(starts) > Cardinality(E) THEN Total - Max(starts) ELSE 0)
    BY <2>1 DEF SilenceDuration, Unended
  <2>4. QED
    BY <1>4, <2>2, <2>3, FS_CardinalityType
<1> HIDE DEF I, E, B, starts, all, kept, measured
<1>6. CASE E = I
  <2>1. ~(Cardinality(B) > Cardinality(E))
    BY <1>1, <1>6
  <2>2. measured = all
    BY <1>2, <1>5, <1>6, <2>1 DEF kept
  <2>3. QED
    BY <1>2, <1>3, <2>2 DEF all, measured
<1>7. CASE E # I
  <2>1. PICK u \in I : u \notin E
    BY <1>1, <1>7
  <2>2. /\ open /\ u[2] = Total /\ u[1] \in Nat /\ u[2] \in Nat /\ u[1] < u[2]
        /\ Span(u) = Total - u[1]
    BY <2>1, IntervalTyped DEF Span, E, I
  <2>3. E = I \ {u}
    BY <1>1, <2>1, <2>2, IntervalsApart DEF E, I
  <2>4. Cardinality(E) = Cardinality(I) - 1
    BY <1>1, <2>1, <2>3, FS_RemoveElement
  <2>5. all = kept + (Total - u[1])
    <3>1. IsFiniteSet(Within(I \ {u}))
      BY SpansAdded DEF I
    <3>2. Cardinality(Within(I)) = Cardinality(Within(I \ {u})) + Span(u)
      BY <2>1, <3>1, OneLess DEF I
    <3>3. QED
      BY <1>2, <2>2, <2>3, <3>2 DEF kept
  <2>6. CASE B = I
    <3>1. u[1] \in starts /\ \A s \in starts : u[1] >= s
      <4>1. ASSUME NEW i \in I PROVE u[1] >= i[1]
        BY <2>1, <2>2, IntervalTyped, IntervalsApart DEF I
      <4>2. QED
        BY <2>1, <2>6, <4>1 DEF starts
    <3>2. \A s \in starts : s \in Nat
      BY <1>1, IntervalTyped DEF starts, I
    <3>3. Max(starts) = u[1]
      <4>1. \A s \in starts : (\A r \in starts : s >= r) => s = u[1]
        BY <2>2, <3>1, <3>2
      <4>2. QED
        BY <3>1, <4>1 DEF Max
    <3>4. Cardinality(B) > Cardinality(E)
      BY <1>1, <2>4, <2>6
    <3>5. measured = all
      BY <1>5, <2>5, <3>3, <3>4
    <3>6. QED
      BY <1>2, <1>3, <3>5 DEF all, measured
  <2>7. CASE B # I
    <3>1. PICK b \in I : b \notin B
      BY <1>1, <2>7
    <3>2. /\ IsFiniteSet(I \ {b}) /\ Cardinality(I \ {b}) = Cardinality(I) - 1
          /\ B \in SUBSET (I \ {b})
      BY <1>1, <3>1, FS_RemoveElement
    <3>3. Cardinality(B) <= Cardinality(I) - 1
      BY <3>2, FS_Subset
    <3>4. ~(Cardinality(B) > Cardinality(E))
      BY <1>1, <2>4, <3>3
    <3>5. measured = kept /\ measured <= all
      BY <1>2, <1>5, <2>2, <2>5, <3>4
    <3>6. u \in {i \in Intervals(quiet) : open /\ i[2] = Total}
      BY <2>1, <2>2 DEF I
    <3>7. b \in {i \in Intervals(quiet) : early /\ i[1] = 0}
      BY <3>1 DEF I, B
    <3>8. QED
      BY <1>2, <1>3, <1>5, <3>5, <3>6, <3>7 DEF all, measured
  <2>8. QED
    BY <2>6, <2>7
<1>8. QED
  BY <1>6, <1>7

SoundOK ==
    /\ sound.quiet \in SUBSET (0..(Total - 1))
    /\ sound.early \in BOOLEAN /\ sound.open \in BOOLEAN

\* Of every segment, whatever is silent in it, detectSilence measures all, unless it is
\* silent at both its ends, and never more; and a segment only counts as fully silent
\* when more than nine tenths of it are.
THEOREM SilenceAlwaysMeasured == ValuesSpec => []SilenceMeasured
<1>1. ValuesInit => SoundOK
  <2>1. NoSound.quiet = {} /\ NoSound.early = FALSE /\ NoSound.open = FALSE
    BY DEF NoSound
  <2>2. QED
    BY <2>1 DEF ValuesInit, SoundOK
<1>2. SoundOK /\ [ValuesNext]_<<vars, template, sound>> => SoundOK'
  BY DEF ValuesNext, Slides, SoundOK
<1>3. SoundOK => SilenceMeasured
  <2> DEFINE measured == SilenceDuration(Printed(sound.quiet, sound.early, sound.open))
             all      == BlackDuration(sound.quiet)
  <2>1. SUFFICES ASSUME SoundOK PROVE SilenceMeasured
    OBVIOUS
  <2>2. /\ measured \in Nat /\ all \in Nat /\ Cardinality(sound.quiet) \in Nat
        /\ measured <= all /\ all <= Cardinality(sound.quiet)
        /\ \/ {i \in Intervals(sound.quiet) : sound.open /\ i[2] = Total} = {}
           \/ {i \in Intervals(sound.quiet) : sound.early /\ i[1] = 0} = {}
           => measured = all
    BY <2>1, SilenceOfAll DEF SoundOK
  <2> HIDE DEF measured, all
  <2>3. Fully(measured) => 10 * Cardinality(sound.quiet) > 9 * Total
    BY <2>2, MeasureAssumption DEF Fully
  <2>4. QED
    BY <2>2, <2>3 DEF SilenceMeasured, measured, all
<1>4. QED
  BY <1>1, <1>2, <1>3, PTL DEF ValuesSpec

-----------------------------------------------------------------------------
\* Timelines.

Line(n) == [1..n -> [t : Nat, d : Nat, r : Nat]]

\* Numbers up to a bound have a greatest one.
LEMMA HasMax ==
    ASSUME NEW n \in Nat, NEW T \in SUBSET (1..n), T # {}
    PROVE  Max(T) \in T /\ \A x \in T : Max(T) >= x
<1> DEFINE N == {m \in Nat : \A S \in SUBSET (1..m) : S # {} => \E x \in S : \A y \in S : x >= y}
<1>1. 0 \in N
  <2>1. 1..0 = {}
    OBVIOUS
  <2>2. \A S \in SUBSET (1..0) : S = {}
    BY <2>1
  <2>3. QED
    BY <2>2
<1>2. ASSUME NEW m \in Nat, m \in N PROVE m + 1 \in N
  <2>1. SUFFICES ASSUME NEW S \in SUBSET (1..(m + 1)), S # {}
                 PROVE  \E x \in S : \A y \in S : x >= y
    OBVIOUS
  <2>2. CASE m + 1 \in S
    BY <2>1, <2>2
  <2>3. CASE m + 1 \notin S
    <3>1. S \in SUBSET (1..m)
      BY <2>1, <2>3
    <3>2. QED
      BY <1>2, <2>1, <3>1
  <2>4. QED
    BY <2>2, <2>3
<1>3. n \in N
  <2> HIDE DEF N
  <2>1. QED
    BY <1>1, <1>2, SetInduction
<1>4. \E x \in T : \A y \in T : x >= y
  BY <1>3
<1>5. QED
  BY <1>4 DEF Max

LEMMA MaxOfPrefix ==
    ASSUME NEW m \in Nat \ {0}
    PROVE  1..m # {} /\ Max(1..m) = m /\ (1..m) \ {m} = 1..(m - 1)
<1>1. 1..m # {} /\ m \in 1..m /\ (1..m) \ {m} = 1..(m - 1)
  OBVIOUS
<1>2. Max(1..m) \in 1..m /\ \A x \in 1..m : Max(1..m) >= x
  BY <1>1, HasMax
<1>3. QED
  BY <1>1, <1>2

\* A function of the prefixes of 1..n is defined by what it is on the empty one and
\* how the next number changes it.
IsPrefixFold(g, n, base, step) ==
    \A T \in SUBSET (1..n) :
        g[T] = IF T = {} THEN base ELSE step[<<g[T \ {Max(T)}], Max(T)>>]

LEMMA PrefixFold ==
    ASSUME NEW n \in Nat, NEW R, NEW base \in R, NEW step \in [R \X (1..n) -> R]
    PROVE  \E g \in [SUBSET (1..n) -> R] : IsPrefixFold(g, n, base, step)
<1> DEFINE pick == [T \in SUBSET (1..n) |-> Max(T)]
<1>1. \A T \in SUBSET (1..n) : pick[T] = Max(T)
  OBVIOUS
<1>2. Picks(pick, 1..n)
  BY <1>1, HasMax DEF Picks
<1>3. IsFiniteSet(1..n)
  BY FS_Interval
<1> HIDE DEF pick
<1>4. PICK g \in [SUBSET (1..n) -> R] : IsFold(g, 1..n, base, pick, step)
  BY <1>2, <1>3, FoldExists
<1>5. IsPrefixFold(g, n, base, step)
  BY <1>1, <1>4 DEF IsFold, IsPrefixFold
<1>6. QED
  BY <1>5

\* The equation Begins is declared by has a solution.
LEMMA BeginsOf ==
    ASSUME NEW n \in Nat \ {0}, NEW line \in Line(n)
    PROVE  \A i \in 1..n :
              /\ Begins(line)[i] \in Int
              /\ Begins(line)[i] =
                    IF i = 1 \/ line[i].t # 0 THEN line[i].t
                    ELSE Begins(line)[i-1] + line[i-1].d * (line[i-1].r + 1)
<1> DEFINE After(i) == line[i-1].d * (line[i-1].r + 1)
           Solves(b) == b = [i \in 1..n |-> IF i = 1 \/ line[i].t # 0 THEN line[i].t
                                            ELSE b[i-1] + After(i)]
           step == [p \in Int \X (1..n) |->
                      IF p[2] = 1 \/ line[p[2]].t # 0 THEN line[p[2]].t
                      ELSE p[1] + After(p[2])]
<1>1. \A i \in 1..n : line[i].t \in Int /\ line[i].d \in Int /\ line[i].r \in Int
  BY DEF Line
<1>2. \A i \in 1..n : i # 1 => i - 1 \in 1..n
  OBVIOUS
<1>3. \A i \in 1..n : i # 1 => After(i) \in Int
  BY <1>1, <1>2
<1> HIDE DEF After
<1>4. step \in [Int \X (1..n) -> Int] /\ 0 \in Int
  BY <1>1, <1>3
<1>5. PICK g \in [SUBSET (1..n) -> Int] : IsPrefixFold(g, n, 0, step)
  <2>1. n \in Nat
    OBVIOUS
  <2> HIDE DEF step
  <2>2. QED
    BY <1>4, <2>1, PrefixFold
<1> DEFINE b == [i \in 1..n |-> g[1..i]]
<1>6. \A i \in 0..n : 1..i \in SUBSET (1..n) /\ g[1..i] \in Int
  BY <1>5
<1>7. ASSUME NEW i \in 1..n
      PROVE  g[1..i] = IF i = 1 \/ line[i].t # 0 THEN line[i].t ELSE g[1..(i-1)] + After(i)
  <2>1. 1..i # {} /\ Max(1..i) = i /\ (1..i) \ {i} = 1..(i - 1)
    <3>1. i \in Nat \ {0}
      OBVIOUS
    <3>2. QED
      BY <3>1, MaxOfPrefix
  <2>2. g[1..i] = step[<<g[1..(i - 1)], i>>]
    <3>1. 1..i \in SUBSET (1..n)
      BY <1>6
    <3> HIDE DEF step
    <3>2. QED
      BY <1>5, <2>1, <3>1 DEF IsPrefixFold
  <2>3. <<g[1..(i - 1)], i>> \in Int \X (1..n)
    <3>1. i - 1 \in 0..n
      OBVIOUS
    <3>2. QED
      BY <1>6, <3>1
  <2>4. QED
    BY <2>2, <2>3
<1>8. Solves(b)
  <2>1. \A i \in 1..n : b[i] = IF i = 1 \/ line[i].t # 0 THEN line[i].t
                               ELSE b[i-1] + After(i)
    BY <1>2, <1>7
  <2> HIDE DEF After
  <2>2. b = [i \in 1..n |-> b[i]]
    OBVIOUS
  <2> HIDE DEF b
  <2>3. QED
    BY <2>1, <2>2
<1> DEFINE begin == CHOOSE f : Solves(f)
<1>9. Len(line) = n
  BY DEF Line
<1>10. Begins(line) = begin
  BY <1>9 DEF Begins, After
<1>11. Solves(begin)
  <2> HIDE DEF Solves, b
  <2>1. QED
    BY <1>8
<1> HIDE DEF begin
<1>12. \A i \in 1..n : begin[i] = IF i = 1 \/ line[i].t # 0 THEN line[i].t
                                  ELSE begin[i-1] + After(i)
  BY <1>11
<1> DEFINE N == {m \in Nat : m + 1 \in 1..n => begin[m + 1] \in Int}
<1>13. 0 \in N
  BY <1>1, <1>12
<1>14. ASSUME NEW m \in Nat, m \in N PROVE m + 1 \in N
  <2>1. SUFFICES ASSUME (m + 1) + 1 \in 1..n PROVE begin[(m + 1) + 1] \in Int
    OBVIOUS
  <2>2. m + 1 \in 1..n /\ ((m + 1) + 1) - 1 = m + 1 /\ (m + 1) + 1 # 1
    BY <2>1
  <2>3. begin[m + 1] \in Int
    BY <1>14, <2>2
  <2>4. QED
    BY <1>1, <1>3, <1>12, <2>1, <2>2, <2>3
<1>15. \A i \in 1..n : begin[i] \in Int
  <2> HIDE DEF N
  <2>1. Nat \subseteq N
    BY <1>13, <1>14, SetInduction
  <2> USE DEF N
  <2>2. ASSUME NEW i \in 1..n PROVE begin[i] \in Int
    <3>1. i - 1 \in Nat /\ (i - 1) + 1 = i
      OBVIOUS
    <3>2. QED
      BY <2>1, <3>1
  <2>3. QED
    BY <2>2
<1>16. QED
  BY <1>10, <1>12, <1>15 DEF After

\* The segments that the first m elements of a timeline stand for.
ListedTo(line, m) == UNION {{i} \X (0..line[i].r) : i \in 1..m}

\* An element stands for r + 1 of them.
LEMMA RowOf ==
    ASSUME NEW i, NEW r \in Nat
    PROVE  IsFiniteSet({i} \X (0..r)) /\ Cardinality({i} \X (0..r)) = r + 1
<1>1. IsFiniteSet(0..r) /\ Cardinality(0..r) = r + 1
  <2>1. 0 \in Int /\ r \in Int /\ (IF 0 > r THEN 0 ELSE r - 0 + 1) = r + 1
    OBVIOUS
  <2>2. QED
    BY <2>1, FS_Interval
<1>2. IsFiniteSet({i}) /\ Cardinality({i}) = 1
  BY FS_Singleton
<1>3. /\ IsFiniteSet({i} \X (0..r))
      /\ Cardinality({i} \X (0..r)) = Cardinality({i}) * Cardinality(0..r)
  BY <1>1, <1>2, FS_Product
<1>4. QED
  BY <1>1, <1>2, <1>3

LEMMA RowAdded ==
    ASSUME NEW S, IsFiniteSet(S), NEW i, NEW r \in Nat, \A x \in S : x[1] # i
    PROVE  /\ IsFiniteSet(S \cup ({i} \X (0..r)))
           /\ Cardinality(S \cup ({i} \X (0..r))) = Cardinality(S) + r + 1
<1> DEFINE T == {i} \X (0..r)
<1>1. IsFiniteSet(T) /\ Cardinality(T) = r + 1
  BY RowOf
<1>2. S \cap T = {}
  OBVIOUS
<1> HIDE DEF T
<1>3. /\ IsFiniteSet(S \cup T)
      /\ Cardinality(S \cup T) = Cardinality(S) + Cardinality(T) - Cardinality(S \cap T)
  BY <1>1, FS_Union
<1>4. Cardinality(S \cap T) = 0 /\ Cardinality(S) \in Nat
  BY <1>2, FS_EmptySet, FS_CardinalityType
<1>5. IsFiniteSet(S \cup T) /\ Cardinality(S \cup T) = Cardinality(S) + r + 1
  BY <1>1, <1>3, <1>4
<1>6. QED
  BY <1>5 DEF T

\* What the walk has found after every prefix of the timeline.
LEMMA WalkOf ==
    ASSUME NEW n \in Nat \ {0}, NEW line \in Line(n)
    PROVE  /\ IsFiniteSet(Listed(line))
           /\ WalkTimeline(line).count = Cardinality(Listed(line))
           /\ Cardinality(Listed(line)) \in Nat \ {0}
           /\ WalkTimeline(line).time = Begins(line)[n] + line[n].d * line[n].r
<1> DEFINE R    == [next : Int, time : Int, count : Int]
           base == [next |-> 0, time |-> 0, count |-> 0]
           step == [p \in R \X (1..n) |-> OneElement(p[1], line[p[2]])]
           Walks(f) == f = [T \in SUBSET (1..n) |->
                               IF T = {} THEN base
                               ELSE OneElement(f[T \ {Max(T)}], line[Max(T)])]
           iter == CHOOSE f : Walks(f)
<1>1. /\ n \in Nat /\ DOMAIN line = 1..n
      /\ \A i \in 1..n : line[i].t \in Nat /\ line[i].d \in Nat /\ line[i].r \in Nat
  BY DEF Line
<1>2. WalkTimeline(line) = iter[1..n]
  BY <1>1 DEF WalkTimeline, FoldLeft, MapThenFoldSet
<1>3. ASSUME NEW i \in 1..n, NEW acc \in R
      PROVE  /\ OneElement(acc, line[i]) \in R
             /\ LET begins == IF line[i].t # 0 \/ acc.count = 0 THEN line[i].t ELSE acc.next IN
                OneElement(acc, line[i]) =
                   [ next  |-> begins + line[i].d * line[i].r + line[i].d,
                     time  |-> begins + line[i].d * line[i].r,
                     count |-> acc.count + 1 + line[i].r ]
  <2> DEFINE begins == IF line[i].t # 0 \/ acc.count = 0 THEN line[i].t ELSE acc.next
  <2>1. Repeats(line[i]) = line[i].r
    BY <1>1 DEF Repeats, AtLeast
  <2>2. begins \in Int /\ line[i].d * line[i].r \in Int /\ acc.count \in Int
    BY <1>1, <1>3
  <2>3. OneElement(acc, line[i]) =
           [ next  |-> begins + line[i].d * line[i].r + line[i].d,
             time  |-> begins + line[i].d * line[i].r,
             count |-> acc.count + 1 + line[i].r ]
    BY <2>1 DEF OneElement, LastTime
  <2> HIDE DEF begins
  <2>4. /\ begins + line[i].d * line[i].r + line[i].d \in Int
        /\ begins + line[i].d * line[i].r \in Int /\ acc.count + 1 + line[i].r \in Int
    BY <1>1, <2>2
  <2>5. OneElement(acc, line[i]) \in R
    BY <2>3, <2>4
  <2>6. QED
    BY <2>3, <2>5 DEF begins
<1>4. PICK g \in [SUBSET (1..n) -> R] : IsPrefixFold(g, n, base, step)
  <2>1. base \in R
    OBVIOUS
  <2>2. step \in [R \X (1..n) -> R]
    <3> HIDE DEF R
    <3>1. \A p \in R \X (1..n) : OneElement(p[1], line[p[2]]) \in R
      BY <1>3
    <3>2. QED
      BY <3>1
  <2> HIDE DEF R, base, step
  <2>3. QED
    BY <1>1, <2>1, <2>2, PrefixFold
<1>5. Walks(g)
  <2>1. ASSUME NEW T \in SUBSET (1..n), T # {}
        PROVE  g[T] = OneElement(g[T \ {Max(T)}], line[Max(T)])
    <3>1. Max(T) \in 1..n
      BY <1>1, <2>1, HasMax
    <3>2. T \ {Max(T)} \in SUBSET (1..n)
      OBVIOUS
    <3> HIDE DEF R
    <3>3. <<g[T \ {Max(T)}], Max(T)>> \in R \X (1..n)
      BY <3>1, <3>2
    <3>4. g[T] = step[<<g[T \ {Max(T)}], Max(T)>>]
      <4> HIDE DEF step, base
      <4>1. QED
        BY <1>4, <2>1 DEF IsPrefixFold
    <3>5. QED
      BY <3>3, <3>4
  <2>2. g[{}] = base
    <3>1. {} \in SUBSET (1..n)
      OBVIOUS
    <3> HIDE DEF step, base, R
    <3>2. QED
      BY <1>4, <3>1 DEF IsPrefixFold
  <2>3. \A T \in SUBSET (1..n) :
           g[T] = IF T = {} THEN base ELSE OneElement(g[T \ {Max(T)}], line[Max(T)])
    <3> HIDE DEF R, base
    <3>1. QED
      BY <2>1, <2>2
  <2> HIDE DEF R, base
  <2>4. g = [T \in SUBSET (1..n) |-> g[T]]
    BY <1>4
  <2>5. QED
    BY <2>3, <2>4
<1>6. Walks(iter)
  <2> HIDE DEF Walks
  <2>1. QED
    BY <1>5
<1> HIDE DEF iter
<1>7. iter[{}] = base
  BY <1>6
<1>8. ASSUME NEW m \in 1..n
      PROVE  iter[1..m] = OneElement(iter[1..(m - 1)], line[m])
  <2>1. 1..m # {} /\ Max(1..m) = m /\ (1..m) \ {m} = 1..(m - 1)
    <3>1. m \in Nat \ {0}
      OBVIOUS
    <3>2. QED
      BY <3>1, MaxOfPrefix
  <2>2. 1..m \in SUBSET (1..n)
    BY <1>1
  <2> HIDE DEF base
  <2>3. QED
    BY <1>6, <2>1, <2>2
<1> DEFINE Found(m) ==
      /\ IsFiniteSet(ListedTo(line, m)) /\ Cardinality(ListedTo(line, m)) \in Nat
      /\ iter[1..m] \in R
      /\ iter[1..m].count = Cardinality(ListedTo(line, m))
      /\ m = 0 => iter[1..m].count = 0
      /\ m # 0 => /\ Cardinality(ListedTo(line, m)) # 0
                  /\ iter[1..m].time = Begins(line)[m] + line[m].d * line[m].r
                  /\ iter[1..m].next = Begins(line)[m] + line[m].d * (line[m].r + 1)
   N == {m \in Nat : m <= n => Found(m)}
<1>9. 0 \in N
  <2>1. 1..0 = {} /\ ListedTo(line, 0) = {}
    BY DEF ListedTo
  <2>2. IsFiniteSet(ListedTo(line, 0)) /\ Cardinality(ListedTo(line, 0)) = 0
    BY <2>1, FS_EmptySet
  <2>3. iter[1..0] = base /\ base \in R /\ base.count = 0
    BY <1>7, <2>1
  <2> HIDE DEF R, base
  <2>4. Found(0)
    BY <2>2, <2>3
  <2>5. QED
    BY <2>4
<1>10. ASSUME NEW m \in Nat, m \in N PROVE m + 1 \in N
  <2>1. SUFFICES ASSUME m + 1 <= n PROVE Found(m + 1)
    OBVIOUS
  <2>2. m <= n /\ m + 1 \in 1..n /\ (m + 1) - 1 = m
    BY <1>1, <2>1
  <2>3. Found(m)
    BY <1>10, <2>2
  <2> DEFINE k == m + 1
             old == iter[1..m]
             begins == IF line[k].t # 0 \/ old.count = 0 THEN line[k].t ELSE old.next
  <2>4. /\ iter[1..k] \in R
        /\ iter[1..k] = [ next  |-> begins + line[k].d * line[k].r + line[k].d,
                          time  |-> begins + line[k].d * line[k].r,
                          count |-> old.count + 1 + line[k].r ]
    BY <1>3, <1>8, <2>2, <2>3
  <2>5. /\ IsFiniteSet(ListedTo(line, k))
        /\ Cardinality(ListedTo(line, k)) = Cardinality(ListedTo(line, m)) + line[k].r + 1
    <3>1. ListedTo(line, k) = ListedTo(line, m) \cup ({k} \X (0..line[k].r))
      <4>1. 1..k = (1..m) \cup {k}
        OBVIOUS
      <4>2. QED
        BY <4>1 DEF ListedTo
    <3>2. \A x \in ListedTo(line, m) : x[1] # k
      BY DEF ListedTo
    <3>3. line[k].r \in Nat /\ IsFiniteSet(ListedTo(line, m))
      BY <1>1, <2>2, <2>3
    <3> HIDE DEF k, Found
    <3>4. /\ IsFiniteSet(ListedTo(line, m) \cup ({k} \X (0..line[k].r)))
          /\ Cardinality(ListedTo(line, m) \cup ({k} \X (0..line[k].r))) =
                Cardinality(ListedTo(line, m)) + line[k].r + 1
      BY <3>2, <3>3, RowAdded
    <3>5. QED
      BY <3>1, <3>4
  <2>6. begins = Begins(line)[k] /\ begins \in Int
    <3>1. /\ Begins(line)[k] \in Int
          /\ Begins(line)[k] = IF k = 1 \/ line[k].t # 0 THEN line[k].t
                               ELSE Begins(line)[k-1] + line[k-1].d * (line[k-1].r + 1)
      BY <2>2, BeginsOf
    <3>2. k - 1 = m /\ (k = 1 <=> m = 0)
      OBVIOUS
    <3>3. old.count = 0 <=> m = 0
      BY <2>3
    <3> HIDE DEF k
    <3>4. m # 0 => old.next = Begins(line)[m] + line[m].d * (line[m].r + 1)
      BY <2>3
    <3> HIDE DEF old
    <3>5. QED
      BY <3>1, <3>2, <3>3, <3>4
  <2> HIDE DEF begins
  <2>7. line[k].d * line[k].r + line[k].d = line[k].d * (line[k].r + 1)
        /\ line[k].d * line[k].r \in Int /\ line[k].d \in Int /\ line[k].r \in Nat
    BY <1>1, <2>2
  <2>8. /\ Cardinality(ListedTo(line, m)) \in Nat
        /\ old.count = Cardinality(ListedTo(line, m))
    BY <2>3
  <2>9. k # 0
    OBVIOUS
  <2> HIDE DEF k, old
  <2>10. /\ iter[1..k].count = Cardinality(ListedTo(line, k))
         /\ Cardinality(ListedTo(line, k)) \in Nat \ {0}
    <3>1. iter[1..k].count = old.count + 1 + line[k].r
      BY <2>4
    <3>2. Cardinality(ListedTo(line, k)) = Cardinality(ListedTo(line, m)) + line[k].r + 1
      BY <2>5
    <3> DEFINE c == Cardinality(ListedTo(line, m))
               e == Cardinality(ListedTo(line, k))
               r == line[k].r
    <3>3. r \in Nat /\ c \in Nat /\ old.count = c /\ e = c + r + 1
          /\ iter[1..k].count = old.count + 1 + r
      BY <2>7, <2>8, <3>1, <3>2
    <3> HIDE DEF Found, N, c, e, r
    <3>4. iter[1..k].count = e /\ e \in Nat \ {0}
      BY <3>3
    <3>5. QED
      BY <3>4 DEF e
  <2>11. iter[1..k].time = Begins(line)[k] + line[k].d * line[k].r
    BY <2>4, <2>6
  <2>12. iter[1..k].next = Begins(line)[k] + line[k].d * (line[k].r + 1)
    BY <2>4, <2>6, <2>7
  <2> HIDE DEF R
  <2>13. Found(k)
    BY <2>4, <2>5, <2>9, <2>10, <2>11, <2>12
  <2>14. QED
    BY <2>13 DEF k
<1>11. Found(n)
  <2> HIDE DEF N
  <2>1. Nat \subseteq N
    BY <1>9, <1>10, SetInduction
  <2>2. n \in N /\ n <= n
    BY <1>1, <2>1
  <2> USE DEF N
  <2> HIDE DEF Found
  <2>3. QED
    BY <2>2
<1>12. Listed(line) = ListedTo(line, n)
  BY <1>1 DEF Listed, ListedTo
<1>13. n # 0
  OBVIOUS
<1> HIDE DEF R
<1>14. QED
  BY <1>2, <1>11, <1>12, <1>13

-----------------------------------------------------------------------------
\* Templates.

LEMMA Division ==
    ASSUME NEW a \in Nat, NEW d \in Nat \ {0}
    PROVE  a \div d \in Nat /\ d * (a \div d) <= a /\ a < d * (a \div d) + d
OBVIOUS

LEMMA OneAtLeast ==
    ASSUME NEW a \in Nat \ {0}, NEW b \in Nat \ {0}
    PROVE  a * b \in Nat \ {0}
OBVIOUS

\* A product is no longer known to be one once it has a name.
LEMMA RoundedUp ==
    ASSUME NEW end \in Nat \ {0}, NEW d \in Nat \ {0}
    PROVE  LET q == (end + d - 1) \div d IN
           q \in Nat \ {0} /\ (q - 1) * d < end /\ end <= (q - 1) * d + d
<1> DEFINE q == (end + d - 1) \div d
           p == d * q
<1>1. end + d - 1 \in Nat
  OBVIOUS
<1>2. q \in Nat /\ p <= end + d - 1 /\ end + d - 1 < p + d
  BY <1>1, Division
<1>3. q # 0
  <2>1. q = 0 => p = 0
    BY <1>2
  <2> HIDE DEF q, p
  <2>2. QED
    BY <1>2, <2>1
<1> HIDE DEF q
<1>4. (q - 1) * d = p - d /\ p \in Int
  BY <1>2
<1> HIDE DEF p
<1>5. (q - 1) * d < end /\ end <= (q - 1) * d + d
  BY <1>2, <1>4
<1>6. QED
  BY <1>2, <1>3, <1>5 DEF q

\* Every template the specification gives the worker, or a live stream makes of one.
TimedOK(t) ==
    /\ t = [ declared |-> t.declared, timescale |-> t.timescale, duration |-> t.duration,
             total |-> t.total, timeline |-> t.timeline ]
    /\ t.declared \in (Nat \ {0}) \cup {Absent}
    /\ \E n \in 1..MaxElements : t.timeline \in Line(n)

CountedOK(t) ==
    /\ t.declared \in (Nat \ {0}) \cup {Absent}
    /\ t.timescale \in Nat /\ t.duration \in Nat /\ t.total \in Nat
    /\ t.timeline = <<>>

LEMMA FirstOf ==
    ASSUME NEW t, t.declared \in (Nat \ {0}) \cup {Absent}
    PROVE  StartNumber(Document(t)) = First(t) /\ First(t) \in Nat \ {0}
BY DEF StartNumber, Document, Decoded, First, Absent

LEMMA NumberOf ==
    ASSUME NEW t, t.declared \in (Nat \ {0}) \cup {Absent}, NEW count \in Nat \ {0}
    PROVE  LatestNumber(Document(t), count) = First(t) + count - 1
<1>1. StartNumber(Document(t)) = First(t) /\ First(t) \in Nat \ {0}
  BY FirstOf
<1>2. First(t) + count - 1 >= 1
  BY <1>1
<1>3. QED
  BY <1>1, <1>2 DEF LatestNumber, AtLeast

\* Timelines.
LEMMA LatestTimed ==
    ASSUME NEW t, TimedOK(t)
    PROVE  /\ t.timeline # <<>>
           /\ LET line == t.timeline
                  last == Len(line)
              IN  LatestDASH(Document(t)) =
                     IF \E i \in 1..last : line[i].d = 0 THEN Error
                     ELSE [ number   |-> First(t) + Cardinality(Listed(line)) - 1,
                            time     |-> Begins(line)[last] + line[last].d * line[last].r,
                            duration |-> line[last].d ]
<1>1. PICK n \in 1..MaxElements : t.timeline \in Line(n)
  BY DEF TimedOK
<1> DEFINE line == t.timeline
           doc  == Document(t)
<1>2. /\ n \in Nat \ {0} /\ Len(line) = n /\ DOMAIN line = 1..n /\ line # <<>>
  BY <1>1, ValuesAssumption DEF Line
<1>3. doc.timeline = line
  BY DEF Document
<1>4. /\ WalkTimeline(line).count = Cardinality(Listed(line))
      /\ Cardinality(Listed(line)) \in Nat \ {0}
      /\ WalkTimeline(line).time = Begins(line)[n] + line[n].d * line[n].r
  BY <1>1, <1>2, WalkOf
<1>5. Last(line) = line[n]
  BY <1>2 DEF Last
<1>6. LatestNumber(doc, WalkTimeline(line).count) = First(t) + Cardinality(Listed(line)) - 1
  BY <1>4, NumberOf DEF TimedOK
<1>7. LatestDASH(doc) =
         IF \E i \in 1..n : line[i].d = 0 THEN Error
         ELSE [ number   |-> LatestNumber(doc, WalkTimeline(line).count),
                time     |-> WalkTimeline(line).time,
                duration |-> Last(line).d ]
  <2> HIDE DEF doc, line
  <2>1. QED
    BY <1>2, <1>3 DEF LatestDASH
<1>8. LatestDASH(doc) =
         IF \E i \in 1..n : line[i].d = 0 THEN Error
         ELSE [ number   |-> First(t) + Cardinality(Listed(line)) - 1,
                time     |-> Begins(line)[n] + line[n].d * line[n].r,
                duration |-> line[n].d ]
  <2> HIDE DEF doc, line
  <2>1. QED
    BY <1>4, <1>5, <1>6, <1>7
<1>9. QED
  BY <1>2, <1>8

\* Presentations without one.

LEMMA Quotient ==
    ASSUME NEW a \in Nat \ {0}, NEW d \in Nat \ {0}, NEW m \in Nat, m * d = a
    PROVE  LET q == (a + d - 1) \div d IN q * d = a
<1> DEFINE q == (a + d - 1) \div d
<1>1. q \in Nat \ {0} /\ (q - 1) * d < a /\ a <= (q - 1) * d + d
  BY RoundedUp
<1> HIDE DEF q
<1>2. q = m
  <2>1. (q - 1) * d < m * d /\ m * d <= q * d
    <3>1. (q - 1) * d + d = q * d
      BY <1>1
    <3>2. QED
      BY <1>1, <3>1
  <2>2. m <= q
    <3>1. ASSUME q + 1 <= m PROVE FALSE
      <4>1. PICK e \in Nat : m = q + e + 1
        <5>1. m - q - 1 \in Nat /\ m = q + (m - q - 1) + 1
          BY <1>1, <3>1
        <5>2. QED
          BY <5>1
      <4>2. m * d = q * d + e * d + d /\ e * d \in Nat /\ q * d \in Nat
        BY <1>1, <4>1
      <4>3. QED
        BY <2>1, <4>2
    <3>2. QED
      BY <1>1, <3>1
  <2>3. q <= m
    <3>1. ASSUME m <= q - 1 PROVE FALSE
      <4>1. PICK e \in Nat : q - 1 = m + e
        <5>1. q - 1 - m \in Nat /\ q - 1 = m + (q - 1 - m)
          BY <1>1, <3>1
        <5>2. QED
          BY <5>1
      <4>2. (q - 1) * d = m * d + e * d /\ e * d \in Nat /\ m * d \in Nat
        BY <1>1, <4>1
      <4>3. QED
        BY <2>1, <4>2
    <3>2. QED
      BY <1>1, <3>1
  <2>4. QED
    BY <1>1, <2>2, <2>3
<1>3. QED
  BY <1>2 DEF q

LEMMA LatestCounted ==
    ASSUME NEW t, CountedOK(t)
    PROVE  LET latest == LatestDASH(Document(t))
               scale  == IF t.timescale = 0 THEN 1 ELSE t.timescale
               end    == t.total * scale
           IN  IF t.duration = 0 \/ t.total = 0 THEN latest = Error
               ELSE /\ IF <<t.duration, t.timescale, t.total>> \in RoundedPast
                         THEN latest.time = end
                         ELSE latest.time < end /\ end <= latest.time + latest.duration
                    /\ (latest.number - First(t)) * t.duration = latest.time
<1> DEFINE doc    == Document(t)
           latest == LatestDASH(doc)
           scale  == IF t.timescale = 0 THEN 1 ELSE t.timescale
           end    == t.total * scale
           d      == t.duration
           past   == <<t.duration, t.timescale, t.total>> \in RoundedPast
           q      == (end + d - 1) \div d
           c      == IF past THEN q + 1 ELSE q
<1>1. t.timescale \in Nat /\ d \in Nat /\ t.total \in Nat /\ t.timeline = <<>>
  BY DEF CountedOK
<1>2. /\ doc.timeline = <<>> /\ doc.timescale = t.timescale /\ doc.duration = d
      /\ doc.total = t.total /\ doc.past = past
  BY <1>1 DEF Document
<1>3. CASE d = 0 \/ t.total = 0
  <2>1. latest = Error
    <3> HIDE DEF doc, d
    <3>1. QED
      BY <1>1, <1>2, <1>3 DEF LatestDASH
  <2>2. QED
    BY <1>3, <2>1
<1>4. CASE ~(d = 0 \/ t.total = 0)
  <2>1. scale \in Nat \ {0} /\ Timescale(doc) = scale
    BY <1>1, <1>2 DEF Timescale
  <2>2. end \in Nat \ {0} /\ d \in Nat \ {0}
    <3> HIDE DEF scale
    <3>1. QED
      BY <1>1, <1>4, <2>1, OneAtLeast
  <2>3. past => \E n \in Nat : n * d = end
    <3>1. SUFFICES ASSUME past PROVE \E n \in Nat : n * d = end
      OBVIOUS
    <3>2. PICK x \in RoundedPast : x = <<t.duration, t.timescale, t.total>>
      BY <3>1
    <3>3. x[1] = d /\ x[2] = t.timescale /\ x[3] = t.total
      BY <3>2
    <3>4. x[2] # 0 /\ \E n \in Nat : n * x[1] = x[3] * x[2]
      BY ValuesAssumption
    <3>5. scale = t.timescale
      BY <3>3, <3>4
    <3> HIDE DEF scale, d
    <3>6. QED
      BY <3>3, <3>4, <3>5
  <2> DEFINE scaled == [doc EXCEPT !.timescale = Timescale(doc)]
  <2>4. /\ scaled.total = t.total /\ scaled.timescale = scale /\ scaled.duration = d
        /\ scaled.past = past
    <3>1. scaled = [ startNumber |-> Decoded(t.declared), timescale |-> Timescale(doc),
                     duration |-> t.duration, total |-> t.total, timeline |-> t.timeline,
                     past |-> past ]
      BY DEF Document
    <3> HIDE DEF scaled, scale, past
    <3>2. QED
      BY <2>1, <3>1
  <2> HIDE DEF scaled
  <2>5. Estimate(scaled) = AtLeast(1, q + IF past THEN 1 ELSE 0)
    <3> HIDE DEF scale, d, past
    <3>1. QED
      BY <2>4 DEF Estimate
  <2> HIDE DEF end, d, past
  <2>6. q \in Nat \ {0} /\ (q - 1) * d < end /\ end <= (q - 1) * d + d
    BY <2>2, RoundedUp
  <2>7. past => q * d = end
    <3>1. SUFFICES ASSUME past PROVE q * d = end
      OBVIOUS
    <3>2. PICK n \in Nat : n * d = end
      BY <2>3, <3>1
    <3>3. QED
      BY <2>2, <3>2, Quotient
  <2> HIDE DEF q
  <2>8. Estimate(scaled) = c /\ c \in Nat \ {0}
    BY <2>5, <2>6 DEF AtLeast
  <2>9. LatestNumber(doc, c) = First(t) + c - 1
    BY <2>8, NumberOf DEF CountedOK
  <2>10. latest = [ number |-> First(t) + c - 1, time |-> (c - 1) * d, duration |-> d ]
    <3>1. latest = [ number |-> LatestNumber(doc, Estimate(scaled)),
                     time |-> (Estimate(scaled) - 1) * d, duration |-> d ]
      <4> HIDE DEF doc, c
      <4>1. ~(d <= 0 \/ t.total = 0)
        BY <2>2, <1>4
      <4>2. QED
        BY <1>2, <4>1 DEF LatestDASH, scaled
    <3>2. QED
      BY <2>8, <2>9, <3>1
  <2>11. (latest.number - First(t)) * d = latest.time
    <3> HIDE DEF c
    <3>1. First(t) \in Nat
      BY FirstOf DEF CountedOK
    <3>2. latest.number - First(t) = c - 1
      BY <2>8, <2>10, <3>1
    <3>3. QED
      BY <2>10, <3>2
  <2>12. CASE past
    <3>1. c - 1 = q
      BY <2>6, <2>12
    <3>2. latest.time = end
      BY <2>7, <2>10, <2>12, <3>1
    <3>3. QED
      BY <1>4, <2>11, <2>12, <3>2 DEF end, d, past
  <2>13. CASE ~past
    <3>1. latest.time < end /\ end <= latest.time + latest.duration
      BY <2>6, <2>10, <2>13
    <3>2. QED
      BY <1>4, <2>11, <2>13, <3>1 DEF end, d, past
  <2>14. QED
    BY <2>12, <2>13
<1>5. QED
  BY <1>3, <1>4

TemplateOK == template = NoTemplate \/ TimedOK(template) \/ CountedOK(template)

LEMMA TimedKind ==
    ASSUME NEW t \in Timed PROVE TimedOK(t)
<1>1. /\ t.declared \in Declared /\ t.timeline \in Timelines
  BY DEF Timed
<1>2. t.declared \in (Nat \ {0}) \cup {Absent}
  BY <1>1, ValuesAssumption DEF Declared
<1>3. PICK n \in 1..MaxElements : t.timeline \in [1..n -> Elements]
  BY <1>1 DEF Timelines
<1>4. Elements \subseteq [t : Nat, d : Nat, r : Nat]
  BY ValuesAssumption DEF Elements
<1>5. t.timeline \in Line(n)
  BY <1>3, <1>4 DEF Line
<1>6. QED
  BY <1>2, <1>5 DEF TimedOK, Timed

LEMMA CountedKind ==
    ASSUME NEW t \in Counted PROVE CountedOK(t)
BY ValuesAssumption DEF Counted, CountedOK, Declared

\* What a live stream makes of a timeline is one again.
LEMMA SlidesTyped ==
    ASSUME TemplateOK, NEW d \in Durations \ {0}, NEW r \in Repetitions, Slides(d, r)
    PROVE  LET n   == MaxElements
               old == template.timeline
           IN  /\ n \in Nat \ {0, 1} /\ old \in Line(n) /\ \A i \in 1..n : old[i].d # 0
               /\ template.declared = 1
               /\ template'.declared = old[1].r + 2
               /\ template'.timeline = [i \in 1..n |->
                     IF i = n THEN [t |-> 0, d |-> d, r |-> r]
                     ELSE IF i = 1 THEN [old[2] EXCEPT !.t = Begins(old)[2]]
                     ELSE old[i + 1]]
               /\ template'.timeline \in Line(n)
               /\ TimedOK(template')
<1> DEFINE n   == MaxElements
           old == template.timeline
           new == [i \in 1..n |->
                     IF i = n THEN [t |-> 0, d |-> d, r |-> r]
                     ELSE IF i = 1 THEN [old[2] EXCEPT !.t = Begins(old)[2]]
                     ELSE old[i + 1]]
<1>1. n \in Nat \ {0, 1}
  BY ValuesAssumption
<1>2. /\ template # NoTemplate /\ old # <<>> /\ Len(old) = n /\ template.declared = 1
      /\ \A i \in 1..n : old[i].d # 0
  BY DEF Slides, IsTimed
<1>3. TimedOK(template)
  BY <1>2 DEF TemplateOK, CountedOK
<1>4. old \in Line(n)
  <2>1. PICK m \in 1..MaxElements : old \in Line(m)
    BY <1>3 DEF TimedOK
  <2>2. Len(old) = m
    BY <2>1, <1>1 DEF Line
  <2>3. QED
    BY <1>2, <2>1, <2>2
<1>5. template' = [template EXCEPT !.declared = @ + old[1].r + 1, !.timeline = new]
  BY DEF Slides
<1>6. template' = [ declared |-> template.declared + old[1].r + 1,
                    timescale |-> template.timescale, duration |-> template.duration,
                    total |-> template.total, timeline |-> new ]
  <2>1. template = [ declared |-> template.declared, timescale |-> template.timescale,
                     duration |-> template.duration, total |-> template.total,
                     timeline |-> template.timeline ]
    BY <1>3 DEF TimedOK
  <2> HIDE DEF new, old
  <2>2. QED
    BY <1>5, <2>1
<1>7. /\ \A i \in 1..n : old[i] \in [t : Nat, d : Nat, r : Nat]
      /\ old[1].r \in Nat
  BY <1>1, <1>4 DEF Line
<1>8. Begins(old)[2] \in Nat
  <2>1. /\ Begins(old)[2] = IF 2 = 1 \/ old[2].t # 0 THEN old[2].t
                            ELSE Begins(old)[2-1] + old[2-1].d * (old[2-1].r + 1)
        /\ Begins(old)[1] = IF 1 = 1 \/ old[1].t # 0 THEN old[1].t
                            ELSE Begins(old)[1-1] + old[1-1].d * (old[1-1].r + 1)
    BY <1>1, <1>4, BeginsOf
  <2>2. Begins(old)[1] \in Nat /\ old[2].t \in Nat /\ old[1].d \in Nat /\ old[1].r \in Nat
    BY <1>1, <1>7, <2>1
  <2>3. QED
    BY <2>1, <2>2
<1> HIDE DEF old
<1>9. new \in Line(n)
  <2>1. d \in Nat /\ r \in Nat
    BY ValuesAssumption
  <2>2. \A i \in 1..n : new[i] \in [t : Nat, d : Nat, r : Nat]
    BY <1>1, <1>7, <1>8, <2>1
  <2>3. QED
    BY <2>2 DEF Line
<1> HIDE DEF new
<1>10. template'.timeline = new /\ template'.declared = old[1].r + 2
  BY <1>2, <1>6, <1>7
<1>11. TimedOK(template')
  <2>1. old[1].r + 2 \in Nat \ {0} /\ n \in 1..MaxElements
    BY <1>1, <1>7
  <2>2. QED
    BY <1>6, <1>9, <1>10, <2>1 DEF TimedOK
<1>12. QED
  BY <1>1, <1>2, <1>4, <1>9, <1>10, <1>11 DEF old, new

\* The element that leaves takes its segments with it, the one that joins adds its own,
\* and the others stand for as many as before.
LEMMA SlideCounted ==
    ASSUME TemplateOK, NEW d \in Durations \ {0}, NEW r \in Repetitions, Slides(d, r)
    PROVE  LET old == template.timeline
               new == template'.timeline
           IN  Cardinality(Listed(new)) + old[1].r + 1 = Cardinality(Listed(old)) + r + 1
<1> DEFINE n    == MaxElements
           old  == template.timeline
           new  == template'.timeline
           kept == UNION {{i} \X (0..old[i].r) : i \in 2..n}
           left == UNION {{i} \X (0..new[i].r) : i \in 1..(n - 1)}
           f    == [x \in kept |-> <<x[1] - 1, x[2]>>]
<1>1. /\ n \in Nat \ {0, 1} /\ old \in Line(n) /\ new \in Line(n)
      /\ new = [i \in 1..n |->
                  IF i = n THEN [t |-> 0, d |-> d, r |-> r]
                  ELSE IF i = 1 THEN [old[2] EXCEPT !.t = Begins(old)[2]]
                  ELSE old[i + 1]]
  BY SlidesTyped
<1> HIDE DEF n, old, new
<1>2. /\ DOMAIN old = 1..n /\ DOMAIN new = 1..n
      /\ \A i \in 1..n : old[i] \in [t : Nat, d : Nat, r : Nat]
  BY <1>1 DEF Line
<1>3. r \in Nat /\ old[1].r \in Nat
  BY <1>1, <1>2, ValuesAssumption
<1>4. new[n].r = r /\ \A i \in 1..(n - 1) : new[i].r = old[i + 1].r
  <2>1. new[n].r = r
    BY <1>1
  <2>2. ASSUME NEW i \in 1..(n - 1) PROVE new[i].r = old[i + 1].r
    <3>1. i \in 1..n /\ i # n /\ i + 1 \in 1..n
      BY <1>1
    <3>2. CASE i = 1
      <4>1. new[1] = [old[2] EXCEPT !.t = Begins(old)[2]]
        BY <1>1, <3>1, <3>2
      <4>2. old[2] \in [t : Nat, d : Nat, r : Nat]
        BY <1>1, <1>2
      <4>3. QED
        BY <3>2, <4>1, <4>2
    <3>3. CASE i # 1
      BY <1>1, <3>1, <3>3
    <3>4. QED
      BY <3>2, <3>3
  <2>3. QED
    BY <2>1, <2>2
<1>5. /\ Listed(old) = kept \cup ({1} \X (0..old[1].r))
      /\ \A x \in kept : x[1] # 1
  <2>1. 1..n = (2..n) \cup {1}
    BY <1>1
  <2>2. QED
    BY <1>2, <2>1 DEF Listed
<1>6. /\ Listed(new) = left \cup ({n} \X (0..r))
      /\ \A x \in left : x[1] # n
  <2>1. 1..n = (1..(n - 1)) \cup {n}
    BY <1>1
  <2>2. n \notin 1..(n - 1)
    BY <1>1
  <2>3. QED
    BY <1>2, <1>4, <2>1, <2>2 DEF Listed
<1>7. IsFiniteSet(Listed(old))
  BY <1>1, WalkOf
<1>8. IsFiniteSet(kept)
  BY <1>5, <1>7, FS_Subset
<1>9. f \in Surjection(kept, left)
  <2>1. ASSUME NEW x \in kept PROVE f[x] \in left
    <3>1. PICK i \in 2..n : x \in {i} \X (0..old[i].r)
      OBVIOUS
    <3>2. i - 1 \in 1..(n - 1) /\ (i - 1) + 1 = i
      BY <1>1
    <3>3. f[x] = <<i - 1, x[2]>> /\ x[2] \in 0..old[i].r
      BY <3>1
    <3>4. f[x] \in {i - 1} \X (0..new[i - 1].r)
      BY <1>4, <3>2, <3>3
    <3>5. QED
      BY <3>2, <3>4
  <2>2. ASSUME NEW y \in left PROVE \E x \in kept : f[x] = y
    <3>1. PICK i \in 1..(n - 1) : y \in {i} \X (0..new[i].r)
      OBVIOUS
    <3>2. i + 1 \in 2..n /\ (i + 1) - 1 = i
      BY <1>1
    <3>3. y = <<i, y[2]>> /\ y[2] \in 0..old[i + 1].r
      BY <1>4, <3>1
    <3>4. <<i + 1, y[2]>> \in {i + 1} \X (0..old[i + 1].r)
      BY <3>3
    <3>5. <<i + 1, y[2]>> \in kept
      BY <3>2, <3>4
    <3>6. f[<<i + 1, y[2]>>] = y
      BY <3>2, <3>3, <3>5
    <3>7. QED
      BY <3>5, <3>6
  <2> HIDE DEF kept, left
  <2>3. f \in [kept -> left]
    BY <2>1
  <2> HIDE DEF f
  <2>4. QED
    BY <2>2, <2>3 DEF Surjection
<1>10. \A x, y \in kept : f[x] = f[y] => x = y
  <2>1. ASSUME NEW x \in kept, NEW y \in kept, f[x] = f[y] PROVE x = y
    <3>1. x = <<x[1], x[2]>> /\ x[1] \in Int /\ y = <<y[1], y[2]>> /\ y[1] \in Int
      OBVIOUS
    <3>2. x[1] - 1 = y[1] - 1 /\ x[2] = y[2]
      BY <2>1
    <3> HIDE DEF kept, f
    <3>3. x[1] = y[1]
      BY <3>1, <3>2
    <3>4. QED
      BY <3>1, <3>2, <3>3
  <2>2. QED
    BY <2>1
<1> HIDE DEF kept, left, f
<1>11. IsFiniteSet(left) /\ Cardinality(left) = Cardinality(kept)
  <2>1. f \in Injection(kept, left)
    BY <1>9, <1>10 DEF Surjection, Injection, IsInjective
  <2>2. QED
    BY <1>8, <1>9, <2>1, FS_Surjection
<1>12. Cardinality(Listed(old)) = Cardinality(kept) + old[1].r + 1
  <2>1. Cardinality(kept \cup ({1} \X (0..old[1].r))) = Cardinality(kept) + old[1].r + 1
    BY <1>3, <1>5, <1>8, RowAdded
  <2>2. QED
    BY <1>5, <2>1
<1>13. Cardinality(Listed(new)) = Cardinality(left) + r + 1
  <2>1. Cardinality(left \cup ({n} \X (0..r))) = Cardinality(left) + r + 1
    BY <1>3, <1>6, <1>11, RowAdded
  <2>2. QED
    BY <1>6, <2>1
<1>14. Cardinality(kept) \in Nat
  BY <1>8, FS_CardinalityType
<1>15. Cardinality(Listed(new)) + old[1].r + 1 = Cardinality(Listed(old)) + r + 1
  BY <1>3, <1>11, <1>12, <1>13, <1>14
<1>16. QED
  BY <1>15 DEF old, new

\* From a template of the specification the worker comes to no other kind.
THEOREM TemplateAlwaysOK == ValuesSpec => []TemplateOK
<1>1. ValuesInit => TemplateOK
  BY TimedKind, CountedKind DEF ValuesInit, TemplateOK
<1>2. TemplateOK /\ [ValuesNext]_<<vars, template, sound>> => TemplateOK'
  <2>1. SUFFICES ASSUME TemplateOK, [ValuesNext]_<<vars, template, sound>>
                 PROVE  TemplateOK'
    OBVIOUS
  <2>2. CASE UNCHANGED template
    BY <2>1, <2>2 DEF TemplateOK, TimedOK, CountedOK
  <2>3. ASSUME NEW d \in Durations \ {0}, NEW r \in Repetitions, Slides(d, r)
        PROVE  TemplateOK'
    <3>1. TimedOK(template')
      BY <2>1, <2>3, SlidesTyped
    <3>2. QED
      BY <3>1 DEF TemplateOK, TimedOK
  <2>4. QED
    BY <2>1, <2>2, <2>3 DEF ValuesNext
<1>3. QED
  BY <1>1, <1>2, PTL DEF ValuesSpec

\* Of every template, with a timeline of any length or without one, buildLatestDASHSegment
\* takes the last segment it stands for, and past it only where the division is not exact.
THEOREM LatestAlwaysLast == ValuesSpec => []LatestIsLast
<1>1. TemplateOK => TimelineLast
  <2>1. SUFFICES ASSUME TemplateOK, IsTimed PROVE TimelineLast
    BY DEF TimelineLast
  <2>2. TimedOK(template)
    BY <2>1 DEF TemplateOK, IsTimed, CountedOK
  <2>3. QED
    BY <2>2, LatestTimed DEF TimelineLast
<1>2. TemplateOK => CountedLast
  <2>1. SUFFICES ASSUME TemplateOK, IsCounted PROVE CountedLast
    BY DEF CountedLast
  <2>2. CountedOK(template)
    BY <2>1, LatestTimed DEF TemplateOK, IsCounted
  <2>3. QED
    BY <2>2, LatestCounted DEF CountedLast
<1>3. TemplateOK => LatestIsLast
  BY <1>1, <1>2 DEF LatestIsLast
<1>4. QED
  BY <1>3, TemplateAlwaysOK, PTL

\* However long a stream goes on, a segment that joins its timeline raises the latest
\* number by one, so that the worker, which compares numbers, takes none for another.
THEOREM NumbersAlwaysGoOn == ValuesSpec => NumbersGoOn
<1>1. ASSUME TemplateOK, NEW d \in Durations \ {0}, NEW r \in Repetitions, Slides(d, r)
      PROVE  LatestDASH(Document(template')).number =
                 LatestDASH(Document(template)).number + r + 1
  <2> DEFINE n   == MaxElements
             old == template.timeline
             new == template'.timeline
  <2>1. /\ n \in Nat \ {0, 1} /\ old \in Line(n) /\ new \in Line(n)
        /\ \A i \in 1..n : old[i].d # 0
        /\ template.declared = 1 /\ template'.declared = old[1].r + 2
        /\ TimedOK(template')
        /\ new = [i \in 1..n |->
                    IF i = n THEN [t |-> 0, d |-> d, r |-> r]
                    ELSE IF i = 1 THEN [old[2] EXCEPT !.t = Begins(old)[2]]
                    ELSE old[i + 1]]
    BY <1>1, SlidesTyped
  <2>2. Cardinality(Listed(new)) + old[1].r + 1 = Cardinality(Listed(old)) + r + 1
    BY <1>1, SlideCounted
  <2>3. TimedOK(template)
    BY <1>1 DEF TemplateOK, CountedOK, Slides, IsTimed
  <2>4. /\ Cardinality(Listed(old)) \in Nat /\ Cardinality(Listed(new)) \in Nat
        /\ old[1].r \in Nat /\ r \in Nat
    <3>1. n \in Nat \ {0}
      BY <2>1
    <3> HIDE DEF old, new, n
    <3>2. Cardinality(Listed(old)) \in Nat /\ Cardinality(Listed(new)) \in Nat
      BY <2>1, <3>1, WalkOf
    <3>3. old[1] \in [t : Nat, d : Nat, r : Nat]
      BY <2>1, <3>1 DEF Line
    <3>4. QED
      BY <3>2, <3>3, ValuesAssumption
  <2>5. /\ First(template) = 1 /\ First(template') = old[1].r + 2
    BY <2>1, <2>4 DEF First, Absent
  <2>6. Len(old) = n /\ Len(new) = n
    BY <2>1 DEF Line
  <2>7. LatestDASH(Document(template)).number = First(template) + Cardinality(Listed(old)) - 1
    <3>1. ~ \E i \in 1..Len(old) : old[i].d = 0
      BY <2>1, <2>6
    <3>2. QED
      BY <2>3, <3>1, LatestTimed
  <2>8. LatestDASH(Document(template')).number = First(template') + Cardinality(Listed(new)) - 1
    <3>1. \A i \in 1..n : new[i].d # 0
      <4>1. ASSUME NEW i \in 1..n PROVE new[i].d # 0
        <5>1. CASE i = n
          BY <2>1, <5>1
        <5>2. CASE i # n /\ i = 1
          <6>1. old[2] \in [t : Nat, d : Nat, r : Nat] /\ old[2].d # 0
            <7> HIDE DEF old, new
            <7>1. 2 \in 1..n
              BY <2>1
            <7>2. QED
              BY <2>1, <7>1 DEF Line
          <6>2. new[i] = [old[2] EXCEPT !.t = Begins(old)[2]]
            BY <2>1, <5>2
          <6> HIDE DEF old, new
          <6>3. QED
            BY <6>1, <6>2
        <5>3. CASE i # n /\ i # 1
          <6>1. i + 1 \in 1..n
            BY <2>1, <5>3
          <6>2. new[i] = old[i + 1]
            BY <2>1, <5>3
          <6> HIDE DEF old, new
          <6>3. QED
            BY <2>1, <6>1, <6>2
        <5>4. QED
          BY <5>1, <5>2, <5>3
      <4>2. QED
        BY <4>1
    <3>2. ~ \E i \in 1..Len(new) : new[i].d = 0
      BY <2>6, <3>1
    <3>3. PICK t : t = template'
      OBVIOUS
    <3>4. TimedOK(t) /\ t.timeline = new
      BY <2>1, <3>3
    <3>5. LatestDASH(Document(t)).number = First(t) + Cardinality(Listed(t.timeline)) - 1
      <4>1. ~ \E i \in 1..Len(t.timeline) : t.timeline[i].d = 0
        BY <3>2, <3>4
      <4>2. QED
        BY <3>4, <4>1, LatestTimed
    <3>6. QED
      BY <3>3, <3>5
  <2> HIDE DEF old, new
  <2>9. QED
    BY <2>2, <2>4, <2>5, <2>7, <2>8
<1>2. TemplateOK =>
         [\A d \in Durations \ {0}, r \in Repetitions : Slides(d, r) =>
             LatestDASH(Document(template')).number =
                 LatestDASH(Document(template)).number + r + 1]_template
  BY <1>1
<1>3. QED
  BY <1>2, TemplateAlwaysOK, PTL DEF NumbersGoOn

-----------------------------------------------------------------------------
(***************************************************************************)
(* Polls.                                                                  *)
(***************************************************************************)

WebOK == web \in Webs /\ start \in Urls /\ at \in Urls /\ depth \in Nat

\* One master more, at the end of a path or at its beginning.
LEMMA PathGrows ==
    ASSUME NEW u \in Urls, NEW v \in Urls, NEW w \in Urls, NEW k \in Nat,
           Path(u, v, k), Leads(web, v, w)
    PROVE  Path(u, w, k + 1)
<1>1. PICK path \in [0..k -> Urls] :
          /\ path[0] = u /\ path[k] = v
          /\ \A i \in 0..(k - 1) : Leads(web, path[i], path[i + 1])
  BY DEF Path
<1> DEFINE longer == [i \in 0..(k + 1) |-> IF i = k + 1 THEN w ELSE path[i]]
<1>2. longer \in [0..(k + 1) -> Urls]
  OBVIOUS
<1>3. longer[0] = u /\ longer[k + 1] = w
  BY <1>1
<1>4. ASSUME NEW i \in 0..((k + 1) - 1) PROVE Leads(web, longer[i], longer[i + 1])
  <2>1. CASE i = k
    <3>1. longer[i] = v /\ longer[i + 1] = w
      BY <1>1, <2>1
    <3>2. QED
      BY <3>1
  <2>2. CASE i # k
    <3>1. i \in 0..(k - 1) /\ longer[i] = path[i] /\ longer[i + 1] = path[i + 1]
      BY <2>2
    <3>2. QED
      BY <1>1, <3>1
  <2>3. QED
    BY <2>1, <2>2
<1>5. QED
  BY <1>2, <1>3, <1>4 DEF Path

LEMMA PathShrinks ==
    ASSUME NEW u \in Urls, NEW v \in Urls, NEW w \in Urls, NEW k \in Nat, Open(v),
           Path(u, v, k), Leads(web, u, w)
    PROVE  k > 0 /\ Path(w, v, k - 1)
<1>1. PICK path \in [0..k -> Urls] :
          /\ path[0] = u /\ path[k] = v
          /\ \A i \in 0..(k - 1) : Leads(web, path[i], path[i + 1])
  BY DEF Path
<1>2. k > 0
  BY <1>1 DEF Open, Leads
<1> DEFINE shorter == [i \in 0..(k - 1) |-> path[i + 1]]
<1>3. k - 1 \in Nat /\ shorter \in [0..(k - 1) -> Urls]
  BY <1>2
<1>4. shorter[0] = w
  <2>1. Leads(web, path[0], path[1])
    BY <1>1, <1>2
  <2>2. QED
    BY <1>1, <1>2, <2>1 DEF Leads
<1>5. shorter[k - 1] = v
  BY <1>1, <1>2
<1>6. ASSUME NEW i \in 0..((k - 1) - 1) PROVE Leads(web, shorter[i], shorter[i + 1])
  <2>1. i + 1 \in 0..(k - 1) /\ shorter[i] = path[i + 1] /\ shorter[i + 1] = path[i + 1 + 1]
    BY <1>2
  <2>2. QED
    BY <1>1, <2>1
<1>7. QED
  BY <1>2, <1>3, <1>4, <1>5, <1>6 DEF Path

LEMMA PathEmpty == \A u \in Urls : Path(u, u, 0)
<1>1. SUFFICES ASSUME NEW u \in Urls PROVE Path(u, u, 0)
  OBVIOUS
<1> DEFINE path == [i \in 0..0 |-> u]
<1>2. /\ path \in [0..0 -> Urls] /\ path[0] = u
      /\ \A i \in 0..(0 - 1) : Leads(web, path[i], path[i + 1])
  OBVIOUS
<1>3. QED
  BY <1>2 DEF Path

\* What one document leads to.
LEMMA VariantOK ==
    ASSUME WebOK, HasVariants
    PROVE  Variant \in Urls /\ Leads(web, at, Variant)
BY PollAssumption DEF WebOK, HasVariants, At, Variant, Leads

\* The steps of a poll.
LEMMA BeginOnTheWay ==
    ASSUME WebOK, OnTheWay, Begin PROVE WebOK' /\ OnTheWay'
<1>1. web' = web /\ start' = start /\ at' = start /\ depth' = 0 /\ call' = "isEndList"
  BY DEF Begin
<1>2. Path(start, start, 0)
  BY PathEmpty DEF WebOK
<1>3. Path(start, start, 0)'
  BY <1>1, <1>2 DEF Path
<1>4. QED
  BY <1>1, <1>3, PollAssumption DEF WebOK, OnTheWay

LEMMA FollowForEndOnTheWay ==
    ASSUME WebOK, OnTheWay, FollowForEnd PROVE WebOK' /\ OnTheWay'
<1>1. CASE call' = "none"
  BY <1>1 DEF FollowForEnd, Fail, WebOK, OnTheWay
<1>2. CASE call' # "none"
  <2>1. /\ call = "isEndList" /\ HasVariants /\ depth < MaxIsEndListDepth /\ at' = Variant
        /\ depth' = depth + 1 /\ web' = web /\ call' = call /\ start' = start
    BY <1>2 DEF FollowForEnd, Fail
  <2>2. Variant \in Urls /\ Leads(web, at, Variant)
    BY <2>1, VariantOK
  <2>3. Path(start, Variant, depth + 1)
    BY <2>1, <2>2, PathGrows DEF WebOK, OnTheWay
  <2>4. Path(start, at, depth)'
    BY <2>1, <2>3 DEF Path
  <2>5. QED
    BY <2>1, <2>2, <2>4, PollAssumption DEF WebOK, OnTheWay
<1>3. QED
  BY <1>1, <1>2

LEMMA AskEndOnTheWay ==
    ASSUME WebOK, OnTheWay, AskEnd PROVE WebOK' /\ OnTheWay'
<1>1. CASE call' = "none"
  BY <1>1 DEF AskEnd, WebOK, OnTheWay
<1>2. CASE call' # "none"
  <2>1. /\ call = "isEndList" /\ Open(at) /\ call' = "getLatest" /\ at' = start
        /\ web' = web /\ start' = start /\ depth' = depth
    BY <1>2 DEF AskEnd, At, Open
  <2>2. depth \in 0..MaxIsEndListDepth /\ Path(start, at, depth)
    BY <2>1, PollAssumption DEF WebOK, OnTheWay
  <2>3. PICK v \in Urls, k \in 0..MaxIsEndListDepth : v = at /\ k = depth
    BY <2>2 DEF WebOK
  <2>4. Open(v)' /\ Path(at, v, k)'
    BY <2>1, <2>2, <2>3 DEF Open, Path
  <2>5. QED
    BY <2>1, <2>4 DEF WebOK, OnTheWay
<1>3. QED
  BY <1>1, <1>2

LEMMA FollowForLatestNearer ==
    ASSUME WebOK, FollowForLatest, NEW v \in Urls, NEW k \in 0..MaxIsEndListDepth,
           Open(v), Path(at, v, k)
    PROVE  k > 0 /\ Path(at, v, k - 1)'
<1>1. HasVariants /\ at' = Variant /\ web' = web
  BY DEF FollowForLatest
<1>2. Variant \in Urls /\ Leads(web, at, Variant)
  BY <1>1, VariantOK
<1>3. k > 0 /\ Path(Variant, v, k - 1)
  BY <1>2, PathShrinks, PollAssumption DEF WebOK
<1>4. QED
  BY <1>1, <1>3 DEF Path

LEMMA FollowForLatestOnTheWay ==
    ASSUME WebOK, OnTheWay, FollowForLatest PROVE WebOK' /\ OnTheWay'
<1>1. /\ call = "getLatest" /\ HasVariants /\ at' = Variant /\ web' = web /\ call' = call
      /\ start' = start /\ depth' = depth
  BY DEF FollowForLatest
<1>2. WebOK'
  BY <1>1, VariantOK DEF WebOK
<1>3. PICK v \in Urls, k \in 0..MaxIsEndListDepth : Open(v) /\ Path(at, v, k)
  BY <1>1 DEF OnTheWay
<1>4. k > 0 /\ Path(at, v, k - 1)'
  BY <1>3, FollowForLatestNearer
<1>5. Open(v)' /\ k - 1 \in 0..MaxIsEndListDepth
  BY <1>1, <1>3, <1>4, PollAssumption DEF Open
<1>6. \E n \in 0..MaxIsEndListDepth : Open(v)' /\ Path(at, v, n)'
  <2>1. PICK n \in 0..MaxIsEndListDepth : n = k - 1
    BY <1>5
  <2>2. Path(at, v, n)'
    BY <1>4, <2>1 DEF Path
  <2>3. QED
    BY <1>5, <2>2
<1>7. QED
  BY <1>1, <1>2, <1>6 DEF OnTheWay

LEMMA PollOnTheWay ==
    ASSUME WebOK, OnTheWay, [Next]_vars PROVE WebOK' /\ OnTheWay'
<1>1. CASE FetchFails
  BY <1>1 DEF FetchFails, Fail, WebOK, OnTheWay
<1>2. CASE TakeLatest
  BY <1>2 DEF TakeLatest, WebOK, OnTheWay
<1>3. CASE UNCHANGED vars
  BY <1>3 DEF vars, WebOK, OnTheWay, Open, Path
<1>4. QED
  BY <1>1, <1>2, <1>3, BeginOnTheWay, FollowForEndOnTheWay, AskEndOnTheWay,
     FollowForLatestOnTheWay DEF Next

\* Whatever leads where, GetLatestSegment has at most as many masters before it as
\* IsEndList has followed, and the playlist that one has found open behind them.
THEOREM PollAlwaysOnTheWay == Spec => []OnTheWay
<1>1. Init => WebOK /\ OnTheWay
  BY DEF Init, WebOK, OnTheWay
<1>2. WebOK /\ OnTheWay /\ [Next]_vars => (WebOK /\ OnTheWay)'
  BY PollOnTheWay
<1>3. QED
  BY <1>1, <1>2, PTL DEF Spec

\* Of a poll each request, in both its calls, ends its call or takes it a master further:
\* IsEndList up to its limit, GetLatestSegment, which has none, nearer to the playlist
\* that IsEndList has come to.  Any of them may fail.
THEOREM RequestsAlwaysCount == Spec => EveryRequestCounts
<1> DEFINE End == call = "isEndList" =>
                    \/ call' = "none"
                    \/ call' = "getLatest" /\ Open(at) /\ at' = start
                    \/ /\ call' = "isEndList" /\ depth' = depth + 1
                       /\ depth' <= MaxIsEndListDepth
           Latest == call = "getLatest" =>
                       \/ call' = "none"
                       \/ /\ call' = "getLatest"
                          /\ \E v \in Urls, k \in 0..MaxIsEndListDepth :
                                Open(v) /\ Path(at, v, k)
                          /\ \A v \in Urls, k \in 0..MaxIsEndListDepth :
                                Open(v) /\ Path(at, v, k) => k > 0 /\ Path(at, v, k - 1)'
<1>1. WebOK /\ OnTheWay /\ [Next]_vars => [End /\ Latest]_vars
  <2>1. SUFFICES ASSUME WebOK, OnTheWay, [Next]_vars, ~ UNCHANGED vars
                 PROVE  End /\ Latest
    OBVIOUS
  <2>2. CASE Begin
    BY <2>2 DEF Begin
  <2>3. CASE FetchFails
    BY <2>3 DEF FetchFails, Fail
  <2>4. CASE FollowForEnd
    <3>1. CASE call' = "none"
      BY <2>4, <3>1 DEF FollowForEnd
    <3>2. CASE call' # "none"
      <4>1. /\ call = "isEndList" /\ call' = call /\ depth < MaxIsEndListDepth
            /\ depth' = depth + 1
        BY <2>4, <3>2 DEF FollowForEnd, Fail
      <4>2. depth' <= MaxIsEndListDepth
        BY <2>1, <4>1, PollAssumption DEF WebOK
      <4>3. QED
        BY <4>1, <4>2
    <3>3. QED
      BY <3>1, <3>2
  <2>5. CASE AskEnd
    BY <2>5 DEF AskEnd, At, Open
  <2>6. CASE FollowForLatest
    <3>1. call = "getLatest" /\ call' = "getLatest"
      BY <2>6 DEF FollowForLatest
    <3>2. \E v \in Urls, k \in 0..MaxIsEndListDepth : Open(v) /\ Path(at, v, k)
      BY <2>1, <3>1 DEF OnTheWay
    <3>3. \A v \in Urls, k \in 0..MaxIsEndListDepth :
             Open(v) /\ Path(at, v, k) => k > 0 /\ Path(at, v, k - 1)'
      BY <2>1, <2>6, FollowForLatestNearer
    <3>4. QED
      BY <3>1, <3>2, <3>3
  <2>7. CASE TakeLatest
    BY <2>7 DEF TakeLatest
  <2>8. QED
    BY <2>1, <2>2, <2>3, <2>4, <2>5, <2>6, <2>7 DEF Next
<1>2. Init => WebOK /\ OnTheWay
  BY DEF Init, WebOK, OnTheWay
<1>3. WebOK /\ OnTheWay /\ [Next]_vars => (WebOK /\ OnTheWay)'
  BY PollOnTheWay
<1>4. QED
  BY <1>1, <1>2, <1>3, PTL DEF Spec, EveryRequestCounts
=============================================================================
