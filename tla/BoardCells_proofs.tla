------------------------- MODULE BoardCells_proofs -------------------------
(***************************************************************************)
(* Where the piece of a cell lands, for boards of any size: on the cells   *)
(* that are not gaps, Landing stays on the board and in its column, moves  *)
(* towards the mover, and keeps the order of the column, so that no two    *)
(* pieces land on one cell.  And induction over numbers and finite sets,   *)
(* with a set for what is shown, as the proofs about boards need it.       *)
(***************************************************************************)
EXTENDS BoardCells, FiniteSetTheorems, WellFoundedInduction, TLAPS

\* An interval, possibly empty, has as many members as it looks.
LEMMA IntervalSize ==
  ASSUME NEW lo \in Int, NEW hi \in Int, lo <= hi + 1
  PROVE  IsFiniteSet(lo..hi) /\ Cardinality(lo..hi) = hi - lo + 1
<1>1. IsFiniteSet(lo..hi) /\ Cardinality(lo..hi) = IF lo > hi THEN 0 ELSE hi - lo + 1
  BY FS_Interval
<1> QED
  BY <1>1

\* Rows and columns of positions are integers, and give the position back.
LEMMA PositionParts ==
  ASSUME NEW position \in Positions
  PROVE  /\ Row(position) \in 0..Rows - 1 /\ Column(position) \in 0..Columns - 1
         /\ position = <<Row(position), Column(position)>>
BY DEF Positions, Row, Column

\* The gaps of a column below a position, or above it, are at most the rows there.
LEMMA GapsCounted ==
  ASSUME NEW gaps, NEW position \in Positions
  PROVE  /\ IsFiniteSet(GapsBelow(gaps, position)) /\ IsFiniteSet(GapsAbove(gaps, position))
         /\ Cardinality(GapsBelow(gaps, position)) \in 0..Rows - 1 - Row(position)
         /\ Cardinality(GapsAbove(gaps, position)) \in 0..Row(position)
<1>1. Row(position) \in 0..Rows - 1 /\ Rows \in Nat
  BY PositionParts, RowsAssumption
<1>2. /\ IsFiniteSet(Row(position) + 1..Rows - 1)
      /\ Cardinality(Row(position) + 1..Rows - 1) = Rows - 1 - Row(position)
  <2>1. /\ Row(position) + 1 \in Int /\ Rows - 1 \in Int
        /\ Row(position) + 1 <= (Rows - 1) + 1
        /\ (Rows - 1) - (Row(position) + 1) + 1 = Rows - 1 - Row(position)
    BY <1>1
  <2> QED
    BY <2>1, IntervalSize
<1>3. IsFiniteSet(0..Row(position) - 1) /\ Cardinality(0..Row(position) - 1) = Row(position)
  <2>1. /\ Row(position) - 1 \in Int /\ 0 <= (Row(position) - 1) + 1
        /\ (Row(position) - 1) - 0 + 1 = Row(position)
    BY <1>1
  <2> QED
    BY <2>1, IntervalSize
<1>4. /\ GapsBelow(gaps, position) \in SUBSET (Row(position) + 1..Rows - 1)
      /\ GapsAbove(gaps, position) \in SUBSET (0..Row(position) - 1)
  BY DEF GapsBelow, GapsAbove
<1>5. /\ IsFiniteSet(GapsBelow(gaps, position))
      /\ Cardinality(GapsBelow(gaps, position)) <= Rows - 1 - Row(position)
  <2>1. /\ IsFiniteSet(GapsBelow(gaps, position))
        /\ Cardinality(GapsBelow(gaps, position)) <= Cardinality(Row(position) + 1..Rows - 1)
    BY <1>2, <1>4, FS_Subset
  <2> QED
    BY <1>2, <2>1
<1>6. /\ IsFiniteSet(GapsAbove(gaps, position))
      /\ Cardinality(GapsAbove(gaps, position)) <= Row(position)
  BY <1>3, <1>4, FS_Subset
<1>7. /\ Cardinality(GapsBelow(gaps, position)) \in Nat
      /\ Cardinality(GapsAbove(gaps, position)) \in Nat
  BY <1>5, <1>6, FS_CardinalityType
<1> QED
  BY <1>1, <1>5, <1>6, <1>7

\* A piece lands on the board, in its column, and never away from the mover.
LEMMA LandingInside ==
  ASSUME NEW p \in {0, 1}, NEW gaps, NEW position \in Positions
  PROVE  /\ Landing(p, gaps, position) \in Positions
         /\ Column(Landing(p, gaps, position)) = Column(position)
         /\ p = 0 => Row(Landing(p, gaps, position)) >= Row(position)
         /\ p = 1 => Row(Landing(p, gaps, position)) <= Row(position)
BY PositionParts, GapsCounted, RowsAssumption DEF Landing, Positions, Row, Column

\* Two pieces of a column keep their order: the gaps that only the farther one
\* crosses lie between them.
LEMMA LandingKeepsOrder ==
  ASSUME NEW p \in {0, 1}, NEW gaps,
         NEW a \in Positions \ gaps, NEW b \in Positions \ gaps,
         Column(a) = Column(b), Row(a) < Row(b)
  PROVE  Row(Landing(p, gaps, a)) < Row(Landing(p, gaps, b))
<1> DEFINE between == Row(a) + 1..Row(b) - 1
<1>1. Row(a) \in 0..Rows - 1 /\ Row(b) \in 0..Rows - 1 /\ Rows \in Nat
      /\ a = <<Row(a), Column(a)>> /\ b = <<Row(b), Column(b)>>
  BY PositionParts, RowsAssumption
<1>2. IsFiniteSet(between) /\ Cardinality(between) = Row(b) - Row(a) - 1
  <2>1. /\ Row(a) + 1 \in Int /\ Row(b) - 1 \in Int /\ Row(a) + 1 <= (Row(b) - 1) + 1
        /\ (Row(b) - 1) - (Row(a) + 1) + 1 = Row(b) - Row(a) - 1
    BY <1>1
  <2> QED
    BY <2>1, IntervalSize
<1>3. ASSUME NEW S, NEW T, IsFiniteSet(S), IsFiniteSet(T), S \subseteq T \cup between
      PROVE  Cardinality(S) <= Cardinality(T) + Row(b) - Row(a) - 1
  <2>1. /\ IsFiniteSet(T \cup between)
        /\ Cardinality(T \cup between)
             = Cardinality(T) + Cardinality(between) - Cardinality(T \cap between)
    BY <1>2, <1>3, FS_Union
  <2>2. Cardinality(S) <= Cardinality(T \cup between)
    BY <1>3, <2>1, FS_Subset
  <2>3. IsFiniteSet(T \cap between)
    BY <1>3, FS_Intersection
  <2>4. /\ Cardinality(T \cap between) \in Nat /\ Cardinality(T) \in Nat
        /\ Cardinality(S) \in Nat
    BY <1>3, <2>3, FS_CardinalityType
  <2> QED
    BY <1>1, <1>2, <2>1, <2>2, <2>4
<1>4. CASE p = 0
  <2>1. GapsBelow(gaps, a) \subseteq GapsBelow(gaps, b) \cup between
    BY <1>1 DEF GapsBelow
  <2>2. Cardinality(GapsBelow(gaps, a)) <= Cardinality(GapsBelow(gaps, b)) + Row(b) - Row(a) - 1
    BY <1>3, <2>1, GapsCounted
  <2>3. /\ Row(Landing(p, gaps, a)) = Row(a) + Cardinality(GapsBelow(gaps, a))
        /\ Row(Landing(p, gaps, b)) = Row(b) + Cardinality(GapsBelow(gaps, b))
    BY <1>4 DEF Landing, Row
  <2> QED
    BY <1>1, <2>2, <2>3, GapsCounted
<1>5. CASE p = 1
  <2>1. GapsAbove(gaps, b) \subseteq GapsAbove(gaps, a) \cup between
    BY <1>1 DEF GapsAbove
  <2>2. Cardinality(GapsAbove(gaps, b)) <= Cardinality(GapsAbove(gaps, a)) + Row(b) - Row(a) - 1
    BY <1>3, <2>1, GapsCounted
  <2>3. /\ Row(Landing(p, gaps, a)) = Row(a) - Cardinality(GapsAbove(gaps, a))
        /\ Row(Landing(p, gaps, b)) = Row(b) - Cardinality(GapsAbove(gaps, b))
    BY <1>5 DEF Landing, Row
  <2> QED
    BY <1>1, <2>2, <2>3, GapsCounted
<1> QED
  BY <1>4, <1>5

\* So no two pieces land on one cell.
LEMMA LandingInjective ==
  ASSUME NEW p \in {0, 1}, NEW gaps,
         NEW a \in Positions \ gaps, NEW b \in Positions \ gaps,
         Landing(p, gaps, a) = Landing(p, gaps, b)
  PROVE  a = b
<1>1. Column(a) = Column(b)
  BY LandingInside
<1>2. ~(Row(a) < Row(b)) /\ ~(Row(b) < Row(a))
  BY <1>1, LandingKeepsOrder, LandingInside, PositionParts
<1> QED
  BY <1>1, <1>2, PositionParts

\* Nobody's piece in the own half leaves it when its owner moves.
LEMMA LandsInArea ==
  ASSUME NEW p \in {0, 1}, NEW gaps, NEW q \in Area(p)
  PROVE  Landing(p, gaps, q) \in Area(p)
<1>1. q \in Positions /\ PlayerAreaRows \in Int
  BY RowsAssumption DEF Area, PlayerAreaRows
<1>2. /\ Landing(p, gaps, q) \in Positions
      /\ p = 0 => Row(Landing(p, gaps, q)) >= Row(q)
      /\ p = 1 => Row(Landing(p, gaps, q)) <= Row(q)
  BY <1>1, LandingInside
<1>3. Row(q) \in Int /\ Row(Landing(p, gaps, q)) \in Int
  BY <1>1, <1>2, PositionParts
<1> QED
  BY <1>1, <1>2, <1>3 DEF Area, PlayerIdForPosition

-----------------------------------------------------------------------------
(* Induction over finite sets.                                             *)

\* Induction over the subsets of a finite set, with a set for what is shown.
LEMMA SetInduction ==
  ASSUME NEW S, IsFiniteSet(S), NEW F, {} \in F,
         \A T \in SUBSET S : \A x \in S \ T : T \in F => T \cup {x} \in F
  PROVE  S \in F
<1> DEFINE R == StrictSubsetOrdering(S)
           Bad == (SUBSET S) \ F
<1>1. IsWellFoundedOn(R, SUBSET S)
  BY FS_StrictSubsetOrderingWellFounded, FS_FiniteSubsetsOfFinite
<1>2. Bad \subseteq SUBSET S
  OBVIOUS
<1>3. ASSUME Bad # {} PROVE FALSE
  <2> HIDE DEF R, Bad
  <2>1. PICK T \in Bad : \A U \in Bad : ~(<<U, T>> \in R)
    BY <1>1, <1>2, <1>3, WFMin
  <2>2. T \in SUBSET S /\ T \notin F
    BY <2>1 DEF Bad
  <2>3. PICK x \in T : TRUE
    BY <2>2
  <2> DEFINE U == T \ {x}
  <2>4. U \in SUBSET S /\ x \in S \ U /\ U \cup {x} = T /\ U # T /\ U \subseteq T
    BY <2>2, <2>3
  <2>5. <<U, T>> \in R
    BY <2>2, <2>4 DEF R, StrictSubsetOrdering
  <2>6. U \in F
    BY <2>1, <2>4, <2>5 DEF Bad
  <2> QED
    BY <2>2, <2>4, <2>6
<1> QED
  BY <1>3

\* And so over the numbers: a set with 0 and every successor has them all.
LEMMA CountingInduction ==
  ASSUME NEW A, 0 \in A, \A n \in Nat : n \in A => n + 1 \in A
  PROVE  Nat \subseteq A
<1> SUFFICES ASSUME NEW n \in Nat PROVE n \in A
  OBVIOUS
<1> DEFINE S == 1..n
           F == {T \in SUBSET S : Cardinality(T) \in A}
<1>1. IsFiniteSet(S) /\ Cardinality(S) = n
  BY FS_Interval
<1>2. {} \in F
  BY FS_EmptySet
<1>3. ASSUME NEW T \in SUBSET S, NEW x \in S \ T, T \in F
      PROVE  T \cup {x} \in F
  <2>1. IsFiniteSet(T) /\ Cardinality(T) \in Nat
    BY <1>1, FS_Subset, FS_CardinalityType
  <2>2. Cardinality(T \cup {x}) = Cardinality(T) + 1
    BY <2>1, FS_AddElement
  <2> QED
    BY <1>3, <2>1, <2>2
<1>4. S \in F
  <2> HIDE DEF S, F
  <2> QED
    BY <1>1, <1>2, <1>3, SetInduction
<1> QED
  BY <1>1, <1>4
=============================================================================
