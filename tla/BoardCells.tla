----------------------------- MODULE BoardCells -----------------------------
(***************************************************************************)
(* The cells of the board, whose they are, and what a path does to them:   *)
(* src/common/PlayerArea.hpp and the part of EliminationRule.cpp and       *)
(* BoxBoard.cpp that does not look into the pieces.  Shared by the board   *)
(* (BoxBoard) and the combat (Combat).                                     *)
(***************************************************************************)
EXTENDS Integers, Sequences, FiniteSets

CONSTANTS Rows,      \* BoardRows
          Columns    \* BoardColumns

ASSUME RowsAssumption == Rows \in Nat \ {0} /\ Rows % 2 = 0
ASSUME ColumnsAssumption == Columns \in Nat \ {0}

Positions == (0..Rows - 1) \X (0..Columns - 1)
Row(position) == position[1]
Column(position) == position[2]

PlayerAreaRows == Rows \div 2

\* playerIdForPosition of a position on the board.
PlayerIdForPosition(position) == IF Row(position) < PlayerAreaRows THEN 1 ELSE 0

Area(p) == {position \in Positions : PlayerIdForPosition(position) = p}

Near(i, j) == i - j \in -1..1

Adjacent(a, b) == Near(Row(a), Row(b)) /\ Near(Column(a), Column(b))

-----------------------------------------------------------------------------
(* BoxBoard::resolveElimination, cell by cell.                             *)

OnPath(path) == {path[i] : i \in 1..Len(path)}

\* The cells left empty once the new hero stands on the last position.
Gaps(path) == OnPath(path) \ {path[Len(path)]}

\* The rows of a column's gaps below and above a position.
GapsBelow(gaps, position) ==
  {r \in Row(position) + 1..Rows - 1 : <<r, Column(position)>> \in gaps}

GapsAbove(gaps, position) ==
  {r \in 0..Row(position) - 1 : <<r, Column(position)>> \in gaps}

\* Mutant: the column is written back in the reverse order.
LandingReversed(p, gaps, position) ==
  LET above == Row(position) - Cardinality(GapsAbove(gaps, position))
      below == Rows - 1 - Row(position) - Cardinality(GapsBelow(gaps, position))
  IN  IF \A gap \in gaps : Column(gap) # Column(position) THEN position
      ELSE <<IF p = 0 THEN Rows - 1 - above ELSE below, Column(position)>>

\* Mutant: both players' columns collapse down.
LandingDown(p, gaps, position) ==
  <<Row(position) + Cardinality(GapsBelow(gaps, position)), Column(position)>>

\* Where collapseColumnDown (player 0) or collapseColumnUp (player 1) puts the
\* piece of a cell: past the gaps of its column on the acting player's side.
Landing(p, gaps, position) ==
  IF p = 0
  THEN <<Row(position) + Cardinality(GapsBelow(gaps, position)), Column(position)>>
  ELSE <<Row(position) - Cardinality(GapsAbove(gaps, position)), Column(position)>>
=============================================================================
