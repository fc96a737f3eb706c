------------------------------ MODULE BoxBoard ------------------------------
(***************************************************************************)
(* The board and its rules: src/game/BoxBoard.cpp, EliminationRule.cpp and *)
(* src/common/PlayerArea.hpp, driven turn by turn as GameSession drives it *)
(* (validate, resolveElimination, then the combat's conversion of dead     *)
(* heroes).  A piece carries its own position, as BoardPiece does: the     *)
(* rules read it, so it can disagree with the cell the piece is in.        *)
(*                                                                         *)
(* Abstracted: what a hero is besides its colour and attribute value; who  *)
(* dies in a combat (any of the defender's heroes); the random colours of  *)
(* new boxes (any).                                                        *)
(***************************************************************************)
EXTENDS BoardCells, FiniteSetsExt

CONSTANTS Colors,    \* PieceColor
          MaxPath,   \* bound: the longest path tried
          MaxTurn    \* bound: turns played

ASSUME BoundsAssumption == MaxPath \in Nat /\ MaxTurn \in Nat

VARIABLES cells,       \* cells_
          nextHeroId,  \* nextHeroId_
          mover,       \* the acting player of the coming turn
          turn         \* its number

vars == <<cells, nextHeroId, mover, turn>>

Box(color, position) ==
  [type |-> "Box", color |-> color, value |-> 0, id |-> 0, position |-> position]

Hero(id, color, value, position) ==
  [type |-> "Hero", color |-> color, value |-> value, id |-> id, position |-> position]

IsHero(piece) == piece.type = "Hero"

-----------------------------------------------------------------------------
(* EliminationRule::validate.                                              *)

\* Mutant: the area is not asked for.
ValidateAnywhere(b, p, path) ==
  /\ p \in {0, 1}
  /\ Len(path) >= 3
  /\ \A i \in 1..Len(path) :
        /\ path[i] \in Positions
        /\ \A j \in 1..i - 1 : path[j] # path[i]
        /\ i > 1 => /\ b[path[i]].color = b[path[i - 1]].color
                    /\ Adjacent(b[path[i - 1]].position, path[i])

\* Each position is inside, new, in the player's area, and of the colour of the
\* one before it and next to where that piece says it is.
Validate(b, p, path) ==
  /\ p \in {0, 1}
  /\ Len(path) >= 3
  /\ \A i \in 1..Len(path) :
        /\ path[i] \in Positions
        /\ \A j \in 1..i - 1 : path[j] # path[i]
        /\ PlayerIdForPosition(path[i]) = p
        /\ i > 1 => /\ b[path[i]].color = b[path[i - 1]].color
                    /\ Adjacent(b[path[i - 1]].position, path[i])

-----------------------------------------------------------------------------
(* BoxBoard::resolveElimination.                                           *)

\* calculateEliminationValue: a box counts one, a hero its attribute value.
EliminationValue(b, path) ==
  MapThenSumSet(LAMBDA position : IF IsHero(b[position]) THEN b[position].value ELSE 1,
                OnPath(path))

LandsOn(p, gaps, position) ==
  {origin \in Positions \ gaps : Landing(p, gaps, origin) = position}

\* The cells no piece lands on get new boxes.
Refilled(p, gaps) == {position \in Positions : LandsOn(p, gaps, position) = {}}

\* Mutant: a piece that moves keeps the position it had.
CollapseAndRefillUntold(b, p, gaps, refill) ==
  [position \in Positions |->
     LET origins == LandsOn(p, gaps, position)
     IN  IF origins = {} THEN Box(refill[position], position)
         ELSE b[CHOOSE origin \in origins : TRUE]]

\* collapseAndRefill: every piece that moves is told its position.
CollapseAndRefill(b, p, gaps, refill) ==
  [position \in Positions |->
     LET origins == LandsOn(p, gaps, position)
     IN  IF origins = {} THEN Box(refill[position], position)
         ELSE [b[CHOOSE origin \in origins : TRUE] EXCEPT !.position = position]]

\* The new hero takes the colour of the last piece; then the columns collapse.
ResolveElimination(b, p, path, id, refill) ==
  LET destination == path[Len(path)]
      hero == Hero(id, b[destination].color, EliminationValue(b, path), destination)
  IN  CollapseAndRefill([b EXCEPT ![destination] = hero], p, Gaps(path), refill)

HeroIds(b, p) == {b[position].id : position \in {q \in Area(p) : IsHero(b[q])}}

\* convertDeadHeroesToBoxes: a dead hero leaves a box of its colour.
ConvertDeadHeroes(b, dead) ==
  [position \in Positions |->
     IF IsHero(b[position]) /\ b[position].id \in dead
     THEN Box(b[position].color, position)
     ELSE b[position]]

-----------------------------------------------------------------------------

\* Every path a client could send: the rule is what refuses the others.
Paths == UNION {[1..n -> Positions] : n \in 3..MaxPath}

Init == /\ \E colors \in [Positions -> Colors] :
              cells = [position \in Positions |-> Box(colors[position], position)]
        /\ nextHeroId = 1
        /\ mover = 0
        /\ turn = 1

\* Mutant: ids are not counted on.
PlayTurnReusesIds(path, refill, dead) ==
  LET resolved == ResolveElimination(cells, mover, path, nextHeroId, refill)
  IN  /\ dead \subseteq (IF turn = 1 THEN {} ELSE HeroIds(resolved, 1 - mover))
      /\ cells' = ConvertDeadHeroes(resolved, dead)
      /\ nextHeroId' = Cardinality({q \in Positions : IsHero(cells'[q])}) + 1
      /\ mover' = 1 - mover
      /\ turn' = turn + 1

\* A turn: an elimination and, after the opening turn, a combat in which some
\* of the defender's heroes may die.
PlayTurn(path, refill, dead) ==
  LET resolved == ResolveElimination(cells, mover, path, nextHeroId, refill)
  IN  /\ dead \subseteq (IF turn = 1 THEN {} ELSE HeroIds(resolved, 1 - mover))
      /\ cells' = ConvertDeadHeroes(resolved, dead)
      /\ nextHeroId' = nextHeroId + 1
      /\ mover' = 1 - mover
      /\ turn' = turn + 1

Next == /\ turn <= MaxTurn
        /\ \E path \in Paths :
             /\ Validate(cells, mover, path)
             /\ \E refill \in [Refilled(mover, Gaps(path)) -> Colors],
                   dead \in SUBSET (1..nextHeroId) :
                  PlayTurn(path, refill, dead)

Spec == Init /\ [][Next]_vars

-----------------------------------------------------------------------------
(* Properties.                                                             *)

\* A piece's own position is the cell it is in, however often its column has
\* collapsed either way: adjacency (EliminationRule.cpp:40) and ownership
\* (livingHeroIdsForPlayer, isValidLivingAttacker) are judged by it.
PositionsInSync == \A position \in Positions : cells[position].position = position

\* Hero ids are handed out once: no two heroes share one, and the next is new,
\* so a combat that looks heroes up by id finds the one it means.
HeroIdsUnique ==
  \A a, b \in Positions :
    IsHero(cells[a]) =>
      /\ cells[a].id < nextHeroId
      /\ IsHero(cells[b]) /\ cells[a].id = cells[b].id => a = b

\* A collapse moves pieces towards the mover, whole columns across the middle:
\* it may bring the defender's heroes over, but never hands one of the mover's
\* to the defender; the hero just made stands in the mover's area, so a combat
\* never starts without an attacker (BoxBoard.cpp:139-141, 226-262); and the
\* mover's own heroes leave the board only along one path the rule allows.
HandsNobodyOver ==
  /\ nextHeroId \in HeroIds(cells', mover)
  /\ HeroIds(cells, mover) \cap HeroIds(cells', 1 - mover) = {}
  /\ \E path \in Paths :
       /\ Validate(cells, mover, path)
       /\ HeroIds(cells, mover) \ HeroIds(cells', mover)
            \subseteq {cells[position].id : position \in OnPath(path)}

\* Every turn is such a step: nobody is handed over (BoxBoard.cpp:226-262).
NoHeroHandedOver == [][HandsNobodyOver]_vars

Place(b, id) == CHOOSE position \in Positions : IsHero(b[position]) /\ b[position].id = id

\* Heroes that outlive a turn keep their column, their colour and value, and
\* their order in the column: a collapse neither loses nor swaps nor copies.
CollapseKeepsHeroes ==
  [][\A a, b \in (HeroIds(cells, 0) \cup HeroIds(cells, 1))
                   \cap (HeroIds(cells', 0) \cup HeroIds(cells', 1)) :
       LET before(id) == Place(cells, id)
           after(id)  == Place(cells', id)
       IN  /\ Column(before(a)) = Column(after(a))
           /\ cells'[after(a)] = [cells[before(a)] EXCEPT !.position = after(a)]
           /\ Column(before(a)) = Column(before(b)) /\ Row(before(a)) < Row(before(b))
                => Row(after(a)) < Row(after(b))]_vars

\* "Every turn one must eliminate once" (design.md:7): the player to move has
\* a path to eliminate.
MoverCanMove ==
  \E middle \in Area(mover) :
    Cardinality({end \in Area(mover) \ {middle} :
                   Adjacent(middle, end) /\ cells[end].color = cells[middle].color}) >= 2
=============================================================================
