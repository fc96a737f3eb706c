------------------------- MODULE PlayerView_proofs -------------------------
(***************************************************************************)
(* Theorems about the board and about the player at a screen before it,    *)
(* for boards and windows of any size.                                     *)
(*                                                                         *)
(* BoxBoard's rest on one fact about a collapse: no two pieces land on one *)
(* cell (BoardCells_proofs).  PlayerView's: a player at a screen plays by  *)
(* the board's rules, never confirms a path that the server refuses, and   *)
(* finds no button in the way; and every piece is drawn once, where a      *)
(* click finds it.                                                         *)
(***************************************************************************)
EXTENDS PlayerView, BoardCells_proofs, SequenceTheorems

-----------------------------------------------------------------------------
(* The board.                                                              *)

\* A piece is a box or a hero and has the members of one; its value is whatever
\* it is.
IsPiece(x) == /\ x = [type |-> x.type, color |-> x.color, value |-> x.value,
                      id |-> x.id, position |-> x.position]
              /\ x.type \in {"Box", "Hero"}

\* The ids of a board's heroes are distinct and below next.
IdsBelow(b, next) ==
  \A p, q \in Positions :
    IsHero(b[p]) => /\ b[p].id < next
                    /\ IsHero(b[q]) /\ b[p].id = b[q].id => p = q

BoardInv == /\ \A position \in Positions : IsPiece(cells[position])
            /\ DOMAIN cells = Positions
            /\ \A position \in Positions : IsHero(cells[position]) => cells[position].id \in Nat
            /\ PositionsInSync
            /\ IdsBelow(cells, nextHeroId)
            /\ nextHeroId \in Nat
            /\ mover \in {0, 1}

-----------------------------------------------------------------------------

Moved(piece, position) == [piece EXCEPT !.position = position]

\* A piece that moves is told its position and keeps the rest.
LEMMA MovedPiece ==
  ASSUME NEW piece, IsPiece(piece), NEW position
  PROVE  /\ IsPiece(Moved(piece, position))
         /\ Moved(piece, position).position = position
         /\ Moved(piece, position).id = piece.id
         /\ Moved(piece, position).type = piece.type
         /\ IsHero(Moved(piece, position)) <=> IsHero(piece)
<1>1. Moved(piece, position) = [type |-> piece.type, color |-> piece.color,
                                value |-> piece.value, id |-> piece.id, position |-> position]
  BY DEF Moved, IsPiece
<1> QED
  BY <1>1 DEF IsPiece, IsHero

\* A new box is a piece, is where it says, and is no hero.
LEMMA NewBox ==
  ASSUME NEW color, NEW position
  PROVE  /\ IsPiece(Box(color, position)) /\ ~IsHero(Box(color, position))
         /\ Box(color, position).position = position
BY DEF Box, IsPiece, IsHero

\* What a collapse leaves in a cell: the one piece that lands there, or a new box.
LEMMA CollapseShape ==
  ASSUME NEW b, NEW p \in {0, 1}, NEW gaps, NEW refill
  PROVE  LET c == CollapseAndRefill(b, p, gaps, refill)
         IN  /\ DOMAIN c = Positions
             /\ \A q \in Positions \ gaps :
                   c[Landing(p, gaps, q)] = Moved(b[q], Landing(p, gaps, q))
             /\ \A x \in Positions :
                   \/ c[x] = Box(refill[x], x)
                   \/ \E q \in Positions \ gaps :
                         Landing(p, gaps, q) = x /\ c[x] = Moved(b[q], x)
<1> DEFINE c == CollapseAndRefill(b, p, gaps, refill)
<1>1. ASSUME NEW x \in Positions
      PROVE  \/ LandsOn(p, gaps, x) = {} /\ c[x] = Box(refill[x], x)
             \/ \E q \in LandsOn(p, gaps, x) : c[x] = Moved(b[q], x)
  <2>1. CASE LandsOn(p, gaps, x) = {}
    BY <1>1, <2>1 DEF CollapseAndRefill
  <2>2. CASE LandsOn(p, gaps, x) # {}
    <3> DEFINE q == CHOOSE origin \in LandsOn(p, gaps, x) : TRUE
    <3>1. q \in LandsOn(p, gaps, x)
      BY <2>2
    <3>2. c[x] = Moved(b[q], x)
      BY <1>1, <2>2 DEF CollapseAndRefill, Moved
    <3> QED
      BY <3>1, <3>2
  <2> QED
    BY <2>1, <2>2
<1>2. ASSUME NEW q \in Positions \ gaps
      PROVE  c[Landing(p, gaps, q)] = Moved(b[q], Landing(p, gaps, q))
  <2> DEFINE x == Landing(p, gaps, q)
  <2>1. x \in Positions /\ q \in LandsOn(p, gaps, x)
    BY LandingInside DEF LandsOn
  <2>2. PICK r \in LandsOn(p, gaps, x) : c[x] = Moved(b[r], x)
    BY <1>1, <2>1
  <2>3. r = q
    BY <2>2, LandingInjective DEF LandsOn
  <2> QED
    BY <2>2, <2>3
<1>3. DOMAIN c = Positions
  BY DEF CollapseAndRefill
<1> QED
  BY <1>1, <1>2, <1>3 DEF LandsOn

\* A collapse leaves pieces, each where it says it is, and ids as distinct as before.
LEMMA CollapseKeeps ==
  ASSUME NEW b, NEW p \in {0, 1}, NEW gaps, NEW refill, NEW c, NEW next,
         c = CollapseAndRefill(b, p, gaps, refill),
         \A q \in Positions : IsPiece(b[q]),
         \A q \in Positions : IsHero(b[q]) => b[q].id \in Nat,
         IdsBelow(b, next)
  PROVE  /\ \A x \in Positions : IsPiece(c[x]) /\ c[x].position = x
         /\ \A x \in Positions : IsHero(c[x]) => c[x].id \in Nat
         /\ IdsBelow(c, next)
<1>1. ASSUME NEW x \in Positions
      PROVE  IsPiece(c[x]) /\ c[x].position = x
  BY <1>1, CollapseShape, MovedPiece, NewBox
<1>2. ASSUME NEW x \in Positions, IsHero(c[x])
      PROVE  \E q \in Positions \ gaps : /\ Landing(p, gaps, q) = x
                                        /\ IsHero(b[q]) /\ c[x].id = b[q].id
  BY <1>2, CollapseShape, MovedPiece, NewBox
<1>3. \A x \in Positions : IsHero(c[x]) => c[x].id \in Nat
  BY <1>2
<1>4. ASSUME NEW x \in Positions, IsHero(c[x]), NEW y \in Positions
      PROVE  /\ c[x].id < next
             /\ IsHero(c[y]) /\ c[x].id = c[y].id => x = y
  BY <1>2, <1>4 DEF IdsBelow
<1> QED
  BY <1>1, <1>3, <1>4 DEF IdsBelow

\* Converting the dead changes nothing else.
LEMMA ConvertKeeps ==
  ASSUME NEW b, NEW dead, NEW c, c = ConvertDeadHeroes(b, dead),
         \A x \in Positions : IsPiece(b[x]) /\ b[x].position = x,
         \A x \in Positions : IsHero(b[x]) => b[x].id \in Nat
  PROVE  /\ DOMAIN c = Positions
         /\ \A x \in Positions : IsPiece(c[x]) /\ c[x].position = x
         /\ \A x \in Positions : IsHero(c[x]) => c[x].id \in Nat
         /\ \A x \in Positions : IsHero(c[x]) => c[x] = b[x]
         /\ \A x \in Positions : IsHero(b[x]) /\ b[x].id \notin dead => c[x] = b[x]
         /\ \A next : IdsBelow(b, next) => IdsBelow(c, next)
<1>1. DOMAIN c = Positions
      /\ \A x \in Positions : \/ c[x] = b[x]
                              \/ IsHero(b[x]) /\ b[x].id \in dead /\ c[x] = Box(b[x].color, x)
  BY DEF ConvertDeadHeroes
<1>2. \A x \in Positions : IsHero(c[x]) => c[x] = b[x]
  BY <1>1, NewBox
<1>3. \A x \in Positions : IsHero(b[x]) /\ b[x].id \notin dead => c[x] = b[x]
  BY <1>1
<1>4. \A x \in Positions : IsPiece(c[x]) /\ c[x].position = x
  BY <1>1, NewBox
<1> QED
  BY <1>1, <1>2, <1>3, <1>4 DEF IdsBelow

-----------------------------------------------------------------------------

\* The cells a path names, and the gaps it leaves, are in the mover's area;
\* its last cell is one of them and no gap.
LEMMA PathCells ==
  ASSUME NEW chosen \in Paths, NEW b, NEW p, Validate(b, p, chosen)
  PROVE  /\ p \in {0, 1}
         /\ chosen[Len(chosen)] \in Area(p) /\ chosen[Len(chosen)] \in OnPath(chosen)
         /\ OnPath(chosen) \subseteq Area(p)
         /\ Gaps(chosen) = OnPath(chosen) \ {chosen[Len(chosen)]}
<1>1. chosen \in Seq(Positions) /\ Len(chosen) >= 3 /\ p \in {0, 1}
      /\ \A i \in 1..Len(chosen) : chosen[i] \in Positions /\ PlayerIdForPosition(chosen[i]) = p
  <2>1. PICK n \in 3..MaxPath : chosen \in [1..n -> Positions]
    BY DEF Paths
  <2>2. chosen \in Seq(Positions)
    BY <2>1, BoundsAssumption
  <2> QED
    BY <2>2 DEF Validate
<1> QED
  BY <1>1 DEF OnPath, Area, Gaps

\* A hero of a later board is one of the earlier board, moved to where it lands.
CameFrom(x, chosen) ==
  \E q \in Positions \ Gaps(chosen) : /\ Landing(mover, Gaps(chosen), q) = x
                                   /\ IsHero(cells[q])
                                   /\ cells'[x] = Moved(cells[q], x)

\* A turn keeps the invariant; the new hero and every hero of the mover's that is
\* not on the path are the mover's afterwards, and none is the opponent's; and
\* every hero but the new one came from where it landed.
LEMMA TurnKeeps ==
  ASSUME BoardInv, NEW chosen \in Paths, Validate(cells, mover, chosen),
         NEW refill, NEW dead, PlayTurn(chosen, refill, dead)
  PROVE  /\ BoardInv'
         /\ nextHeroId \in HeroIds(cells', mover)
         /\ HeroIds(cells, mover) \cap HeroIds(cells', 1 - mover) = {}
         /\ HeroIds(cells, mover) \ HeroIds(cells', mover)
              \subseteq {cells[position].id : position \in OnPath(chosen)}
         /\ \A x \in Positions : IsHero(cells'[x]) /\ cells'[x].id # nextHeroId => CameFrom(x, chosen)
         /\ LET x == Landing(mover, Gaps(chosen), chosen[Len(chosen)])
            IN  IsHero(cells'[x]) /\ cells'[x].id = nextHeroId
<1> DEFINE destination == chosen[Len(chosen)]
           hero == Hero(nextHeroId, cells[destination].color,
                        EliminationValue(cells, chosen), destination)
           placed == [cells EXCEPT ![destination] = hero]
           gaps == Gaps(chosen)
           resolved == CollapseAndRefill(placed, mover, gaps, refill)
<1>1. /\ mover \in {0, 1} /\ destination \in Area(mover) /\ destination \in Positions
      /\ destination \in OnPath(chosen) /\ OnPath(chosen) \subseteq Area(mover)
      /\ gaps = OnPath(chosen) \ {destination}
  BY PathCells DEF Area
<1>2. /\ cells' = ConvertDeadHeroes(resolved, dead)
      /\ dead \subseteq HeroIds(resolved, 1 - mover)
      /\ nextHeroId' = nextHeroId + 1 /\ mover' = 1 - mover
  BY DEF PlayTurn, ResolveElimination
<1>3. /\ IsPiece(hero) /\ IsHero(hero) /\ hero.id = nextHeroId
  BY DEF Hero, IsPiece, IsHero
<1>4. /\ placed[destination] = hero
      /\ \A q \in Positions : q # destination => placed[q] = cells[q]
  BY <1>1 DEF BoardInv
<1>5. /\ \A q \in Positions : IsPiece(placed[q])
      /\ \A q \in Positions : IsHero(placed[q]) => placed[q].id \in Nat
      /\ nextHeroId \in Nat
  BY <1>3, <1>4 DEF BoardInv
<1>6. IdsBelow(placed, nextHeroId + 1)
  <2>1. ASSUME NEW p \in Positions, IsHero(placed[p])
        PROVE  \/ p = destination /\ placed[p].id = nextHeroId
               \/ p # destination /\ placed[p] = cells[p] /\ placed[p].id < nextHeroId
    BY <1>3, <1>4, <2>1 DEF BoardInv, IdsBelow
  <2> QED
    BY <1>4, <1>5, <2>1 DEF BoardInv, IdsBelow
<1> HIDE DEF hero, placed, gaps, destination
<1>7. /\ \A x \in Positions : IsPiece(resolved[x]) /\ resolved[x].position = x
      /\ \A x \in Positions : IsHero(resolved[x]) => resolved[x].id \in Nat
      /\ IdsBelow(resolved, nextHeroId + 1)
  BY <1>1, <1>5, <1>6, CollapseKeeps
<1>8. /\ \A q \in Positions \ gaps :
            resolved[Landing(mover, gaps, q)] = Moved(placed[q], Landing(mover, gaps, q))
      /\ \A x \in Positions :
            \/ resolved[x] = Box(refill[x], x)
            \/ \E q \in Positions \ gaps : /\ Landing(mover, gaps, q) = x
                                          /\ resolved[x] = Moved(placed[q], x)
  <2>1. mover \in {0, 1}
    BY <1>1
  <2>2. ASSUME NEW q \in Positions \ gaps
        PROVE  resolved[Landing(mover, gaps, q)] = Moved(placed[q], Landing(mover, gaps, q))
    BY <2>1, <2>2, CollapseShape
  <2>3. ASSUME NEW x \in Positions
        PROVE  \/ resolved[x] = Box(refill[x], x)
               \/ \E q \in Positions \ gaps : /\ Landing(mover, gaps, q) = x
                                             /\ resolved[x] = Moved(placed[q], x)
    BY <2>1, <2>3, CollapseShape
  <2> QED
    BY <2>2, <2>3
<1> HIDE DEF resolved
<1>9. /\ DOMAIN cells' = Positions
      /\ \A x \in Positions : IsPiece(cells'[x]) /\ cells'[x].position = x
      /\ \A x \in Positions : IsHero(cells'[x]) => cells'[x].id \in Nat
      /\ IdsBelow(cells', nextHeroId + 1)
      /\ \A x \in Positions : IsHero(cells'[x]) => cells'[x] = resolved[x]
      /\ \A x \in Positions : IsHero(resolved[x]) /\ resolved[x].id \notin dead
                                => cells'[x] = resolved[x]
  BY <1>2, <1>7, ConvertKeeps
<1>10. BoardInv'
  BY <1>1, <1>2, <1>5, <1>9 DEF BoardInv, PositionsInSync
<1>11. ASSUME NEW x \in Area(mover), IsHero(resolved[x])
       PROVE  resolved[x].id \in HeroIds(cells', mover)
  <2>1. x \in Positions /\ x \notin Area(1 - mover)
    BY <1>1, <1>11 DEF Area
  <2>2. resolved[x].id \notin HeroIds(resolved, 1 - mover)
    BY <1>7, <1>11, <2>1 DEF HeroIds, IdsBelow, Area
  <2>3. cells'[x] = resolved[x]
    BY <1>2, <1>9, <1>11, <2>1, <2>2
  <2> QED
    BY <1>11, <2>3 DEF HeroIds
<1>12. ASSUME NEW q \in Area(mover), q \notin gaps, IsHero(placed[q])
       PROVE  placed[q].id \in HeroIds(cells', mover)
  <2>1. q \in Positions \ gaps /\ Landing(mover, gaps, q) \in Area(mover)
    BY <1>1, <1>12, LandsInArea DEF Area
  <2>2. /\ IsHero(resolved[Landing(mover, gaps, q)])
        /\ resolved[Landing(mover, gaps, q)].id = placed[q].id
    BY <1>5, <1>8, <1>12, <2>1, MovedPiece
  <2> QED
    BY <1>11, <2>1, <2>2
<1>13. nextHeroId \in HeroIds(cells', mover)
  BY <1>1, <1>3, <1>4, <1>12
<1>14. ASSUME NEW q \in Area(mover), IsHero(cells[q])
       PROVE  /\ cells[q].id \notin HeroIds(cells', 1 - mover)
              /\ q \in OnPath(chosen) \/ cells[q].id \in HeroIds(cells', mover)
  <2>1. q \in Positions
    BY <1>14 DEF Area
  <2>2. q \notin OnPath(chosen) => cells[q].id \in HeroIds(cells', mover)
    BY <1>1, <1>4, <1>12, <1>14, <2>1
  <2>3. ASSUME NEW x \in Area(1 - mover), IsHero(cells'[x]), cells'[x].id = cells[q].id
        PROVE  FALSE
    <3>1. x \in Positions /\ cells'[x] = resolved[x] /\ IsHero(resolved[x])
      BY <1>9, <2>3 DEF Area
    <3>2. PICK r \in Positions \ gaps : /\ Landing(mover, gaps, r) = x
                                     /\ resolved[x] = Moved(placed[r], x)
      BY <1>8, <3>1, NewBox
    <3>3. IsHero(placed[r]) /\ placed[r].id = cells[q].id
      BY <1>5, <2>3, <3>1, <3>2, MovedPiece
    <3>4. cells[q].id < nextHeroId /\ cells[q].id \in Nat
      BY <1>14, <2>1 DEF BoardInv, IdsBelow
    <3>5. r # destination
      BY <1>3, <1>4, <1>5, <3>3, <3>4
    <3>6. r = q
      BY <1>4, <1>14, <2>1, <3>3, <3>5 DEF BoardInv, IdsBelow
    <3>7. Landing(mover, gaps, r) \in Area(mover)
      BY <1>1, <1>14, <3>6, LandsInArea
    <3> QED
      BY <1>1, <2>3, <3>2, <3>7 DEF Area
  <2> QED
    BY <2>2, <2>3 DEF HeroIds
<1>15. ASSUME NEW x \in Positions, IsHero(cells'[x]), cells'[x].id # nextHeroId
       PROVE  CameFrom(x, chosen)
  <2>1. cells'[x] = resolved[x] /\ IsHero(resolved[x])
    BY <1>9, <1>15
  <2>2. PICK q \in Positions \ gaps : /\ Landing(mover, gaps, q) = x
                                   /\ resolved[x] = Moved(placed[q], x)
    BY <1>8, <2>1, NewBox
  <2>3. IsHero(placed[q]) /\ placed[q].id # nextHeroId
    BY <1>5, <1>15, <2>1, <2>2, MovedPiece
  <2>4. placed[q] = cells[q]
    BY <1>3, <1>4, <2>3
  <2> QED
    BY <2>1, <2>2, <2>3, <2>4 DEF CameFrom, gaps
<1>16. /\ IsHero(cells'[Landing(mover, gaps, destination)])
       /\ cells'[Landing(mover, gaps, destination)].id = nextHeroId
  <2> DEFINE x == Landing(mover, gaps, destination)
  <2>1. destination \in Positions \ gaps /\ x \in Area(mover)
    BY <1>1, LandsInArea
  <2>2. IsHero(resolved[x]) /\ resolved[x].id = nextHeroId
    BY <1>3, <1>4, <1>5, <1>8, <2>1, MovedPiece
  <2>3. resolved[x].id \notin HeroIds(resolved, 1 - mover)
    <3>1. x \in Positions /\ x \notin Area(1 - mover)
      BY <1>1, <2>1 DEF Area
    <3> QED
      BY <1>7, <2>2, <3>1 DEF HeroIds, IdsBelow, Area
  <2>4. cells'[x] = resolved[x]
    BY <1>2, <1>9, <2>1, <2>2, <2>3 DEF Area
  <2> QED
    BY <2>2, <2>4
<1> QED
  BY <1>10, <1>13, <1>14, <1>15, <1>16 DEF HeroIds, gaps, destination

\* A step of the specification is such a turn.
LEMMA BoardStep ==
  ASSUME BoardInv, [Next]_vars
  PROVE  BoardInv'
<1>1. CASE UNCHANGED vars
  BY <1>1 DEF BoardInv, PositionsInSync, vars
<1>2. CASE Next
  <2>1. PICK chosen \in Paths :
          /\ Validate(cells, mover, chosen)
          /\ \E refill \in [Refilled(mover, Gaps(chosen)) -> Colors],
                dead \in SUBSET (1..nextHeroId) : PlayTurn(chosen, refill, dead)
    BY <1>2 DEF Next
  <2> QED
    BY <2>1, TurnKeeps
<1> QED
  BY <1>1, <1>2

\* The inductive invariant of the board holds in every reachable state.
THEOREM BoardSafety == Spec => []BoardInv
<1>1. Init => BoardInv
  BY NewBox DEF Init, BoardInv, PositionsInSync, IdsBelow
<1> QED
  BY <1>1, BoardStep, PTL DEF Spec

\* On a board of any size, after any turns, a piece's own position is the cell
\* it is in: what the rule and the combat read is never stale.
THEOREM PositionsTrue == Spec => []PositionsInSync
<1>1. BoardInv => PositionsInSync
  BY DEF BoardInv
<1> QED
  BY <1>1, BoardSafety, PTL

\* No two heroes on the board share an id, and the next id is a new one.
THEOREM IdsDistinct == Spec => []HeroIdsUnique
<1>1. BoardInv => HeroIdsUnique
  BY DEF BoardInv, IdsBelow, HeroIdsUnique
<1> QED
  BY <1>1, BoardSafety, PTL

\* Whatever path is eliminated and whoever dies, the new hero is the mover's,
\* none of the mover's heroes becomes the opponent's, and those that are gone
\* were on the path.
THEOREM HeroesStayWithMover == Spec => NoHeroHandedOver
<1>1. ASSUME BoardInv, Next
      PROVE  HandsNobodyOver
  <2>1. PICK chosen \in Paths :
          /\ Validate(cells, mover, chosen)
          /\ \E refill \in [Refilled(mover, Gaps(chosen)) -> Colors],
                dead \in SUBSET (1..nextHeroId) : PlayTurn(chosen, refill, dead)
    BY <1>1 DEF Next
  <2> QED
    BY <1>1, <2>1, TurnKeeps DEF HandsNobodyOver
<1>2. BoardInv /\ [Next]_vars => [HandsNobodyOver]_vars
  BY <1>1
<1> QED
  BY <1>2, BoardSafety, PTL DEF Spec, NoHeroHandedOver

\* A hero with this id stands where Place says.
LEMMA PlaceOf ==
  ASSUME NEW b, NEW next, IdsBelow(b, next), NEW q \in Positions, IsHero(b[q])
  PROVE  Place(b, b[q].id) = q
BY DEF Place, IdsBelow

\* A hero that outlives a turn lands, as it is, from where it stood.
LEMMA SurvivorLands ==
  ASSUME BoardInv, NEW chosen \in Paths, Validate(cells, mover, chosen),
         NEW refill, NEW dead, PlayTurn(chosen, refill, dead),
         NEW id \in (HeroIds(cells, 0) \cup HeroIds(cells, 1))
                      \cap (HeroIds(cells', 0) \cup HeroIds(cells', 1))
  PROVE  LET before == Place(cells, id)
             after == Place(cells', id)
         IN  /\ before \in Positions \ Gaps(chosen)
             /\ after = Landing(mover, Gaps(chosen), before)
             /\ cells'[after] = Moved(cells[before], after)
<1>1. /\ BoardInv' /\ mover \in {0, 1}
      /\ \A x \in Positions : IsHero(cells'[x]) /\ cells'[x].id # nextHeroId => CameFrom(x, chosen)
  BY TurnKeeps DEF BoardInv
<1>2. PICK p \in Positions : IsHero(cells[p]) /\ cells[p].id = id
  BY DEF HeroIds, Area
<1>3. PICK x \in Positions : IsHero(cells'[x]) /\ cells'[x].id = id
  BY DEF HeroIds, Area
<1>4. id # nextHeroId
  BY <1>2 DEF BoardInv, IdsBelow
<1>5. PICK q \in Positions \ Gaps(chosen) : /\ Landing(mover, Gaps(chosen), q) = x
                                        /\ IsHero(cells[q])
                                        /\ cells'[x] = Moved(cells[q], x)
  BY <1>1, <1>3, <1>4 DEF CameFrom
<1>6. cells[q].id = id
  BY <1>3, <1>5, MovedPiece DEF BoardInv
<1>7. Place(cells, id) = q
  BY <1>5, <1>6, PlaceOf DEF BoardInv
<1>8. Place(cells', id) = x
  BY <1>1, <1>3, PlaceOf DEF BoardInv
<1> QED
  BY <1>5, <1>7, <1>8

\* The heroes that outlive a turn keep their column, what they are, and their
\* order in the column, whichever way it collapses.
THEOREM CollapsesKeepHeroes == Spec => CollapseKeepsHeroes
<1> DEFINE Survivors == (HeroIds(cells, 0) \cup HeroIds(cells, 1))
                          \cap (HeroIds(cells', 0) \cup HeroIds(cells', 1))
           before(id) == Place(cells, id)
           after(id) == Place(cells', id)
           Kept(a, b) ==
             /\ Column(before(a)) = Column(after(a))
             /\ cells'[after(a)] = [cells[before(a)] EXCEPT !.position = after(a)]
             /\ Column(before(a)) = Column(before(b)) /\ Row(before(a)) < Row(before(b))
                  => Row(after(a)) < Row(after(b))
<1>1. ASSUME BoardInv, Next
      PROVE  \A a, b \in Survivors : Kept(a, b)
  <2>1. PICK chosen \in Paths :
          /\ Validate(cells, mover, chosen)
          /\ \E refill \in [Refilled(mover, Gaps(chosen)) -> Colors],
                dead \in SUBSET (1..nextHeroId) : PlayTurn(chosen, refill, dead)
    BY <1>1 DEF Next
  <2>2. mover \in {0, 1}
    BY <1>1 DEF BoardInv
  <2>3. ASSUME NEW id \in Survivors
        PROVE  /\ before(id) \in Positions \ Gaps(chosen)
               /\ after(id) = Landing(mover, Gaps(chosen), before(id))
               /\ cells'[after(id)] = Moved(cells[before(id)], after(id))
    BY <1>1, <2>1, <2>3, SurvivorLands
  <2> HIDE DEF before, after, Survivors
  <2>4. ASSUME NEW a \in Survivors, NEW b \in Survivors
        PROVE  Kept(a, b)
    <3>1. Column(before(a)) = Column(after(a))
      BY <2>2, <2>3, LandingInside
    <3>2. cells'[after(a)] = [cells[before(a)] EXCEPT !.position = after(a)]
      BY <2>3 DEF Moved
    <3>3. Column(before(a)) = Column(before(b)) /\ Row(before(a)) < Row(before(b))
            => Row(after(a)) < Row(after(b))
      BY <2>2, <2>3, LandingKeepsOrder
    <3> QED
      BY <3>1, <3>2, <3>3
  <2> QED
    BY <2>4
<1>2. BoardInv /\ [Next]_vars => [\A a, b \in Survivors : Kept(a, b)]_vars
  BY <1>1
<1> QED
  BY <1>2, BoardSafety, PTL DEF Spec, CollapseKeepsHeroes

-----------------------------------------------------------------------------
(* The player at the screen.                                               *)

\* A path as trySelect builds it, on the cells as they are.
PathInv ==
  /\ viewer \in {0, 1}
  /\ path \in Seq(OwnDisplayArea)
  /\ Len(path) <= MaxPath
  /\ \A i, j \in 1..Len(path) : path[i] = path[j] => i = j
  /\ \A i \in 2..Len(path) :
        /\ Adjacent(path[i - 1], path[i])
        /\ PieceAtDisplay(path[i - 1]).color = PieceAtDisplay(path[i]).color

-----------------------------------------------------------------------------

\* A cell of the lower half of the screen is a cell of its player's area.
LEMMA OwnCell ==
  ASSUME NEW p \in {0, 1}, NEW display \in OwnDisplayArea
  PROVE  /\ display = <<Row(display), Column(display)>>
         /\ Row(display) \in Int /\ Column(display) \in Int
         /\ DisplayToLogical(p, display) \in Positions
         /\ PlayerIdForPosition(DisplayToLogical(p, display)) = p
<1>1. /\ Row(display) \in PlayerAreaRows..Rows - 1 /\ Column(display) \in 0..Columns - 1
      /\ display = <<Row(display), Column(display)>>
  BY DEF OwnDisplayArea, Row, Column
<1>2. Rows \in Nat /\ Columns \in Nat /\ PlayerAreaRows \in Nat /\ Rows = 2 * PlayerAreaRows
  BY RowsAssumption, ColumnsAssumption DEF PlayerAreaRows
<1>3. CASE p = 1
  <2>1. DisplayToLogical(p, display) = <<Rows - 1 - Row(display), Columns - 1 - Column(display)>>
    BY <1>3 DEF DisplayToLogical, LogicalToDisplay
  <2>2. /\ Rows - 1 - Row(display) \in 0..Rows - 1 /\ Rows - 1 - Row(display) < PlayerAreaRows
        /\ Columns - 1 - Column(display) \in 0..Columns - 1
    BY <1>1, <1>2
  <2> QED
    BY <1>1, <1>3, <2>1, <2>2 DEF Positions, PlayerIdForPosition, Row
<1>4. CASE p = 0
  <2>1. DisplayToLogical(p, display) = display
    BY <1>4 DEF DisplayToLogical, LogicalToDisplay
  <2>2. Row(display) \in 0..Rows - 1 /\ ~(Row(display) < PlayerAreaRows)
    BY <1>1, <1>2
  <2> QED
    BY <1>1, <1>4, <2>1, <2>2 DEF Positions, PlayerIdForPosition
<1> QED
  BY <1>3, <1>4

\* Turning the board around keeps neighbours neighbours and cells apart.
LEMMA TurnedAround ==
  ASSUME NEW p \in {0, 1}, NEW a \in OwnDisplayArea, NEW b \in OwnDisplayArea
  PROVE  /\ Adjacent(DisplayToLogical(p, a), DisplayToLogical(p, b)) <=> Adjacent(a, b)
         /\ DisplayToLogical(p, a) = DisplayToLogical(p, b) => a = b
<1>1. /\ a = <<Row(a), Column(a)>> /\ Row(a) \in Int /\ Column(a) \in Int
      /\ b = <<Row(b), Column(b)>> /\ Row(b) \in Int /\ Column(b) \in Int
  BY OwnCell
<1>2. CASE p = 0
  BY <1>2 DEF DisplayToLogical, LogicalToDisplay
<1>3. CASE p = 1
  <2> DEFINE la == DisplayToLogical(p, a)
             lb == DisplayToLogical(p, b)
  <2>1. /\ la = <<Rows - 1 - Row(a), Columns - 1 - Column(a)>>
        /\ lb = <<Rows - 1 - Row(b), Columns - 1 - Column(b)>>
    BY <1>3 DEF DisplayToLogical, LogicalToDisplay
  <2>2. /\ Row(la) = Rows - 1 - Row(a) /\ Column(la) = Columns - 1 - Column(a)
        /\ Row(lb) = Rows - 1 - Row(b) /\ Column(lb) = Columns - 1 - Column(b)
    BY <2>1 DEF Row, Column
  <2>3. Rows \in Int /\ Columns \in Int
    BY RowsAssumption, ColumnsAssumption
  <2> HIDE DEF la, lb
  <2>4. Adjacent(la, lb) <=> Adjacent(a, b)
    BY <1>1, <2>2, <2>3 DEF Adjacent, Near
  <2>5. la = lb => a = b
    BY <1>1, <2>2, <2>3
  <2> QED
    BY <2>4, <2>5 DEF la, lb
<1> QED
  BY <1>2, <1>3

-----------------------------------------------------------------------------

\* The path of a player whose turn it is, turned around, is one the rule
\* allows as soon as it is long enough: every piece is where it says it is.
LEMMA RequestAllowed ==
  ASSUME PathInv, PositionsInSync, Len(path) >= 3
  PROVE  Validate(cells, viewer, RequestPath)
<1>1. Len(path) \in Nat /\ \A i \in 1..Len(path) : path[i] \in OwnDisplayArea
  BY DEF PathInv
<1>2. /\ RequestPath \in Seq(Positions) /\ Len(RequestPath) = Len(path)
      /\ \A i \in 1..Len(path) : RequestPath[i] = DisplayToLogical(viewer, path[i])
  <2>1. \A i \in 1..Len(path) : DisplayToLogical(viewer, path[i]) \in Positions
    BY <1>1, OwnCell DEF PathInv
  <2>2. RequestPath \in [1..Len(path) -> Positions]
    BY <2>1 DEF RequestPath
  <2> QED
    BY <1>1, <2>2 DEF RequestPath
<1>3. ASSUME NEW i \in 1..Len(RequestPath)
      PROVE  /\ RequestPath[i] \in Positions
             /\ \A j \in 1..i - 1 : RequestPath[j] # RequestPath[i]
             /\ PlayerIdForPosition(RequestPath[i]) = viewer
             /\ i > 1 => /\ cells[RequestPath[i]].color = cells[RequestPath[i - 1]].color
                         /\ Adjacent(cells[RequestPath[i - 1]].position, RequestPath[i])
  <2>1. i \in 1..Len(path) /\ path[i] \in OwnDisplayArea /\ viewer \in {0, 1}
    BY <1>1, <1>2 DEF PathInv
  <2>2. RequestPath[i] \in Positions /\ PlayerIdForPosition(RequestPath[i]) = viewer
    BY <1>2, <2>1, OwnCell
  <2>3. ASSUME NEW j \in 1..i - 1
        PROVE  RequestPath[j] # RequestPath[i]
    <3>1. j \in 1..Len(path) /\ j # i /\ path[j] \in OwnDisplayArea
      BY <1>1, <2>1
    <3>2. path[j] # path[i]
      BY <2>1, <3>1 DEF PathInv
    <3> QED
      BY <1>2, <2>1, <3>1, <3>2, TurnedAround
  <2>4. ASSUME i > 1
        PROVE  /\ cells[RequestPath[i]].color = cells[RequestPath[i - 1]].color
               /\ Adjacent(cells[RequestPath[i - 1]].position, RequestPath[i])
    <3>1. i \in 2..Len(path) /\ i - 1 \in 1..Len(path) /\ path[i - 1] \in OwnDisplayArea
      BY <1>1, <2>1, <2>4
    <3>2. /\ Adjacent(path[i - 1], path[i])
          /\ PieceAtDisplay(path[i - 1]).color = PieceAtDisplay(path[i]).color
      BY <3>1 DEF PathInv
    <3>3. Adjacent(RequestPath[i - 1], RequestPath[i])
      BY <1>2, <2>1, <3>1, <3>2, TurnedAround
    <3>4. cells[RequestPath[i - 1]].position = RequestPath[i - 1]
      <4>1. RequestPath[i - 1] \in Positions
        BY <1>2, <2>1, <3>1, OwnCell
      <4> QED
        BY <4>1 DEF PositionsInSync
    <3> QED
      BY <1>2, <2>1, <3>1, <3>2, <3>3, <3>4 DEF PieceAtDisplay
  <2> QED
    BY <2>2, <2>3, <2>4
<1> QED
  BY <1>2, <1>3 DEF Validate, PathInv

\* Whatever is clicked, the path stays one that trySelect builds.
LEMMA PathKept ==
  ASSUME PathInv, MaxPath \in Nat, [ViewNext]_viewVars
  PROVE  PathInv'
<1> USE DEF PathInv
<1>0. Len(path) \in Nat /\ \A i \in 1..Len(path) : path[i] \in OwnDisplayArea
  OBVIOUS
<1>1. CASE UNCHANGED <<vars, viewer, path>>
  BY <1>1 DEF PieceAtDisplay, vars
<1>2. ASSUME path' = << >>, viewer' = viewer
      PROVE  PathInv'
  <2>1. path' \in Seq(OwnDisplayArea) /\ Len(path') = 0
    BY <1>2
  <2> QED
    BY <1>2, <2>1
<1>3. ASSUME NEW display, TrySelect(display), viewer' = viewer
      PROVE  PathInv'
  <2>1. display \in OwnDisplayArea /\ cells' = cells
    BY <1>3 DEF TrySelect, vars
  <2>2. CASE /\ path # << >> /\ path[Len(path)] = display
             /\ path' = SubSeq(path, 1, Len(path) - 1)
    <3>1. /\ path' \in Seq(OwnDisplayArea) /\ Len(path') = Len(path) - 1
          /\ \A i \in 1..Len(path') : i \in 1..Len(path) /\ path'[i] = path[i]
      <4> DEFINE n == Len(path) - 1
                 area == OwnDisplayArea
      <4>1. n \in Nat /\ 1 \in Int /\ \A i \in 1..n : i \in 1..Len(path) /\ path[i] \in area
        BY <1>0, <2>2
      <4> HIDE DEF n, area
      <4>2. /\ SubSeq(path, 1, n) \in Seq(area)
            /\ Len(SubSeq(path, 1, n)) = IF 1 <= n THEN n - 1 + 1 ELSE 0
            /\ \A i \in 1..n - 1 + 1 : SubSeq(path, 1, n)[i] = path[1 + i - 1]
        BY <4>1, SubSeqProperties
      <4>3. /\ Len(SubSeq(path, 1, n)) = n
            /\ \A i \in 1..n : SubSeq(path, 1, n)[i] = path[i]
        BY <4>1, <4>2
      <4>4. path' = SubSeq(path, 1, n)
        BY <2>2 DEF n
      <4>5. path' \in Seq(area) /\ Len(path') = n /\ \A i \in 1..n : path'[i] = path[i]
        BY <4>2, <4>3, <4>4
      <4> QED
        BY <4>1, <4>5 DEF n, area
    <3>2. \A i \in 2..Len(path') : i \in 2..Len(path) /\ path'[i - 1] = path[i - 1]
      BY <1>0, <3>1
    <3>3. Len(path') <= MaxPath /\ \A i, j \in 1..Len(path') : path'[i] = path'[j] => i = j
      BY <1>0, <3>1
    <3>4. \A i \in 2..Len(path') :
             /\ Adjacent(path'[i - 1], path'[i])
             /\ PieceAtDisplay(path'[i - 1]).color = PieceAtDisplay(path'[i]).color
      BY <1>0, <3>1, <3>2
    <3> QED
      BY <1>3, <2>1, <3>1, <3>3, <3>4 DEF PieceAtDisplay
  <2>3. CASE FitsPath(display) /\ Len(path) < MaxPath /\ path' = Append(path, display)
    <3> DEFINE n == Len(path)
    <3>1. /\ path' \in Seq(OwnDisplayArea) /\ Len(path') = n + 1
          /\ \A i \in 1..n : path'[i] = path[i]
          /\ path'[n + 1] = display
      BY <1>0, <2>1, <2>3
    <3>2. \A i \in 1..n : path[i] # display
      BY <1>0, <2>3 DEF FitsPath, OnPath
    <3>3. \A i, j \in 1..Len(path') : path'[i] = path'[j] => i = j
      <4>1. \A i \in 1..n + 1 : i \in 1..n \/ i = n + 1
        BY <1>0
      <4> QED
        BY <3>1, <3>2, <4>1
    <3>4. ASSUME NEW i \in 2..Len(path')
          PROVE  /\ Adjacent(path'[i - 1], path'[i])
                 /\ PieceAtDisplay(path'[i - 1]).color = PieceAtDisplay(path'[i]).color
      <4>1. CASE i \in 2..n
        <5>1. i \in 1..n /\ i - 1 \in 1..n
          BY <1>0, <4>1
        <5> QED
          BY <3>1, <4>1, <5>1
      <4>2. CASE i = n + 1
        <5>1. n \in 1..n /\ path # << >> /\ i - 1 = n
          BY <1>0, <4>2
        <5>2. /\ Adjacent(path[n], display)
              /\ PieceAtDisplay(path[n]).color = PieceAtDisplay(display).color
          BY <2>3, <5>1 DEF FitsPath, EightNeighbors
        <5> QED
          BY <3>1, <4>2, <5>1, <5>2
      <4> QED
        BY <1>0, <3>1, <4>1, <4>2
    <3>5. Len(path') <= MaxPath
      BY <1>0, <2>3, <3>1
    <3> QED
      BY <1>3, <2>1, <3>1, <3>3, <3>4, <3>5 DEF PieceAtDisplay
  <2> QED
    BY <1>3, <2>2, <2>3 DEF TrySelect
<1>4. ASSUME NEW pixel \in Pixels, LeftClick(pixel)
      PROVE  PathInv'
  <2>1. viewer' = viewer
    BY <1>4 DEF LeftClick
  <2>2. \/ Clear \/ Confirm \/ \E display : TrySelect(display)
    BY <1>4 DEF LeftClick
  <2>3. CASE Clear
    BY <1>2, <2>1, <2>3 DEF Clear
  <2>4. CASE Confirm
    BY <1>2, <2>1, <2>4 DEF Confirm, Plays
  <2> QED
    BY <1>3, <2>1, <2>2, <2>3, <2>4
<1>5. CASE RightClick
  BY <1>2, <1>5 DEF RightClick, Clear
<1>6. ASSUME NEW size \in Windows, Resize(size)
      PROVE  PathInv'
  BY <1>1, <1>6 DEF Resize
<1>7. ASSUME NEW request \in Paths, OpponentPlays(request)
      PROVE  PathInv'
  BY <1>2, <1>7 DEF OpponentPlays, Plays
<1> QED
  BY <1>1, <1>4, <1>5, <1>6, <1>7 DEF ViewNext, viewVars

\* What is played at the screen is a turn of the board: the client brings no
\* step of its own into the game.
LEMMA TurnOfTheBoard ==
  ASSUME PathInv, MaxPath \in Nat, [ViewNext]_viewVars
  PROVE  [Next]_vars
<1>1. ASSUME turn <= MaxTurn, NEW request \in Paths, Plays(request)
      PROVE  Next
  BY <1>1 DEF Plays, Next
<1>2. ASSUME ViewNext, NEW pixel \in Pixels, LeftClick(pixel)
      PROVE  [Next]_vars
  <2>1. \/ UNCHANGED vars \/ Confirm
    BY <1>2 DEF LeftClick, Clear, TrySelect
  <2>2. CASE Confirm
    <3>1. Len(path) \in 3..MaxPath
      BY <2>2 DEF Confirm, CanConfirm, PathInv
    <3>2. \A i \in 1..Len(path) : DisplayToLogical(viewer, path[i]) \in Positions
      BY OwnCell DEF PathInv
    <3>3. RequestPath \in Paths
      BY <3>1, <3>2 DEF RequestPath, Paths
    <3> QED
      BY <1>1, <1>2, <2>2, <3>3 DEF Confirm, ViewNext
  <2> QED
    BY <2>1, <2>2
<1>3. ASSUME ViewNext, NEW request \in Paths, OpponentPlays(request)
      PROVE  Next
  BY <1>1, <1>3 DEF OpponentPlays, ViewNext
<1>4. ASSUME RightClick \/ \E size \in Windows : Resize(size)
      PROVE  UNCHANGED vars
  BY <1>4 DEF RightClick, Clear, Resize
<1>5. CASE UNCHANGED viewVars
  BY <1>5 DEF viewVars
<1> QED
  BY <1>2, <1>3, <1>4, <1>5 DEF ViewNext

\* The selected path keeps its shape in every reachable state.
THEOREM PathSafety == ViewSpec => []PathInv
<1>1. MaxPath \in Nat
  BY BoundsAssumption
<1>2. ViewInit => PathInv
  <2>1. << >> \in Seq(OwnDisplayArea) /\ Len(<< >>) = 0
    OBVIOUS
  <2> QED
    BY <1>1, <2>1 DEF ViewInit, PathInv
<1> QED
  BY <1>1, <1>2, PathKept, PTL DEF ViewSpec

\* The board a player sees and plays on behaves as BoxBoard says, so that what
\* is proved of it holds here.
THEOREM PlaysByTheBoard == ViewSpec => Spec
<1>1. MaxPath \in Nat
  BY BoundsAssumption
<1>2. ViewInit => Init
  BY DEF ViewInit
<1> QED
  BY <1>1, <1>2, TurnOfTheBoard, PathSafety, PTL DEF ViewSpec, Spec

\* On a board of any size and for either player, a path that the confirm button
\* takes is never refused by the server's rule.
THEOREM ConfirmedNeverRefused == ViewSpec => []ConfirmedIsValid
<1>1. PathInv /\ PositionsInSync => ConfirmedIsValid
  BY RequestAllowed DEF ConfirmedIsValid, CanConfirm
<1> QED
  BY <1>1, PathSafety, PlaysByTheBoard, PositionsTrue, PTL

-----------------------------------------------------------------------------

\* The size of a window as it opens is made of natural numbers.
LEMMA WindowSize ==
  ASSUME NEW desktop \in (Nat \ {0}) \X (Nat \ {0})
  PROVE  FitWindow(desktop) \in Nat \X Nat
<1>1. ASSUME NEW d \in Nat, NEW low \in Nat, NEW high \in Nat
      PROVE  ScaledDimension(d, low, high) \in Nat
  <2>1. (d * 94) \div 100 \in Nat /\ (d * 86 + 50) \div 100 \in Nat
    OBVIOUS
  <2> QED
    BY <2>1 DEF ScaledDimension, Clamp, Greatest, Least
<1> QED
  BY <1>1 DEF FitWindow, Width, Height

WindowInv == window \in Nat \X Nat

\* The margins: in a wide enough window the board keeps 180 pixels from either side.
LEMMA Margins ==
  ASSUME NEW size \in Nat \X Nat, Width(size) >= 360 + Columns
  PROVE  /\ Unit \in Nat
         /\ BoardRectangle(size).left \in Int /\ BoardRectangle(size).right \in Int
         /\ BoardRectangle(size).left >= 180 * Unit
         /\ BoardRectangle(size).right <= Width(size) * Unit - 180 * Unit
<1> DEFINE w == Width(size)
           cell == CellSize(size)
           width == Columns * cell
           free == w - 360
<1>1. /\ Rows \in Nat /\ Columns \in Nat /\ w \in Nat /\ Height(size) \in Nat
      /\ free \in Nat /\ Columns <= free
  BY RowsAssumption, ColumnsAssumption DEF Width, Height
<1>2. Unit \in Nat /\ Unit = (40 * Rows) * Columns /\ 40 * Rows \in Nat
  BY <1>1 DEF Unit
<1>3. (40 * Rows) * Columns <= (40 * Rows) * free /\ (40 * Rows) * free \in Nat
  BY <1>1, <1>2
<1>4. cell \in Int /\ cell <= (40 * Rows) * free
  <2>1. 36 * Columns * Height(size) \in Nat
    BY <1>1
  <2> QED
    BY <1>2, <1>3, <2>1 DEF CellSize, Greatest, Least
<1>5. width \in Int /\ width <= Unit * free
  <2>1. Columns * cell <= Columns * ((40 * Rows) * free)
    <3> HIDE DEF cell, free
    <3>1. \A m \in Nat, a, b \in Int : a <= b => m * a <= m * b
      OBVIOUS
    <3> QED
      BY <1>1, <1>3, <1>4, <3>1
  <2>2. Columns * ((40 * Rows) * free) = ((40 * Rows) * Columns) * free
    <3> HIDE DEF free
    <3> QED
      BY <1>1, <1>2
  <2> HIDE DEF cell, free
  <2> QED
    BY <1>1, <1>2, <1>4, <2>1, <2>2
<1>6. Unit * free = w * Unit - 360 * Unit /\ w * Unit \in Int
  BY <1>1, <1>2
<1>7. /\ BoardRectangle(size).left = (w * Unit - width) \div 2
      /\ BoardRectangle(size).right = (w * Unit - width) \div 2 + width
  BY DEF BoardRectangle, Rectangle
<1> DEFINE all == w * Unit
<1>8. all \in Int /\ width <= all - 360 * Unit
  BY <1>5, <1>6
<1> HIDE DEF all, width
<1>9. /\ (all - width) \div 2 \in Int
      /\ (all - width) \div 2 >= 180 * Unit
      /\ (all - width) \div 2 + width <= all - 180 * Unit
  BY <1>2, <1>5, <1>8
<1> QED
  BY <1>2, <1>5, <1>7, <1>9 DEF all

\* Whatever the size of the board, the buttons are out of its way in every
\* window that is a little wider than the margins.
LEMMA ButtonsOutOfTheWay == ViewSpec => []ButtonsClearOfBoard
<1>1. WindowInv => ButtonsClearOfBoard
  <2> SUFFICES ASSUME WindowInv, Width(window) >= 360 + Columns
               PROVE  /\ Apart(ClearButton(window), BoardRectangle(window))
                      /\ Apart(ConfirmButton(window), BoardRectangle(window))
                      /\ Apart(ClearButton(window), ConfirmButton(window))
    BY DEF ButtonsClearOfBoard
  <2> DEFINE w == Width(window)
             board == BoardRectangle(window)
  <2>1. /\ Unit \in Nat /\ board.left \in Int /\ board.right \in Int
        /\ board.left >= 180 * Unit /\ board.right <= w * Unit - 180 * Unit
    BY Margins DEF WindowInv
  <2>2. w \in Nat /\ Columns \in Nat /\ w >= 360
    BY ColumnsAssumption DEF WindowInv, Width
  <2>3. /\ ClearButton(window).right = 24 * Unit + 140 * Unit
        /\ ConfirmButton(window).left = (w - 164) * Unit
    BY <2>2 DEF ClearButton, ConfirmButton, ButtonAt, Rectangle, Greatest
  <2>4. (w - 164) * Unit = w * Unit - 164 * Unit /\ w * Unit \in Nat /\ 360 * Unit <= w * Unit
    BY <2>1, <2>2
  <2> DEFINE all == w * Unit
  <2> HIDE DEF all, board
  <2>5. all \in Nat /\ 360 * Unit <= all /\ board.right <= all - 180 * Unit
        /\ ConfirmButton(window).left = all - 164 * Unit
    BY <2>1, <2>3, <2>4 DEF all
  <2>6. /\ ClearButton(window).right <= board.left
        /\ board.right <= ConfirmButton(window).left
        /\ ClearButton(window).right <= ConfirmButton(window).left
    BY <2>1, <2>3, <2>5
  <2> QED
    BY <2>6 DEF Apart, board
<1>2. ViewInit => WindowInv
  <2>1. Desktops \subseteq (Nat \ {0}) \X (Nat \ {0})
    BY SizesAssumption
  <2> QED
    BY <2>1, WindowSize DEF ViewInit, WindowInv
<1>3. WindowInv /\ [ViewNext]_viewVars => WindowInv'
  BY SizesAssumption
     DEF WindowInv, ViewNext, viewVars, LeftClick, RightClick, Resize, OpponentPlays
<1> QED
  BY <1>1, <1>2, <1>3, PTL DEF ViewSpec

-----------------------------------------------------------------------------
(* Which way things fall.                                                  *)

\* On the screen of player 1 a column is the column mirrored, and what goes up
\* the board comes down.
LEMMA SeenFall ==
  ASSUME NEW p \in {0, 1}, NEW m \in {0, 1}, NEW gaps, NEW q \in Positions
  PROVE  LET seen == LogicalToDisplay(p, q)
             landed == LogicalToDisplay(p, Landing(m, gaps, q))
         IN  /\ Column(seen) = Column(landed)
             /\ m = p => Row(landed) >= Row(seen)
             /\ m # p => Row(seen) >= Row(landed)
<1> DEFINE l == Landing(m, gaps, q)
<1>1. /\ l \in Positions /\ Column(l) = Column(q)
      /\ m = 0 => Row(l) >= Row(q)
      /\ m = 1 => Row(l) <= Row(q)
  BY LandingInside
<1>2. Row(l) \in Int /\ Row(q) \in Int /\ Column(q) \in Int /\ Rows \in Int /\ Columns \in Int
  BY <1>1, PositionParts, RowsAssumption, ColumnsAssumption
<1> HIDE DEF l
<1>3. ASSUME NEW x
      PROVE  /\ Row(LogicalToDisplay(p, x)) = IF p = 1 THEN Rows - 1 - Row(x) ELSE Row(x)
             /\ Column(LogicalToDisplay(p, x))
                  = IF p = 1 THEN Columns - 1 - Column(x) ELSE Column(x)
  BY DEF LogicalToDisplay, Row, Column
<1> QED
  BY <1>1, <1>2, <1>3 DEF l

\* Turned around twice a cell is itself.
LEMMA TurnedTwice ==
  ASSUME NEW p \in {0, 1}, NEW display \in OwnDisplayArea
  PROVE  LogicalToDisplay(p, DisplayToLogical(p, display)) = display
<1>1. /\ display = <<Row(display), Column(display)>>
      /\ Row(display) \in Int /\ Column(display) \in Int
      /\ Rows \in Int /\ Columns \in Int
  BY OwnCell, RowsAssumption, ColumnsAssumption
<1>2. CASE p = 1
  <2> DEFINE l == <<Rows - 1 - Row(display), Columns - 1 - Column(display)>>
  <2>1. DisplayToLogical(p, display) = l
    BY <1>2 DEF DisplayToLogical, LogicalToDisplay
  <2>2. Row(l) = Rows - 1 - Row(display) /\ Column(l) = Columns - 1 - Column(display)
    BY DEF Row, Column
  <2>3. LogicalToDisplay(p, l) = <<Rows - 1 - Row(l), Columns - 1 - Column(l)>>
    BY <1>2 DEF LogicalToDisplay
  <2>4. Rows - 1 - Row(l) = Row(display) /\ Columns - 1 - Column(l) = Column(display)
    BY <1>1, <2>2
  <2> QED
    BY <1>1, <2>1, <2>3, <2>4
<1> QED
  BY <1>2 DEF DisplayToLogical, LogicalToDisplay

\* The heroes that outlive a turn fall towards its player; what the last cell of
\* the request becomes, falls so too.
LEMMA TurnFalls ==
  ASSUME BoardInv, PathInv, NEW request \in Paths, Plays(request),
         NEW p \in {0, 1}
  PROVE  LET Seen(b, id) == LogicalToDisplay(p, Place(b, id))
             Below(lower, upper) == Column(lower) = Column(upper) /\ Row(lower) >= Row(upper)
             old == HeroIds(cells, 0) \cup HeroIds(cells, 1)
             new == HeroIds(cells', 0) \cup HeroIds(cells', 1)
         IN  /\ \A id \in old \cap new :
                  IF mover = p THEN Below(Seen(cells', id), Seen(cells, id))
                  ELSE Below(Seen(cells, id), Seen(cells', id))
             /\ mover = p => Below(Seen(cells', nextHeroId),
                                   LogicalToDisplay(p, request[Len(request)]))
<1>1. mover \in {0, 1} /\ Validate(cells, mover, request)
  BY DEF Plays, BoardInv
<1>2. PICK refill, dead : PlayTurn(request, refill, dead)
  BY DEF Plays
<1>3. ASSUME NEW id \in (HeroIds(cells, 0) \cup HeroIds(cells, 1))
                        \cap (HeroIds(cells', 0) \cup HeroIds(cells', 1))
      PROVE  /\ Place(cells, id) \in Positions
             /\ Place(cells', id) = Landing(mover, Gaps(request), Place(cells, id))
  BY <1>1, <1>2, <1>3, SurvivorLands
<1> DEFINE last == request[Len(request)]
           x == Landing(mover, Gaps(request), last)
<1>4. last \in Positions
  BY <1>1, PathCells DEF Area
<1>5. Place(cells', nextHeroId) = x
  <2>1. BoardInv' /\ IsHero(cells'[x]) /\ cells'[x].id = nextHeroId
    BY <1>1, <1>2, TurnKeeps
  <2>2. x \in Positions
    BY <1>1, <1>4, LandingInside
  <2> HIDE DEF x
  <2>3. IdsBelow(cells', nextHeroId')
    BY <2>1 DEF BoardInv
  <2> QED
    BY <2>1, <2>2, <2>3, PlaceOf
<1> HIDE DEF last
<1> QED
  BY <1>1, <1>3, <1>4, <1>5, SeenFall DEF last

\* On a board of any size everything falls towards the player who moves, on that
\* player's screen and on the other's, and the new hero under the last click.
THEOREM FallsTheRightWay == ViewSpec => FallsTowardsPlayer
<1> DEFINE before(id) == LogicalToDisplay(viewer, Place(cells, id))
           after(id) == LogicalToDisplay(viewer, Place(cells', id))
           Below(lower, upper) == Column(lower) = Column(upper) /\ Row(lower) >= Row(upper)
           old == HeroIds(cells, 0) \cup HeroIds(cells, 1)
           new == HeroIds(cells', 0) \cup HeroIds(cells', 1)
           Falls == /\ \A id \in old \cap new :
                         IF mover = viewer THEN Below(after(id), before(id))
                         ELSE Below(before(id), after(id))
                    /\ mover = viewer => Below(after(nextHeroId), path[Len(path)])
<1>1. ASSUME BoardInv, PathInv, MaxPath \in Nat, ViewNext, turn' # turn
      PROVE  Falls
  <2>1. viewer \in {0, 1}
    BY <1>1 DEF PathInv
  <2>2. \/ \E pixel \in Pixels : LeftClick(pixel)
        \/ \E request \in Paths : OpponentPlays(request)
    BY <1>1 DEF ViewNext, RightClick, Clear, Resize, vars
  <2>3. CASE \E pixel \in Pixels : LeftClick(pixel)
    <3>1. Confirm
      BY <1>1, <2>3 DEF LeftClick, Clear, TrySelect, vars
    <3>2. mover = viewer /\ Len(path) \in 3..MaxPath /\ Plays(RequestPath)
          /\ \A i \in 1..Len(path) : path[i] \in OwnDisplayArea
      BY <1>1, <3>1 DEF Confirm, CanConfirm, CanSelect, PathInv
    <3>3. \A i \in 1..Len(path) : DisplayToLogical(viewer, path[i]) \in Positions
      BY <2>1, <3>2, OwnCell
    <3>4. RequestPath \in Paths
      BY <3>2, <3>3 DEF RequestPath, Paths
    <3>5. /\ Len(RequestPath) = Len(path)
          /\ RequestPath[Len(RequestPath)] = DisplayToLogical(viewer, path[Len(path)])
      BY <3>2 DEF RequestPath
    <3>6. LogicalToDisplay(viewer, RequestPath[Len(RequestPath)]) = path[Len(path)]
      BY <2>1, <3>2, <3>5, TurnedTwice
    <3> QED
      BY <1>1, <2>1, <3>2, <3>4, <3>6, TurnFalls
  <2>4. CASE \E request \in Paths : OpponentPlays(request)
    <3>1. PICK request \in Paths : mover # viewer /\ Plays(request)
      BY <2>4 DEF OpponentPlays
    <3> QED
      BY <1>1, <2>1, <3>1, TurnFalls
  <2> QED
    BY <2>2, <2>3, <2>4
<1>2. BoardInv /\ PathInv /\ MaxPath \in Nat /\ [ViewNext]_viewVars
        => [turn' # turn => Falls]_viewVars
  BY <1>1
<1>3. MaxPath \in Nat
  BY BoundsAssumption
<1>4. Spec => []BoardInv
  BY BoardSafety
<1> QED
  BY <1>2, <1>3, <1>4, PathSafety, PlaysByTheBoard, PTL DEF ViewSpec, FallsTowardsPlayer

-----------------------------------------------------------------------------
(* What is drawn where it is clicked.                                      *)

\* The q-th of n cells of a width, and a point in it.
LEMMA PointOfCell ==
  ASSUME NEW c \in Nat \ {0}, NEW n \in Nat, NEW q \in 0..n - 1, NEW r \in 0..c - 1
  PROVE  /\ q * c + r \in Nat /\ q * c + r < n * c /\ n * c \in Nat /\ q * c \in Nat
         /\ (q * c + r) \div c = q /\ (q * c + r) % c = r
<1>1. q * c \in Nat /\ n * c \in Nat
  OBVIOUS
<1>2. PICK k \in Nat : n = q + 1 + k
  <2>1. n - q - 1 \in Nat /\ n = q + 1 + (n - q - 1)
    OBVIOUS
  <2> QED
    BY <2>1
<1>3. (q + 1 + k) * c = q * c + c + k * c /\ k * c \in Nat
  OBVIOUS
<1>4. q * c + r < n * c
  BY <1>1, <1>2, <1>3
<1>5. (q * c + r) \div c = q
  OBVIOUS
<1>6. (q * c + r) % c = r
  OBVIOUS
<1> QED
  BY <1>1, <1>4, <1>5, <1>6

\* Every number below n * c is a point of one of the n cells.
LEMMA CellOfPoint ==
  ASSUME NEW c \in Nat \ {0}, NEW n \in Nat, NEW x \in 0..n * c - 1
  PROVE  x \div c \in 0..n - 1 /\ x % c \in 0..c - 1 /\ x = (x \div c) * c + (x % c)
<1>1. x \in Nat
  OBVIOUS
<1>2. x \div c \in Nat /\ x % c \in 0..c - 1 /\ x = (x \div c) * c + (x % c)
  OBVIOUS
<1>3. x \div c < n
  OBVIOUS
<1> QED
  BY <1>2, <1>3

\* The cells from the first to the last are those of the board, each once.
LEMMA RowByRowLists ==
  /\ Rows * Columns \in Nat
  /\ RowByRow \in [1..Rows * Columns -> Positions]
  /\ \A i, j \in 1..Rows * Columns : RowByRow[i] = RowByRow[j] => i = j
  /\ \A display \in Positions : \E i \in 1..Rows * Columns : RowByRow[i] = display
<1>1. Rows \in Nat /\ Columns \in Nat \ {0} /\ Rows * Columns \in Nat
  BY RowsAssumption, ColumnsAssumption
<1>2. ASSUME NEW i \in 1..Rows * Columns
      PROVE  /\ RowByRow[i] = <<(i - 1) \div Columns, (i - 1) % Columns>>
             /\ (i - 1) \div Columns \in 0..Rows - 1 /\ (i - 1) % Columns \in 0..Columns - 1
             /\ i - 1 = ((i - 1) \div Columns) * Columns + ((i - 1) % Columns)
  <2>1. i - 1 \in 0..Rows * Columns - 1
    BY <1>1
  <2>2. PICK x : x = i - 1 /\ x \in 0..Rows * Columns - 1
    BY <2>1
  <2>3. /\ x \div Columns \in 0..Rows - 1 /\ x % Columns \in 0..Columns - 1
        /\ x = (x \div Columns) * Columns + (x % Columns)
    BY <1>1, <2>2, CellOfPoint
  <2>4. RowByRow[i] = <<(i - 1) \div Columns, (i - 1) % Columns>>
    BY DEF RowByRow
  <2> QED
    BY <2>2, <2>3, <2>4
<1>3. RowByRow \in [1..Rows * Columns -> Positions]
  <2>1. ASSUME NEW i \in 1..Rows * Columns PROVE RowByRow[i] \in Positions
    <3>1. PICK r \in 0..Rows - 1, c \in 0..Columns - 1 : RowByRow[i] = <<r, c>>
      BY <1>2
    <3> QED
      BY <3>1 DEF Positions
  <2> QED
    BY <2>1 DEF RowByRow
<1>4. ASSUME NEW i \in 1..Rows * Columns, NEW j \in 1..Rows * Columns, RowByRow[i] = RowByRow[j]
      PROVE  i = j
  <2>1. /\ (i - 1) \div Columns = (j - 1) \div Columns /\ (i - 1) % Columns = (j - 1) % Columns
    BY <1>2, <1>4
  <2>2. i - 1 = j - 1
    BY <1>2, <2>1
  <2> QED
    BY <2>2
<1>5. ASSUME NEW display \in Positions
      PROVE  \E i \in 1..Rows * Columns : RowByRow[i] = display
  <2>1. /\ Row(display) \in 0..Rows - 1 /\ Column(display) \in 0..Columns - 1
        /\ display = <<Row(display), Column(display)>>
    BY PositionParts
  <2>2. PICK x : x = Row(display) * Columns + Column(display)
    OBVIOUS
  <2>3. /\ x \in Nat /\ x < Rows * Columns /\ x \div Columns = Row(display)
        /\ x % Columns = Column(display)
    BY <1>1, <2>1, <2>2, PointOfCell
  <2>4. x + 1 \in 1..Rows * Columns /\ (x + 1) - 1 = x
    BY <1>1, <2>3
  <2> QED
    BY <2>1, <2>3, <2>4 DEF RowByRow
<1> QED
  BY <1>1, <1>3, <1>4, <1>5

-----------------------------------------------------------------------------

\* g[i] are those of the first i of order that belong, in order.
Draws(order, belongs, g) ==
  g = [i \in 0..Len(order) |->
         IF i = 0 THEN << >>
         ELSE IF order[i] \in belongs THEN Append(g[i - 1], order[i]) ELSE g[i - 1]]

\* The loop has such a result.
LEMMA DrawsExists ==
  ASSUME NEW S, NEW order \in Seq(S), NEW belongs
  PROVE  \E g : Draws(order, belongs, g)
<1> DEFINE Upto(m, g) == g = [i \in 0..m |->
              IF i = 0 THEN << >>
              ELSE IF order[i] \in belongs THEN Append(g[i - 1], order[i]) ELSE g[i - 1]]
           A == {m \in Nat : \E g : Upto(m, g)}
<1>1. 0 \in A
  <2> DEFINE g == [i \in 0..0 |-> << >>]
  <2>1. Upto(0, g)
    OBVIOUS
  <2> QED
    BY <2>1
<1>2. ASSUME NEW m \in Nat, m \in A PROVE m + 1 \in A
  <2>1. PICK g : Upto(m, g)
    BY <1>2
  <2> DEFINE next == IF order[m + 1] \in belongs THEN Append(g[m], order[m + 1]) ELSE g[m]
             h == [i \in 0..m + 1 |-> IF i = m + 1 THEN next ELSE g[i]]
  <2>2. \A i \in 0..m : h[i] = g[i]
    OBVIOUS
  <2>3. ASSUME NEW i \in 0..m + 1
        PROVE  h[i] = IF i = 0 THEN << >>
                      ELSE IF order[i] \in belongs THEN Append(h[i - 1], order[i]) ELSE h[i - 1]
    <3>1. CASE i = m + 1
      <4>1. h[i] = next /\ i - 1 = m /\ h[m] = g[m] /\ i # 0
        BY <2>2, <3>1
      <4> HIDE DEF h
      <4> QED
        BY <3>1, <4>1
    <3>2. CASE i \in 0..m /\ i # 0
      <4>1. i - 1 \in 0..m
        BY <3>2
      <4>2. g[i] = IF order[i] \in belongs THEN Append(g[i - 1], order[i]) ELSE g[i - 1]
        BY <2>1, <3>2
      <4>3. h[i] = g[i] /\ h[i - 1] = g[i - 1]
        BY <2>2, <3>2, <4>1
      <4> HIDE DEF h
      <4> QED
        BY <3>2, <4>2, <4>3
    <3>3. CASE i = 0
      <4>1. g[0] = << >>
        BY <2>1
      <4>2. h[0] = g[0]
        BY <2>2
      <4> HIDE DEF h
      <4> QED
        BY <3>3, <4>1, <4>2
    <3> QED
      BY <3>1, <3>2, <3>3
  <2>4. h = [i \in 0..m + 1 |-> h[i]]
    OBVIOUS
  <2> HIDE DEF h
  <2>5. Upto(m + 1, h)
    BY <2>3, <2>4
  <2> QED
    BY <2>5
<1>3. Len(order) \in A
  <2> HIDE DEF A
  <2> QED
    BY <1>1, <1>2, CountingInduction
<1> QED
  BY <1>3 DEF Draws

\* Of the first m of order those that belong.
Belonging(order, belongs, m) == {x \in {order[i] : i \in 1..m} : x \in belongs}

SetOf(s) == {s[i] : i \in 1..Len(s)}

DrawnUpto(S, order, belongs, s, m) ==
  /\ s \in Seq(S) /\ SetOf(s) = Belonging(order, belongs, m)
  /\ IsFiniteSet(SetOf(s)) /\ Len(s) = Cardinality(SetOf(s))

LEMMA SetOfAppend ==
  ASSUME NEW S, NEW s \in Seq(S), NEW x \in S
  PROVE  Append(s, x) \in Seq(S) /\ SetOf(Append(s, x)) = SetOf(s) \cup {x} /\ Len(Append(s, x)) = Len(s) + 1
<1> DEFINE u == Append(s, x)
<1>1. /\ u \in Seq(S) /\ Len(u) = Len(s) + 1 /\ u[Len(s) + 1] = x /\ Len(s) \in Nat
      /\ \A i \in 1..Len(s) : u[i] = s[i]
  OBVIOUS
<1> HIDE DEF u
<1>2. \A i \in 1..Len(u) : i \in 1..Len(s) \/ i = Len(s) + 1
  BY <1>1
<1>3. Len(s) + 1 \in 1..Len(u) /\ \A i \in 1..Len(s) : i \in 1..Len(u)
  BY <1>1
<1>4. SetOf(u) = SetOf(s) \cup {x}
  BY <1>1, <1>2, <1>3 DEF SetOf
<1> QED
  BY <1>1, <1>4 DEF u

\* Whose members occur once and are those that belong.
LEMMA DrawsEach ==
  ASSUME NEW S, NEW order \in Seq(S), \A i, j \in 1..Len(order) : order[i] = order[j] => i = j,
         NEW belongs, NEW g, Draws(order, belongs, g)
  PROVE  DrawnUpto(S, order, belongs, g[Len(order)], Len(order))
<1> DEFINE n == Len(order)
           A == {m \in Nat : m <= n => DrawnUpto(S, order, belongs, g[m], m)}
<1>1. n \in Nat /\ \A i \in 1..n : order[i] \in S
  OBVIOUS
<1>2. 0 \in A
  <2>1. g[0] = << >>
    BY <1>1 DEF Draws
  <2>2. << >> \in Seq(S) /\ Len(<< >>) = 0
    OBVIOUS
  <2>3. SetOf(<< >>) = {} /\ Belonging(order, belongs, 0) = {}
    BY DEF SetOf, Belonging
  <2>4. IsFiniteSet({}) /\ Cardinality({}) = 0
    BY FS_EmptySet
  <2>5. DrawnUpto(S, order, belongs, << >>, 0)
    BY <2>2, <2>3, <2>4 DEF DrawnUpto
  <2> QED
    BY <2>1, <2>5
<1>3. ASSUME NEW m \in Nat, m \in A PROVE m + 1 \in A
  <2> SUFFICES ASSUME m + 1 <= n PROVE DrawnUpto(S, order, belongs, g[m + 1], m + 1)
    OBVIOUS
  <2>1. m <= n /\ m + 1 \in 1..n /\ m + 1 \in 0..n /\ m + 1 # 0 /\ (m + 1) - 1 = m
    BY <1>1
  <2>2. PICK s : s = g[m] /\ DrawnUpto(S, order, belongs, s, m)
    BY <1>3, <2>1
  <2>3. PICK x : x = order[m + 1] /\ x \in S
    BY <1>1, <2>1
  <2>4. g[m + 1] = IF x \in belongs THEN Append(s, x) ELSE s
    BY <2>1, <2>2, <2>3 DEF Draws
  <2>5. {order[i] : i \in 1..m + 1} = {order[i] : i \in 1..m} \cup {x}
    BY <2>1, <2>3, SMTT(20)
  <2>6. x \notin {order[i] : i \in 1..m}
    BY <1>1, <2>1, <2>3
  <2>7. CASE x \in belongs
    <3>1. Belonging(order, belongs, m + 1) = SetOf(s) \cup {x} /\ x \notin SetOf(s)
      BY <2>2, <2>5, <2>6, <2>7 DEF Belonging, DrawnUpto
    <3>2. s \in Seq(S) /\ IsFiniteSet(SetOf(s)) /\ Len(s) = Cardinality(SetOf(s))
      BY <2>2 DEF DrawnUpto
    <3>3. /\ Append(s, x) \in Seq(S) /\ SetOf(Append(s, x)) = SetOf(s) \cup {x}
          /\ Len(Append(s, x)) = Len(s) + 1
      BY <2>3, <3>2, SetOfAppend
    <3>4. /\ IsFiniteSet(SetOf(s) \cup {x})
          /\ Cardinality(SetOf(s) \cup {x}) = Cardinality(SetOf(s)) + 1
      BY <3>1, <3>2, FS_AddElement
    <3>5. g[m + 1] = Append(s, x)
      BY <2>4, <2>7
    <3> QED
      BY <3>1, <3>2, <3>3, <3>4, <3>5 DEF DrawnUpto
  <2>8. CASE x \notin belongs
    <3>1. Belonging(order, belongs, m + 1) = Belonging(order, belongs, m)
      BY <2>5, <2>8 DEF Belonging
    <3> QED
      BY <2>2, <2>4, <2>8, <3>1 DEF DrawnUpto
  <2> QED
    BY <2>7, <2>8
<1>4. n \in A
  <2> HIDE DEF A
  <2> QED
    BY <1>1, <1>2, <1>3, CountingInduction
<1> QED
  BY <1>1, <1>4

\* Those of a set of cells that a loop of the renderer draws.
Shown(S, type, selected) ==
  {display \in S : /\ PieceAtDisplay(display).type = type
                   /\ selected <=> display \in OnPath(path)}

LEMMA LayerDraws ==
  ASSUME NEW S, NEW order \in Seq(S), \A i, j \in 1..Len(order) : order[i] = order[j] => i = j,
         NEW type, NEW selected \in BOOLEAN
  PROVE  DrawnUpto(S, order, Shown(S, type, selected), Layer(order, type, selected), Len(order))
<1> DEFINE B == Shown(S, type, selected)
           Loop(d) == d = [i \in 0..Len(order) |->
                             IF i = 0 THEN << >>
                             ELSE IF /\ PieceAtDisplay(order[i]).type = type
                                     /\ selected <=> order[i] \in OnPath(path)
                                  THEN Append(d[i - 1], order[i]) ELSE d[i - 1]]
           loop == CHOOSE d : Loop(d)
<1>1. PICK g : Draws(order, B, g)
  BY DrawsExists
<1>2. Layer(order, type, selected) = loop[Len(order)]
  BY DEF Layer
<1>3. \A i \in 1..Len(order) : order[i] \in B <=> /\ PieceAtDisplay(order[i]).type = type
                                                  /\ selected <=> order[i] \in OnPath(path)
  BY DEF Shown
<1> HIDE DEF B
<1>4. ASSUME NEW d PROVE Loop(d) <=> Draws(order, B, d)
  <2>1. \A i \in 0..Len(order) : i # 0 => i \in 1..Len(order)
    OBVIOUS
  <2>2. [i \in 0..Len(order) |->
           IF i = 0 THEN << >>
           ELSE IF /\ PieceAtDisplay(order[i]).type = type
                   /\ selected <=> order[i] \in OnPath(path)
                THEN Append(d[i - 1], order[i]) ELSE d[i - 1]]
        = [i \in 0..Len(order) |->
             IF i = 0 THEN << >>
             ELSE IF order[i] \in B THEN Append(d[i - 1], order[i]) ELSE d[i - 1]]
    BY <1>3, <2>1
  <2> QED
    BY <2>2 DEF Draws
<1> HIDE DEF Loop
<1>5. Draws(order, B, loop)
  BY <1>1, <1>4
<1> HIDE DEF loop
<1>6. DrawnUpto(S, order, B, loop[Len(order)], Len(order))
  BY <1>5, DrawsEach
<1> QED
  BY <1>2, <1>6 DEF B

\* The four layers draw the cells on the path and the others, boxes and heroes.
LEMMA EachDrawnOnce ==
  ASSUME PathInv, BoardInv
  PROVE  /\ Len(DrawOrder) = Rows * Columns
         /\ Positions \subseteq {DrawOrder[i] : i \in 1..Len(DrawOrder)}
<1> DEFINE P == OnPath(path)
           boxes == Shown(Positions, "Box", FALSE)
           heroes == Shown(Positions, "Hero", FALSE)
           boxesOn == Shown(Positions, "Box", TRUE)
           heroesOn == Shown(Positions, "Hero", TRUE)
           a == Layer(RowByRow, "Box", FALSE)
           b == Layer(RowByRow, "Hero", FALSE)
           c == Layer(path, "Box", TRUE)
           d == Layer(path, "Hero", TRUE)
<1>1. /\ Rows * Columns \in Nat /\ RowByRow \in Seq(Positions) /\ Len(RowByRow) = Rows * Columns
      /\ \A i, j \in 1..Len(RowByRow) : RowByRow[i] = RowByRow[j] => i = j
      /\ Belonging(RowByRow, boxes, Len(RowByRow)) = boxes
      /\ Belonging(RowByRow, heroes, Len(RowByRow)) = heroes
      /\ IsFiniteSet(Positions) /\ Cardinality(Positions) = Rows * Columns
  <2>1. /\ Rows * Columns \in Nat /\ RowByRow \in [1..Rows * Columns -> Positions]
        /\ \A i, j \in 1..Rows * Columns : RowByRow[i] = RowByRow[j] => i = j
        /\ \A display \in Positions : \E i \in 1..Rows * Columns : RowByRow[i] = display
    BY RowByRowLists
  <2>2. RowByRow \in Seq(Positions) /\ Len(RowByRow) = Rows * Columns
    BY <2>1
  <2>3. {RowByRow[i] : i \in 1..Rows * Columns} = Positions
    BY <2>1
  <2>4. /\ Belonging(RowByRow, boxes, Len(RowByRow)) = boxes
        /\ Belonging(RowByRow, heroes, Len(RowByRow)) = heroes
    BY <2>2, <2>3 DEF Belonging, Shown
  <2>5. RowByRow \in Bijection(1..Rows * Columns, Positions)
    BY <2>1 DEF Bijection, Injection, IsInjective, Surjection
  <2>6. IsFiniteSet(1..Rows * Columns) /\ Cardinality(1..Rows * Columns) = Rows * Columns
    BY <2>1, FS_Interval
  <2>7. IsFiniteSet(Positions) /\ Cardinality(Positions) = Rows * Columns
    BY <2>5, <2>6, FS_Bijection DEF ExistsBijection
  <2> QED
    BY <2>1, <2>2, <2>4, <2>7
<1>2. /\ path \in Seq(Positions) /\ P \subseteq Positions
      /\ \A i, j \in 1..Len(path) : path[i] = path[j] => i = j
      /\ Belonging(path, boxesOn, Len(path)) = boxesOn
      /\ Belonging(path, heroesOn, Len(path)) = heroesOn
  <2>1. OwnDisplayArea \subseteq Positions
    BY RowsAssumption DEF OwnDisplayArea, Positions, PlayerAreaRows
  <2>2. path \in Seq(OwnDisplayArea) /\ \A i, j \in 1..Len(path) : path[i] = path[j] => i = j
    BY DEF PathInv
  <2>3. path \in Seq(Positions)
    BY <2>1, <2>2
  <2>4. P \subseteq Positions
    BY <2>3 DEF OnPath
  <2>5. /\ Belonging(path, boxesOn, Len(path)) = boxesOn
        /\ Belonging(path, heroesOn, Len(path)) = heroesOn
    BY <2>4 DEF Belonging, Shown, OnPath
  <2> QED
    BY <2>2, <2>3, <2>4, <2>5
<1>3. /\ a \in Seq(Positions) /\ SetOf(a) = boxes /\ IsFiniteSet(boxes) /\ Len(a) = Cardinality(boxes)
      /\ b \in Seq(Positions) /\ SetOf(b) = heroes /\ IsFiniteSet(heroes) /\ Len(b) = Cardinality(heroes)
  <2> HIDE DEF boxes, heroes, a, b
  <2>1. DrawnUpto(Positions, RowByRow, boxes, a, Len(RowByRow))
    BY <1>1, LayerDraws DEF boxes, a
  <2>2. DrawnUpto(Positions, RowByRow, heroes, b, Len(RowByRow))
    BY <1>1, LayerDraws DEF heroes, b
  <2> QED
    BY <1>1, <2>1, <2>2 DEF DrawnUpto
<1>4. /\ c \in Seq(Positions) /\ SetOf(c) = boxesOn /\ IsFiniteSet(boxesOn) /\ Len(c) = Cardinality(boxesOn)
      /\ d \in Seq(Positions) /\ SetOf(d) = heroesOn /\ IsFiniteSet(heroesOn) /\ Len(d) = Cardinality(heroesOn)
  <2> HIDE DEF boxesOn, heroesOn, c, d
  <2>1. DrawnUpto(Positions, path, boxesOn, c, Len(path))
    BY <1>2, LayerDraws DEF boxesOn, c
  <2>2. DrawnUpto(Positions, path, heroesOn, d, Len(path))
    BY <1>2, LayerDraws DEF heroesOn, d
  <2> QED
    BY <1>2, <2>1, <2>2 DEF DrawnUpto
<1>5. /\ boxes \cap heroes = {} /\ (boxes \cup heroes) \cap boxesOn = {}
      /\ (boxes \cup heroes \cup boxesOn) \cap heroesOn = {}
      /\ boxes \cup heroes \cup boxesOn \cup heroesOn = Positions
  <2>1. \A display \in Positions : PieceAtDisplay(display).type \in {"Box", "Hero"}
    <3> SUFFICES ASSUME NEW display \in Positions PROVE PieceAtDisplay(display).type \in {"Box", "Hero"}
      OBVIOUS
    <3>1. DisplayToLogical(viewer, display) \in Positions
      <4>1. /\ Row(display) \in 0..Rows - 1 /\ Column(display) \in 0..Columns - 1
            /\ Rows \in Nat /\ Columns \in Nat
        BY PositionParts, RowsAssumption, ColumnsAssumption
      <4> QED
        BY <4>1 DEF DisplayToLogical, LogicalToDisplay, Positions
    <3> QED
      BY <3>1 DEF BoardInv, IsPiece, PieceAtDisplay
  <2> QED
    BY <2>1 DEF Shown
<1> DEFINE t == a \o b \o c \o d
<1>6. DrawOrder = t
  BY DEF DrawOrder
<1> HIDE DEF a, b, c, d, boxes, heroes, boxesOn, heroesOn
<1>7. ASSUME NEW s \in Seq(Positions), NEW u \in Seq(Positions)
      PROVE  s \o u \in Seq(Positions) /\ Len(s \o u) = Len(s) + Len(u) /\ SetOf(s \o u) = SetOf(s) \cup SetOf(u)
  <2> DEFINE r == s \o u
  <2>1. /\ r \in Seq(Positions) /\ Len(r) = Len(s) + Len(u) /\ Len(s) \in Nat /\ Len(u) \in Nat
        /\ \A i \in 1..Len(s) : r[i] = s[i]
        /\ \A i \in 1..Len(u) : r[Len(s) + i] = u[i]
    OBVIOUS
  <2> HIDE DEF r
  <2>2. \A i \in 1..Len(r) : i \in 1..Len(s) \/ (i - Len(s) \in 1..Len(u) /\ r[i] = u[i - Len(s)])
    <3> SUFFICES ASSUME NEW i \in 1..Len(r), i \notin 1..Len(s)
                 PROVE  i - Len(s) \in 1..Len(u) /\ r[i] = u[i - Len(s)]
      OBVIOUS
    <3>1. i - Len(s) \in 1..Len(u) /\ Len(s) + (i - Len(s)) = i
      BY <2>1
    <3> QED
      BY <2>1, <3>1
  <2>3. SetOf(r) \subseteq SetOf(s) \cup SetOf(u)
    BY <2>1, <2>2, ZenonT(30) DEF SetOf
  <2>4. /\ \A i \in 1..Len(s) : i \in 1..Len(r)
        /\ \A i \in 1..Len(u) : Len(s) + i \in 1..Len(r)
    BY <2>1
  <2>5. SetOf(s) \cup SetOf(u) \subseteq SetOf(r)
    BY <2>1, <2>4 DEF SetOf
  <2> QED
    BY <2>1, <2>3, <2>5 DEF r
<1>8. /\ Len(t) = Len(a) + Len(b) + Len(c) + Len(d)
      /\ SetOf(t) = SetOf(a) \cup SetOf(b) \cup SetOf(c) \cup SetOf(d)
  <2>1. /\ a \o b \in Seq(Positions) /\ Len(a \o b) = Len(a) + Len(b)
        /\ SetOf(a \o b) = SetOf(a) \cup SetOf(b)
    BY <1>3, <1>7
  <2>2. /\ (a \o b) \o c \in Seq(Positions) /\ Len((a \o b) \o c) = Len(a \o b) + Len(c)
        /\ SetOf((a \o b) \o c) = SetOf(a \o b) \cup SetOf(c)
    BY <1>4, <1>7, <2>1
  <2>3. /\ Len(((a \o b) \o c) \o d) = Len((a \o b) \o c) + Len(d)
        /\ SetOf(((a \o b) \o c) \o d) = SetOf((a \o b) \o c) \cup SetOf(d)
    BY <1>4, <1>7, <2>2
  <2> QED
    BY <2>1, <2>2, <2>3
<1>9. Cardinality(Positions)
        = Cardinality(boxes) + Cardinality(heroes) + Cardinality(boxesOn) + Cardinality(heroesOn)
  <2>1. ASSUME NEW S, NEW T, IsFiniteSet(S), IsFiniteSet(T), S \cap T = {}
        PROVE  IsFiniteSet(S \cup T) /\ Cardinality(S \cup T) = Cardinality(S) + Cardinality(T)
    <3>1. /\ IsFiniteSet(S \cup T)
          /\ Cardinality(S \cup T) = Cardinality(S) + Cardinality(T) - Cardinality(S \cap T)
      BY <2>1, FS_Union
    <3>2. Cardinality(S) \in Nat /\ Cardinality(T) \in Nat /\ Cardinality(S \cap T) = 0
      BY <2>1, FS_CardinalityType, FS_EmptySet
    <3> QED
      BY <3>1, <3>2
  <2>2. /\ IsFiniteSet(boxes \cup heroes)
        /\ Cardinality(boxes \cup heroes) = Cardinality(boxes) + Cardinality(heroes)
    BY <1>3, <1>5, <2>1
  <2>3. /\ IsFiniteSet((boxes \cup heroes) \cup boxesOn)
        /\ Cardinality((boxes \cup heroes) \cup boxesOn) = Cardinality(boxes \cup heroes) + Cardinality(boxesOn)
    BY <1>4, <1>5, <2>1, <2>2
  <2>4. Cardinality(((boxes \cup heroes) \cup boxesOn) \cup heroesOn)
          = Cardinality((boxes \cup heroes) \cup boxesOn) + Cardinality(heroesOn)
    BY <1>4, <1>5, <2>1, <2>3
  <2> QED
    BY <1>5, <2>2, <2>3, <2>4
<1> HIDE DEF t
<1>10. Len(DrawOrder) = Rows * Columns
  BY <1>1, <1>3, <1>4, <1>6, <1>8, <1>9
<1>11. SetOf(DrawOrder) = Positions
  BY <1>3, <1>4, <1>5, <1>6, <1>8
<1> QED
  BY <1>10, <1>11 DEF SetOf

-----------------------------------------------------------------------------

\* A window's cells are at least a pixel wide, and its board has a whole number
\* of them either way.
LEMMA BoardOfWindow ==
  ASSUME NEW size \in Nat \X Nat
  PROVE  /\ CellSize(size) \in Nat \ {0}
         /\ \E left, top \in Int :
              BoardRectangle(size)
                = Rectangle(left, top, Columns * CellSize(size), Rows * CellSize(size))
<1> DEFINE c == CellSize(size)
<1>1. /\ Rows \in Nat \ {0} /\ Columns \in Nat \ {0}
      /\ Width(size) \in Nat /\ Height(size) \in Nat
  BY RowsAssumption, ColumnsAssumption DEF Width, Height
<1>2. Unit \in Nat \ {0}
  <2>1. 40 * Rows \in Nat \ {0}
    BY <1>1
  <2>2. \A m, n \in Nat \ {0} : m * n \in Nat \ {0}
    OBVIOUS
  <2>3. (40 * Rows) * Columns \in Nat \ {0}
    BY <1>1, <2>1, <2>2
  <2> QED
    BY <2>3 DEF Unit
<1>3. c \in Nat \ {0}
  <2>1. 40 * Rows * (Width(size) - 360) \in Int /\ 36 * Columns * Height(size) \in Int
    BY <1>1
  <2> QED
    BY <1>2, <2>1 DEF CellSize, Greatest, Least
<1> HIDE DEF c
<1>4. PICK width, height : width = Columns * c /\ height = Rows * c
  OBVIOUS
<1>5. width \in Int /\ height \in Int
  BY <1>1, <1>3, <1>4
<1>6. PICK w, h : w = Width(size) * Unit /\ h = Height(size) * Unit
  OBVIOUS
<1>7. w \in Int /\ h \in Int
  BY <1>1, <1>2, <1>6
<1>8. (w - width) \div 2 \in Int /\ (h - height) \div 2 \in Int
  BY <1>5, <1>7
<1>9. BoardRectangle(size) = Rectangle((w - width) \div 2, (h - height) \div 2, width, height)
  BY <1>4, <1>6 DEF BoardRectangle, c
<1> QED
  BY <1>3, <1>4, <1>8, <1>9 DEF c

\* The hit test on a point of a cell finds the cell.
LEMMA PointHits ==
  ASSUME NEW size \in Nat \X Nat, NEW display \in Positions,
         NEW r \in 0..CellSize(size) - 1, NEW s \in 0..CellSize(size) - 1
  PROVE  DisplayPositionAt(size, CellRectangle(size, display).left + r,
                           CellRectangle(size, display).top + s) = {display}
<1>1. PICK c : c = CellSize(size)
  OBVIOUS
<1>2. c \in Nat \ {0} /\ r \in 0..c - 1 /\ s \in 0..c - 1
  BY <1>1, BoardOfWindow
<1>3. PICK left \in Int, top \in Int :
        BoardRectangle(size) = Rectangle(left, top, Columns * c, Rows * c)
  BY <1>1, BoardOfWindow
<1>4. /\ Row(display) \in 0..Rows - 1 /\ Column(display) \in 0..Columns - 1
      /\ display = <<Row(display), Column(display)>>
      /\ Rows \in Nat /\ Columns \in Nat
  BY PositionParts, RowsAssumption, ColumnsAssumption
<1>5. PICK across, down : /\ across = Column(display) * c + r
                          /\ down = Row(display) * c + s
  OBVIOUS
<1>6. PICK width, height : width = Columns * c /\ height = Rows * c
  OBVIOUS
<1>7. across \in Nat /\ across < width /\ width \in Nat /\ across \div c = Column(display)
      /\ Column(display) * c \in Nat
  BY <1>2, <1>4, <1>5, <1>6, PointOfCell
<1>8. down \in Nat /\ down < height /\ height \in Nat /\ down \div c = Row(display)
      /\ Row(display) * c \in Nat
  BY <1>2, <1>4, <1>5, <1>6, PointOfCell
<1>9. /\ CellRectangle(size, display).left + r = left + across
      /\ CellRectangle(size, display).top + s = top + down
  <2>1. /\ CellRectangle(size, display).left = left + Column(display) * c
        /\ CellRectangle(size, display).top = top + Row(display) * c
    BY <1>1, <1>3 DEF CellRectangle, Rectangle
  <2> QED
    BY <1>2, <1>3, <1>5, <1>7, <1>8, <2>1
<1>10. Contains(BoardRectangle(size), left + across, top + down)
  BY <1>3, <1>6, <1>7, <1>8 DEF Contains, Rectangle
<1>11. (top + down) - top = down /\ (left + across) - left = across
  BY <1>3, <1>7, <1>8
<1>12. BoardRectangle(size).left = left /\ BoardRectangle(size).top = top
  BY <1>3 DEF Rectangle
<1>13. DisplayPositionAt(size, left + across, top + down)
         = {<<((top + down) - top) \div c, ((left + across) - left) \div c>>}
  BY <1>1, <1>10, <1>12 DEF DisplayPositionAt
<1> QED
  BY <1>4, <1>7, <1>8, <1>9, <1>11, <1>13

\* The renderer's rectangles are the hit test's cells, in windows of every size.
LEMMA EachHitWhereDrawn == HitsWhatIsDrawn
<1> SUFFICES ASSUME NEW size \in Sizes
             PROVE  LET board == BoardRectangle(size)
                        corners == [display \in Positions |-> CellRectangle(size, display)]
                    IN  /\ \A display \in Positions :
                              \A x \in {corners[display].left, corners[display].right - 1},
                                 y \in {corners[display].top, corners[display].bottom - 1} :
                                DisplayPositionAt(size, x, y) = {display}
                        /\ \A x \in {board.left - 1, board.right}, y \in board.top - 1..board.top :
                              DisplayPositionAt(size, x, y) = {}
                        /\ \A y \in {board.top - 1, board.bottom}, x \in board.left - 1..board.left :
                              DisplayPositionAt(size, x, y) = {}
  BY DEF HitsWhatIsDrawn
<1>1. size \in Nat \X Nat
  BY SizesAssumption, WindowSize DEF Sizes
<1>2. PICK c : c = CellSize(size) /\ c \in Nat \ {0}
  BY <1>1, BoardOfWindow
<1>3. PICK left \in Int, top \in Int :
        BoardRectangle(size) = Rectangle(left, top, Columns * c, Rows * c)
  BY <1>1, <1>2, BoardOfWindow
<1>4. PICK width, height : width = Columns * c /\ height = Rows * c
  OBVIOUS
<1>5. width \in Nat /\ height \in Nat
  BY <1>2, <1>4, RowsAssumption, ColumnsAssumption
<1>6. /\ BoardRectangle(size).left = left /\ BoardRectangle(size).right = left + width
      /\ BoardRectangle(size).top = top /\ BoardRectangle(size).bottom = top + height
  BY <1>3, <1>4 DEF Rectangle
<1>7. ASSUME NEW display \in Positions,
             NEW x \in {CellRectangle(size, display).left, CellRectangle(size, display).right - 1},
             NEW y \in {CellRectangle(size, display).top, CellRectangle(size, display).bottom - 1}
      PROVE  DisplayPositionAt(size, x, y) = {display}
  <2>1. Row(display) * c \in Int /\ Column(display) * c \in Int
    BY <1>2, PositionParts
  <2>2. PICK a \in Int, b \in Int :
          CellRectangle(size, display) = Rectangle(a, b, c, c)
    <3>1. CellRectangle(size, display)
            = Rectangle(left + Column(display) * c, top + Row(display) * c, c, c)
      BY <1>2, <1>6 DEF CellRectangle
    <3>2. left + Column(display) * c \in Int /\ top + Row(display) * c \in Int
      BY <1>3, <2>1
    <3> QED
      BY <3>1, <3>2
  <2>3. /\ CellRectangle(size, display).left = a /\ CellRectangle(size, display).right = a + c
        /\ CellRectangle(size, display).top = b /\ CellRectangle(size, display).bottom = b + c
    BY <2>2 DEF Rectangle
  <2>4. /\ x \in {a + 0, a + (c - 1)} /\ y \in {b + 0, b + (c - 1)}
    BY <1>2, <2>2, <2>3
  <2>5. PICK r \in 0..c - 1, s \in 0..c - 1 : x = a + r /\ y = b + s
    BY <1>2, <2>4
  <2> QED
    BY <1>1, <1>2, <2>3, <2>5, PointHits
<1>8. ASSUME NEW x, NEW y, x \in {left - 1, left + width} \/ y \in {top - 1, top + height}
      PROVE  DisplayPositionAt(size, x, y) = {}
  <2>1. ~(left <= left - 1) /\ ~(left + width < left + width)
    BY <1>3, <1>5
  <2>2. ~(top <= top - 1) /\ ~(top + height < top + height)
    BY <1>3, <1>5
  <2>3. ~Contains(BoardRectangle(size), x, y)
    BY <1>6, <1>8, <2>1, <2>2 DEF Contains
  <2> QED
    BY <2>3 DEF DisplayPositionAt
<1> QED
  BY <1>6, <1>7, <1>8

\* On a board of any size, in windows of any size, every piece is drawn once,
\* on the path or off it, and the rectangle it is drawn in is exactly where a
\* click finds it; in those wider than the margins no button lies on it.
THEOREM DrawnWhereHit == ViewSpec => []DrawnWhereClicked
<1>1. PathInv /\ BoardInv /\ ButtonsClearOfBoard => DrawnWhereClicked
  BY EachHitWhereDrawn, EachDrawnOnce DEF DrawnWhereClicked
<1>2. Spec => []BoardInv
  BY BoardSafety
<1> QED
  BY <1>1, <1>2, ButtonsOutOfTheWay, PathSafety, PlaysByTheBoard, PTL
=============================================================================
