----------------------------- MODULE PlayerView -----------------------------
(***************************************************************************)
(* What one player of the graphical client sees of the board and does to   *)
(* it: src/common/PlayerViewTransform.hpp, src/gui/InputController.cpp,    *)
(* BoardGeometry.cpp and WindowLayout.cpp, the part of BoardRenderer.cpp   *)
(* that draws the pieces and the mouse events of GuiGameClient.cpp, on top *)
(* of the board and its rule (BoxBoard).  Which messages carry a request   *)
(* and its result is GuiClient's matter: here a confirmed path is played   *)
(* at once, if the rule allows it.                                         *)
(*                                                                         *)
(* Lengths are counted in parts of a pixel so small that the code's        *)
(* divisions come out even; the rounding of floats is left out.            *)
(***************************************************************************)
EXTENDS BoxBoard

CONSTANTS Boards,    \* bound: the colours a game may start with
          Desktops,  \* bound: the sizes of desktop a window is opened on
          Windows,   \* bound: the sizes a window is given by its user
          Pixels     \* bound: where the mouse is clicked

ASSUME BoardsAssumption == Boards \subseteq [Positions -> Colors]
ASSUME SizesAssumption == Desktops \cup Windows \subseteq (Nat \ {0}) \X (Nat \ {0})
ASSUME PixelsAssumption == Pixels \subseteq Nat \X Nat

VARIABLES viewer,  \* state_.playerId
          window,  \* the window's size
          path     \* path_: the display positions selected

viewVars == <<vars, viewer, window, path>>

Width(size) == size[1]
Height(size) == size[2]

-----------------------------------------------------------------------------
(* PlayerViewTransform.                                                    *)

\* Player 1 sees the board turned around, its own half below.
LogicalToDisplay(p, position) ==
  IF p = 1 THEN <<Rows - 1 - Row(position), Columns - 1 - Column(position)>> ELSE position

DisplayToLogical(p, display) == LogicalToDisplay(p, display)

OwnDisplayArea == (PlayerAreaRows..Rows - 1) \X (0..Columns - 1)

PieceAtDisplay(display) == cells[DisplayToLogical(viewer, display)]

-----------------------------------------------------------------------------
(* WindowLayout and BoardGeometry.  A rectangle is half open.              *)

Least(a, b) == IF a < b THEN a ELSE b
Greatest(a, b) == IF a > b THEN a ELSE b
Clamp(n, low, high) == Greatest(low, Least(n, high))

\* scaledDimension: 86 % of the desktop, within bounds, and never above 94 %.
ScaledDimension(desktop, minimum, maximum) ==
  LET safe == Greatest(1, (desktop * 94) \div 100)
  IN  Clamp((desktop * 86 + 50) \div 100, Least(minimum, safe), Least(maximum, safe))

\* fitWindowInsideDesktop.
FitWindow(desktop) == <<ScaledDimension(Width(desktop), 960, 1800),
                        ScaledDimension(Height(desktop), 640, 1100)>>

\* The sizes the window can have.
Sizes == {FitWindow(desktop) : desktop \in Desktops} \cup Windows

\* So many units are a pixel.
Unit == 40 * Rows * Columns

Rectangle(left, top, width, height) ==
  [left |-> left, top |-> top, right |-> left + width, bottom |-> top + height]

Contains(rectangle, x, y) == /\ rectangle.left <= x /\ x < rectangle.right
                             /\ rectangle.top <= y /\ y < rectangle.bottom

\* bottomButtonLayout.
ButtonAt(left, size) ==
  Rectangle(left * Unit, Greatest(12, Height(size) - 70) * Unit, 140 * Unit, 44 * Unit)

ClearButton(size) == ButtonAt(24, size)
ConfirmButton(size) == ButtonAt(Greatest(24, Width(size) - 164), size)

\* centered: the board takes what the margins of 180 pixels leave of the width
\* or nine tenths of the height; a cell never gets smaller than a pixel.
CellSize(size) ==
  Greatest(Unit, Least(40 * Rows * (Width(size) - 360), 36 * Columns * Height(size)))

BoardRectangle(size) ==
  LET width == Columns * CellSize(size)
      height == Rows * CellSize(size)
  IN  Rectangle((Width(size) * Unit - width) \div 2, (Height(size) * Unit - height) \div 2,
                width, height)

\* Mutant: the nearest corner is taken for the cell.
DisplayPositionAtNearest(size, x, y) ==
  LET board == BoardRectangle(size)
      half == CellSize(size) \div 2
  IN  IF Contains(board, x, y)
      THEN {<<(y - board.top + half) \div CellSize(size),
              (x - board.left + half) \div CellSize(size)>>}
      ELSE {}

\* displayPositionAt: the cell at a point, none outside the board.
DisplayPositionAt(size, x, y) ==
  LET board == BoardRectangle(size)
  IN  IF Contains(board, x, y)
      THEN {<<(y - board.top) \div CellSize(size), (x - board.left) \div CellSize(size)>>}
      ELSE {}

-----------------------------------------------------------------------------
(* BoardRenderer::draw: where a piece is drawn, and after which others.    *)

CellRectangle(size, display) ==
  LET board == BoardRectangle(size)
  IN  Rectangle(board.left + Column(display) * CellSize(size),
                board.top + Row(display) * CellSize(size), CellSize(size), CellSize(size))

RowByRow == [i \in 1..Rows * Columns |-> <<(i - 1) \div Columns, (i - 1) % Columns>>]

\* Those of order that show a piece of this type, selected or not.
Layer(order, type, selected) ==
  LET Belongs(display) == /\ PieceAtDisplay(display).type = type
                          /\ selected <=> display \in OnPath(path)
      drawn[i \in 0..Len(order)] ==
        IF i = 0 THEN << >>
        ELSE IF Belongs(order[i]) THEN Append(drawn[i - 1], order[i]) ELSE drawn[i - 1]
  IN  drawn[Len(order)]

\* Boxes below heroes, and what is selected on top.
DrawOrder == Layer(RowByRow, "Box", FALSE) \o Layer(RowByRow, "Hero", FALSE)
               \o Layer(path, "Box", TRUE) \o Layer(path, "Hero", TRUE)

-----------------------------------------------------------------------------
(* InputController, and the mouse events of handleEvents.                  *)

CanSelect == mover = viewer

EightNeighbors(a, b) == a # b /\ Adjacent(a, b)

\* Mutant: any cell of the colour will do.
FitsPathAnywhere(display) ==
  /\ display \notin OnPath(path)
  /\ path # << >> =>
       PieceAtDisplay(path[Len(path)]).color = PieceAtDisplay(display).color

\* A new cell that continues the path.
FitsPath(display) ==
  /\ display \notin OnPath(path)
  /\ path # << >> =>
       /\ EightNeighbors(path[Len(path)], display)
       /\ PieceAtDisplay(path[Len(path)]).color = PieceAtDisplay(display).color

\* trySelect: the last cell again takes it off; what does not fit is ignored.
TrySelect(display) ==
  /\ CanSelect /\ display \in OwnDisplayArea
  /\ \/ /\ path # << >> /\ path[Len(path)] = display
        /\ path' = SubSeq(path, 1, Len(path) - 1)
     \/ /\ FitsPath(display) /\ Len(path) < MaxPath
        /\ path' = Append(path, display)
  /\ UNCHANGED vars

CanConfirm == CanSelect /\ Len(path) >= 3

\* makeRequest.
RequestPath == [i \in 1..Len(path) |-> DisplayToLogical(viewer, path[i])]

\* The turn is played; its result clears the path, whoever made it.
Plays(request) ==
  /\ Validate(cells, mover, request)
  /\ \E refill \in [Refilled(mover, Gaps(request)) -> Colors], dead \in SUBSET (1..nextHeroId) :
       PlayTurn(request, refill, dead)
  /\ path' = << >>

Confirm == CanConfirm /\ Plays(RequestPath)

Clear == path' = << >> /\ UNCHANGED vars

\* The clear button is asked first, then the confirm button, then the board.
LeftClick(pixel) ==
  LET x == pixel[1] * Unit
      y == pixel[2] * Unit
      onClear == Contains(ClearButton(window), x, y)
      onConfirm == Contains(ConfirmButton(window), x, y)
  IN  /\ pixel[1] < Width(window) /\ pixel[2] < Height(window)
      /\ \/ onClear /\ Clear
         \/ ~onClear /\ onConfirm /\ Confirm
         \/ /\ ~onClear /\ ~onConfirm
            /\ \E display \in DisplayPositionAt(window, x, y) : TrySelect(display)
      /\ UNCHANGED <<viewer, window>>

\* The right button or the Escape key.
RightClick == Clear /\ UNCHANGED <<viewer, window>>

Resize(size) == window' = size /\ UNCHANGED <<vars, viewer, path>>

OpponentPlays(request) ==
  mover # viewer /\ Plays(request) /\ UNCHANGED <<viewer, window>>

-----------------------------------------------------------------------------

ViewInit == /\ Init
            /\ [position \in Positions |-> cells[position].color] \in Boards
            /\ viewer \in {0, 1}
            /\ window \in {FitWindow(desktop) : desktop \in Desktops}
            /\ path = << >>

ViewNext == /\ turn <= MaxTurn
            /\ \/ \E pixel \in Pixels : LeftClick(pixel)
               \/ RightClick
               \/ \E size \in Windows : Resize(size)
               \/ \E request \in Paths : OpponentPlays(request)

ViewSpec == ViewInit /\ [][ViewNext]_viewVars

-----------------------------------------------------------------------------
(* Properties.                                                             *)

\* A path the confirm button takes is one the server's rule allows: clicked on
\* the screen cell by cell and turned around at the end, checked by other code
\* than the rule's and on another board than the rule's, it is never refused
\* (InputController.cpp:11-38 and 62-74, EliminationRule.cpp).
ConfirmedIsValid == CanConfirm => Validate(cells, viewer, RequestPath)

\* The hit test finds a cell exactly in the rectangle the cell is drawn in.
HitsWhatIsDrawn ==
  \A size \in Sizes :
    LET board == BoardRectangle(size)
        corners == [display \in Positions |-> CellRectangle(size, display)]
    IN  /\ \A display \in Positions :
              \A x \in {corners[display].left, corners[display].right - 1},
                 y \in {corners[display].top, corners[display].bottom - 1} :
                DisplayPositionAt(size, x, y) = {display}
        /\ \A x \in {board.left - 1, board.right}, y \in board.top - 1..board.top :
              DisplayPositionAt(size, x, y) = {}
        /\ \A y \in {board.top - 1, board.bottom}, x \in board.left - 1..board.left :
              DisplayPositionAt(size, x, y) = {}

Apart(a, b) == \/ a.right <= b.left \/ b.right <= a.left
               \/ a.bottom <= b.top \/ b.bottom <= a.top

\* In a window wide enough for a column a pixel wide between the margins, no
\* button lies on the board or on the other button, so that no cell is out of
\* reach (buttons are asked first) and no selection lost by a click on a cell.
ButtonsClearOfBoard ==
  Width(window) >= 360 + Columns =>
    /\ Apart(ClearButton(window), BoardRectangle(window))
    /\ Apart(ConfirmButton(window), BoardRectangle(window))
    /\ Apart(ClearButton(window), ConfirmButton(window))

\* Every piece is drawn once, by four loops of which two walk the board and two
\* the path, and where it is drawn is where it is clicked, no button in the way,
\* although the renderer's rectangles, the hit test and the buttons are separate
\* arithmetic (BoardRenderer.cpp:252-335, BoardGeometry.cpp:20-29,
\* WindowLayout.cpp).
DrawnWhereClicked ==
  /\ HitsWhatIsDrawn
  /\ ButtonsClearOfBoard
  /\ Len(DrawOrder) = Rows * Columns
  /\ Positions \subseteq {DrawOrder[i] : i \in 1..Len(DrawOrder)}

\* On the screen of the player who moves everything falls down, on the
\* opponent's it rises, although one board collapses down and the other up
\* (BoxBoard.cpp) and one screen is turned around; and the new hero stands in
\* the column that was clicked last, no higher than that cell.
FallsTowardsPlayer ==
  [][turn' # turn =>
       LET before(id) == LogicalToDisplay(viewer, Place(cells, id))
           after(id) == LogicalToDisplay(viewer, Place(cells', id))
           Below(lower, upper) == Column(lower) = Column(upper) /\ Row(lower) >= Row(upper)
           old == HeroIds(cells, 0) \cup HeroIds(cells, 1)
           new == HeroIds(cells', 0) \cup HeroIds(cells', 1)
       IN  /\ \A id \in old \cap new :
                IF mover = viewer THEN Below(after(id), before(id))
                ELSE Below(before(id), after(id))
           /\ mover = viewer => Below(after(nextHeroId), path[Len(path)])]_viewVars
=============================================================================
