---------------------------- MODULE MCPlayerView ----------------------------
(***************************************************************************)
(* Constants of the PlayerView run: a window as it opens, a high narrow    *)
(* one, and one too narrow for the buttons and the board; in each a pixel  *)
(* of every cell and button.                                               *)
(***************************************************************************)
EXTENDS PlayerView

CONSTANTS red, yellow

\* Boards of one colour but for a cell in each half, in the middle or at the side.
MCBoards ==
  {[position \in Positions |-> IF position \in {a, b} THEN yellow ELSE red]
   : a \in {<<2, 1>>, <<3, 0>>}, b \in {<<0, 1>>, <<1, 2>>}}

MCDesktops == {<<1280, 800>>}

MCWindows == {<<500, 720>>, <<300, 60>>}

\* The first pixel of a rectangle.
Corner(rectangle) == <<-((-rectangle.left) \div Unit), -((-rectangle.top) \div Unit)>>

MCPixels ==
  UNION {{Corner(ClearButton(size)), Corner(ConfirmButton(size))}
           \cup {Corner(CellRectangle(size, display)) : display \in Positions}
         : size \in Sizes}
=============================================================================
