------------------------------- MODULE MCWire -------------------------------
EXTENDS Wire

\* A struct whose numbers are all different, so that no two can be exchanged
\* unnoticed, and whose other fields take their first or their last value.
Struct(fields, last) ==
  [name \in {fields[i][1] : i \in DOMAIN fields} |->
     LET i    == CHOOSE j \in DOMAIN fields : fields[j][1] = name
         sort == fields[i][2]
     IN  CASE sort = "number" -> i - 3
           [] sort = "flag"   -> last
           [] sort = "hero"   -> IF last THEN i ELSE None
           [] sort = "player" -> IF last THEN i % 2 ELSE None
           [] OTHER           -> IF last THEN LastOf[sort] ELSE 0]

Game(last) == Struct(GameFields, last) @@ Struct(OpeningField, last)
              @@ [towers |-> <<Struct(TowerFields, last), Struct(TowerFields, ~last)>>,
                  board  |-> [i \in 1..Cells |-> Struct(PieceFields, last)]]

Event(last) == Struct(EventFieldsWritten, last)

Started == [struct |-> "GameStarted", game |-> Game(FALSE)]

Result(success, text, events) ==
  [struct |-> "EliminateResult", success |-> success, errorMessage |-> text,
   game |-> Game(success), combatEvents |-> events]

Short(type, text) == [struct |-> "WireMessage", type |-> MessageType[type], payload |-> text]

Fight == Result(TRUE, "", <<Event(TRUE)>>)

\* A combat that does not fit into a frame.
LongFight == Result(TRUE, "", <<Event(FALSE), Event(TRUE)>>)

MCAnnouncements == {Started, Fight, LongFight, Result(FALSE, "not your turn", << >>),
                    Short("GameEnded", "")}

Request(path) == [struct |-> "EliminateRequest", playerId |-> 0, turnId |-> 2, path |-> path]

Cell(r, c) == [row |-> r, column |-> c]

MCRequests == {Request(<<Cell(0, 1), Cell(1, 2)>>),
               Request(<<Cell(0, 1), Cell(1, 2), Cell(2, 3)>>)}
=============================================================================
