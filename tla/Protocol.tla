------------------------------ MODULE Protocol ------------------------------
(***************************************************************************)
(* The messages as text (src/common/Serialization.cpp): what a message is  *)
(* written as and what the other end reads in it.  A body is a sequence of *)
(* tokens, numbers or quoted texts; spaces and digits are left out.  An    *)
(* enumerator is its number, a struct a record with the fields of          *)
(* Protocol.hpp and GameTypes.hpp.  What a reader returns as an optional   *)
(* is a set of one message or, for nullopt, none.                          *)
(*                                                                         *)
(* The writers and the readers name the fields each in an order of their   *)
(* own, and nothing but these lists makes them agree.                      *)
(***************************************************************************)
EXTENDS Integers, SequencesExt

CONSTANTS Cells,   \* the pieces of a board, BoardRows * BoardColumns
          None     \* std::nullopt

ASSUME CellsAssumption == Cells \in Nat

\* enum class MessageType.
MessageType ==
  [CreateRoom |-> 0, JoinRoom |-> 1, PlayerReady |-> 2, GameStarted |-> 3,
   EliminateRequest |-> 4, EliminateResult |-> 5, BoardUpdated |-> 6, TurnChanged |-> 7,
   GameEnded |-> 8, OpponentDisconnected |-> 9, Error |-> 10]

\* The last enumerator of each enumeration that is read back as a number.
LastOf == [PieceType |-> 1, PieceColor |-> 3, HeroType |-> 4, GamePhase |-> 3,
           CombatEventType |-> 27, DamageKind |-> 1, TowerDamageSource |-> 1,
           CombatTargetType |-> 1, MessageType |-> 10]

-----------------------------------------------------------------------------
(* Tokens and fields.  A field is a name and a sort: a number, a flag, a   *)
(* hero's id or a player that may be missing, or an enumeration.           *)

NumberToken(n) == <<"number", n>>
TextToken(t) == <<"text", t>>

\* Written with value_or(0) and value_or(-1).
Put(sort, value) ==
  NumberToken(CASE sort = "flag"   -> IF value THEN 1 ELSE 0
                [] sort = "hero"   -> IF value = None THEN 0 ELSE value
                [] sort = "player" -> IF value = None THEN -1 ELSE value
                [] OTHER           -> value)

\* operator>> finds a number, a flag 0 or 1, an enumerator in its range.
Readable(sort, token) ==
  /\ token[1] = "number"
  /\ sort = "flag" => token[2] \in {0, 1}
  /\ sort \in DOMAIN LastOf => token[2] \in 0..LastOf[sort]

Got(sort, token) == CASE sort = "flag"   -> token[2] = 1
                      [] sort = "hero"   -> IF token[2] = 0 THEN None ELSE token[2]
                      [] sort = "player" -> IF token[2] < 0 THEN None ELSE token[2]
                      [] OTHER           -> token[2]

Numbers(names) == [i \in DOMAIN names |-> <<names[i], "number">>]

Write(fields, struct) == [i \in DOMAIN fields |-> Put(fields[i][2], struct[fields[i][1]])]

\* The fields are read from the tokens after the first `at`.
CanRead(fields, body, at) ==
  /\ at + Len(fields) <= Len(body)
  /\ \A i \in DOMAIN fields : Readable(fields[i][2], body[at + i])

Read(fields, body, at) ==
  [name \in {fields[i][1] : i \in DOMAIN fields} |->
     LET i == CHOOSE j \in DOMAIN fields : fields[j][1] = name
     IN  Got(fields[i][2], body[at + i])]

\* std::quoted, which also takes a token without quotes for a text.
Quoted(token) == IF token[1] = "text" THEN token[2] ELSE ToString(token[2])

-----------------------------------------------------------------------------
(* The lists of fields.                                                    *)

PieceFields ==
  << <<"type", "PieceType">>, <<"color", "PieceColor">> >>
  \o Numbers(<<"row", "column", "attributeValue", "heroId">>)
  \o << <<"heroType", "HeroType">> >>
  \o Numbers(<<"currentHp", "maxHp", "currentBaseAttackDamage", "defense", "shield",
               "vulnerableLayers", "weakLayers", "radiantStars", "lightningOrbs">>)
  \o << <<"alive", "flag">> >>

TowerFields ==
  Numbers(<<"playerId", "currentHp", "maxHp", "vulnerableLayers", "weakLayers">>)
  \o << <<"destroyed", "flag">> >>

GameFields == << <<"phase", "GamePhase">>, <<"currentPlayerId", "number">>,
                 <<"turnId", "number">>, <<"winnerPlayerId", "player">> >>

OpeningField == << <<"openingTurnPending", "flag">> >>

\* writeCombatEvent.
EventFieldsWritten ==
  << <<"type", "CombatEventType">>, <<"attackerHeroId", "hero">>, <<"targetHeroId", "hero">>,
     <<"actingPlayerId", "player">>, <<"targetPlayerId", "player">> >>
  \o Numbers(<<"damage", "remainingHp">>)
  \o << <<"winnerPlayerId", "player">>, <<"damageKind", "DamageKind">> >>
  \o Numbers(<<"baseDamage", "damageAfterWeak", "damageAfterVulnerable", "damageAfterDefense",
               "shieldAbsorbed", "remainingShield", "amount", "vulnerableLayers", "weakLayers",
               "radiantStars", "lightningOrbs", "previousLayers", "addedLayers", "totalLayers",
               "calculatedDamage", "hpDamageApplied", "targetRemainingHp">>)
  \o << <<"towerDamageSource", "TowerDamageSource">> >>
  \o Numbers(<<"shieldBefore", "shieldAfter", "hpBefore", "hpAfter", "overflowDamage",
               "towerHpBefore", "towerDamageApplied", "towerHpAfter">>)
  \o << <<"towerDestroyed", "flag">>, <<"targetType", "CombatTargetType">>,
        <<"targetTowerPlayerId", "player">>, <<"redirectedBecauseHeroDied", "flag">> >>

\* Mutant: two neighbours are read in the other order.
EventFieldsSwapped ==
  [EventFieldsWritten EXCEPT ![33] = EventFieldsWritten[34], ![34] = EventFieldsWritten[33]]

\* readCombatEvent.
EventFieldsRead ==
  << <<"type", "CombatEventType">>, <<"attackerHeroId", "hero">>, <<"targetHeroId", "hero">>,
     <<"actingPlayerId", "player">>, <<"targetPlayerId", "player">> >>
  \o Numbers(<<"damage", "remainingHp">>)
  \o << <<"winnerPlayerId", "player">>, <<"damageKind", "DamageKind">> >>
  \o Numbers(<<"baseDamage", "damageAfterWeak", "damageAfterVulnerable", "damageAfterDefense",
               "shieldAbsorbed", "remainingShield", "amount", "vulnerableLayers", "weakLayers",
               "radiantStars", "lightningOrbs", "previousLayers", "addedLayers", "totalLayers",
               "calculatedDamage", "hpDamageApplied", "targetRemainingHp">>)
  \o << <<"towerDamageSource", "TowerDamageSource">> >>
  \o Numbers(<<"shieldBefore", "shieldAfter", "hpBefore", "hpAfter", "overflowDamage",
               "towerHpBefore", "towerDamageApplied", "towerHpAfter">>)
  \o << <<"towerDestroyed", "flag">>, <<"targetType", "CombatTargetType">>,
        <<"targetTowerPlayerId", "player">>, <<"redirectedBecauseHeroDied", "flag">> >>

PositionFields == Numbers(<<"row", "column">>)

-----------------------------------------------------------------------------
(* Snapshots.                                                              *)

WriteAll(fields, structs) == FlattenSeq([i \in DOMAIN structs |-> Write(fields, structs[i])])

CanReadAll(fields, count, body, at) ==
  \A i \in 1..count : CanRead(fields, body, at + (i - 1) * Len(fields))

ReadAll(fields, count, body, at) ==
  [i \in 1..count |-> Read(fields, body, at + (i - 1) * Len(fields))]

WriteGame(game) == Write(GameFields, game) \o WriteAll(TowerFields, game.towers)
                   \o WriteAll(PieceFields, game.board) \o Write(OpeningField, game)

\* Where the towers, the board, openingTurnPending and the rest begin.
TowersAt(at) == at + Len(GameFields)
BoardAt(at) == TowersAt(at) + 2 * Len(TowerFields)
OpeningAt(at) == BoardAt(at) + Cells * Len(PieceFields)
GameEnd(at) == OpeningAt(at) + 1

CanReadGame(body, at) == /\ CanRead(GameFields, body, at)
                         /\ CanReadAll(TowerFields, 2, body, TowersAt(at))
                         /\ CanReadAll(PieceFields, Cells, body, BoardAt(at))
                         /\ CanRead(OpeningField, body, OpeningAt(at))

ReadGame(body, at) ==
  LET start == Read(GameFields, body, at)
  IN  [phase |-> start.phase, currentPlayerId |-> start.currentPlayerId,
       turnId |-> start.turnId, winnerPlayerId |-> start.winnerPlayerId,
       towers |-> ReadAll(TowerFields, 2, body, TowersAt(at)),
       board |-> ReadAll(PieceFields, Cells, body, BoardAt(at)),
       openingTurnPending |-> Read(OpeningField, body, OpeningAt(at)).openingTurnPending]

-----------------------------------------------------------------------------
(* Messages.  "struct" is the C++ type of a message.                       *)

IsType(body, type) == body # << >> /\ body[1] = NumberToken(MessageType[type])

\* serialize and serializeWireMessage.
Serialize(m) ==
  CASE m.struct = "EliminateRequest" ->
         <<NumberToken(MessageType.EliminateRequest), NumberToken(m.playerId),
           NumberToken(m.turnId), NumberToken(Len(m.path))>> \o WriteAll(PositionFields, m.path)
    [] m.struct = "EliminateResult" ->
         <<NumberToken(MessageType.EliminateResult), Put("flag", m.success),
           TextToken(m.errorMessage)>> \o WriteGame(m.game)
         \o <<NumberToken(Len(m.combatEvents))>> \o WriteAll(EventFieldsWritten, m.combatEvents)
    [] m.struct = "GameStarted" ->
         <<NumberToken(MessageType.GameStarted)>> \o WriteGame(m.game)
    [] m.struct = "WireMessage" ->
         <<NumberToken(m.type), TextToken(m.payload)>>

MaximumPath == 50
MaximumEvents == 4096

DeserializeEliminateRequest(body) ==
  IF /\ IsType(body, "EliminateRequest")
     /\ CanRead(Numbers(<<"playerId", "turnId", "count">>), body, 1)
     /\ body[4][2] \in 0..MaximumPath
     /\ CanReadAll(PositionFields, body[4][2], body, 4)
  THEN {[struct |-> "EliminateRequest", playerId |-> body[2][2], turnId |-> body[3][2],
         path |-> ReadAll(PositionFields, body[4][2], body, 4)]}
  ELSE {}

DeserializeEliminateResult(body) ==
  LET end == GameEnd(3) + 1
  IN  IF /\ IsType(body, "EliminateResult")
         /\ Len(body) >= end /\ Readable("flag", body[2])
         /\ CanReadGame(body, 3)
         /\ Readable("number", body[end]) /\ body[end][2] \in 0..MaximumEvents
         /\ CanReadAll(EventFieldsRead, body[end][2], body, end)
      THEN {[struct |-> "EliminateResult", success |-> Got("flag", body[2]),
             errorMessage |-> Quoted(body[3]), game |-> ReadGame(body, 3),
             combatEvents |-> ReadAll(EventFieldsRead, body[end][2], body, end)]}
      ELSE {}

DeserializeGameStarted(body) ==
  IF IsType(body, "GameStarted") /\ CanReadGame(body, 1)
  THEN {[struct |-> "GameStarted", game |-> ReadGame(body, 1)]}
  ELSE {}

DeserializeWireMessage(body) ==
  IF Len(body) >= 2 /\ Readable("MessageType", body[1])
  THEN {[struct |-> "WireMessage", type |-> body[1][2], payload |-> Quoted(body[2])]}
  ELSE {}

Invalid == [struct |-> "invalid"]

\* What the first reader that understands it makes of a body.
FirstOf(results) ==
  LET readers == {i \in DOMAIN results : results[i] # {}}
  IN  IF readers = {} THEN Invalid ELSE CHOOSE m \in results[Min(readers)] : TRUE

\* handleBody: what a client takes a body for.
ReceivedByClient(body) ==
  FirstOf(<<DeserializeGameStarted(body), DeserializeEliminateResult(body),
            DeserializeWireMessage(body)>>)

\* onMessage: what the server takes a body for.
ReceivedByServer(body) == FirstOf(<<DeserializeEliminateRequest(body)>>)

-----------------------------------------------------------------------------
(* What the structs of GameTypes.hpp and Protocol.hpp hold when they are   *)
(* written, for the assumptions of Wire.                                   *)

Fits(sort, value) ==
  CASE sort = "flag"         -> value \in BOOLEAN
    [] sort = "hero"         -> value = None \/ value \in Int \ {0}
    [] sort = "player"       -> value = None \/ value \in Nat
    [] sort \in DOMAIN LastOf -> value \in 0..LastOf[sort]
    [] OTHER                 -> value \in Int

FieldNames(fields) == {fields[i][1] : i \in DOMAIN fields}

AllFit(fields, struct) == \A i \in DOMAIN fields : Fits(fields[i][2], struct[fields[i][1]])

IsStruct(fields, struct) ==
  struct = [name \in FieldNames(fields) |-> struct[name]] /\ AllFit(fields, struct)

AreStructs(fields, count, structs) ==
  /\ structs = [i \in 1..count |-> structs[i]]
  /\ \A i \in 1..count : IsStruct(fields, structs[i])

IsGame(game) ==
  /\ game = [phase |-> game.phase, currentPlayerId |-> game.currentPlayerId,
             turnId |-> game.turnId, winnerPlayerId |-> game.winnerPlayerId,
             towers |-> game.towers, board |-> game.board,
             openingTurnPending |-> game.openingTurnPending]
  /\ AllFit(GameFields, game) /\ AllFit(OpeningField, game)
  /\ AreStructs(TowerFields, 2, game.towers)
  /\ AreStructs(PieceFields, Cells, game.board)

\* What the server writes, with no more events than are read.
IsAnnouncement(m) ==
  \/ /\ m.struct = "GameStarted"
     /\ m = [struct |-> m.struct, game |-> m.game]
     /\ IsGame(m.game)
  \/ /\ m.struct = "EliminateResult"
     /\ m = [struct |-> m.struct, success |-> m.success, errorMessage |-> m.errorMessage,
             game |-> m.game, combatEvents |-> m.combatEvents]
     /\ m.success \in BOOLEAN /\ IsGame(m.game)
     /\ Len(m.combatEvents) \in 0..MaximumEvents
     /\ AreStructs(EventFieldsWritten, Len(m.combatEvents), m.combatEvents)
  \/ /\ m.struct = "WireMessage"
     /\ m = [struct |-> m.struct, type |-> m.type, payload |-> m.payload]
     /\ m.type \in 0..LastOf.MessageType

\* What a client writes, with no more cells than are read.
IsRequest(m) ==
  /\ m.struct = "EliminateRequest"
  /\ m = [struct |-> m.struct, playerId |-> m.playerId, turnId |-> m.turnId, path |-> m.path]
  /\ m.playerId \in Int /\ m.turnId \in Int
  /\ Len(m.path) \in 0..MaximumPath
  /\ AreStructs(PositionFields, Len(m.path), m.path)
=============================================================================
