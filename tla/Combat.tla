------------------------------- MODULE Combat -------------------------------
(***************************************************************************)
(* What happens inside an accepted request: the elimination makes a hero   *)
(* and moves the others, then the mover's heroes attack one after another  *)
(* (src/game/CombatResolver.cpp, CombatContext.cpp, DamageResolver.cpp,    *)
(* Hero.cpp, Tower.cpp), turn after turn.  The call is cut at each attack, *)
(* each bolt of lightning and its end; nothing else runs in between.       *)
(*                                                                         *)
(* The board is its heroes and where they stand: a box is of whatever      *)
(* colour a path asks for.  A hero's class (kind) is its colour's.  Of the *)
(* events two sums are kept: the damage they announce and how many         *)
(* announce the fall of a tower.                                           *)
(***************************************************************************)
EXTENDS BoardCells, FiniteSetsExt, SequencesExt

CONSTANTS FirstPlayer,   \* firstPlayerId
          TowerMaxHp,    \* Tower::MaxHp
          Kinds,         \* bound: the classes heroes are made of
          MaxPath,       \* bound: the longest path tried
          MaxTurn        \* bound: turns played

ASSUME PlayerAssumption == FirstPlayer \in {0, 1}
ASSUME TowerAssumption == TowerMaxHp \in Nat \ {0}
ASSUME KindsAssumption ==
         Kinds \subseteq {"IronFighter", "SilentHunter", "Regent", "ChickenPot"}
ASSUME BoundsAssumption == MaxPath \in Nat /\ MaxTurn \in Nat

VARIABLES field,    \* heroes by id, towers by player; the events' two sums
          phase,    \* phase_; here Combat is a state
          mover,    \* currentPlayerId_
          turn,     \* turnId_, and the id of the hero it makes
          winner,   \* winnerPlayerId_, -1 when there is none
          queue,    \* attackerIds that have not finished their attack
          bolts     \* activations left to the first of them

VARIABLES start,     \* history: the field when the combat started
          attacked,  \* history: who struck in this combat, in order
          weakened   \* history: whom the last combat left weak

history == <<start, attacked, weakened>>
vars == <<field, phase, mover, turn, winner, queue, bolts, history>>

Players == {0, 1}
Opponent(p) == 1 - p

Least(a, b) == IF a <= b THEN a ELSE b
Greatest(a, b) == IF a >= b THEN a ELSE b

\* roundPositiveRatio.
RoundRatio(value, numerator, denominator) ==
  (value * numerator + denominator \div 2) \div denominator

-----------------------------------------------------------------------------
(* Heroes and towers.                                                      *)

MaxHp(kind, value) == CASE kind = "IronFighter"  -> 16 * value
                        [] kind = "SilentHunter" -> 14 * value
                        [] OTHER                 -> 15 * value

\* radiantStars_ of a Regent, lightningOrbs_ of a ChickenPot.
InitialCharge(kind) == CASE kind = "Regent"     -> 3
                         [] kind = "ChickenPot" -> 1
                         [] OTHER               -> 0

NewHero(kind, value, position) ==
  [kind |-> kind, value |-> value, position |-> position, hp |-> MaxHp(kind, value),
   shield |-> 0, vulnerable |-> 0, weak |-> 0, charge |-> InitialCharge(kind)]

NewTower == [hp |-> TowerMaxHp, vulnerable |-> 0, weak |-> 0]

TakeDamage(tower, damage) == [tower EXCEPT !.hp = @ - Least(@, damage)]

\* The ids of the living heroes in a player's half, whoever made them.
Living(f, p) == {id \in DOMAIN f.heroes :
                   f.heroes[id].hp > 0 /\ PlayerIdForPosition(f.heroes[id].position) = p}

Index(position) == Row(position) * Columns + Column(position)

\* Mutant: the columns are walked in one direction for both players.
BeforeUnmirrored(p, a, b) ==
  \/ IF p = 0 THEN Row(a) > Row(b) ELSE Row(a) < Row(b)
  \/ Row(a) = Row(b) /\ Column(a) > Column(b)

\* The order in which a player's own heroes attack and the enemies are met:
\* from the player's edge, and from the player's right as the player sees it.
Before(p, a, b) == IF p = 0 THEN Index(a) > Index(b) ELSE Index(a) < Index(b)

\* Of those in these places, the i-th is the one with i - 1 before it.
Ordered(p, place) ==
  [i \in 1..Cardinality(DOMAIN place) |->
     CHOOSE id \in DOMAIN place :
       Cardinality({other \in DOMAIN place : Before(p, place[other], place[id])}) = i - 1]

InOrder(f, p, ids) == Ordered(p, [id \in ids |-> f.heroes[id].position])

CollectAttackers(f, p) == InOrder(f, p, Living(f, p))

FirstEnemy(f, p) == InOrder(f, p, Living(f, Opponent(p)))[1]

ConvertDead(f) ==
  LET living == {id \in DOMAIN f.heroes : f.heroes[id].hp > 0}
  IN  [f EXCEPT !.heroes = [id \in living |-> f.heroes[id]]]

-----------------------------------------------------------------------------
(* Damage, healing, shields and statuses.                                  *)

Weakened(attacker, damage, damageKind) ==
  IF damageKind = "NormalAttack" /\ attacker.weak > 0 THEN RoundRatio(damage, 3, 4) ELSE damage

Amplified(target, damage) ==
  IF target.vulnerable > 0 THEN RoundRatio(damage, 3, 2) ELSE damage

\* Mutant: what the shield absorbed is not taken from what overflows.
DamageHeroThroughShield(f, p, id, target, base, damageKind) ==
  IF id \notin Living(f, p) \/ target \notin Living(f, Opponent(p)) THEN f ELSE
    LET victim   == f.heroes[target]
        damage   == Greatest(1, Amplified(victim, Weakened(f.heroes[id], base, damageKind)))
        absorbed == Least(victim.shield, damage)
        lost     == Least(victim.hp, damage - absorbed)
        overflow == Greatest(0, damage - victim.hp)
        tower    == TakeDamage(f.towers[Opponent(p)], overflow)
    IN  ConvertDead([f EXCEPT !.heroes[target].shield = @ - absorbed,
                              !.heroes[target].hp = @ - lost,
                              !.towers[Opponent(p)] = tower,
                              !.dealt = @ + damage,
                              !.falls = IF overflow > 0 /\ tower.hp = 0 THEN @ + 1 ELSE @])

\* A hit: shield, then hit points, then the tower behind; the dead become boxes.
DamageHero(f, p, id, target, base, damageKind) ==
  IF id \notin Living(f, p) \/ target \notin Living(f, Opponent(p)) THEN f ELSE
    LET victim   == f.heroes[target]
        damage   == Greatest(1, Amplified(victim, Weakened(f.heroes[id], base, damageKind)))
        absorbed == Least(victim.shield, damage)
        lost     == Least(victim.hp, damage - absorbed)
        overflow == damage - absorbed - lost
        tower    == TakeDamage(f.towers[Opponent(p)], overflow)
    IN  ConvertDead([f EXCEPT !.heroes[target].shield = @ - absorbed,
                              !.heroes[target].hp = @ - lost,
                              !.towers[Opponent(p)] = tower,
                              !.dealt = @ + damage,
                              !.falls = IF overflow > 0 /\ tower.hp = 0 THEN @ + 1 ELSE @])

DamageTower(f, p, id, base, damageKind) ==
  IF \/ id \notin Living(f, p)
     \/ f.towers[Opponent(p)].hp = 0
     \/ damageKind = "NormalAttack" /\ Living(f, Opponent(p)) # {}
  THEN f
  ELSE LET damage == Amplified(f.towers[Opponent(p)], Weakened(f.heroes[id], base, damageKind))
           tower  == TakeDamage(f.towers[Opponent(p)], damage)
       IN  [f EXCEPT !.towers[Opponent(p)] = tower,
                     !.dealt = @ + damage,
                     !.falls = IF tower.hp = 0 THEN @ + 1 ELSE @]

AddLayers(x, vulnerable, weak) == [x EXCEPT !.vulnerable = @ + vulnerable, !.weak = @ + weak]

\* Mutant: of the two ids, both HeroId, the wrong one.
ApplyDebuffToSource(f, p, id, target, vulnerable, weak) ==
  IF id \notin Living(f, p) THEN f
  ELSE IF target \in Living(f, Opponent(p))
       THEN [f EXCEPT !.heroes[id] = AddLayers(@, vulnerable, weak)]
       ELSE IF f.towers[Opponent(p)].hp = 0 THEN f
            ELSE [f EXCEPT !.towers[Opponent(p)] = AddLayers(@, vulnerable, weak)]

\* applyDebuffAfterHeroHit: the layers of a target that died go to its tower.
ApplyDebuff(f, p, id, target, vulnerable, weak) ==
  IF id \notin Living(f, p) THEN f
  ELSE IF target \in Living(f, Opponent(p))
       THEN [f EXCEPT !.heroes[target] = AddLayers(@, vulnerable, weak)]
       ELSE IF f.towers[Opponent(p)].hp = 0 THEN f
            ELSE [f EXCEPT !.towers[Opponent(p)] = AddLayers(@, vulnerable, weak)]

\* Mutant: without the limit.
HealUncapped(f, id, amount) == [f EXCEPT !.heroes[id].hp = @ + amount]

Heal(f, id, amount) ==
  LET hero == f.heroes[id]
  IN  [f EXCEPT !.heroes[id].hp = @ + Least(amount, MaxHp(hero.kind, hero.value) - @)]

GainShield(f, id, amount) == [f EXCEPT !.heroes[id].shield = @ + amount]

AddCharge(f, id, amount) == [f EXCEPT !.heroes[id].charge = @ + amount]

\* performNormalAttack, and the debuff for the hero it hit.
NormalAttack(f, p, id, base, vulnerable, weak) ==
  IF Living(f, Opponent(p)) = {}
  THEN DamageTower(f, p, id, base, "NormalAttack")
  ELSE LET target == FirstEnemy(f, p)
       IN  ApplyDebuff(DamageHero(f, p, id, target, base, "NormalAttack"),
                       p, id, target, vulnerable, weak)

\* performAttack, of a ChickenPot up to its lightning.
PerformAttack(f, p, id) ==
  LET hero == f.heroes[id]
  IN  CASE hero.kind = "IronFighter" ->
             Heal(NormalAttack(f, p, id, 14 * hero.value, 3, 0), id, 2 * hero.value)
        [] hero.kind = "SilentHunter" ->
             GainShield(NormalAttack(f, p, id, 12 * hero.value, 0, 2), id, 8 * hero.value)
        [] hero.kind = "Regent" /\ hero.charge >= 2 ->
             AddCharge(NormalAttack(f, p, id, 14 * hero.value, 1, 2), id, -2)
        [] hero.kind = "Regent" /\ hero.charge < 2 ->
             AddCharge(GainShield(NormalAttack(f, p, id, 6 * hero.value, 0, 0),
                                  id, 5 * hero.value), id, 3)
        [] hero.kind = "ChickenPot" /\ hero.charge = 0 ->
             AddCharge(GainShield(NormalAttack(f, p, id, 6 * hero.value, 0, 0),
                                  id, 5 * hero.value), id, 1)
        [] hero.kind = "ChickenPot" /\ hero.charge > 0 ->
             NormalAttack(f, p, id, 6 * hero.value, 0, 0)

LightningActivationCount == 2

\* An enemy, or its tower (Opponent(p) - 2, which is no hero's id).
TowerTarget(p) == Opponent(p) - 2

LightningTargets(f, p) ==
  Living(f, Opponent(p)) \cup (IF f.towers[Opponent(p)].hp > 0 THEN {TowerTarget(p)} ELSE {})

Lightning(f, p, id, target) ==
  LET damage == 8 * f.heroes[id].value
  IN  IF target = TowerTarget(p) THEN DamageTower(f, p, id, damage, "Lightning")
      ELSE DamageHero(f, p, id, target, damage, "Lightning")

\* Mutant: all layers wear off at once.
WearOffAll(f) ==
  LET Cleared(x) == [x EXCEPT !.vulnerable = 0, !.weak = 0]
  IN  [f EXCEPT !.heroes = [id \in DOMAIN @ |-> Cleared(@[id])],
                !.towers = [p \in Players |-> Cleared(@[p])]]

\* processTurnEndStatuses: a layer less on every hero and both towers.
WearOff(f) ==
  LET Fewer(x) == [x EXCEPT !.vulnerable = Greatest(0, @ - 1), !.weak = Greatest(0, @ - 1)]
  IN  [f EXCEPT !.heroes = [id \in DOMAIN @ |-> Fewer(@[id])],
                !.towers = [p \in Players |-> Fewer(@[p])]]

-----------------------------------------------------------------------------
(* The elimination (validate, resolveElimination), as far as heroes go.    *)

IdsOn(heroes, cells) == {id \in DOMAIN heroes : heroes[id].position \in cells}

\* Three different neighbours or more, in the area, the heroes among them of
\* the one colour.
LegalPath(heroes, p, path, kind) ==
  /\ Len(path) >= 3
  /\ OnPath(path) \subseteq Area(p)
  /\ Cardinality(OnPath(path)) = Len(path)
  /\ \A i \in 1..Len(path) - 1 : Adjacent(path[i], path[i + 1])
  /\ \A id \in IdsOn(heroes, OnPath(path)) : heroes[id].kind = kind

Value(heroes, path) ==
  LET used == IdsOn(heroes, OnPath(path))
  IN  Len(path) - Cardinality(used) + MapThenSumSet(LAMBDA id : heroes[id].value, used)

\* The heroes on the path become the new one; the others keep all they have
\* but their place.
Resolve(heroes, p, path, kind, new) ==
  LET stay == DOMAIN heroes \ IdsOn(heroes, OnPath(path))
      Land(position) == Landing(p, Gaps(path), position)
  IN  [id \in stay \cup {new} |->
         IF id = new THEN NewHero(kind, Value(heroes, path), Land(path[Len(path)]))
         ELSE [heroes[id] EXCEPT !.position = Land(@)]]

-----------------------------------------------------------------------------
(* The turns.                                                              *)

Init == /\ field = [heroes |-> [id \in {} |-> 0], towers |-> [p \in Players |-> NewTower],
                    dealt |-> 0, falls |-> 0]
        /\ phase = "WaitingForPlayers"
        /\ mover = FirstPlayer
        /\ turn = 1
        /\ winner = -1
        /\ queue = << >> /\ bolts = 0
        /\ start = field /\ attacked = << >> /\ weakened = {}

Start == /\ phase = "WaitingForPlayers"
         /\ phase' = "Elimination"
         /\ UNCHANGED <<field, mover, turn, winner, queue, bolts, history>>

PassTurn == /\ phase' = "Elimination"
            /\ mover' = Opponent(mover)
            /\ turn' = turn + 1

\* Mutant: the attackers are collected before the elimination.
EliminateCollectsEarly(path, kind) ==
  LET arranged == [field EXCEPT !.heroes = Resolve(@, mover, path, kind, turn),
                                !.dealt = 0, !.falls = 0]
  IN  /\ phase = "Elimination"
      /\ LegalPath(field.heroes, mover, path, kind)
      /\ Value(field.heroes, path) \in Nat \ {0}
      /\ field' = arranged
      /\ IF turn = 1
         THEN PassTurn /\ UNCHANGED <<queue, start, attacked>>
         ELSE /\ phase' = "Combat"
              /\ queue' = CollectAttackers(field, mover)
              /\ start' = arranged
              /\ attacked' = << >>
              /\ UNCHANGED <<mover, turn>>
      /\ UNCHANGED <<winner, bolts, weakened>>

\* An elimination, of a positive value as calculateEliminationValue demands.  It
\* ends the opening turn; in every other turn the mover's heroes line up.
Eliminate(path, kind) ==
  LET arranged == [field EXCEPT !.heroes = Resolve(@, mover, path, kind, turn),
                                !.dealt = 0, !.falls = 0]
  IN  /\ phase = "Elimination"
      /\ LegalPath(field.heroes, mover, path, kind)
      /\ Value(field.heroes, path) \in Nat \ {0}
      /\ field' = arranged
      /\ IF turn = 1
         THEN PassTurn /\ UNCHANGED <<queue, start, attacked>>
         ELSE /\ phase' = "Combat"
              /\ queue' = CollectAttackers(arranged, mover)
              /\ start' = arranged
              /\ attacked' = << >>
              /\ UNCHANGED <<mover, turn>>
      /\ UNCHANGED <<winner, bolts, weakened>>

GameFinished(f) == f.towers[Opponent(mover)].hp = 0

Charged(f, id) == f.heroes[id].kind = "ChickenPot" /\ f.heroes[id].charge > 0

\* The first attacker of the queue, if it still is one, strikes; lightning
\* follows where it is charged and the tower stands.
Attack ==
  LET id     == Head(queue)
      struck == IF id \in Living(field, mover) THEN PerformAttack(field, mover, id) ELSE field
      bursts == id \in Living(field, mover) /\ Charged(field, id)
  IN  /\ phase = "Combat" /\ bolts = 0
      /\ queue # << >> /\ ~GameFinished(field)
      /\ IF bursts /\ ~GameFinished(struck)
         THEN field' = struck /\ bolts' = LightningActivationCount /\ UNCHANGED queue
         ELSE /\ field' = IF bursts THEN AddCharge(struck, id, -1) ELSE struck
              /\ queue' = Tail(queue)
              /\ UNCHANGED bolts
      /\ attacked' = IF struck.dealt > field.dealt THEN Append(attacked, id) ELSE attacked
      /\ weakened' = {i \in DOMAIN struck.heroes :
                        i \in weakened \/ struck.heroes[i].weak > field.heroes[i].weak}
      /\ UNCHANGED <<phase, mover, turn, winner, start>>

\* Mutant: the second bolt does not ask whether the tower stands.
StrikeTwice(target) ==
  LET id     == Head(queue)
      struck == Lightning(field, mover, id, target)
      last   == bolts = 1
  IN  /\ phase = "Combat" /\ bolts > 0
      /\ field' = IF last THEN AddCharge(struck, id, -1) ELSE struck
      /\ bolts' = IF last THEN 0 ELSE bolts - 1
      /\ queue' = IF last THEN Tail(queue) ELSE queue
      /\ weakened' = weakened \cap DOMAIN struck.heroes
      /\ UNCHANGED <<phase, mover, turn, winner, start, attacked>>

\* A bolt of the first attacker; the last one, or the one that fells the
\* tower, uses up an orb.
Strike(target) ==
  LET id     == Head(queue)
      struck == Lightning(field, mover, id, target)
      last   == bolts = 1 \/ GameFinished(struck)
  IN  /\ phase = "Combat" /\ bolts > 0
      /\ field' = IF last THEN AddCharge(struck, id, -1) ELSE struck
      /\ bolts' = IF last THEN 0 ELSE bolts - 1
      /\ queue' = IF last THEN Tail(queue) ELSE queue
      /\ weakened' = weakened \cap DOMAIN struck.heroes
      /\ UNCHANGED <<phase, mover, turn, winner, start, attacked>>

\* Mutant: the fall is only looked for before an attack.
EndCombatMissesLast ==
  /\ phase = "Combat" /\ bolts = 0
  /\ queue = << >> \/ GameFinished(field)
  /\ field' = ConvertDead(WearOff(field))
  /\ queue' = << >>
  /\ weakened' = weakened \cap Living(field, Opponent(mover))
  /\ IF GameFinished(field) /\ queue # << >>
     THEN phase' = "Finished" /\ winner' = mover /\ UNCHANGED <<mover, turn>>
     ELSE PassTurn /\ UNCHANGED winner
  /\ UNCHANGED <<bolts, start, attacked>>

\* The end of resolve: statuses wear off, dead heroes become boxes, and the
\* session passes the turn or finishes.
EndCombat ==
  /\ phase = "Combat" /\ bolts = 0
  /\ queue = << >> \/ GameFinished(field)
  /\ field' = ConvertDead(WearOff(field))
  /\ queue' = << >>
  /\ weakened' = weakened \cap Living(field, Opponent(mover))
  /\ IF GameFinished(field)
     THEN phase' = "Finished" /\ winner' = mover /\ UNCHANGED <<mover, turn>>
     ELSE PassTurn /\ UNCHANGED winner
  /\ UNCHANGED <<bolts, start, attacked>>

Paths(p) == UNION {[1..n -> Area(p)] : n \in 3..MaxPath}

Next == \/ Start
        \/ /\ turn <= MaxTurn
           /\ \E path \in Paths(mover), kind \in Kinds : Eliminate(path, kind)
        \/ Attack
        \/ \E target \in LightningTargets(field, mover) : Strike(target)
        \/ EndCombat

Spec == Init /\ [][Next]_vars

-----------------------------------------------------------------------------
(* Properties.                                                             *)

HeroRecords == [kind : Kinds, value : Nat \ {0}, position : Positions, hp : Nat \ {0},
                shield : Nat, vulnerable : Nat, weak : Nat, charge : Nat]

ChargeLimit(kind) == CASE kind = "Regent"     -> 4
                       [] kind = "ChickenPot" -> 1
                       [] OTHER               -> 0

HeroOK(hero) == /\ hero \in HeroRecords
                /\ hero.hp <= MaxHp(hero.kind, hero.value)
                /\ hero.charge <= ChargeLimit(hero.kind)

FieldOK(f) ==
  /\ f \in [heroes : [DOMAIN f.heroes -> HeroRecords],
            towers : [Players -> [hp : 0..TowerMaxHp, vulnerable : Nat, weak : Nat]],
            dealt : Nat, falls : Nat]
  /\ \A id \in DOMAIN f.heroes : HeroOK(f.heroes[id])

\* Between two strikes every hero on the board lives, with no more than its
\* hit points; stars and orbs are spent only when there are enough; lightning
\* is only under way from a charged pot that stands on the mover's side.
TypeOK == /\ FieldOK(field)
          /\ phase \in {"WaitingForPlayers", "Elimination", "Combat", "Finished"}
          /\ mover \in Players /\ turn \in Nat \ {0} /\ winner \in Players \cup {-1}
          /\ bolts \in 0..LightningActivationCount
          /\ bolts > 0 => /\ phase = "Combat" /\ queue # << >>
                          /\ Head(queue) \in Living(field, mover)
                          /\ Charged(field, Head(queue))
          /\ DOMAIN field.heroes \cup weakened
               \subseteq 1..IF phase \in {"Combat", "Finished"} THEN turn ELSE turn - 1

\* No two heroes stand in one cell: attack orders are orders, and the heroes
\* are those of a board.
OnePerCell ==
  \A a, b \in DOMAIN field.heroes :
    field.heroes[a].position = field.heroes[b].position => a = b

Toughness(f, p) ==
  f.towers[p].hp + MapThenSumSet(LAMBDA id : f.heroes[id].hp + f.heroes[id].shield, Living(f, p))

\* All damage announced is done, and none is done that is not: the defender's
\* shields, hit points and tower have lost the sum of it since the combat
\* started, or the tower is down and the rest of the last blow is lost
\* (CombatContext.cpp:128-249, DamageResolver.cpp:32-48).
DamageAccounted ==
  phase = "Combat" =>
    LET loss == Toughness(start, Opponent(mover)) - Toughness(field, Opponent(mover))
    IN  IF GameFinished(field) THEN loss <= field.dealt ELSE loss = field.dealt

Spared(before, after) == /\ after.hp >= before.hp /\ after.shield >= before.shield
                         /\ after.vulnerable = before.vulnerable /\ after.weak = before.weak

\* While the mover's heroes attack nobody moves; the mover loses no hero, no hit
\* point, no shield and gets no status; the defender gains nothing but statuses.
\* Which side a hero is on is where it stands, also if the other player made it
\* (CombatContext.cpp:411-421).
OnlyDefenderPays ==
  [][phase = "Combat" /\ phase' = "Combat" =>
       /\ field'.towers[mover] = field.towers[mover]
       /\ Living(field, mover) = Living(field', mover)
       /\ \A id \in DOMAIN field'.heroes :
            LET before == field.heroes[id]
                after  == field'.heroes[id]
            IN  /\ after.position = before.position
                /\ IF id \in Living(field, mover) THEN Spared(before, after)
                   ELSE /\ after.hp <= before.hp /\ after.shield <= before.shield
                        /\ after.charge = before.charge]_vars

\* When a combat is over, every hero now on the mover's side has struck in it,
\* once and in order; only the fall of the tower spares the rest their turn
\* (CombatResolver.cpp:78-98).
EachStrikesOnce ==
  [][phase = "Combat" /\ phase' # "Combat" =>
       IF phase' = "Finished"
       THEN IsPrefix(attacked, CollectAttackers(field', mover))
       ELSE attacked = CollectAttackers(field', mover)]_vars

\* A hero that a combat left weak is weak in the next one, its own side's, where
\* it matters: the end of the turn that weakened it takes one layer, the
\* elimination in between none (CombatResolver.cpp:125-160, Hero.cpp:133, 166).
WeakUntilItStrikes ==
  \A id \in weakened \cap DOMAIN field.heroes : field.heroes[id].weak > 0

\* The fall of a tower is announced once and only if it fell: clients show the
\* winner by it (CombatContext.cpp:198-209, 237-247, Hero.cpp:206-210).
FallAnnouncedOnce ==
  field.falls = Cardinality({p \in Players : field.towers[p].hp = 0})

Mirrored(position) == <<Rows - 1 - Row(position), Columns - 1 - Column(position)>>

MirroredHeroes(heroes) ==
  [id \in DOMAIN heroes |-> [heroes[id] EXCEPT !.position = Mirrored(@)]]

MirroredField(f) == [f EXCEPT !.heroes = MirroredHeroes(@),
                              !.towers = [p \in Players |-> @[Opponent(p)]]]

\* Neither seat has an advantage but the first turn: on the board turned half
\* around with the players swapped, the collapse, the order of the attackers and
\* what each attack does are the same turned around, although the code has a
\* loop of its own for each player (CombatResolver.cpp:51-62,
\* CombatContext.cpp:71-117, BoxBoard.cpp:226-262).
SidesAlike ==
  LET turned == MirroredField(field)
      other  == Opponent(mover)
  IN  /\ phase = "Combat" =>
           /\ CollectAttackers(turned, other) = CollectAttackers(field, mover)
           /\ \A id \in Living(field, mover) :
                PerformAttack(turned, other, id) = MirroredField(PerformAttack(field, mover, id))
      /\ phase = "Elimination" =>
           \A path \in Paths(mover), kind \in Kinds :
             LegalPath(field.heroes, mover, path, kind) =>
               LET back == [i \in 1..Len(path) |-> Mirrored(path[i])]
               IN  /\ LegalPath(turned.heroes, other, back, kind)
                   /\ Resolve(turned.heroes, other, back, kind, turn)
                        = MirroredHeroes(Resolve(field.heroes, mover, path, kind, turn))

Stage == CASE phase = "WaitingForPlayers" -> "lobby"
           [] phase = "Finished" -> "over"
           [] OTHER -> "playing"

\* What others see of the towers: those of the turn's start until it ends.
TowersHp == LET seen == IF phase = "Combat" THEN start ELSE field
            IN  [p \in Players |-> seen.towers[p].hp]

\* The turns implement the abstract match: a combat does what GameSession's
\* model takes it to do, any damage to one tower and a winner by its fall.
Match == INSTANCE TurnGame WITH stage <- Stage, hp <- TowersHp
ImplementsTurnGame == Match!MatchSpec
=============================================================================
