--------------------------- MODULE Combat_proofs ---------------------------
(***************************************************************************)
(* Theorems about Combat, for any board and any tower.  An attack is a     *)
(* composition of operators from field to field; each of them is a Hit: it *)
(* keeps the field's type, moves nobody, and hurts nobody but the          *)
(* defender.  Hits compose, so an attack is one, and so is a bolt.  Each   *)
(* also commutes with turning the board round, so that the two seats fight *)
(* alike: an attack on the turned board is the attack, turned.             *)
(***************************************************************************)
EXTENDS Combat, BoardCells_proofs

\* The same hero, whatever was done to it.
SameHero(before, after) == /\ after.kind = before.kind /\ after.value = before.value
                           /\ after.position = before.position

\* What an attack by p's heroes may do to a hero, by the side it stands on.
HeroHit(p, before, after) ==
  /\ SameHero(before, after)
  /\ IF PlayerIdForPosition(before.position) = p
     THEN Spared(before, after)
     ELSE /\ after.hp <= before.hp /\ after.shield <= before.shield
          /\ after.charge = before.charge
          /\ after.weak = before.weak \/ after.weak >= before.weak + 2

TowersHit(p, f, g) ==
  /\ g.towers[p] = f.towers[p]
  /\ g.towers[Opponent(p)].hp <= f.towers[Opponent(p)].hp
  /\ g.falls = IF f.towers[Opponent(p)].hp > 0 /\ g.towers[Opponent(p)].hp = 0
               THEN f.falls + 1 ELSE f.falls

Hit(p, f, g) ==
  /\ FieldOK(g)
  /\ DOMAIN g.heroes \subseteq DOMAIN f.heroes
  /\ Living(f, p) \subseteq DOMAIN g.heroes
  /\ \A i \in DOMAIN g.heroes : HeroHit(p, f.heroes[i], g.heroes[i])
  /\ TowersHit(p, f, g)
  /\ f.dealt <= g.dealt

\* A record with the parts of a field.
IsField(m) == m = [heroes |-> m.heroes, towers |-> m.towers, dealt |-> m.dealt, falls |-> m.falls]

\* The charges of p's heroes are left to the end of the attack.
KeepsCharge(p, f, g) == \A i \in Living(f, p) : g.heroes[i].charge = f.heroes[i].charge

-----------------------------------------------------------------------------
(* Numbers and records.                                                    *)

LEMMA OpponentType ==
  ASSUME NEW p \in Players
  PROVE  Opponent(p) \in Players /\ Opponent(p) # p /\ Opponent(Opponent(p)) = p
BY DEF Players, Opponent

LEMMA RatioType ==
  ASSUME NEW n \in Nat
  PROVE  RoundRatio(n, 3, 4) \in Nat /\ RoundRatio(n, 3, 2) \in Nat
BY DEF RoundRatio

LEMMA MaxHpType ==
  ASSUME NEW kind, NEW value \in Nat \ {0}
  PROVE  MaxHp(kind, value) \in Nat \ {0}
BY DEF MaxHp

LEMMA DamageType ==
  ASSUME NEW attacker, NEW target, NEW base \in Nat, NEW kind
  PROVE  Amplified(target, Weakened(attacker, base, kind)) \in Nat
<1>1. Weakened(attacker, base, kind) \in Nat
  BY RatioType DEF Weakened
<1> QED
  BY <1>1, RatioType DEF Amplified

\* Every hero of a field lives, so those of a side are those that stand on it.
LEMMA LivingBySide ==
  ASSUME NEW f, FieldOK(f), NEW p
  PROVE  Living(f, p) = {i \in DOMAIN f.heroes : PlayerIdForPosition(f.heroes[i].position) = p}
<1>1. \A i \in DOMAIN f.heroes : f.heroes[i].hp \in Nat \ {0}
  BY DEF FieldOK, HeroOK, HeroRecords
<1>2. \A i \in DOMAIN f.heroes : f.heroes[i].hp > 0
  BY <1>1
<1> QED
  BY <1>2 DEF Living

LEMMA HeroTypes ==
  ASSUME NEW hero \in HeroRecords
  PROVE  /\ hero.kind \in Kinds /\ hero.value \in Nat \ {0} /\ hero.position \in Positions
         /\ hero.hp \in Nat \ {0} /\ hero.shield \in Nat /\ hero.vulnerable \in Nat
         /\ hero.weak \in Nat /\ hero.charge \in Nat
BY DEF HeroRecords

\* A record with parts of the right types is a field.
LEMMA FieldFromParts ==
  ASSUME NEW m, IsField(m), m.heroes = [i \in DOMAIN m.heroes |-> m.heroes[i]],
         \A i \in DOMAIN m.heroes : HeroOK(m.heroes[i]),
         m.towers \in [Players -> [hp : 0..TowerMaxHp, vulnerable : Nat, weak : Nat]],
         m.dealt \in Nat, m.falls \in Nat
  PROVE  FieldOK(m)
<1>1. m.heroes \in [DOMAIN m.heroes -> HeroRecords]
  BY DEF HeroOK
<1> QED
  BY <1>1 DEF FieldOK, IsField

\* And a field is its parts.
LEMMA FieldParts ==
  ASSUME NEW f, FieldOK(f)
  PROVE  /\ IsField(f)
         /\ f.heroes = [i \in DOMAIN f.heroes |-> f.heroes[i]]
         /\ \A i \in DOMAIN f.heroes : HeroOK(f.heroes[i]) /\ f.heroes[i] \in HeroRecords
         /\ f.towers \in [Players -> [hp : 0..TowerMaxHp, vulnerable : Nat, weak : Nat]]
         /\ f.dealt \in Nat /\ f.falls \in Nat
BY DEF FieldOK, HeroOK, IsField

LEMMA TowerTypes ==
  ASSUME NEW f, FieldOK(f), NEW p \in Players
  PROVE  /\ f.towers[p] \in [hp : 0..TowerMaxHp, vulnerable : Nat, weak : Nat]
         /\ f.towers[p].hp \in Nat /\ f.towers[p].hp <= TowerMaxHp
         /\ f.towers[p].vulnerable \in Nat /\ f.towers[p].weak \in Nat
<1>1. f.towers[p] \in [hp : 0..TowerMaxHp, vulnerable : Nat, weak : Nat]
  BY FieldParts
<1> QED
  BY <1>1, TowerAssumption

-----------------------------------------------------------------------------
(* Hits compose.                                                           *)

LEMMA HitNothing ==
  ASSUME NEW f, FieldOK(f), NEW p \in Players
  PROVE  Hit(p, f, f) /\ KeepsCharge(p, f, f)
<1>1. Living(f, p) \subseteq DOMAIN f.heroes
  BY DEF Living
<1>2. ASSUME NEW i \in DOMAIN f.heroes
      PROVE  HeroHit(p, f.heroes[i], f.heroes[i])
  <2>1. f.heroes[i] \in HeroRecords
    BY FieldParts
  <2>2. f.heroes[i].hp \in Nat /\ f.heroes[i].shield \in Nat
    BY <2>1, HeroTypes
  <2> QED
    BY <2>2 DEF HeroHit, SameHero, Spared
<1>3. f.towers[Opponent(p)].hp \in Nat /\ f.dealt \in Nat
  BY FieldParts, TowerTypes, OpponentType
<1> QED
  BY <1>1, <1>2, <1>3 DEF Hit, TowersHit, KeepsCharge

LEMMA HitLiving ==
  ASSUME NEW f, FieldOK(f), NEW g, NEW p \in Players, Hit(p, f, g)
  PROVE  Living(g, p) = Living(f, p) /\ Living(g, Opponent(p)) \subseteq Living(f, Opponent(p))
<1>1. \A i \in DOMAIN g.heroes : /\ i \in DOMAIN f.heroes
                                 /\ g.heroes[i].position = f.heroes[i].position
  BY DEF Hit, HeroHit, SameHero
<1>2. FieldOK(g) /\ Living(f, p) \subseteq DOMAIN g.heroes
  BY DEF Hit
<1>3. \A q : Living(f, q) = {i \in DOMAIN f.heroes : PlayerIdForPosition(f.heroes[i].position) = q}
  BY LivingBySide
<1>4. \A q : Living(g, q) = {i \in DOMAIN g.heroes : PlayerIdForPosition(g.heroes[i].position) = q}
  BY <1>2, LivingBySide
<1>5. \A q : Living(g, q) \subseteq Living(f, q)
  BY <1>1, <1>3, <1>4
<1>6. Living(f, p) \subseteq Living(g, p)
  BY <1>1, <1>2, <1>3, <1>4
<1> QED
  BY <1>5, <1>6

LEMMA HitsCompose ==
  ASSUME NEW f, FieldOK(f), NEW g, NEW h, NEW p \in Players, Hit(p, f, g), Hit(p, g, h)
  PROVE  Hit(p, f, h)
<1>1. FieldOK(g) /\ FieldOK(h)
  BY DEF Hit
<1>2. /\ DOMAIN h.heroes \subseteq DOMAIN f.heroes
      /\ Living(f, p) \subseteq DOMAIN h.heroes
  BY HitLiving DEF Hit
<1>3. ASSUME NEW i \in DOMAIN h.heroes
      PROVE  HeroHit(p, f.heroes[i], h.heroes[i])
  <2>1. /\ i \in DOMAIN g.heroes /\ i \in DOMAIN f.heroes
        /\ HeroHit(p, f.heroes[i], g.heroes[i]) /\ HeroHit(p, g.heroes[i], h.heroes[i])
    BY <1>3 DEF Hit
  <2>2. f.heroes[i] \in HeroRecords /\ g.heroes[i] \in HeroRecords /\ h.heroes[i] \in HeroRecords
    BY <1>1, <1>3, <2>1, FieldParts
  <2> QED
    BY <2>1, <2>2, HeroTypes DEF HeroHit, SameHero, Spared
<1>4. TowersHit(p, f, h)
  <2>1. TowersHit(p, f, g) /\ TowersHit(p, g, h)
    BY DEF Hit
  <2>2. /\ f.towers[Opponent(p)].hp \in Nat /\ g.towers[Opponent(p)].hp \in Nat
        /\ h.towers[Opponent(p)].hp \in Nat /\ f.falls \in Nat
    BY <1>1, FieldParts, TowerTypes, OpponentType
  <2> QED
    BY <2>1, <2>2 DEF TowersHit
<1>5. f.dealt <= h.dealt
  <2>1. f.dealt <= g.dealt /\ g.dealt <= h.dealt
    BY DEF Hit
  <2>2. f.dealt \in Nat /\ g.dealt \in Nat /\ h.dealt \in Nat
    BY <1>1, FieldParts
  <2> QED
    BY <2>1, <2>2
<1> QED
  BY <1>1, <1>2, <1>3, <1>4, <1>5 DEF Hit

-----------------------------------------------------------------------------
(* Each operator is a hit.                                                 *)

\* The dead of a field whose other heroes are in order become boxes.
LEMMA ConvertDeadShape ==
  ASSUME NEW m, IsField(m), NEW g, g = ConvertDead(m)
  PROVE  /\ IsField(g)
         /\ g.heroes = [i \in {j \in DOMAIN m.heroes : m.heroes[j].hp > 0} |-> m.heroes[i]]
         /\ g.towers = m.towers /\ g.dealt = m.dealt /\ g.falls = m.falls
<1> DEFINE kept == [i \in {j \in DOMAIN m.heroes : m.heroes[j].hp > 0} |-> m.heroes[i]]
<1>1. g = [m EXCEPT !.heroes = kept]
  BY DEF ConvertDead
<1> HIDE DEF kept
<1>2. g.heroes = kept /\ g.towers = m.towers /\ g.dealt = m.dealt /\ g.falls = m.falls
  BY <1>1 DEF IsField
<1>3. IsField(g)
  BY <1>1 DEF IsField
<1> QED
  BY <1>2, <1>3 DEF kept

\* A hero that lost hit points and shield, perhaps all.
Hurt(hero, hurt) == /\ SameHero(hero, hurt)
                    /\ hurt.hp \in Nat /\ hurt.hp <= hero.hp
                    /\ hurt.shield \in Nat /\ hurt.shield <= hero.shield
                    /\ hurt.vulnerable = hero.vulnerable /\ hurt.weak = hero.weak
                    /\ hurt.charge = hero.charge
                    /\ hurt.hp > 0 => HeroOK(hurt)

LEMMA HurtHero ==
  ASSUME NEW hero, HeroOK(hero), NEW hp \in Nat, hp <= hero.hp,
         NEW shield \in Nat, shield <= hero.shield,
         NEW hurt, hurt = [hero EXCEPT !.shield = shield, !.hp = hp]
  PROVE  Hurt(hero, hurt)
<1>1. /\ hero \in HeroRecords
      /\ hero.hp <= MaxHp(hero.kind, hero.value) /\ hero.charge <= ChargeLimit(hero.kind)
  BY DEF HeroOK
<1>2. hurt = [kind |-> hero.kind, value |-> hero.value, position |-> hero.position, hp |-> hp,
              shield |-> shield, vulnerable |-> hero.vulnerable, weak |-> hero.weak,
              charge |-> hero.charge]
  BY <1>1 DEF HeroRecords
<1>3. hp > 0 => hurt \in HeroRecords
  BY <1>1, <1>2, HeroTypes DEF HeroRecords
<1>4. hero.hp \in Nat /\ MaxHp(hero.kind, hero.value) \in Nat
  BY <1>1, HeroTypes, MaxHpType
<1> QED
  BY <1>1, <1>2, <1>3, <1>4 DEF Hurt, HeroOK, SameHero

\* The tower's part of a hit.
TowersHurt(p, before, after) ==
  /\ after \in [Players -> [hp : 0..TowerMaxHp, vulnerable : Nat, weak : Nat]]
  /\ after[p] = before[p] /\ after[Opponent(p)].hp <= before[Opponent(p)].hp

\* What hurts one of the defender's heroes and its tower, and removes the hero
\* if it is dead.
LEMMA HurtOne ==
  ASSUME NEW f, FieldOK(f), NEW p \in Players,
         NEW target \in Living(f, Opponent(p)),
         NEW m, IsField(m),
         DOMAIN m.heroes = DOMAIN f.heroes, Hurt(f.heroes[target], m.heroes[target]),
         \A i \in DOMAIN f.heroes \ {target} : m.heroes[i] = f.heroes[i],
         TowersHurt(p, f.towers, m.towers),
         m.dealt \in Nat, f.dealt <= m.dealt,
         m.falls = IF f.towers[Opponent(p)].hp > 0 /\ m.towers[Opponent(p)].hp = 0
                   THEN f.falls + 1 ELSE f.falls
  PROVE  Hit(p, f, ConvertDead(m)) /\ KeepsCharge(p, f, ConvertDead(m))
<1> DEFINE living == {j \in DOMAIN m.heroes : m.heroes[j].hp > 0}
           g == ConvertDead(m)
<1>1. IsField(g) /\ g.towers = m.towers /\ g.dealt = m.dealt /\ g.falls = m.falls
  BY ConvertDeadShape
<1>2. g.heroes = [i \in living |-> m.heroes[i]]
  BY ConvertDeadShape
<1> HIDE DEF g
<1>3. /\ DOMAIN g.heroes = living /\ g.heroes = [i \in DOMAIN g.heroes |-> g.heroes[i]]
      /\ \A i \in living : g.heroes[i] = m.heroes[i]
  BY <1>2
<1>4. target \in DOMAIN f.heroes /\ PlayerIdForPosition(f.heroes[target].position) # p
  BY OpponentType DEF Living
<1>5. \A i \in DOMAIN f.heroes : HeroOK(f.heroes[i]) /\ f.heroes[i].hp \in Nat \ {0}
  BY FieldParts, HeroTypes
<1>6. /\ living \subseteq DOMAIN f.heroes
      /\ \A i \in DOMAIN f.heroes \ {target} : i \in living
  BY <1>5
<1>7. Living(f, p) \subseteq DOMAIN f.heroes \ {target}
  BY <1>4 DEF Living
<1>8. \A i \in living : HeroOK(m.heroes[i])
  BY <1>5 DEF Hurt
<1>9. m.falls \in Nat
  <2>1. f.falls \in Nat
    BY FieldParts
  <2> QED
    BY <2>1
<1>10. FieldOK(g)
  <2>1. \A i \in DOMAIN g.heroes : HeroOK(g.heroes[i])
    BY <1>3, <1>8
  <2>2. m.towers \in [Players -> [hp : 0..TowerMaxHp, vulnerable : Nat, weak : Nat]]
    BY DEF TowersHurt
  <2> QED
    BY <1>1, <1>3, <1>9, <2>1, <2>2, FieldFromParts
<1>11. ASSUME NEW i \in living
       PROVE  HeroHit(p, f.heroes[i], m.heroes[i])
  <2>1. CASE i = target
    BY <1>4, <2>1 DEF HeroHit, Hurt
  <2>2. CASE i # target
    <3>1. m.heroes[i] = f.heroes[i] /\ i \in DOMAIN f.heroes
      BY <2>2
    <3>2. HeroHit(p, f.heroes[i], f.heroes[i])
      BY <3>1, HitNothing DEF Hit
    <3> QED
      BY <3>1, <3>2
  <2> QED
    BY <2>1, <2>2
<1>12. TowersHit(p, f, g)
  BY <1>1 DEF TowersHit, TowersHurt
<1>13. KeepsCharge(p, f, g)
  BY <1>3, <1>6, <1>7, FieldParts DEF KeepsCharge
<1>14. Hit(p, f, g)
  <2>1. Living(f, p) \subseteq living
    BY <1>6, <1>7
  <2> HIDE DEF living
  <2> QED
    BY <1>1, <1>3, <1>6, <1>10, <1>11, <1>12, <2>1 DEF Hit
<1> QED
  BY <1>13, <1>14 DEF g

LEMMA TakenDamage ==
  ASSUME NEW f, FieldOK(f), NEW p \in Players, NEW damage \in Nat
  PROVE  LET before == f.towers[Opponent(p)]
             tower  == TakeDamage(before, damage)
             towers == [f.towers EXCEPT ![Opponent(p)] = tower]
         IN  /\ TowersHurt(p, f.towers, towers) /\ towers[Opponent(p)] = tower
             /\ tower.hp \in Nat /\ before.hp \in Nat
             /\ tower.hp = before.hp - Least(before.hp, damage)
<1> DEFINE before == f.towers[Opponent(p)]
           tower  == TakeDamage(before, damage)
           towers == [f.towers EXCEPT ![Opponent(p)] = tower]
<1>1. /\ f.towers \in [Players -> [hp : 0..TowerMaxHp, vulnerable : Nat, weak : Nat]]
      /\ Opponent(p) \in Players /\ Opponent(p) # p
  BY FieldParts, OpponentType
<1>2. before \in [hp : 0..TowerMaxHp, vulnerable : Nat, weak : Nat]
  BY <1>1
<1>3. before.hp \in Nat /\ before.hp <= TowerMaxHp
  BY <1>1, TowerTypes
<1>4. before.hp - Least(before.hp, damage) \in 0..before.hp
  BY <1>3 DEF Least
<1> HIDE DEF before
<1>5. /\ tower.hp = before.hp - Least(before.hp, damage)
      /\ tower \in [hp : 0..TowerMaxHp, vulnerable : Nat, weak : Nat]
  BY <1>2, <1>3, <1>4, TowerAssumption DEF TakeDamage
<1> HIDE DEF tower
<1>6. /\ towers \in [Players -> [hp : 0..TowerMaxHp, vulnerable : Nat, weak : Nat]]
      /\ towers[p] = f.towers[p] /\ towers[Opponent(p)] = tower
  BY <1>1, <1>5
<1> HIDE DEF towers
<1>7. TowersHurt(p, f.towers, towers) /\ tower.hp \in Nat
  BY <1>3, <1>4, <1>5, <1>6 DEF TowersHurt, before
<1> QED
  BY <1>3, <1>5, <1>6, <1>7 DEF before, tower, towers

LEMMA DamageHeroHits ==
  ASSUME NEW f, FieldOK(f), NEW p \in Players, NEW id, NEW target, NEW base \in Nat, NEW kind,
         f.towers[Opponent(p)].hp > 0
  PROVE  /\ Hit(p, f, DamageHero(f, p, id, target, base, kind))
         /\ KeepsCharge(p, f, DamageHero(f, p, id, target, base, kind))
<1>1. CASE id \notin Living(f, p) \/ target \notin Living(f, Opponent(p))
  BY <1>1, HitNothing DEF DamageHero
<1>2. CASE id \in Living(f, p) /\ target \in Living(f, Opponent(p))
  <2> DEFINE victim   == f.heroes[target]
             damage   == Greatest(1, Amplified(victim, Weakened(f.heroes[id], base, kind)))
             absorbed == Least(victim.shield, damage)
             lost     == Least(victim.hp, damage - absorbed)
             overflow == damage - absorbed - lost
             tower    == TakeDamage(f.towers[Opponent(p)], overflow)
             falls    == IF overflow > 0 /\ tower.hp = 0 THEN f.falls + 1 ELSE f.falls
             m == [f EXCEPT !.heroes[target].shield = @ - absorbed,
                            !.heroes[target].hp = @ - lost,
                            !.towers[Opponent(p)] = tower,
                            !.dealt = @ + damage,
                            !.falls = falls]
  <2>1. target \in DOMAIN f.heroes /\ HeroOK(victim) /\ victim \in HeroRecords
    BY <1>2, FieldParts DEF Living
  <2>2. victim.hp \in Nat /\ victim.shield \in Nat
    BY <2>1, HeroTypes
  <2>3. DamageHero(f, p, id, target, base, kind) = ConvertDead(m)
    BY <1>2 DEF DamageHero
  <2>4. damage \in Nat
    BY DamageType DEF Greatest
  <2> HIDE DEF damage
  <2>5. /\ victim.shield - absorbed \in Nat /\ victim.shield - absorbed <= victim.shield
        /\ victim.hp - lost \in Nat /\ victim.hp - lost <= victim.hp
        /\ overflow \in Nat
    BY <2>2, <2>4 DEF Least
  <2> HIDE DEF absorbed, lost, overflow
  <2>6. LET towers == [f.towers EXCEPT ![Opponent(p)] = tower]
        IN  /\ TowersHurt(p, f.towers, towers) /\ towers[Opponent(p)] = tower
            /\ tower.hp \in Nat /\ f.towers[Opponent(p)].hp \in Nat
            /\ tower.hp = f.towers[Opponent(p)].hp - Least(f.towers[Opponent(p)].hp, overflow)
    BY <2>5, TakenDamage
  <2> HIDE DEF tower
  <2> HIDE DEF falls
  <2>7. /\ IsField(m)
        /\ m.towers = [f.towers EXCEPT ![Opponent(p)] = tower]
        /\ m.dealt = f.dealt + damage
        /\ m.falls = falls
    <3>1. f \in [heroes : [DOMAIN f.heroes -> HeroRecords],
                 towers : [Players -> [hp : 0..TowerMaxHp, vulnerable : Nat, weak : Nat]],
                 dealt : Nat, falls : Nat]
      BY DEF FieldOK
    <3>2. ASSUME NEW x, x = m PROVE IsField(x)
      BY <3>1, <3>2 DEF IsField
    <3>3. IsField(m)
      BY <3>2
    <3> QED
      BY <3>1, <3>3
  <2>8. m.heroes = [f.heroes EXCEPT ![target].shield = @ - absorbed, ![target].hp = @ - lost]
    BY DEF FieldOK
  <2> HIDE DEF m
  <2>9. /\ DOMAIN m.heroes = DOMAIN f.heroes
        /\ m.heroes[target] = [victim EXCEPT !.shield = victim.shield - absorbed,
                                             !.hp = victim.hp - lost]
        /\ \A i \in DOMAIN f.heroes \ {target} : m.heroes[i] = f.heroes[i]
    <3>1. victim = [kind |-> victim.kind, value |-> victim.value, position |-> victim.position,
                    hp |-> victim.hp, shield |-> victim.shield, vulnerable |-> victim.vulnerable,
                    weak |-> victim.weak, charge |-> victim.charge]
      BY <2>1 DEF HeroRecords
    <3> QED
      BY <2>1, <2>8, <3>1
  <2>10. Hurt(victim, m.heroes[target])
    BY <2>1, <2>5, <2>9, HurtHero
  <2>11. m.falls = IF f.towers[Opponent(p)].hp > 0 /\ m.towers[Opponent(p)].hp = 0
                   THEN f.falls + 1 ELSE f.falls
    BY <2>5, <2>6, <2>7 DEF Least, falls
  <2>12. m.dealt \in Nat /\ f.dealt <= m.dealt
    <3>1. f.dealt \in Nat
      BY FieldParts
    <3> QED
      BY <2>4, <2>7, <3>1
  <2>13. Hit(p, f, ConvertDead(m)) /\ KeepsCharge(p, f, ConvertDead(m))
    BY <1>2, <2>6, <2>7, <2>9, <2>10, <2>11, <2>12, HurtOne
  <2> QED
    BY <2>3, <2>13
<1> QED
  BY <1>1, <1>2

LEMMA DamageTowerHits ==
  ASSUME NEW f, FieldOK(f), NEW p \in Players, NEW id, NEW base \in Nat, NEW kind
  PROVE  /\ Hit(p, f, DamageTower(f, p, id, base, kind))
         /\ KeepsCharge(p, f, DamageTower(f, p, id, base, kind))
<1> DEFINE o == Opponent(p)
           damage == Amplified(f.towers[o], Weakened(f.heroes[id], base, kind))
           tower == TakeDamage(f.towers[o], damage)
           falls == IF tower.hp = 0 THEN f.falls + 1 ELSE f.falls
           m == [f EXCEPT !.towers[o] = tower, !.dealt = @ + damage, !.falls = falls]
<1>1. CASE DamageTower(f, p, id, base, kind) = f
  BY <1>1, HitNothing
<1>2. CASE DamageTower(f, p, id, base, kind) # f
  <2>1. f.towers[o].hp # 0 /\ DamageTower(f, p, id, base, kind) = m
    BY <1>2 DEF DamageTower
  <2>2. damage \in Nat
    BY DamageType
  <2> HIDE DEF damage
  <2>3. LET towers == [f.towers EXCEPT ![o] = tower]
        IN  /\ TowersHurt(p, f.towers, towers) /\ towers[o] = tower
            /\ tower.hp \in Nat /\ f.towers[o].hp \in Nat
    BY <2>2, TakenDamage
  <2> HIDE DEF tower, falls
  <2>4. f \in [heroes : [DOMAIN f.heroes -> HeroRecords],
               towers : [Players -> [hp : 0..TowerMaxHp, vulnerable : Nat, weak : Nat]],
               dealt : Nat, falls : Nat]
    BY DEF FieldOK
  <2>5. ASSUME NEW x, x = m PROVE IsField(x)
    BY <2>4, <2>5 DEF IsField
  <2>6. /\ m.heroes = f.heroes /\ m.towers = [f.towers EXCEPT ![o] = tower]
        /\ m.dealt = f.dealt + damage /\ m.falls = falls
    BY <2>4
  <2>7. IsField(m)
    BY <2>5
  <2> HIDE DEF m
  <2>8. f.falls \in Nat /\ f.dealt \in Nat
    BY FieldParts
  <2>9. /\ falls \in Nat
        /\ falls = IF f.towers[o].hp > 0 /\ m.towers[o].hp = 0 THEN f.falls + 1 ELSE f.falls
    BY <2>1, <2>3, <2>6, <2>8 DEF falls
  <2>10. FieldOK(m)
    <3>1. m.heroes = [i \in DOMAIN m.heroes |-> m.heroes[i]] /\ \A i \in DOMAIN m.heroes : HeroOK(m.heroes[i])
      BY <2>6, FieldParts
    <3>2. m.towers \in [Players -> [hp : 0..TowerMaxHp, vulnerable : Nat, weak : Nat]]
      BY <2>3, <2>6 DEF TowersHurt
    <3>3. m.dealt \in Nat /\ m.falls \in Nat
      BY <2>2, <2>6, <2>8, <2>9
    <3> QED
      BY <2>7, <3>1, <3>2, <3>3, FieldFromParts
  <2>11. Hit(p, f, m)
    <3>1. Hit(p, f, f)
      BY HitNothing
    <3>2. TowersHit(p, f, m)
      BY <2>3, <2>6, <2>9 DEF TowersHit, TowersHurt
    <3>3. f.dealt <= m.dealt
      BY <2>2, <2>6, <2>8
    <3> QED
      BY <2>6, <2>10, <3>1, <3>2, <3>3 DEF Hit
  <2>12. KeepsCharge(p, f, m)
    BY <2>6 DEF KeepsCharge
  <2> QED
    BY <2>1, <2>11, <2>12
<1> QED
  BY <1>1, <1>2

\* One hero changes, nothing else does.
LEMMA OneHeroHit ==
  ASSUME NEW f, FieldOK(f), NEW p \in Players, NEW t \in DOMAIN f.heroes,
         NEW x, HeroOK(x), HeroHit(p, f.heroes[t], x)
  PROVE  /\ Hit(p, f, [f EXCEPT !.heroes[t] = x])
         /\ x.charge = f.heroes[t].charge => KeepsCharge(p, f, [f EXCEPT !.heroes[t] = x])
<1> SUFFICES ASSUME NEW m, m = [f EXCEPT !.heroes[t] = x]
             PROVE  Hit(p, f, m) /\ (x.charge = f.heroes[t].charge => KeepsCharge(p, f, m))
  OBVIOUS
<1>1. f \in [heroes : [DOMAIN f.heroes -> HeroRecords],
             towers : [Players -> [hp : 0..TowerMaxHp, vulnerable : Nat, weak : Nat]],
             dealt : Nat, falls : Nat]
  BY DEF FieldOK
<1>2. IsField(m)
  BY <1>1 DEF IsField
<1>3. /\ m.heroes = [f.heroes EXCEPT ![t] = x] /\ m.towers = f.towers
      /\ m.dealt = f.dealt /\ m.falls = f.falls
  BY <1>1
<1>4. /\ DOMAIN m.heroes = DOMAIN f.heroes /\ m.heroes[t] = x
      /\ \A i \in DOMAIN f.heroes \ {t} : m.heroes[i] = f.heroes[i]
      /\ m.heroes = [i \in DOMAIN m.heroes |-> m.heroes[i]]
  BY <1>3
<1>5. Hit(p, f, f)
  BY HitNothing
<1>6. FieldOK(m)
  <2>1. \A i \in DOMAIN m.heroes : HeroOK(m.heroes[i])
    BY <1>4, FieldParts
  <2>2. /\ m.towers \in [Players -> [hp : 0..TowerMaxHp, vulnerable : Nat, weak : Nat]]
        /\ m.dealt \in Nat /\ m.falls \in Nat
    BY <1>3, FieldParts
  <2> QED
    BY <1>2, <1>4, <2>1, <2>2, FieldFromParts
<1>7. \A i \in DOMAIN m.heroes : HeroHit(p, f.heroes[i], m.heroes[i])
  BY <1>4, <1>5 DEF Hit
<1>8. TowersHit(p, f, m) /\ f.dealt <= m.dealt
  BY <1>3, <1>5 DEF Hit, TowersHit
<1>9. Hit(p, f, m)
  BY <1>4, <1>5, <1>6, <1>7, <1>8 DEF Hit
<1>10. x.charge = f.heroes[t].charge => KeepsCharge(p, f, m)
  BY <1>4 DEF KeepsCharge, Living
<1> QED
  BY <1>3, <1>9, <1>10

\* What leaves class, value and place, and gives members of their types, gives
\* a hero.
IsHero(x) == x = [kind |-> x.kind, value |-> x.value, position |-> x.position, hp |-> x.hp,
                  shield |-> x.shield, vulnerable |-> x.vulnerable, weak |-> x.weak,
                  charge |-> x.charge]

LEMMA ChangedHero ==
  ASSUME NEW hero, HeroOK(hero), NEW x, IsHero(x), SameHero(hero, x),
         x.hp \in Nat \ {0}, x.hp <= MaxHp(hero.kind, hero.value),
         x.shield \in Nat, x.vulnerable \in Nat, x.weak \in Nat,
         x.charge \in Nat, x.charge <= ChargeLimit(hero.kind)
  PROVE  HeroOK(x)
<1>1. hero \in HeroRecords
  BY DEF HeroOK
<1>2. /\ x.kind = hero.kind /\ x.value = hero.value /\ x.position = hero.position
      /\ hero.kind \in Kinds /\ hero.value \in Nat \ {0} /\ hero.position \in Positions
  BY <1>1, HeroTypes DEF SameHero
<1>3. x \in HeroRecords
  BY <1>2 DEF HeroRecords, IsHero
<1> QED
  BY <1>2, <1>3 DEF HeroOK

\* A hero of the mover's, and what holds of it.
LEMMA OwnHero ==
  ASSUME NEW f, FieldOK(f), NEW p, NEW id \in Living(f, p)
  PROVE  LET hero == f.heroes[id]
         IN  /\ id \in DOMAIN f.heroes /\ PlayerIdForPosition(hero.position) = p
             /\ HeroOK(hero) /\ hero \in HeroRecords
             /\ hero.kind \in Kinds /\ hero.value \in Nat \ {0}
             /\ hero.hp \in Nat \ {0} /\ hero.shield \in Nat /\ hero.vulnerable \in Nat
             /\ hero.weak \in Nat /\ hero.charge \in Nat
             /\ MaxHp(hero.kind, hero.value) \in Nat \ {0}
             /\ hero.hp <= MaxHp(hero.kind, hero.value)
             /\ hero.charge <= ChargeLimit(hero.kind)
<1>1. id \in DOMAIN f.heroes /\ PlayerIdForPosition(f.heroes[id].position) = p
  BY DEF Living
<1>2. HeroOK(f.heroes[id]) /\ f.heroes[id] \in HeroRecords
  BY <1>1, FieldParts
<1> QED
  BY <1>1, <1>2, HeroTypes, MaxHpType DEF HeroOK

LEMMA HealHits ==
  ASSUME NEW f, FieldOK(f), NEW p \in Players, NEW id \in Living(f, p), NEW amount \in Nat
  PROVE  Hit(p, f, Heal(f, id, amount)) /\ KeepsCharge(p, f, Heal(f, id, amount))
<1> DEFINE hero == f.heroes[id]
           hp == hero.hp + Least(amount, MaxHp(hero.kind, hero.value) - hero.hp)
           x == [hero EXCEPT !.hp = hp]
<1>1. /\ id \in DOMAIN f.heroes /\ PlayerIdForPosition(hero.position) = p
      /\ HeroOK(hero) /\ hero \in HeroRecords
      /\ hero.hp \in Nat \ {0} /\ hero.shield \in Nat /\ hero.vulnerable \in Nat
      /\ hero.weak \in Nat /\ hero.charge \in Nat
      /\ MaxHp(hero.kind, hero.value) \in Nat \ {0}
      /\ hero.hp <= MaxHp(hero.kind, hero.value)
      /\ hero.charge <= ChargeLimit(hero.kind)
  BY OwnHero
<1>2. Heal(f, id, amount) = [f EXCEPT !.heroes[id] = x]
  BY DEF Heal
<1>3. hp \in Nat \ {0} /\ hp <= MaxHp(hero.kind, hero.value) /\ hp >= hero.hp
  BY <1>1 DEF Least
<1> HIDE DEF hp
<1>4. /\ IsHero(x) /\ SameHero(hero, x) /\ x.hp = hp /\ x.shield = hero.shield
      /\ x.vulnerable = hero.vulnerable /\ x.weak = hero.weak /\ x.charge = hero.charge
  BY <1>1 DEF HeroRecords, IsHero, SameHero
<1> HIDE DEF x
<1>5. HeroOK(x)
  BY <1>1, <1>3, <1>4, ChangedHero
<1>6. HeroHit(p, hero, x)
  BY <1>1, <1>3, <1>4 DEF HeroHit, Spared
<1> QED
  BY <1>1, <1>2, <1>4, <1>5, <1>6, OneHeroHit

LEMMA GainShieldHits ==
  ASSUME NEW f, FieldOK(f), NEW p \in Players, NEW id \in Living(f, p), NEW amount \in Nat
  PROVE  Hit(p, f, GainShield(f, id, amount)) /\ KeepsCharge(p, f, GainShield(f, id, amount))
<1> DEFINE hero == f.heroes[id]
           shield == hero.shield + amount
           x == [hero EXCEPT !.shield = shield]
<1>1. /\ id \in DOMAIN f.heroes /\ PlayerIdForPosition(hero.position) = p
      /\ HeroOK(hero) /\ hero \in HeroRecords
      /\ hero.hp \in Nat \ {0} /\ hero.shield \in Nat /\ hero.vulnerable \in Nat
      /\ hero.weak \in Nat /\ hero.charge \in Nat
      /\ hero.hp <= MaxHp(hero.kind, hero.value)
      /\ hero.charge <= ChargeLimit(hero.kind)
  BY OwnHero
<1>2. GainShield(f, id, amount) = [f EXCEPT !.heroes[id] = x]
  BY DEF GainShield
<1>3. shield \in Nat /\ shield >= hero.shield
  BY <1>1
<1> HIDE DEF shield
<1>4. /\ IsHero(x) /\ SameHero(hero, x) /\ x.hp = hero.hp /\ x.shield = shield
      /\ x.vulnerable = hero.vulnerable /\ x.weak = hero.weak /\ x.charge = hero.charge
  BY <1>1 DEF HeroRecords, IsHero, SameHero
<1> HIDE DEF x
<1>5. HeroOK(x)
  BY <1>1, <1>3, <1>4, ChangedHero
<1>6. HeroHit(p, hero, x)
  BY <1>1, <1>3, <1>4 DEF HeroHit, Spared
<1> QED
  BY <1>1, <1>2, <1>4, <1>5, <1>6, OneHeroHit

\* Spending or gaining stars and orbs, within the limits of the class.
LEMMA AddChargeHits ==
  ASSUME NEW f, FieldOK(f), NEW p \in Players, NEW id \in Living(f, p), NEW amount \in Int,
         f.heroes[id].charge + amount \in 0..ChargeLimit(f.heroes[id].kind)
  PROVE  Hit(p, f, AddCharge(f, id, amount))
<1> DEFINE hero == f.heroes[id]
           charge == hero.charge + amount
           x == [hero EXCEPT !.charge = charge]
<1>1. /\ id \in DOMAIN f.heroes /\ PlayerIdForPosition(hero.position) = p
      /\ HeroOK(hero) /\ hero \in HeroRecords
      /\ hero.hp \in Nat \ {0} /\ hero.shield \in Nat /\ hero.vulnerable \in Nat
      /\ hero.weak \in Nat /\ hero.charge \in Nat
      /\ hero.hp <= MaxHp(hero.kind, hero.value)
  BY OwnHero
<1>2. AddCharge(f, id, amount) = [f EXCEPT !.heroes[id] = x]
  BY DEF AddCharge
<1>3. charge \in Nat /\ charge <= ChargeLimit(hero.kind)
  BY <1>1 DEF ChargeLimit
<1> HIDE DEF charge
<1>4. /\ IsHero(x) /\ SameHero(hero, x) /\ x.hp = hero.hp /\ x.shield = hero.shield
      /\ x.vulnerable = hero.vulnerable /\ x.weak = hero.weak /\ x.charge = charge
  BY <1>1 DEF HeroRecords, IsHero, SameHero
<1> HIDE DEF x
<1>5. HeroOK(x)
  BY <1>1, <1>3, <1>4, ChangedHero
<1>6. HeroHit(p, hero, x)
  BY <1>1, <1>4 DEF HeroHit, Spared
<1> QED
  BY <1>1, <1>2, <1>4, <1>5, <1>6, OneHeroHit

\* Layers of weakness come in twos.
LEMMA ApplyDebuffHits ==
  ASSUME NEW f, FieldOK(f), NEW p \in Players, NEW id, NEW target,
         NEW vulnerable \in Nat, NEW weak \in Nat, weak # 1
  PROVE  /\ Hit(p, f, ApplyDebuff(f, p, id, target, vulnerable, weak))
         /\ KeepsCharge(p, f, ApplyDebuff(f, p, id, target, vulnerable, weak))
<1> DEFINE o == Opponent(p)
           m == ApplyDebuff(f, p, id, target, vulnerable, weak)
<1>1. CASE target \in Living(f, o) /\ id \in Living(f, p)
  <2> DEFINE hero == f.heroes[target]
             v == hero.vulnerable + vulnerable
             w == hero.weak + weak
             x == AddLayers(hero, vulnerable, weak)
  <2>1. /\ target \in DOMAIN f.heroes /\ PlayerIdForPosition(hero.position) = o
        /\ HeroOK(hero) /\ hero \in HeroRecords
        /\ hero.hp \in Nat \ {0} /\ hero.shield \in Nat /\ hero.vulnerable \in Nat
        /\ hero.weak \in Nat /\ hero.charge \in Nat
        /\ hero.hp <= MaxHp(hero.kind, hero.value)
        /\ hero.charge <= ChargeLimit(hero.kind)
    BY <1>1, OwnHero
  <2>2. m = [f EXCEPT !.heroes[target] = x]
    BY <1>1 DEF ApplyDebuff
  <2>3. v \in Nat /\ w \in Nat /\ (w = hero.weak \/ w >= hero.weak + 2)
    BY <2>1
  <2>4. x = [hero EXCEPT !.vulnerable = v, !.weak = w]
    BY DEF AddLayers
  <2> HIDE DEF v, w, x
  <2>5. /\ IsHero(x) /\ SameHero(hero, x) /\ x.hp = hero.hp /\ x.shield = hero.shield
        /\ x.vulnerable = v /\ x.weak = w /\ x.charge = hero.charge
    BY <2>1, <2>4 DEF HeroRecords, IsHero, SameHero
  <2>6. HeroOK(x)
    BY <2>1, <2>3, <2>5, ChangedHero
  <2>7. HeroHit(p, hero, x)
    BY <2>1, <2>3, <2>5, OpponentType DEF HeroHit
  <2> HIDE DEF m
  <2>8. Hit(p, f, m) /\ KeepsCharge(p, f, m)
    BY <2>1, <2>2, <2>5, <2>6, <2>7, OneHeroHit
  <2> QED
    BY <2>8 DEF m
<1>2. CASE m = f
  BY <1>2, HitNothing
<1>3. CASE m # f /\ ~(target \in Living(f, o) /\ id \in Living(f, p))
  <2> DEFINE tower == AddLayers(f.towers[o], vulnerable, weak)
  <2>1. m = [f EXCEPT !.towers[o] = tower]
    BY <1>3 DEF ApplyDebuff
  <2>2. /\ f.towers[o] \in [hp : 0..TowerMaxHp, vulnerable : Nat, weak : Nat]
        /\ o \in Players /\ o # p /\ f.towers[o].hp \in Nat
        /\ f.towers[o].vulnerable \in Nat /\ f.towers[o].weak \in Nat
    BY OpponentType, TowerTypes
  <2>3. /\ tower \in [hp : 0..TowerMaxHp, vulnerable : Nat, weak : Nat]
        /\ tower.hp = f.towers[o].hp
    <3>1. ASSUME NEW x \in [hp : 0..TowerMaxHp, vulnerable : Nat, weak : Nat],
                 NEW y, y = AddLayers(x, vulnerable, weak)
          PROVE  y \in [hp : 0..TowerMaxHp, vulnerable : Nat, weak : Nat] /\ y.hp = x.hp
      <4>1. x.vulnerable + vulnerable \in Nat /\ x.weak + weak \in Nat
        OBVIOUS
      <4>2. y = [hp |-> x.hp, vulnerable |-> x.vulnerable + vulnerable, weak |-> x.weak + weak]
        BY <3>1 DEF AddLayers
      <4> QED
        BY <4>1, <4>2
    <3> QED
      BY <2>2, <3>1
  <2> HIDE DEF tower
  <2>4. f \in [heroes : [DOMAIN f.heroes -> HeroRecords],
               towers : [Players -> [hp : 0..TowerMaxHp, vulnerable : Nat, weak : Nat]],
               dealt : Nat, falls : Nat]
    BY DEF FieldOK
  <2> HIDE DEF m
  <2>5. IsField(m)
    BY <2>1, <2>4 DEF IsField
  <2>6. /\ m.heroes = f.heroes /\ m.towers = [f.towers EXCEPT ![o] = tower]
        /\ m.dealt = f.dealt /\ m.falls = f.falls
    BY <2>1, <2>4
  <2>7. /\ m.towers \in [Players -> [hp : 0..TowerMaxHp, vulnerable : Nat, weak : Nat]]
        /\ m.towers[p] = f.towers[p] /\ m.towers[o].hp = f.towers[o].hp
    BY <2>2, <2>3, <2>4, <2>6
  <2>8. FieldOK(m)
    <3>1. m.heroes = [i \in DOMAIN m.heroes |-> m.heroes[i]] /\ \A i \in DOMAIN m.heroes : HeroOK(m.heroes[i])
      BY <2>6, FieldParts
    <3>2. m.dealt \in Nat /\ m.falls \in Nat
      BY <2>6, FieldParts
    <3> QED
      BY <2>5, <2>7, <3>1, <3>2, FieldFromParts
  <2>9. Hit(p, f, f)
    BY HitNothing
  <2>10. TowersHit(p, f, m)
    BY <2>2, <2>6, <2>7 DEF TowersHit
  <2>11. Hit(p, f, m)
    BY <2>6, <2>8, <2>9, <2>10 DEF Hit
  <2>12. KeepsCharge(p, f, m)
    BY <2>6 DEF KeepsCharge
  <2> QED
    BY <2>11, <2>12 DEF m
<1> QED
  BY <1>1, <1>2, <1>3

-----------------------------------------------------------------------------
(* An attack, and a bolt.                                                  *)

LEMMA NormalAttackHits ==
  ASSUME NEW f, FieldOK(f), NEW p \in Players, NEW id, NEW base \in Nat,
         NEW vulnerable \in Nat, NEW weak \in Nat, weak # 1,
         f.towers[Opponent(p)].hp > 0
  PROVE  LET g == NormalAttack(f, p, id, base, vulnerable, weak)
         IN  Hit(p, f, g) /\ KeepsCharge(p, f, g)
<1> DEFINE target == FirstEnemy(f, p)
           h == DamageHero(f, p, id, target, base, "NormalAttack")
           g == NormalAttack(f, p, id, base, vulnerable, weak)
<1>1. CASE Living(f, Opponent(p)) = {}
  BY <1>1, DamageTowerHits DEF NormalAttack
<1>2. CASE Living(f, Opponent(p)) # {}
  <2>1. g = ApplyDebuff(h, p, id, target, vulnerable, weak)
    BY <1>2 DEF NormalAttack
  <2>2. Hit(p, f, h) /\ KeepsCharge(p, f, h)
    BY DamageHeroHits
  <2>3. FieldOK(h)
    BY <2>2 DEF Hit
  <2> HIDE DEF h, g, target
  <2>4. Hit(p, h, g) /\ KeepsCharge(p, h, g)
    BY <2>1, <2>3, ApplyDebuffHits
  <2>5. Hit(p, f, g)
    BY <2>2, <2>4, HitsCompose
  <2>6. KeepsCharge(p, f, g)
    <3>1. Living(h, p) = Living(f, p)
      BY <2>2, HitLiving
    <3> QED
      BY <2>2, <2>4, <3>1 DEF KeepsCharge
  <2> QED
    BY <2>5, <2>6 DEF g
<1> QED
  BY <1>1, <1>2

\* Whatever the class, an attack is a hit; a charged pot's leaves its charge.
LEMMA PerformAttackHits ==
  ASSUME NEW f, FieldOK(f), NEW p \in Players, NEW id \in Living(f, p),
         f.towers[Opponent(p)].hp > 0
  PROVE  /\ Hit(p, f, PerformAttack(f, p, id))
         /\ Charged(f, id) => KeepsCharge(p, f, PerformAttack(f, p, id))
<1> DEFINE hero == f.heroes[id]
           value == hero.value
<1>1. /\ hero.kind \in Kinds /\ value \in Nat \ {0} /\ hero.charge \in Nat
      /\ hero.charge <= ChargeLimit(hero.kind)
  BY OwnHero
<1>2. /\ 14 * value \in Nat /\ 12 * value \in Nat /\ 8 * value \in Nat
      /\ 6 * value \in Nat /\ 5 * value \in Nat /\ 2 * value \in Nat
  BY <1>1
\* What follows the normal attack starts from a field of which it still holds.
<1>3. ASSUME NEW g, Hit(p, f, g) /\ KeepsCharge(p, f, g)
      PROVE  /\ FieldOK(g) /\ id \in Living(g, p)
             /\ g.heroes[id].kind = hero.kind /\ g.heroes[id].charge = hero.charge
             /\ \A h : Hit(p, g, h) => Hit(p, f, h)
             /\ \A h : KeepsCharge(p, g, h) => KeepsCharge(p, f, h)
  <2>1. Living(g, p) = Living(f, p) /\ FieldOK(g)
    BY <1>3, HitLiving DEF Hit
  <2>2. id \in DOMAIN g.heroes
    BY <2>1 DEF Living
  <2>3. g.heroes[id].kind = hero.kind
    BY <1>3, <2>2 DEF Hit, HeroHit, SameHero
  <2>4. g.heroes[id].charge = hero.charge
    BY <1>3 DEF KeepsCharge
  <2>5. \A h : Hit(p, g, h) => Hit(p, f, h)
    BY <1>3, HitsCompose
  <2>6. \A h : KeepsCharge(p, g, h) => KeepsCharge(p, f, h)
    BY <1>3, <2>1 DEF KeepsCharge
  <2> QED
    BY <2>1, <2>3, <2>4, <2>5, <2>6
<1>4. CASE hero.kind = "IronFighter"
  <2> DEFINE g == NormalAttack(f, p, id, 14 * value, 3, 0)
  <2>1. PerformAttack(f, p, id) = Heal(g, id, 2 * value)
    BY <1>4 DEF PerformAttack
  <2>2. Hit(p, f, g) /\ KeepsCharge(p, f, g)
    BY <1>2, NormalAttackHits
  <2> HIDE DEF g
  <2>3. Hit(p, g, Heal(g, id, 2 * value))
    BY <1>2, <1>3, <2>2, HealHits
  <2>4. ~Charged(f, id)
    BY <1>4 DEF Charged
  <2> QED
    BY <1>3, <2>1, <2>2, <2>3, <2>4
<1>5. CASE hero.kind = "SilentHunter"
  <2> DEFINE g == NormalAttack(f, p, id, 12 * value, 0, 2)
  <2>1. PerformAttack(f, p, id) = GainShield(g, id, 8 * value)
    BY <1>5 DEF PerformAttack
  <2>2. Hit(p, f, g) /\ KeepsCharge(p, f, g)
    BY <1>2, NormalAttackHits
  <2> HIDE DEF g
  <2>3. Hit(p, g, GainShield(g, id, 8 * value))
    BY <1>2, <1>3, <2>2, GainShieldHits
  <2>4. ~Charged(f, id)
    BY <1>5 DEF Charged
  <2> QED
    BY <1>3, <2>1, <2>2, <2>3, <2>4
<1>6. CASE hero.kind = "Regent" /\ hero.charge >= 2
  <2> DEFINE g == NormalAttack(f, p, id, 14 * value, 1, 2)
  <2>1. PerformAttack(f, p, id) = AddCharge(g, id, -2)
    <3>1. hero.kind = "Regent" /\ hero.charge >= 2 /\ ~(hero.charge < 2)
      BY <1>1, <1>6
    <3> QED
      BY <3>1 DEF PerformAttack
  <2>2. Hit(p, f, g) /\ KeepsCharge(p, f, g)
    BY <1>2, NormalAttackHits
  <2> HIDE DEF g
  <2>3. hero.charge + (-2) \in 0..ChargeLimit(hero.kind)
    BY <1>1, <1>6 DEF ChargeLimit
  <2>4. Hit(p, g, AddCharge(g, id, -2))
    BY <1>3, <2>2, <2>3, AddChargeHits
  <2>5. ~Charged(f, id)
    BY <1>6 DEF Charged
  <2> QED
    BY <1>3, <2>1, <2>2, <2>4, <2>5
<1>7. ASSUME NEW limit \in Nat, limit = ChargeLimit(hero.kind), NEW amount \in Nat,
             hero.charge + amount <= limit,
             PerformAttack(f, p, id)
               = AddCharge(GainShield(NormalAttack(f, p, id, 6 * value, 0, 0), id, 5 * value),
                           id, amount)
      PROVE  Hit(p, f, PerformAttack(f, p, id))
  <2> DEFINE g == NormalAttack(f, p, id, 6 * value, 0, 0)
             h == GainShield(g, id, 5 * value)
  <2>1. Hit(p, f, g) /\ KeepsCharge(p, f, g)
    BY <1>2, NormalAttackHits
  <2>2. PerformAttack(f, p, id) = AddCharge(h, id, amount)
    BY <1>7
  <2> HIDE DEF g
  <2>3. Hit(p, g, h) /\ KeepsCharge(p, g, h)
    BY <1>2, <1>3, <2>1, GainShieldHits
  <2> HIDE DEF h
  <2>4. Hit(p, f, h) /\ KeepsCharge(p, f, h)
    BY <1>3, <2>1, <2>3
  <2>5. Hit(p, h, AddCharge(h, id, amount))
    <3>1. FieldOK(h) /\ id \in Living(h, p)
          /\ h.heroes[id].kind = hero.kind /\ h.heroes[id].charge = hero.charge
      BY <1>3, <2>4
    <3>2. hero.charge + amount \in 0..ChargeLimit(hero.kind)
      BY <1>1, <1>7
    <3> QED
      BY <3>1, <3>2, AddChargeHits
  <2> QED
    BY <1>3, <2>2, <2>4, <2>5
<1>8. CASE hero.kind = "Regent" /\ hero.charge < 2
  <2>1. ~Charged(f, id) /\ 4 = ChargeLimit(hero.kind) /\ hero.charge + 3 <= 4
    BY <1>1, <1>8 DEF Charged, ChargeLimit
  <2>2. PerformAttack(f, p, id)
          = AddCharge(GainShield(NormalAttack(f, p, id, 6 * value, 0, 0), id, 5 * value), id, 3)
    BY <1>8 DEF PerformAttack
  <2> QED
    BY <1>7, <2>1, <2>2
<1>9. CASE hero.kind = "ChickenPot" /\ hero.charge = 0
  <2>1. ~Charged(f, id) /\ 1 = ChargeLimit(hero.kind) /\ hero.charge + 1 <= 1
    BY <1>9 DEF Charged, ChargeLimit
  <2>2. PerformAttack(f, p, id)
          = AddCharge(GainShield(NormalAttack(f, p, id, 6 * value, 0, 0), id, 5 * value), id, 1)
    BY <1>9 DEF PerformAttack
  <2> QED
    BY <1>7, <2>1, <2>2
<1>10. CASE hero.kind = "ChickenPot" /\ hero.charge > 0
  <2>1. PerformAttack(f, p, id) = NormalAttack(f, p, id, 6 * value, 0, 0)
    BY <1>10 DEF PerformAttack
  <2> QED
    BY <1>2, <2>1, NormalAttackHits
<1>11. \/ hero.kind = "IronFighter" \/ hero.kind = "SilentHunter"
       \/ hero.kind = "Regent" /\ (hero.charge >= 2 \/ hero.charge < 2)
       \/ hero.kind = "ChickenPot" /\ (hero.charge = 0 \/ hero.charge > 0)
  <2>1. hero.kind \in {"IronFighter", "SilentHunter", "Regent", "ChickenPot"}
    BY <1>1, KindsAssumption
  <2>2. (hero.charge >= 2 \/ hero.charge < 2) /\ (hero.charge = 0 \/ hero.charge > 0)
    BY <1>1
  <2> QED
    BY <2>1, <2>2
<1> QED
  BY <1>4, <1>5, <1>6, <1>8, <1>9, <1>10, <1>11

LEMMA LightningHits ==
  ASSUME NEW f, FieldOK(f), NEW p \in Players, NEW id \in Living(f, p), NEW target,
         f.towers[Opponent(p)].hp > 0
  PROVE  Hit(p, f, Lightning(f, p, id, target)) /\ KeepsCharge(p, f, Lightning(f, p, id, target))
<1>1. 8 * f.heroes[id].value \in Nat
  BY OwnHero
<1> QED
  BY <1>1, DamageTowerHits, DamageHeroHits DEF Lightning

-----------------------------------------------------------------------------
(* The order of attack.                                                    *)

\* Of two rows, the cells of the one come before those of the other.
LEMMA RowFirst ==
  ASSUME NEW r \in Nat, NEW s \in Nat, r < s, NEW c \in 0..Columns - 1, NEW d \in 0..Columns - 1
  PROVE  r * Columns + c < s * Columns + d
<1>1. Columns \in Nat /\ Columns > 0
  BY ColumnsAssumption
<1>2. PICK k \in Nat : s = r + 1 + k
  <2>1. s - r - 1 \in Nat /\ s = r + 1 + (s - r - 1)
    OBVIOUS
  <2> QED
    BY <2>1
<1>3. /\ r * Columns \in Nat /\ k * Columns \in Nat
      /\ (r + 1 + k) * Columns = r * Columns + Columns + k * Columns
  BY <1>1
<1> QED
  BY <1>1, <1>2, <1>3

\* Cells are ordered one after another, by both players in opposite ways.
LEMMA BeforeOrders ==
  ASSUME NEW p \in Players, NEW a \in Positions, NEW b \in Positions
  PROVE  /\ Index(a) \in Nat
         /\ Index(a) = Index(b) => a = b
         /\ ~Before(p, a, a)
         /\ a # b => Before(p, a, b) \/ Before(p, b, a)
         /\ \A c \in Positions : Before(p, a, b) /\ Before(p, b, c) => Before(p, a, c)
<1>1. /\ Row(a) \in Nat /\ Row(b) \in Nat
      /\ Column(a) \in 0..Columns - 1 /\ Column(b) \in 0..Columns - 1
      /\ a = <<Row(a), Column(a)>> /\ b = <<Row(b), Column(b)>>
      /\ Columns \in Nat
  BY PositionParts, RowsAssumption, ColumnsAssumption
<1>2. \A c \in Positions : Index(c) \in Nat
  <2> SUFFICES ASSUME NEW c \in Positions PROVE Index(c) \in Nat
    OBVIOUS
  <2>1. Row(c) \in Nat /\ Column(c) \in Nat
    BY PositionParts, RowsAssumption, ColumnsAssumption
  <2>2. Row(c) * Columns \in Nat
    BY <1>1, <2>1
  <2> QED
    BY <2>1, <2>2 DEF Index
<1>3. Index(a) = Index(b) => a = b
  <2>1. Row(a) < Row(b) => Index(a) < Index(b)
    BY <1>1, RowFirst DEF Index
  <2>2. Row(b) < Row(a) => Index(b) < Index(a)
    BY <1>1, RowFirst DEF Index
  <2>3. Row(a) = Row(b) /\ Index(a) = Index(b) => Column(a) = Column(b)
    <3>1. Row(a) * Columns \in Int
      BY <1>1
    <3> QED
      BY <1>1, <3>1 DEF Index
  <2>4. Index(a) \in Nat /\ Index(b) \in Nat
    BY <1>2
  <2> QED
    BY <1>1, <2>1, <2>2, <2>3, <2>4
<1> QED
  BY <1>2, <1>3 DEF Before

\* The number of those that stand before id.
Rank(p, place, id) == Cardinality({other \in DOMAIN place : Before(p, place[other], place[id])})

\* Distinct places are ranked 0, 1, ... without a gap.
LEMMA RanksCount ==
  ASSUME NEW p \in Players, NEW S, IsFiniteSet(S), NEW place \in [S -> Positions],
         \A a, b \in S : place[a] = place[b] => a = b
  PROVE  /\ \A a \in S : Rank(p, place, a) \in 0..Cardinality(S) - 1
         /\ \A a, b \in S : Before(p, place[a], place[b]) => Rank(p, place, a) < Rank(p, place, b)
         /\ \A i \in 0..Cardinality(S) - 1 : \E a \in S : Rank(p, place, a) = i
<1> DEFINE n == Cardinality(S)
           Earlier(a) == {other \in S : Before(p, place[other], place[a])}
<1>1. n \in Nat /\ DOMAIN place = S /\ \A a \in S : Rank(p, place, a) = Cardinality(Earlier(a))
  BY FS_CardinalityType DEF Rank
<1>2. ASSUME NEW a \in S
      PROVE  /\ IsFiniteSet(Earlier(a)) /\ Cardinality(Earlier(a)) \in Nat
             /\ Cardinality(Earlier(a)) < n
  <2>1. Earlier(a) \in SUBSET S /\ a \notin Earlier(a)
    BY <1>2, BeforeOrders
  <2> HIDE DEF Earlier
  <2>2. IsFiniteSet(Earlier(a)) /\ Cardinality(Earlier(a)) <= n /\ Cardinality(Earlier(a)) # n
    BY <1>2, <2>1, FS_Subset
  <2> QED
    BY <1>1, <2>2, FS_CardinalityType
<1>3. ASSUME NEW a \in S, NEW b \in S, Before(p, place[a], place[b])
      PROVE  Cardinality(Earlier(a)) < Cardinality(Earlier(b))
  <2>1. Earlier(a) \in SUBSET Earlier(b) /\ a \in Earlier(b) /\ a \notin Earlier(a)
    BY <1>3, BeforeOrders
  <2>2. IsFiniteSet(Earlier(b))
    BY <1>2
  <2>3. Cardinality(Earlier(a)) \in Nat /\ Cardinality(Earlier(b)) \in Nat
    BY <1>2
  <2> HIDE DEF Earlier
  <2>4. /\ Cardinality(Earlier(a)) <= Cardinality(Earlier(b))
        /\ Cardinality(Earlier(a)) # Cardinality(Earlier(b))
    BY <2>1, <2>2, FS_Subset
  <2> QED
    BY <2>3, <2>4
<1>4. ASSUME NEW a \in S, NEW b \in S, a # b
      PROVE  Cardinality(Earlier(a)) # Cardinality(Earlier(b))
  <2>1. Before(p, place[a], place[b]) \/ Before(p, place[b], place[a])
    BY <1>4, BeforeOrders
  <2> HIDE DEF Earlier
  <2> QED
    BY <1>2, <1>3, <2>1
<1>5. ASSUME NEW i \in 0..n - 1
      PROVE  \E a \in S : Cardinality(Earlier(a)) = i
  <2> DEFINE T == 0..n - 1
             f == [a \in S |-> Cardinality(Earlier(a))]
  <2> HIDE DEF Earlier
  <2>1. IsFiniteSet(T) /\ Cardinality(T) = n
    BY <1>1, FS_Interval
  <2>2. \A a \in S : f[a] \in T
    BY <1>1, <1>2
  <2>3. f \in Injection(S, T)
    <3>1. f \in [S -> T] /\ \A a, b \in S : f[a] = f[b] => a = b
      BY <1>4, <2>2
    <3> HIDE DEF f, T
    <3> QED
      BY <3>1 DEF Injection, IsInjective
  <2> HIDE DEF f, T
  <2>4. f \in Surjection(S, T)
    BY <2>1, <2>3, FS_Injection
  <2>5. i \in T
    BY <1>5 DEF T
  <2>6. PICK a \in S : f[a] = i
    BY <2>4, <2>5 DEF Surjection
  <2> QED
    BY <2>6 DEF f
<1> HIDE DEF Earlier
<1> QED
  BY <1>1, <1>2, <1>3, <1>5

\* So the order lists each once, from the first to the last.
LEMMA OrderedLists ==
  ASSUME NEW p \in Players, NEW S, IsFiniteSet(S), NEW place \in [S -> Positions],
         \A a, b \in S : place[a] = place[b] => a = b
  PROVE  /\ Ordered(p, place) \in Seq(S) /\ Len(Ordered(p, place)) = Cardinality(S)
         /\ \A a \in S : \E i \in 1..Cardinality(S) : Ordered(p, place)[i] = a
         /\ \A i, j \in 1..Cardinality(S) :
              i < j => Before(p, place[Ordered(p, place)[i]], place[Ordered(p, place)[j]])
<1> DEFINE n == Cardinality(S)
           t == Ordered(p, place)
<1>1. n \in Nat /\ DOMAIN place = S
  BY FS_CardinalityType
<1>2. /\ t = [i \in 1..n |-> CHOOSE id \in S : Rank(p, place, id) = i - 1]
  BY <1>1 DEF Ordered, Rank
<1>3. ASSUME NEW i \in 1..n
      PROVE  t[i] \in S /\ Rank(p, place, t[i]) = i - 1
  <2>1. i - 1 \in 0..n - 1
    BY <1>1
  <2>2. \E a \in S : Rank(p, place, a) = i - 1
    BY <2>1, RanksCount
  <2>3. t[i] = CHOOSE id \in S : Rank(p, place, id) = i - 1
    BY <1>2
  <2> HIDE DEF t
  <2> QED
    BY <2>2, <2>3
<1>4. t \in [1..n -> S]
  BY <1>2, <1>3
<1> HIDE DEF t, n
<1>5. t \in Seq(S) /\ Len(t) = n
  BY <1>1, <1>4
<1>6. ASSUME NEW a \in S
      PROVE  \E i \in 1..n : t[i] = a
  <2> DEFINE i == Rank(p, place, a) + 1
  <2>1. i \in 1..n /\ Rank(p, place, a) \in Nat
    BY <1>1, RanksCount DEF n
  <2>2. t[i] \in S /\ Rank(p, place, t[i]) = Rank(p, place, a)
    BY <1>1, <1>3, <2>1
  <2>3. t[i] = a
    <3> HIDE DEF i
    <3>1. ~Before(p, place[t[i]], place[a]) /\ ~Before(p, place[a], place[t[i]])
      BY <2>1, <2>2, RanksCount
    <3> QED
      BY <2>2, <3>1, BeforeOrders
  <2> QED
    BY <2>1, <2>3
<1>7. ASSUME NEW i \in 1..n, NEW j \in 1..n, i < j
      PROVE  Before(p, place[t[i]], place[t[j]])
  <2>1. /\ t[i] \in S /\ t[j] \in S
        /\ Rank(p, place, t[i]) = i - 1 /\ Rank(p, place, t[j]) = j - 1
    BY <1>3
  <2>2. ~(Rank(p, place, t[j]) < Rank(p, place, t[i])) /\ t[i] # t[j]
    BY <1>1, <1>7, <2>1
  <2>3. place[t[i]] # place[t[j]] /\ ~Before(p, place[t[j]], place[t[i]])
    BY <2>1, <2>2, RanksCount
  <2> QED
    BY <2>1, <2>3, BeforeOrders
<1> QED
  BY <1>5, <1>6, <1>7 DEF t, n

\* Heroes that stand apart are lined up one after another, each once.
LEMMA InOrderLists ==
  ASSUME NEW f, FieldOK(f), NEW n \in Nat, DOMAIN f.heroes \subseteq 1..n,
         \A a, b \in DOMAIN f.heroes : f.heroes[a].position = f.heroes[b].position => a = b,
         NEW p \in Players, NEW ids, ids \subseteq DOMAIN f.heroes
  PROVE  /\ InOrder(f, p, ids) \in Seq(ids) /\ Len(InOrder(f, p, ids)) = Cardinality(ids)
         /\ Cardinality(ids) \in Nat /\ ids # {} => Cardinality(ids) # 0
<1> DEFINE place == [id \in ids |-> f.heroes[id].position]
<1>1. IsFiniteSet(1..n)
  BY FS_Interval
<1>2. IsFiniteSet(ids)
  <2>1. ids \in SUBSET (1..n)
    OBVIOUS
  <2> QED
    BY <1>1, <2>1, FS_Subset
<1>3. place \in [ids -> Positions]
  BY FieldParts, HeroTypes
<1>4. \A a, b \in ids : place[a] = place[b] => a = b
  OBVIOUS
<1>5. InOrder(f, p, ids) = Ordered(p, place)
  BY DEF InOrder
<1>6. Cardinality(ids) \in Nat /\ (ids # {} => Cardinality(ids) # 0)
  BY <1>2, FS_CardinalityType, FS_EmptySet
<1> HIDE DEF place
<1> QED
  BY <1>2, <1>3, <1>4, <1>5, <1>6, OrderedLists

\* The first enemy is one.
LEMMA FirstEnemyLives ==
  ASSUME NEW f, FieldOK(f), NEW n \in Nat, DOMAIN f.heroes \subseteq 1..n,
         \A a, b \in DOMAIN f.heroes : f.heroes[a].position = f.heroes[b].position => a = b,
         NEW p \in Players, Living(f, Opponent(p)) # {}
  PROVE  FirstEnemy(f, p) \in Living(f, Opponent(p))
<1> DEFINE enemies == Living(f, Opponent(p))
           t == InOrder(f, p, enemies)
<1>1. enemies \subseteq DOMAIN f.heroes /\ enemies # {}
  BY DEF Living
<1> HIDE DEF enemies
<1>2. t \in Seq(enemies) /\ Len(t) \in Nat /\ Len(t) # 0
  BY <1>1, InOrderLists
<1>3. FirstEnemy(f, p) = t[1]
  BY DEF FirstEnemy, enemies
<1> HIDE DEF t
<1>4. t[1] \in enemies
  BY <1>2
<1> QED
  BY <1>3, <1>4 DEF enemies

\* A hit leaves the order of the attackers as it is.
LEMMA OrderStays ==
  ASSUME NEW f, NEW g, NEW p, Living(g, p) = Living(f, p),
         \A i \in Living(f, p) : g.heroes[i].position = f.heroes[i].position
  PROVE  CollectAttackers(g, p) = CollectAttackers(f, p)
<1>1. [i \in Living(g, p) |-> g.heroes[i].position] = [i \in Living(f, p) |-> f.heroes[i].position]
  OBVIOUS
<1> QED
  BY <1>1 DEF CollectAttackers, InOrder

\* Rounded, a positive damage stays positive.
LEMMA DamageCounts ==
  ASSUME NEW attacker, NEW target, NEW base \in Nat \ {0}, NEW kind
  PROVE  Amplified(target, Weakened(attacker, base, kind)) \in Nat \ {0}
<1>1. ASSUME NEW k \in Nat \ {0}
      PROVE  RoundRatio(k, 3, 4) \in Nat \ {0} /\ RoundRatio(k, 3, 2) \in Nat \ {0}
  BY DEF RoundRatio
<1>2. Weakened(attacker, base, kind) \in Nat \ {0}
  BY <1>1 DEF Weakened
<1> QED
  BY <1>1, <1>2 DEF Amplified

\* Of a hero hit, and of a tower hit, some damage is announced.
LEMMA HeroDamageCounts ==
  ASSUME NEW f, FieldOK(f), NEW p \in Players, NEW id \in Living(f, p),
         NEW target \in Living(f, Opponent(p)), NEW base \in Nat, NEW kind
  PROVE  DamageHero(f, p, id, target, base, kind).dealt > f.dealt
<1> DEFINE victim   == f.heroes[target]
           damage   == Greatest(1, Amplified(victim, Weakened(f.heroes[id], base, kind)))
           absorbed == Least(victim.shield, damage)
           lost     == Least(victim.hp, damage - absorbed)
           overflow == damage - absorbed - lost
           tower    == TakeDamage(f.towers[Opponent(p)], overflow)
           falls    == IF overflow > 0 /\ tower.hp = 0 THEN f.falls + 1 ELSE f.falls
           m == [f EXCEPT !.heroes[target].shield = @ - absorbed,
                          !.heroes[target].hp = @ - lost,
                          !.towers[Opponent(p)] = tower,
                          !.dealt = @ + damage,
                          !.falls = falls]
<1>1. DamageHero(f, p, id, target, base, kind) = ConvertDead(m)
  BY DEF DamageHero
<1>2. damage \in Nat /\ damage > 0
  BY DamageType DEF Greatest
<1> HIDE DEF damage, absorbed, lost, overflow, tower, falls
<1>3. f \in [heroes : [DOMAIN f.heroes -> HeroRecords],
             towers : [Players -> [hp : 0..TowerMaxHp, vulnerable : Nat, weak : Nat]],
             dealt : Nat, falls : Nat]
  BY DEF FieldOK
<1>4. ASSUME NEW x, x = m PROVE IsField(x)
  BY <1>3, <1>4 DEF IsField
<1>5. IsField(m)
  BY <1>4
<1>6. m.dealt = f.dealt + damage /\ f.dealt \in Nat
  BY <1>3
<1> HIDE DEF m
<1>7. ConvertDead(m).dealt = m.dealt
  BY <1>5, ConvertDeadShape
<1> QED
  BY <1>1, <1>2, <1>6, <1>7

LEMMA TowerDamageCounts ==
  ASSUME NEW f, FieldOK(f), NEW p \in Players, NEW id \in Living(f, p),
         NEW base \in Nat \ {0}, f.towers[Opponent(p)].hp # 0, Living(f, Opponent(p)) = {}
  PROVE  DamageTower(f, p, id, base, "NormalAttack").dealt > f.dealt
<1> DEFINE o == Opponent(p)
           damage == Amplified(f.towers[o], Weakened(f.heroes[id], base, "NormalAttack"))
           tower == TakeDamage(f.towers[o], damage)
           falls == IF tower.hp = 0 THEN f.falls + 1 ELSE f.falls
           m == [f EXCEPT !.towers[o] = tower, !.dealt = @ + damage, !.falls = falls]
<1>1. DamageTower(f, p, id, base, "NormalAttack") = m
  BY DEF DamageTower
<1>2. damage \in Nat /\ damage > 0
  BY DamageCounts
<1> HIDE DEF damage, tower, falls
<1>3. f \in [heroes : [DOMAIN f.heroes -> HeroRecords],
             towers : [Players -> [hp : 0..TowerMaxHp, vulnerable : Nat, weak : Nat]],
             dealt : Nat, falls : Nat]
  BY DEF FieldOK
<1>4. m.dealt = f.dealt + damage /\ f.dealt \in Nat
  BY <1>3
<1> HIDE DEF m
<1> QED
  BY <1>1, <1>2, <1>4

\* Statuses, healing, shields and charges announce no damage.
LEMMA RestDealsNothing ==
  ASSUME NEW f, FieldOK(f)
  PROVE  /\ \A id, amount : /\ Heal(f, id, amount).dealt = f.dealt
                            /\ GainShield(f, id, amount).dealt = f.dealt
                            /\ AddCharge(f, id, amount).dealt = f.dealt
         /\ \A p, id, target, vulnerable, weak :
              ApplyDebuff(f, p, id, target, vulnerable, weak).dealt = f.dealt
<1>1. f \in [heroes : [DOMAIN f.heroes -> HeroRecords],
             towers : [Players -> [hp : 0..TowerMaxHp, vulnerable : Nat, weak : Nat]],
             dealt : Nat, falls : Nat]
  BY DEF FieldOK
<1>2. \A id, amount : /\ Heal(f, id, amount).dealt = f.dealt
                      /\ GainShield(f, id, amount).dealt = f.dealt
                      /\ AddCharge(f, id, amount).dealt = f.dealt
  BY <1>1 DEF Heal, GainShield, AddCharge
<1>3. \A p, id, target, vulnerable, weak :
        ApplyDebuff(f, p, id, target, vulnerable, weak).dealt = f.dealt
  BY <1>1 DEF ApplyDebuff
<1> QED
  BY <1>2, <1>3

\* A normal attack finds somebody, or the tower.
LEMMA NormalAttackCounts ==
  ASSUME NEW f, FieldOK(f), NEW n \in Nat, DOMAIN f.heroes \subseteq 1..n,
         \A a, b \in DOMAIN f.heroes : f.heroes[a].position = f.heroes[b].position => a = b,
         NEW p \in Players, NEW id \in Living(f, p), f.towers[Opponent(p)].hp > 0,
         NEW base \in Nat \ {0}, NEW vulnerable \in Nat, NEW weak \in Nat
  PROVE  NormalAttack(f, p, id, base, vulnerable, weak).dealt > f.dealt
<1> DEFINE target == FirstEnemy(f, p)
           h == DamageHero(f, p, id, target, base, "NormalAttack")
<1>1. CASE Living(f, Opponent(p)) = {}
  <2>1. f.towers[Opponent(p)].hp # 0
    BY TowerTypes, OpponentType
  <2> QED
    BY <1>1, <2>1, TowerDamageCounts DEF NormalAttack
<1>2. CASE Living(f, Opponent(p)) # {}
  <2>1. NormalAttack(f, p, id, base, vulnerable, weak)
          = ApplyDebuff(h, p, id, target, vulnerable, weak)
    BY <1>2 DEF NormalAttack
  <2>2. target \in Living(f, Opponent(p))
    BY <1>2, FirstEnemyLives
  <2>3. FieldOK(h)
    BY DamageHeroHits DEF Hit
  <2> HIDE DEF target
  <2>4. h.dealt > f.dealt
    BY <2>2, HeroDamageCounts
  <2> HIDE DEF h
  <2> QED
    BY <2>1, <2>3, <2>4, RestDealsNothing
<1> QED
  BY <1>1, <1>2

\* Whoever attacks deals damage.
LEMMA AttackCounts ==
  ASSUME NEW f, FieldOK(f), NEW n \in Nat, DOMAIN f.heroes \subseteq 1..n,
         \A a, b \in DOMAIN f.heroes : f.heroes[a].position = f.heroes[b].position => a = b,
         NEW p \in Players, NEW id \in Living(f, p), f.towers[Opponent(p)].hp > 0
  PROVE  PerformAttack(f, p, id).dealt > f.dealt
<1> DEFINE hero == f.heroes[id]
           value == hero.value
<1>1. /\ hero.kind \in Kinds /\ value \in Nat \ {0} /\ hero.charge \in Nat
      /\ 14 * value \in Nat \ {0} /\ 12 * value \in Nat \ {0} /\ 6 * value \in Nat \ {0}
      /\ 5 * value \in Nat
  BY OwnHero
<1>2. ASSUME NEW base \in Nat \ {0}, NEW vulnerable \in Nat, NEW weak \in {0, 2},
             NEW g, g = NormalAttack(f, p, id, base, vulnerable, weak)
      PROVE  /\ \A amount : Heal(g, id, amount).dealt > f.dealt
             /\ \A amount : GainShield(g, id, amount).dealt > f.dealt
             /\ \A amount : AddCharge(g, id, amount).dealt > f.dealt
             /\ \A amount \in Nat : \A more :
                  AddCharge(GainShield(g, id, amount), id, more).dealt > f.dealt
             /\ g.dealt > f.dealt
  <2>1. Hit(p, f, g) /\ g.dealt > f.dealt
    BY <1>2, NormalAttackHits, NormalAttackCounts
  <2>2. FieldOK(g) /\ id \in Living(g, p)
    BY <2>1, HitLiving DEF Hit
  <2>3. \A amount \in Nat : FieldOK(GainShield(g, id, amount))
    BY <2>2, GainShieldHits DEF Hit
  <2> QED
    BY <2>1, <2>2, <2>3, RestDealsNothing
<1>3. \/ hero.kind = "IronFighter" \/ hero.kind = "SilentHunter"
      \/ hero.kind = "Regent" /\ (hero.charge >= 2 \/ hero.charge < 2)
      \/ hero.kind = "ChickenPot" /\ (hero.charge = 0 \/ hero.charge > 0)
  <2>1. hero.kind \in {"IronFighter", "SilentHunter", "Regent", "ChickenPot"}
    BY <1>1, KindsAssumption
  <2>2. (hero.charge >= 2 \/ hero.charge < 2) /\ (hero.charge = 0 \/ hero.charge > 0)
    BY <1>1
  <2> QED
    BY <2>1, <2>2
<1>4. CASE hero.kind = "IronFighter"
  BY <1>1, <1>2, <1>4 DEF PerformAttack
<1>5. CASE hero.kind = "SilentHunter"
  BY <1>1, <1>2, <1>5 DEF PerformAttack
<1>6. CASE hero.kind = "Regent" /\ hero.charge >= 2
  BY <1>1, <1>2, <1>6 DEF PerformAttack
<1>7. CASE hero.kind = "Regent" /\ hero.charge < 2
  BY <1>1, <1>2, <1>7 DEF PerformAttack
<1>8. CASE hero.kind = "ChickenPot" /\ hero.charge = 0
  BY <1>1, <1>2, <1>8 DEF PerformAttack
<1>9. CASE hero.kind = "ChickenPot" /\ hero.charge > 0
  BY <1>1, <1>2, <1>9 DEF PerformAttack
<1> QED
  BY <1>3, <1>4, <1>5, <1>6, <1>7, <1>8, <1>9

-----------------------------------------------------------------------------
(* Sums.                                                                   *)

Pick(s) == CHOOSE x \in s : TRUE

\* iter adds up w over the subsets of S, one of their members after the other.
Adds(w, S, iter) ==
  /\ iter \in [SUBSET S -> Int]
  /\ \A s \in SUBSET S : iter[s] = IF s = {} THEN 0 ELSE w[Pick(s)] + iter[s \ {Pick(s)}]

\* n is the sum of w over S.
SumIs(w, S, n) == \E iter : Adds(w, S, iter) /\ n = iter[S]

\* A set that is not empty has its pick, and one member less without it.
LEMMA PickOne ==
  ASSUME NEW S, IsFiniteSet(S), NEW s \in SUBSET S, NEW t \in s
  PROVE  /\ Pick(s) \in s /\ s \ {t} \in SUBSET S
         /\ Cardinality(s) \in Nat /\ Cardinality(s \ {t}) \in Nat
         /\ Cardinality(s \ {t}) = Cardinality(s) - 1 /\ Cardinality(s) <= Cardinality(S)
<1>1. IsFiniteSet(s) /\ Cardinality(s) <= Cardinality(S)
  BY FS_Subset
<1>2. IsFiniteSet(s \ {t}) /\ Cardinality(s \ {t}) = Cardinality(s) - 1
  BY <1>1, FS_RemoveElement
<1>3. Cardinality(s) \in Nat /\ Cardinality(s \ {t}) \in Nat
  BY <1>1, <1>2, FS_CardinalityType
<1> QED
  BY <1>1, <1>2, <1>3 DEF Pick

LEMMA AddsExists ==
  ASSUME NEW S, IsFiniteSet(S), NEW w, \A x \in S : w[x] \in Int
  PROVE  \E iter : Adds(w, S, iter)
<1> DEFINE Small(n) == {s \in SUBSET S : Cardinality(s) <= n}
           Solves(n, iter) ==
             /\ iter \in [Small(n) -> Int]
             /\ \A s \in Small(n) : iter[s] = IF s = {} THEN 0 ELSE w[Pick(s)] + iter[s \ {Pick(s)}]
           A == {n \in Nat : \E iter : Solves(n, iter)}
<1>1. \A s \in SUBSET S : s # {} => /\ Pick(s) \in s /\ Pick(s) \in S /\ s \ {Pick(s)} \in SUBSET S
                                    /\ Cardinality(s \ {Pick(s)}) = Cardinality(s) - 1
                                    /\ Cardinality(s) \in Nat
                                    /\ Cardinality(s) <= Cardinality(S)
  <2> SUFFICES ASSUME NEW s \in SUBSET S, s # {}
               PROVE  /\ Pick(s) \in s /\ Pick(s) \in S /\ s \ {Pick(s)} \in SUBSET S
                      /\ Cardinality(s \ {Pick(s)}) = Cardinality(s) - 1
                      /\ Cardinality(s) \in Nat
                      /\ Cardinality(s) <= Cardinality(S)
    OBVIOUS
  <2>1. Pick(s) \in s
    BY DEF Pick
  <2> QED
    BY <2>1, PickOne
<1>2. Cardinality({}) = 0 /\ Cardinality(S) \in Nat
  BY FS_EmptySet, FS_CardinalityType
<1>3. \A s \in SUBSET S : /\ Cardinality(s) \in Nat /\ Cardinality(s) <= Cardinality(S)
                          /\ Cardinality(s) = 0 => s = {}
  <2> SUFFICES ASSUME NEW s \in SUBSET S
               PROVE  /\ Cardinality(s) \in Nat /\ Cardinality(s) <= Cardinality(S)
                      /\ Cardinality(s) = 0 => s = {}
    OBVIOUS
  <2>1. IsFiniteSet(s) /\ Cardinality(s) <= Cardinality(S)
    BY FS_Subset
  <2> QED
    BY <2>1, FS_CardinalityType, FS_EmptySet
<1>4. 0 \in A
  <2> DEFINE iter == [s \in Small(0) |-> 0]
  <2>1. \A s \in Small(0) : s = {}
    BY <1>3
  <2>2. Solves(0, iter)
    BY <2>1
  <2> QED
    BY <2>2
<1>5. ASSUME NEW n \in Nat, n \in A PROVE n + 1 \in A
  <2>1. PICK iter : Solves(n, iter)
    BY <1>5
  <2> DEFINE more == [s \in Small(n + 1) |->
                        IF s \in Small(n) THEN iter[s] ELSE w[Pick(s)] + iter[s \ {Pick(s)}]]
  <2>2. \A s \in Small(n + 1) : s # {} => s \ {Pick(s)} \in Small(n)
    BY <1>1
  <2>3. \A s \in Small(n) : s \in Small(n + 1)
    <3> SUFFICES ASSUME NEW s \in SUBSET S, Cardinality(s) <= n
                 PROVE  Cardinality(s) <= n + 1
      OBVIOUS
    <3>1. Cardinality(s) \in Nat
      BY <1>3
    <3> QED
      BY <3>1
  <2>4. {} \in Small(n)
    BY <1>2
  <2>5. \A s \in Small(n + 1) : more[s] \in Int
    <3> SUFFICES ASSUME NEW s \in Small(n + 1)
                 PROVE  more[s] \in Int
      OBVIOUS
    <3>1. CASE s \in Small(n)
      <4>1. iter[s] \in Int
        BY <2>1, <3>1
      <4> QED
        BY <3>1, <4>1
    <3>2. CASE s \notin Small(n)
      <4>1. s # {} /\ s \in SUBSET S
        BY <2>4, <3>2
      <4>2. w[Pick(s)] \in Int /\ iter[s \ {Pick(s)}] \in Int
        BY <1>1, <2>1, <2>2, <4>1
      <4> QED
        BY <3>2, <4>2
    <3> QED
      BY <3>1, <3>2
  <2>6. \A s \in Small(n + 1) :
          more[s] = IF s = {} THEN 0 ELSE w[Pick(s)] + more[s \ {Pick(s)}]
    <3> SUFFICES ASSUME NEW s \in Small(n + 1)
                 PROVE  more[s] = IF s = {} THEN 0 ELSE w[Pick(s)] + more[s \ {Pick(s)}]
      OBVIOUS
    <3>1. CASE s = {}
      BY <2>1, <2>4, <3>1
    <3>2. CASE s # {}
      <4>1. s \ {Pick(s)} \in Small(n) /\ s \ {Pick(s)} \in Small(n + 1)
        BY <2>2, <2>3, <3>2
      <4>2. more[s \ {Pick(s)}] = iter[s \ {Pick(s)}]
        BY <4>1
      <4>3. more[s] = w[Pick(s)] + iter[s \ {Pick(s)}]
        BY <2>1, <3>2
      <4> QED
        BY <3>2, <4>2, <4>3
    <3> QED
      BY <3>1, <3>2
  <2>7. more \in [Small(n + 1) -> Int]
    BY <2>5
  <2>8. Solves(n + 1, more)
    BY <2>6, <2>7
  <2> HIDE DEF Solves, more
  <2> QED
    BY <2>8
<1> DEFINE N == Cardinality(S)
<1>6. N \in A
  <2> HIDE DEF A
  <2> QED
    BY <1>2, <1>4, <1>5, CountingInduction
<1>7. Small(N) = SUBSET S
  BY <1>3
<1>8. PICK iter : Solves(N, iter)
  BY <1>6
<1> QED
  BY <1>7, <1>8 DEF Adds

\* The order does not matter.
LEMMA AddsAny ==
  ASSUME NEW S, IsFiniteSet(S), NEW w, \A x \in S : w[x] \in Int, NEW iter, Adds(w, S, iter),
         NEW s \in SUBSET S, NEW t \in s
  PROVE  iter[s] = w[t] + iter[s \ {t}]
<1> DEFINE Free(r) == \A x \in r : iter[r] = w[x] + iter[r \ {x}]
           A == {n \in Nat : \A r \in SUBSET S : Cardinality(r) = n => Free(r)}
<1>1. 0 \in A
  <2> SUFFICES ASSUME NEW r \in SUBSET S, Cardinality(r) = 0, NEW x \in r
               PROVE  FALSE
    OBVIOUS
  <2>1. Cardinality(r \ {x}) \in Nat /\ Cardinality(r \ {x}) = Cardinality(r) - 1
    BY PickOne
  <2> QED
    BY <2>1
<1>2. ASSUME NEW n \in Nat, n \in A PROVE n + 1 \in A
  <2> SUFFICES ASSUME NEW r \in SUBSET S, Cardinality(r) = n + 1, NEW x \in r
               PROVE  iter[r] = w[x] + iter[r \ {x}]
    OBVIOUS
  <2> DEFINE y == Pick(r)
  <2>1. /\ y \in r /\ r \ {x} \in SUBSET S /\ r \ {y} \in SUBSET S
        /\ Cardinality(r \ {x}) = n /\ Cardinality(r \ {y}) = n
    <3>1. y \in r
      BY DEF Pick
    <3> HIDE DEF y
    <3> QED
      BY <3>1, PickOne, SMTT(20)
  <2>2. iter[r] = w[y] + iter[r \ {y}]
    BY DEF Adds
  <2> HIDE DEF y
  <2>3. Free(r \ {x}) /\ Free(r \ {y})
    BY <1>2, <2>1
  <2>4. CASE x # y
    <3>1. x \in r \ {y} /\ y \in r \ {x} /\ (r \ {y}) \ {x} = (r \ {x}) \ {y}
      BY <2>1, <2>4
    <3>2. iter[r \ {y}] = w[x] + iter[(r \ {y}) \ {x}]
      BY <2>3, <3>1
    <3>3. iter[r \ {x}] = w[y] + iter[(r \ {y}) \ {x}]
      BY <2>3, <3>1
    <3>4. w[x] \in Int /\ w[y] \in Int /\ iter[(r \ {y}) \ {x}] \in Int
      BY <2>1 DEF Adds
    <3> QED
      BY <2>2, <3>2, <3>3, <3>4
  <2> QED
    BY <2>2, <2>4
<1>3. Nat \subseteq A
  <2> HIDE DEF A
  <2> QED
    BY <1>1, <1>2, CountingInduction
<1>4. Cardinality(s) \in Nat
  BY PickOne
<1> QED
  BY <1>3, <1>4

\* Whatever adds up as it should adds up to numbers.
LEMMA AddsWhatever ==
  ASSUME NEW S, IsFiniteSet(S), NEW w, \A x \in S : w[x] \in Int, NEW iter,
         iter = [s \in SUBSET S |-> IF s = {} THEN 0 ELSE w[Pick(s)] + iter[s \ {Pick(s)}]]
  PROVE  Adds(w, S, iter)
<1> DEFINE A == {n \in Nat : \A s \in SUBSET S : Cardinality(s) = n => iter[s] \in Int}
<1>1. \A s \in SUBSET S : iter[s] = IF s = {} THEN 0 ELSE w[Pick(s)] + iter[s \ {Pick(s)}]
  OBVIOUS
<1>2. 0 \in A
  <2> SUFFICES ASSUME NEW s \in SUBSET S, Cardinality(s) = 0 PROVE iter[s] \in Int
    OBVIOUS
  <2>1. IsFiniteSet(s)
    BY FS_Subset
  <2>2. s = {}
    BY <2>1, FS_EmptySet
  <2> QED
    BY <1>1, <2>2
<1>3. ASSUME NEW n \in Nat, n \in A PROVE n + 1 \in A
  <2>5. n + 1 \in Nat
    OBVIOUS
  <2> SUFFICES ASSUME NEW s \in SUBSET S, Cardinality(s) = n + 1 PROVE iter[s] \in Int
    BY <2>5, Zenon
  <2>1. s # {}
    <3>1. Cardinality({}) = 0 /\ n + 1 # 0
      BY FS_EmptySet
    <3> QED
      BY <3>1
  <2>2. Pick(s) \in s /\ s \ {Pick(s)} \in SUBSET S /\ Cardinality(s \ {Pick(s)}) = n
    <3>1. Pick(s) \in s
      BY <2>1 DEF Pick
    <3> QED
      BY <3>1, PickOne
  <2>3. iter[s \ {Pick(s)}] \in Int /\ w[Pick(s)] \in Int
    BY <1>3, <2>2
  <2>4. iter[s] = w[Pick(s)] + iter[s \ {Pick(s)}]
    BY <1>1, <2>1
  <2> QED
    BY <2>3, <2>4
<1>4. Nat \subseteq A
  <2> HIDE DEF A
  <2> QED
    BY <1>2, <1>3, CountingInduction
<1>5. \A s \in SUBSET S : iter[s] \in Int
  <2> SUFFICES ASSUME NEW s \in SUBSET S PROVE iter[s] \in Int
    OBVIOUS
  <2>1. IsFiniteSet(s)
    BY FS_Subset
  <2>2. Cardinality(s) \in Nat
    BY <2>1, FS_CardinalityType
  <2> QED
    BY <1>4, <2>2
<1>6. iter \in [SUBSET S -> Int]
  BY <1>5
<1> QED
  BY <1>1, <1>6 DEF Adds

LEMMA SumExists ==
  ASSUME NEW S, IsFiniteSet(S), NEW w, \A x \in S : w[x] \in Int
  PROVE  \E n \in Int : SumIs(w, S, n)
<1>1. PICK iter : Adds(w, S, iter)
  BY AddsExists
<1>2. iter[S] \in Int
  BY <1>1 DEF Adds
<1> QED
  BY <1>1, <1>2 DEF SumIs

\* What a part of a set adds up to, without the one that is left out.
LEMMA SumWithout ==
  ASSUME NEW S, IsFiniteSet(S), NEW w, \A x \in S : w[x] \in Int, NEW n, SumIs(w, S, n),
         NEW t \in S
  PROVE  n \in Int /\ SumIs(w, S \ {t}, n - w[t])
<1>1. PICK iter : Adds(w, S, iter) /\ n = iter[S]
  BY DEF SumIs
<1> DEFINE less == [s \in SUBSET (S \ {t}) |-> iter[s]]
<1>2. iter[S] = w[t] + iter[S \ {t}]
  BY <1>1, AddsAny
<1>3. \A s \in SUBSET (S \ {t}) : s \in SUBSET S /\ s \ {Pick(s)} \in SUBSET (S \ {t})
  OBVIOUS
<1>4. Adds(w, S \ {t}, less)
  BY <1>1, <1>3 DEF Adds
<1>5. iter[S] \in Int /\ iter[S \ {t}] \in Int /\ w[t] \in Int
  BY <1>1 DEF Adds
<1>6. less[S \ {t}] = n - w[t]
  BY <1>1, <1>2, <1>5
<1> HIDE DEF less
<1> QED
  BY <1>1, <1>4, <1>5, <1>6 DEF SumIs

\* Sums of the same are the same.
LEMMA SumSame ==
  ASSUME NEW S, IsFiniteSet(S), NEW w, NEW v, \A x \in S : w[x] \in Int /\ v[x] = w[x],
         NEW n, NEW m, SumIs(w, S, n), SumIs(v, S, m)
  PROVE  n = m
<1>1. PICK iter : Adds(w, S, iter) /\ n = iter[S]
  BY DEF SumIs
<1>2. PICK jter : Adds(v, S, jter) /\ m = jter[S]
  BY DEF SumIs
<1> DEFINE F == {s \in SUBSET S : iter[s] = jter[s]}
<1>3. {} \in F
  BY <1>1, <1>2 DEF Adds
<1>4. ASSUME NEW T \in SUBSET S, NEW x \in S \ T, T \in F
      PROVE  T \cup {x} \in F
  <2>1. T \cup {x} \in SUBSET S /\ x \in T \cup {x} /\ (T \cup {x}) \ {x} = T
    BY <1>4
  <2>2. iter[T \cup {x}] = w[x] + iter[T] /\ jter[T \cup {x}] = v[x] + jter[T]
    BY <1>1, <1>2, <2>1, AddsAny
  <2> QED
    BY <1>4, <2>1, <2>2
<1>5. S \in F
  <2> HIDE DEF F
  <2> QED
    BY <1>3, <1>4, SetInduction
<1> QED
  BY <1>1, <1>2, <1>5

-----------------------------------------------------------------------------
(* What a side can take, and what an attack takes from it.                 *)

\* What a hero can take.
Lasting(f) == [id \in DOMAIN f.heroes |-> f.heroes[id].hp + f.heroes[id].shield]

\* A field with ids up to some number, as all are.
Counted(f) == FieldOK(f) /\ \E n \in Nat : DOMAIN f.heroes \subseteq 1..n

LEMMA LivingFinite ==
  ASSUME NEW f, Counted(f), NEW q
  PROVE  /\ Living(f, q) \subseteq DOMAIN f.heroes /\ IsFiniteSet(Living(f, q))
         /\ \A i \in Living(f, q) : /\ Lasting(f)[i] = f.heroes[i].hp + f.heroes[i].shield
                                    /\ Lasting(f)[i] \in Int
<1>1. PICK n \in Nat : DOMAIN f.heroes \subseteq 1..n
  BY DEF Counted
<1>2. Living(f, q) \subseteq DOMAIN f.heroes
  BY DEF Living
<1>3. IsFiniteSet(Living(f, q))
  <2>1. Living(f, q) \in SUBSET (1..n) /\ IsFiniteSet(1..n)
    BY <1>1, <1>2, FS_Interval
  <2> QED
    BY <2>1, FS_Subset
<1>4. \A i \in Living(f, q) : Lasting(f)[i] = f.heroes[i].hp + f.heroes[i].shield
  BY <1>2 DEF Lasting
<1>5. \A i \in Living(f, q) : f.heroes[i].hp \in Nat /\ f.heroes[i].shield \in Nat
  BY OwnHero DEF Counted
<1> QED
  BY <1>2, <1>3, <1>4, <1>5

\* The heroes' part of a side's toughness is the sum it looks like.
LEMMA ToughnessSums ==
  ASSUME NEW f, Counted(f), NEW q \in Players
  PROVE  /\ Toughness(f, q) \in Int /\ f.towers[q].hp \in Nat
         /\ SumIs(Lasting(f), Living(f, q), Toughness(f, q) - f.towers[q].hp)
<1> DEFINE L == Living(f, q)
           sum == MapThenSumSet(LAMBDA id : f.heroes[id].hp + f.heroes[id].shield, L)
<1>1. /\ IsFiniteSet(L)
      /\ \A i \in L : /\ Lasting(f)[i] = f.heroes[i].hp + f.heroes[i].shield
                      /\ Lasting(f)[i] \in Int
  BY LivingFinite
<1>2. Toughness(f, q) = f.towers[q].hp + sum
  BY DEF Toughness
<1> HIDE DEF L
<1>3. PICK iter : Adds(Lasting(f), L, iter)
  BY <1>1, AddsExists
<1>4. iter = [s \in SUBSET L |->
                IF s = {} THEN 0
                ELSE f.heroes[CHOOSE x \in s : TRUE].hp + f.heroes[CHOOSE x \in s : TRUE].shield
                       + iter[s \ {CHOOSE x \in s : TRUE}]]
  <2>1. \A s \in SUBSET L : s # {} => (CHOOSE x \in s : TRUE) \in L
    OBVIOUS
  <2> QED
    BY <1>1, <1>3, <2>1 DEF Adds, Pick
<1> DEFINE jter == CHOOSE j : j = [s \in SUBSET L |->
                IF s = {} THEN 0
                ELSE f.heroes[CHOOSE x \in s : TRUE].hp + f.heroes[CHOOSE x \in s : TRUE].shield
                       + j[s \ {CHOOSE x \in s : TRUE}]]
<1>5. sum = jter[L]
  BY DEF MapThenSumSet, MapThenFoldSet
<1>6. jter = [s \in SUBSET L |->
                IF s = {} THEN 0
                ELSE f.heroes[CHOOSE x \in s : TRUE].hp + f.heroes[CHOOSE x \in s : TRUE].shield
                       + jter[s \ {CHOOSE x \in s : TRUE}]]
  BY <1>4, ZenonT(30)
<1> HIDE DEF jter
<1>7. jter = [s \in SUBSET L |->
                IF s = {} THEN 0 ELSE Lasting(f)[Pick(s)] + jter[s \ {Pick(s)}]]
  <2>1. \A s \in SUBSET L : s # {} => (CHOOSE x \in s : TRUE) \in L
    OBVIOUS
  <2>2. \A s \in SUBSET L :
          s # {} => Lasting(f)[Pick(s)] = f.heroes[Pick(s)].hp + f.heroes[Pick(s)].shield
    BY <1>1, <2>1 DEF Pick
  <2> QED
    BY <1>6, <2>2 DEF Pick
<1>8. Adds(Lasting(f), L, jter)
  BY <1>1, <1>7, AddsWhatever
<1>9. SumIs(Lasting(f), L, sum) /\ sum \in Int
  <2>1. jter[L] \in Int
    BY <1>8 DEF Adds
  <2> HIDE DEF sum
  <2> QED
    BY <1>5, <1>8, <2>1 DEF SumIs
<1>10. f.towers[q].hp \in Nat
  BY TowerTypes DEF Counted
<1> HIDE DEF sum
<1>11. Toughness(f, q) - f.towers[q].hp = sum
  BY <1>2, <1>9, <1>10
<1> QED
  BY <1>2, <1>9, <1>10, <1>11 DEF L

\* A side of which nobody was hurt is as tough as before.
LEMMA SameToughness ==
  ASSUME NEW f, Counted(f), NEW g, Counted(g), NEW q \in Players, Living(g, q) = Living(f, q),
         \A i \in Living(f, q) : /\ g.heroes[i].hp = f.heroes[i].hp
                                 /\ g.heroes[i].shield = f.heroes[i].shield
  PROVE  Toughness(f, q) - f.towers[q].hp = Toughness(g, q) - g.towers[q].hp
<1> DEFINE L == Living(f, q)
<1>1. SumIs(Lasting(f), L, Toughness(f, q) - f.towers[q].hp)
  BY ToughnessSums
<1>2. SumIs(Lasting(g), L, Toughness(g, q) - g.towers[q].hp)
  BY ToughnessSums
<1>3. /\ IsFiniteSet(L)
      /\ \A i \in L : Lasting(f)[i] \in Int /\ Lasting(g)[i] = Lasting(f)[i]
  BY LivingFinite
<1> HIDE DEF L
<1> QED
  BY <1>1, <1>2, <1>3, SumSame

\* A side of which one hero was hurt has lost what the hero lost.
LEMMA LostToughness ==
  ASSUME NEW f, Counted(f), NEW g, Counted(g), NEW q \in Players,
         NEW t \in Living(f, q), NEW loss \in Int,
         \/ /\ Living(g, q) = Living(f, q) \ {t}
            /\ loss = f.heroes[t].hp + f.heroes[t].shield
         \/ /\ Living(g, q) = Living(f, q)
            /\ loss = f.heroes[t].hp + f.heroes[t].shield - g.heroes[t].hp - g.heroes[t].shield,
         \A i \in Living(f, q) \ {t} : /\ g.heroes[i].hp = f.heroes[i].hp
                                       /\ g.heroes[i].shield = f.heroes[i].shield
  PROVE  (Toughness(f, q) - f.towers[q].hp) - (Toughness(g, q) - g.towers[q].hp) = loss
<1> DEFINE L == Living(f, q)
           M == L \ {t}
           w == Lasting(f)
           v == Lasting(g)
           n == Toughness(f, q) - f.towers[q].hp
           m == Toughness(g, q) - g.towers[q].hp
<1>1. SumIs(w, L, n) /\ SumIs(v, Living(g, q), m) /\ n \in Int /\ m \in Int
  BY ToughnessSums
<1>2. /\ IsFiniteSet(L) /\ IsFiniteSet(Living(g, q))
      /\ \A i \in L : w[i] \in Int /\ w[i] = f.heroes[i].hp + f.heroes[i].shield
      /\ \A i \in Living(g, q) : v[i] \in Int /\ v[i] = g.heroes[i].hp + g.heroes[i].shield
  BY LivingFinite
<1>3. M \subseteq Living(g, q) /\ \A i \in M : v[i] = w[i]
  BY <1>2
<1>4. IsFiniteSet(M)
  <2> HIDE DEF L
  <2> QED
    BY <1>2, FS_RemoveElement
<1> HIDE DEF w, v, n, m
<1>5. SumIs(w, M, n - w[t]) /\ w[t] \in Int
  <2> HIDE DEF L
  <2>1. t \in L
    BY DEF L
  <2> QED
    BY <1>1, <1>2, <2>1, SumWithout
<1>6. CASE Living(g, q) = M /\ loss = f.heroes[t].hp + f.heroes[t].shield
  <2>1. SumIs(v, M, m)
    BY <1>1, <1>6
  <2>2. n - w[t] = m
    <3>1. \A i \in M : w[i] \in Int /\ v[i] = w[i]
      BY <1>2, <1>3
    <3> HIDE DEF M
    <3> QED
      BY <1>4, <1>5, <2>1, <3>1, SumSame
  <2>3. w[t] = loss
    BY <1>2, <1>6
  <2> QED
    BY <1>1, <1>5, <2>2, <2>3 DEF n, m
<1>7. CASE /\ Living(g, q) = L
           /\ loss = f.heroes[t].hp + f.heroes[t].shield - g.heroes[t].hp - g.heroes[t].shield
  <2>1. SumIs(v, M, m - v[t]) /\ v[t] \in Int
    <3>1. SumIs(v, L, m) /\ \A i \in L : v[i] \in Int
      BY <1>1, <1>2, <1>7
    <3>2. t \in L
      OBVIOUS
    <3> HIDE DEF L
    <3> QED
      BY <1>2, <3>1, <3>2, SumWithout
  <2>2. n - w[t] = m - v[t]
    <3>1. \A i \in M : w[i] \in Int /\ v[i] = w[i]
      BY <1>2, <1>3
    <3> HIDE DEF M
    <3> QED
      BY <1>4, <1>5, <2>1, <3>1, SumSame
  <2>3. w[t] - v[t] = loss
    <3>1. f.heroes[t].hp \in Int /\ f.heroes[t].shield \in Int
          /\ g.heroes[t].hp \in Int /\ g.heroes[t].shield \in Int
      BY <1>7, OwnHero DEF Counted
    <3> QED
      BY <1>2, <1>7, <3>1
  <2> QED
    BY <1>1, <1>5, <2>1, <2>2, <2>3 DEF n, m
<1> QED
  BY <1>6, <1>7

\* The defender has lost what is announced, or its tower is down.
Accounts(p, f, g) ==
  LET o    == Opponent(p)
      loss == Toughness(f, o) - Toughness(g, o)
      said == g.dealt - f.dealt
  IN  loss <= said /\ (g.towers[o].hp > 0 => loss = said)

LEMMA AccountsCompose ==
  ASSUME NEW p \in Players, NEW f, Counted(f), NEW g, Counted(g), NEW h, Counted(h),
         Accounts(p, f, g), Accounts(p, g, h), Hit(p, g, h)
  PROVE  Accounts(p, f, h)
<1> DEFINE o == Opponent(p)
<1>1. o \in Players
  BY OpponentType
<1>2. /\ Toughness(f, o) \in Int /\ Toughness(g, o) \in Int /\ Toughness(h, o) \in Int
      /\ g.towers[o].hp \in Nat /\ h.towers[o].hp \in Nat
  BY <1>1, ToughnessSums
<1>3. f.dealt \in Nat /\ g.dealt \in Nat /\ h.dealt \in Nat
  BY FieldParts DEF Counted
<1>4. h.towers[o].hp <= g.towers[o].hp
  BY DEF Hit, TowersHit
<1> HIDE DEF o
<1> QED
  BY <1>2, <1>3, <1>4 DEF Accounts, o

\* After a hit there are still no more heroes.
LEMMA HitCounted ==
  ASSUME NEW p, NEW f, Counted(f), NEW g, Hit(p, f, g)
  PROVE  Counted(g)
<1>1. FieldOK(g) /\ DOMAIN g.heroes \subseteq DOMAIN f.heroes
  BY DEF Hit
<1> QED
  BY <1>1 DEF Counted

\* What leaves the defender alone needs no announcement.
LEMMA SparedAccounts ==
  ASSUME NEW p \in Players, NEW f, Counted(f), NEW g, Counted(g), g.dealt = f.dealt,
         g.towers[Opponent(p)].hp = f.towers[Opponent(p)].hp,
         Living(g, Opponent(p)) = Living(f, Opponent(p)),
         \A i \in Living(f, Opponent(p)) : /\ g.heroes[i].hp = f.heroes[i].hp
                                           /\ g.heroes[i].shield = f.heroes[i].shield
  PROVE  Accounts(p, f, g)
<1> DEFINE o == Opponent(p)
<1>1. o \in Players
  BY OpponentType
<1>2. Toughness(f, o) - f.towers[o].hp = Toughness(g, o) - g.towers[o].hp
  BY <1>1, SameToughness
<1>3. /\ Toughness(f, o) \in Int /\ Toughness(g, o) \in Int
      /\ g.towers[o].hp \in Nat /\ f.towers[o].hp \in Nat
  BY <1>1, ToughnessSums
<1>4. f.dealt \in Nat
  BY FieldParts DEF Counted
<1> HIDE DEF o
<1> QED
  BY <1>2, <1>3, <1>4 DEF Accounts, o

\* What hurts somebody and the tower behind accounts for it, but for what is
\* more than the tower has.
LEMMA SpentAccounts ==
  ASSUME NEW p \in Players, NEW f, Counted(f), NEW g, Counted(g),
         NEW hurt \in Nat, NEW overflow \in Nat, NEW o, o = Opponent(p),
         (Toughness(f, o) - f.towers[o].hp) - (Toughness(g, o) - g.towers[o].hp) = hurt,
         g.towers[o].hp = f.towers[o].hp - Least(f.towers[o].hp, overflow),
         g.dealt = f.dealt + hurt + overflow
  PROVE  Accounts(p, f, g)
<1> DEFINE before == Toughness(f, o)
           after  == Toughness(g, o)
           tower  == f.towers[o].hp
           left   == g.towers[o].hp
           dealt  == f.dealt
           said   == g.dealt
<1>1. /\ before \in Int /\ after \in Int /\ tower \in Nat /\ left \in Nat /\ dealt \in Nat
  BY OpponentType, ToughnessSums, FieldParts DEF Counted
<1> HIDE DEF before, after, tower, left, dealt, said
<1>2. /\ (before - tower) - (after - left) = hurt
      /\ left = tower - Least(tower, overflow) /\ said = dealt + hurt + overflow
  BY DEF before, after, tower, left, dealt, said
<1>3. before - after <= said - dealt /\ (left > 0 => before - after = said - dealt)
  BY <1>1, <1>2 DEF Least
<1> QED
  BY <1>3 DEF Accounts, before, after, tower, left, dealt, said

\* A hit on a hero: what the shield, the hero and the tower behind it lose.
LEMMA DamageHeroSpends ==
  ASSUME NEW f, FieldOK(f), NEW p \in Players, NEW id \in Living(f, p),
         NEW target \in Living(f, Opponent(p)), NEW base \in Nat, NEW kind,
         NEW g, g = DamageHero(f, p, id, target, base, kind)
  PROVE  \E absorbed, lost, overflow \in Nat :
           /\ g.dealt = f.dealt + absorbed + lost + overflow
           /\ g.towers[Opponent(p)].hp
                = f.towers[Opponent(p)].hp - Least(f.towers[Opponent(p)].hp, overflow)
           /\ \/ /\ Living(g, Opponent(p)) = Living(f, Opponent(p)) \ {target}
                 /\ absorbed = f.heroes[target].shield /\ lost = f.heroes[target].hp
              \/ /\ Living(g, Opponent(p)) = Living(f, Opponent(p))
                 /\ g.heroes[target].shield = f.heroes[target].shield - absorbed
                 /\ g.heroes[target].hp = f.heroes[target].hp - lost
           /\ \A i \in Living(f, Opponent(p)) \ {target} : g.heroes[i] = f.heroes[i]
<1> DEFINE o        == Opponent(p)
           victim   == f.heroes[target]
           damage   == Greatest(1, Amplified(victim, Weakened(f.heroes[id], base, kind)))
           absorbed == Least(victim.shield, damage)
           lost     == Least(victim.hp, damage - absorbed)
           overflow == damage - absorbed - lost
           tower    == TakeDamage(f.towers[o], overflow)
           falls    == IF overflow > 0 /\ tower.hp = 0 THEN f.falls + 1 ELSE f.falls
           m == [f EXCEPT !.heroes[target].shield = @ - absorbed,
                          !.heroes[target].hp = @ - lost,
                          !.towers[o] = tower,
                          !.dealt = @ + damage,
                          !.falls = falls]
<1>1. g = ConvertDead(m)
  BY DEF DamageHero
<1>2. damage \in Nat
  BY DamageType DEF Greatest
<1> HIDE DEF damage
<1>3. /\ target \in DOMAIN f.heroes /\ victim \in HeroRecords
      /\ victim.hp \in Nat \ {0} /\ victim.shield \in Nat
  BY OwnHero
<1>4. /\ absorbed \in Nat /\ lost \in Nat /\ overflow \in Nat
      /\ damage = absorbed + lost + overflow
      /\ victim.hp - lost \in Nat
      /\ victim.hp - lost = 0 => lost = victim.hp /\ absorbed = victim.shield
  BY <1>2, <1>3 DEF Least
<1> HIDE DEF absorbed, lost, overflow
<1>5. LET towers == [f.towers EXCEPT ![o] = tower]
      IN  /\ towers[o] = tower
          /\ tower.hp = f.towers[o].hp - Least(f.towers[o].hp, overflow)
  BY <1>4, TakenDamage
<1> HIDE DEF tower, falls
<1>6. f \in [heroes : [DOMAIN f.heroes -> HeroRecords],
             towers : [Players -> [hp : 0..TowerMaxHp, vulnerable : Nat, weak : Nat]],
             dealt : Nat, falls : Nat]
  BY DEF FieldOK
<1>7. ASSUME NEW x, x = m PROVE IsField(x)
  BY <1>6, <1>7 DEF IsField
<1>8. IsField(m)
  BY <1>7
<1>9. m.towers = [f.towers EXCEPT ![o] = tower] /\ m.dealt = f.dealt + damage
  BY <1>6
<1>10. m.heroes = [f.heroes EXCEPT ![target].shield = @ - absorbed, ![target].hp = @ - lost]
  BY <1>6
<1> HIDE DEF m
<1>11. /\ DOMAIN m.heroes = DOMAIN f.heroes
       /\ m.heroes[target].shield = victim.shield - absorbed
       /\ m.heroes[target].hp = victim.hp - lost
       /\ m.heroes[target].position = victim.position
       /\ \A i \in DOMAIN f.heroes \ {target} : m.heroes[i] = f.heroes[i]
  <2>1. victim = [kind |-> victim.kind, value |-> victim.value, position |-> victim.position,
                  hp |-> victim.hp, shield |-> victim.shield, vulnerable |-> victim.vulnerable,
                  weak |-> victim.weak, charge |-> victim.charge]
    BY <1>3 DEF HeroRecords
  <2> QED
    BY <1>3, <1>10, <2>1
<1> DEFINE living == {j \in DOMAIN m.heroes : m.heroes[j].hp > 0}
<1>12. /\ g.heroes = [i \in living |-> m.heroes[i]] /\ g.towers = m.towers /\ g.dealt = m.dealt
  BY <1>1, <1>8, ConvertDeadShape
<1>13. \A i \in DOMAIN f.heroes : f.heroes[i].hp \in Nat \ {0}
  BY FieldParts, HeroTypes
<1>14. DOMAIN g.heroes = {j \in DOMAIN f.heroes : j # target \/ victim.hp - lost > 0}
  BY <1>11, <1>12, <1>13
<1>15. \A i \in DOMAIN g.heroes : g.heroes[i] = m.heroes[i] /\ g.heroes[i].hp > 0
  BY <1>12
<1> HIDE DEF living
<1>16. \A i \in Living(f, o) \ {target} : g.heroes[i] = f.heroes[i] /\ i \in Living(g, o)
  BY <1>11, <1>14, <1>15 DEF Living
<1>17. \A i \in Living(g, o) : i \in Living(f, o) /\ (victim.hp - lost = 0 => i # target)
  BY <1>11, <1>13, <1>14, <1>15 DEF Living
<1>18. g.dealt = f.dealt + absorbed + lost + overflow
  <2>1. f.dealt \in Nat
    BY <1>6
  <2> QED
    BY <1>4, <1>9, <1>12, <2>1
<1>19. g.towers[o].hp = f.towers[o].hp - Least(f.towers[o].hp, overflow)
  BY <1>5, <1>9, <1>12
<1>20. CASE victim.hp - lost = 0
  <2>1. Living(g, o) = Living(f, o) \ {target}
    BY <1>16, <1>17, <1>20
  <2> QED
    BY <1>4, <1>16, <1>18, <1>19, <1>20, <2>1
<1>21. CASE victim.hp - lost # 0
  <2>1. target \in DOMAIN g.heroes
    BY <1>3, <1>4, <1>14, <1>21
  <2>2. target \in Living(g, o)
    BY <1>11, <1>15, <2>1 DEF Living
  <2>3. Living(g, o) = Living(f, o)
    BY <1>16, <1>17, <2>2
  <2> QED
    BY <1>4, <1>11, <1>15, <1>16, <1>18, <1>19, <2>1, <2>3
<1> QED
  BY <1>20, <1>21

LEMMA DamageHeroAccounts ==
  ASSUME NEW f, Counted(f), NEW p \in Players, NEW id \in Living(f, p),
         NEW target \in Living(f, Opponent(p)), NEW base \in Nat, NEW kind,
         f.towers[Opponent(p)].hp > 0
  PROVE  Accounts(p, f, DamageHero(f, p, id, target, base, kind))
<1> DEFINE o == Opponent(p)
<1> SUFFICES ASSUME NEW g, g = DamageHero(f, p, id, target, base, kind)
             PROVE  Accounts(p, f, g)
  OBVIOUS
<1>1. FieldOK(f) /\ o \in Players
  BY OpponentType DEF Counted
<1>2. PICK absorbed, lost, overflow \in Nat :
        /\ g.dealt = f.dealt + absorbed + lost + overflow
        /\ g.towers[o].hp = f.towers[o].hp - Least(f.towers[o].hp, overflow)
        /\ \/ /\ Living(g, o) = Living(f, o) \ {target}
              /\ absorbed = f.heroes[target].shield /\ lost = f.heroes[target].hp
           \/ /\ Living(g, o) = Living(f, o)
              /\ g.heroes[target].shield = f.heroes[target].shield - absorbed
              /\ g.heroes[target].hp = f.heroes[target].hp - lost
        /\ \A i \in Living(f, o) \ {target} : g.heroes[i] = f.heroes[i]
  BY <1>1, DamageHeroSpends
<1>3. Counted(g)
  BY <1>1, DamageHeroHits, HitCounted
<1>4. f.heroes[target].hp \in Nat /\ f.heroes[target].shield \in Nat
  BY <1>1, OwnHero
<1>5. (Toughness(f, o) - f.towers[o].hp) - (Toughness(g, o) - g.towers[o].hp) = absorbed + lost
  <2>1. \/ /\ Living(g, o) = Living(f, o) \ {target}
           /\ absorbed + lost = f.heroes[target].hp + f.heroes[target].shield
        \/ /\ Living(g, o) = Living(f, o)
           /\ absorbed + lost = f.heroes[target].hp + f.heroes[target].shield
                                  - g.heroes[target].hp - g.heroes[target].shield
    BY <1>2, <1>4
  <2>2. \A i \in Living(f, o) \ {target} : /\ g.heroes[i].hp = f.heroes[i].hp
                                           /\ g.heroes[i].shield = f.heroes[i].shield
    BY <1>2
  <2>3. absorbed + lost \in Int
    OBVIOUS
  <2> QED
    BY <1>1, <1>3, <2>1, <2>2, <2>3, LostToughness
<1>6. absorbed + lost \in Nat /\ g.dealt = f.dealt + (absorbed + lost) + overflow
  <2>1. f.dealt \in Nat
    BY <1>1, FieldParts
  <2> QED
    BY <1>2, <2>1
<1>7. g.towers[o].hp = f.towers[o].hp - Least(f.towers[o].hp, overflow)
  BY <1>2
<1> QED
  BY <1>3, <1>5, <1>6, <1>7, SpentAccounts

LEMMA DamageTowerAccounts ==
  ASSUME NEW f, Counted(f), NEW p \in Players, NEW id, NEW base \in Nat, NEW kind
  PROVE  Accounts(p, f, DamageTower(f, p, id, base, kind))
<1> DEFINE o == Opponent(p)
           damage == Amplified(f.towers[o], Weakened(f.heroes[id], base, kind))
           tower == TakeDamage(f.towers[o], damage)
           falls == IF tower.hp = 0 THEN f.falls + 1 ELSE f.falls
           m == [f EXCEPT !.towers[o] = tower, !.dealt = @ + damage, !.falls = falls]
<1>1. FieldOK(f) /\ o \in Players
  BY OpponentType DEF Counted
<1>2. CASE DamageTower(f, p, id, base, kind) = f
  BY <1>2, SparedAccounts
<1>3. CASE DamageTower(f, p, id, base, kind) # f
  <2>1. DamageTower(f, p, id, base, kind) = m
    BY <1>3 DEF DamageTower
  <2>2. damage \in Nat
    BY DamageType
  <2> HIDE DEF damage
  <2>3. LET towers == [f.towers EXCEPT ![o] = tower]
        IN  /\ towers[o] = tower /\ f.towers[o].hp \in Nat
            /\ tower.hp = f.towers[o].hp - Least(f.towers[o].hp, damage)
    BY <1>1, <2>2, TakenDamage
  <2> HIDE DEF tower, falls
  <2>4. f \in [heroes : [DOMAIN f.heroes -> HeroRecords],
               towers : [Players -> [hp : 0..TowerMaxHp, vulnerable : Nat, weak : Nat]],
               dealt : Nat, falls : Nat]
    BY <1>1 DEF FieldOK
  <2>5. m.heroes = f.heroes /\ m.towers[o] = tower /\ m.dealt = f.dealt + damage /\ f.dealt \in Nat
    BY <2>3, <2>4
  <2>6. Counted(m)
    <3>1. Hit(p, f, m)
      BY <1>1, <2>1, DamageTowerHits
    <3> HIDE DEF m
    <3> QED
      BY <3>1, HitCounted
  <2> HIDE DEF m
  <2>7. Living(m, o) = Living(f, o)
    BY <2>5 DEF Living
  <2>8. Toughness(f, o) - f.towers[o].hp = Toughness(m, o) - m.towers[o].hp
    BY <1>1, <2>5, <2>6, <2>7, SameToughness
  <2>9. /\ (Toughness(f, o) - f.towers[o].hp) - (Toughness(m, o) - m.towers[o].hp) = 0
        /\ m.dealt = f.dealt + 0 + damage
        /\ m.towers[o].hp = f.towers[o].hp - Least(f.towers[o].hp, damage)
    <3>1. /\ Toughness(m, o) \in Int /\ m.towers[o].hp \in Nat
      BY <1>1, <2>6, ToughnessSums
    <3> QED
      BY <2>2, <2>3, <2>5, <2>8, <3>1
  <2> QED
    BY <2>1, <2>2, <2>6, <2>9, SpentAccounts
<1> QED
  BY <1>2, <1>3

\* What changes one of the mover's own heroes spares the defender.
LEMMA OwnAccounts ==
  ASSUME NEW p \in Players, NEW f, Counted(f), NEW id \in Living(f, p), NEW x,
         NEW g, g = [f EXCEPT !.heroes[id] = x], Hit(p, f, g)
  PROVE  Accounts(p, f, g)
<1> DEFINE o == Opponent(p)
<1>1. FieldOK(f) /\ Counted(g) /\ o # p
  BY HitCounted, OpponentType DEF Counted
<1>2. f \in [heroes : [DOMAIN f.heroes -> HeroRecords],
             towers : [Players -> [hp : 0..TowerMaxHp, vulnerable : Nat, weak : Nat]],
             dealt : Nat, falls : Nat]
  BY <1>1 DEF FieldOK
<1>3. g.heroes = [f.heroes EXCEPT ![id] = x] /\ g.towers = f.towers /\ g.dealt = f.dealt
  BY <1>2
<1>4. /\ DOMAIN g.heroes = DOMAIN f.heroes
      /\ \A i \in DOMAIN f.heroes \ {id} : g.heroes[i] = f.heroes[i]
  BY <1>3
<1>5. id \in DOMAIN g.heroes /\ PlayerIdForPosition(f.heroes[id].position) = p
      /\ g.heroes[id].position = f.heroes[id].position
  BY <1>4 DEF Hit, HeroHit, SameHero, Living
<1>6. id \notin Living(f, o) /\ id \notin Living(g, o)
  BY <1>1, <1>5 DEF Living
<1>7. Living(g, o) = Living(f, o) /\ \A i \in Living(f, o) : g.heroes[i] = f.heroes[i]
  BY <1>4, <1>6 DEF Living
<1> QED
  BY <1>1, <1>3, <1>7, SparedAccounts

LEMMA DebuffAccounts ==
  ASSUME NEW p \in Players, NEW f, Counted(f), NEW id, NEW target,
         NEW vulnerable \in Nat, NEW weak \in Nat, weak # 1,
         NEW g, g = ApplyDebuff(f, p, id, target, vulnerable, weak)
  PROVE  Accounts(p, f, g)
<1> DEFINE o == Opponent(p)
<1>1. FieldOK(f) /\ o \in Players
  BY OpponentType DEF Counted
<1>2. Counted(g) /\ g.dealt = f.dealt
  BY <1>1, ApplyDebuffHits, HitCounted, RestDealsNothing
<1>3. f \in [heroes : [DOMAIN f.heroes -> HeroRecords],
             towers : [Players -> [hp : 0..TowerMaxHp, vulnerable : Nat, weak : Nat]],
             dealt : Nat, falls : Nat]
  BY <1>1 DEF FieldOK
<1>4. CASE id \in Living(f, p) /\ target \in Living(f, o)
  <2> DEFINE x == AddLayers(f.heroes[target], vulnerable, weak)
  <2>1. g = [f EXCEPT !.heroes[target] = x]
    BY <1>4 DEF ApplyDebuff
  <2>2. target \in DOMAIN f.heroes /\ f.heroes[target] \in HeroRecords
    BY <1>1, <1>4, OwnHero
  <2>3. /\ x.hp = f.heroes[target].hp /\ x.shield = f.heroes[target].shield
        /\ x.position = f.heroes[target].position
    BY <2>2 DEF AddLayers, HeroRecords
  <2> HIDE DEF x
  <2>4. g.heroes = [f.heroes EXCEPT ![target] = x] /\ g.towers = f.towers
    BY <1>3, <2>1
  <2>5. /\ DOMAIN g.heroes = DOMAIN f.heroes
        /\ \A i \in DOMAIN f.heroes : /\ g.heroes[i].hp = f.heroes[i].hp
                                      /\ g.heroes[i].shield = f.heroes[i].shield
                                      /\ g.heroes[i].position = f.heroes[i].position
    BY <2>2, <2>3, <2>4
  <2>6. Living(g, o) = Living(f, o)
    BY <2>5 DEF Living
  <2>7. \A i \in Living(f, o) : i \in DOMAIN f.heroes
    BY DEF Living
  <2> QED
    BY <1>2, <2>4, <2>5, <2>6, <2>7, SparedAccounts
<1>5. CASE g = f
  BY <1>2, <1>5, SparedAccounts
<1>6. CASE g # f /\ ~(id \in Living(f, p) /\ target \in Living(f, o))
  <2> DEFINE tower == AddLayers(f.towers[o], vulnerable, weak)
  <2>1. g = [f EXCEPT !.towers[o] = tower]
    BY <1>6 DEF ApplyDebuff
  <2>2. f.towers[o] \in [hp : 0..TowerMaxHp, vulnerable : Nat, weak : Nat]
    BY <1>1, TowerTypes
  <2>3. tower.hp = f.towers[o].hp
    BY <2>2 DEF AddLayers
  <2> HIDE DEF tower
  <2>4. g.heroes = f.heroes /\ g.towers[o] = tower
    BY <1>1, <1>3, <2>1
  <2>5. Living(g, o) = Living(f, o)
    BY <2>4 DEF Living
  <2> QED
    BY <1>2, <2>3, <2>4, <2>5, SparedAccounts
<1> QED
  BY <1>4, <1>5, <1>6

LEMMA NormalAttackAccounts ==
  ASSUME NEW f, Counted(f), NEW p \in Players, NEW id \in Living(f, p), NEW base \in Nat,
         NEW vulnerable \in Nat, NEW weak \in Nat, weak # 1,
         f.towers[Opponent(p)].hp > 0,
         \A a, b \in DOMAIN f.heroes : f.heroes[a].position = f.heroes[b].position => a = b
  PROVE  Accounts(p, f, NormalAttack(f, p, id, base, vulnerable, weak))
<1> DEFINE target == FirstEnemy(f, p)
           h == DamageHero(f, p, id, target, base, "NormalAttack")
           g == NormalAttack(f, p, id, base, vulnerable, weak)
<1>1. FieldOK(f) /\ \E n \in Nat : DOMAIN f.heroes \subseteq 1..n
  BY DEF Counted
<1>2. CASE Living(f, Opponent(p)) = {}
  BY <1>2, DamageTowerAccounts DEF NormalAttack
<1>3. CASE Living(f, Opponent(p)) # {}
  <2>1. g = ApplyDebuff(h, p, id, target, vulnerable, weak)
    BY <1>3 DEF NormalAttack
  <2>2. target \in Living(f, Opponent(p))
    BY <1>1, <1>3, FirstEnemyLives
  <2>3. Counted(h)
    BY <1>1, DamageHeroHits, HitCounted
  <2>4. FieldOK(h)
    BY <2>3 DEF Counted
  <2> HIDE DEF target
  <2>5. Accounts(p, f, h)
    BY <2>2, DamageHeroAccounts
  <2> HIDE DEF h, g
  <2>6. Hit(p, h, g)
    BY <2>1, <2>4, ApplyDebuffHits
  <2>7. Accounts(p, h, g) /\ Counted(g)
    BY <2>1, <2>3, <2>6, DebuffAccounts, HitCounted
  <2> QED
    BY <2>3, <2>5, <2>6, <2>7, AccountsCompose DEF g
<1> QED
  BY <1>2, <1>3

\* Healing, shield and charge of the mover's own.
LEMMA RestAccounts ==
  ASSUME NEW f, Counted(f), NEW p \in Players, NEW id \in Living(f, p), NEW amount
  PROVE  /\ Hit(p, f, Heal(f, id, amount)) => Accounts(p, f, Heal(f, id, amount))
         /\ Hit(p, f, GainShield(f, id, amount)) => Accounts(p, f, GainShield(f, id, amount))
         /\ Hit(p, f, AddCharge(f, id, amount)) => Accounts(p, f, AddCharge(f, id, amount))
<1> DEFINE hero == f.heroes[id]
<1>1. Heal(f, id, amount)
        = [f EXCEPT !.heroes[id] =
             [hero EXCEPT !.hp = @ + Least(amount, MaxHp(hero.kind, hero.value) - @)]]
  BY DEF Heal
<1>2. GainShield(f, id, amount)
        = [f EXCEPT !.heroes[id] = [hero EXCEPT !.shield = @ + amount]]
  BY DEF GainShield
<1>3. AddCharge(f, id, amount) = [f EXCEPT !.heroes[id] = [hero EXCEPT !.charge = @ + amount]]
  BY DEF AddCharge
<1> QED
  BY <1>1, <1>2, <1>3, OwnAccounts, SMTT(20)

\* Whatever the class, an attack accounts for what it announces.
LEMMA PerformAttackAccounts ==
  ASSUME NEW f, Counted(f), NEW p \in Players, NEW id \in Living(f, p),
         f.towers[Opponent(p)].hp > 0,
         \A a, b \in DOMAIN f.heroes : f.heroes[a].position = f.heroes[b].position => a = b
  PROVE  Accounts(p, f, PerformAttack(f, p, id))
<1> DEFINE hero == f.heroes[id]
           value == hero.value
           Sound(g) == /\ Hit(p, f, g) /\ Counted(g) /\ Accounts(p, f, g) /\ id \in Living(g, p)
                       /\ g.heroes[id].kind = hero.kind /\ g.heroes[id].charge = hero.charge
<1>1. /\ hero.kind \in Kinds /\ value \in Nat \ {0} /\ hero.charge \in Nat
      /\ hero.charge <= ChargeLimit(hero.kind)
      /\ 14 * value \in Nat /\ 12 * value \in Nat /\ 6 * value \in Nat
      /\ 8 * value \in Nat /\ 5 * value \in Nat /\ 2 * value \in Nat
  BY OwnHero DEF Counted
<1>2. FieldOK(f)
  BY DEF Counted
<1>3. ASSUME NEW g, Hit(p, f, g), KeepsCharge(p, f, g), Accounts(p, f, g)
      PROVE  Sound(g)
  <2>1. Living(g, p) = Living(f, p) /\ Counted(g)
    BY <1>2, <1>3, HitLiving, HitCounted
  <2>2. id \in DOMAIN g.heroes
    BY <2>1 DEF Living
  <2>3. g.heroes[id].kind = hero.kind
    BY <1>3, <2>2 DEF Hit, HeroHit, SameHero
  <2>4. g.heroes[id].charge = hero.charge
    BY <1>3 DEF KeepsCharge
  <2> QED
    BY <1>3, <2>1, <2>3, <2>4
<1>4. \A base \in Nat, vulnerable \in Nat, weak \in {0, 2} :
        Sound(NormalAttack(f, p, id, base, vulnerable, weak))
  BY <1>2, <1>3, NormalAttackHits, NormalAttackAccounts
<1>5. ASSUME NEW g, Sound(g), NEW h, Hit(p, g, h), Accounts(p, g, h)
      PROVE  Accounts(p, f, h)
  BY <1>5, HitCounted, AccountsCompose
<1>6. ASSUME NEW g, Sound(g), NEW amount \in Nat
      PROVE  Accounts(p, f, Heal(g, id, amount)) /\ Sound(GainShield(g, id, amount))
  <2>1. FieldOK(g) /\ id \in Living(g, p)
    BY <1>6 DEF Counted
  <2>2. Hit(p, g, Heal(g, id, amount)) /\ Accounts(p, g, Heal(g, id, amount))
    BY <1>6, <2>1, HealHits, RestAccounts
  <2> DEFINE h == GainShield(g, id, amount)
  <2>3. Hit(p, g, h) /\ KeepsCharge(p, g, h) /\ Accounts(p, g, h)
    BY <1>6, <2>1, GainShieldHits, RestAccounts
  <2> HIDE DEF h
  <2>4. /\ Hit(p, f, h) /\ Accounts(p, f, h) /\ Counted(h)
        /\ Living(h, p) = Living(g, p)
    BY <1>2, <1>5, <1>6, <2>1, <2>3, HitsCompose, HitCounted, HitLiving
  <2>5. id \in DOMAIN h.heroes
    BY <2>1, <2>4 DEF Living
  <2>6. h.heroes[id].kind = hero.kind
    BY <1>6, <2>3, <2>5 DEF Hit, HeroHit, SameHero
  <2>7. h.heroes[id].charge = hero.charge
    BY <1>6, <2>1, <2>3 DEF KeepsCharge
  <2>8. Sound(h)
    BY <2>1, <2>4, <2>6, <2>7
  <2> QED
    BY <1>5, <1>6, <2>2, <2>8 DEF h
<1>7. ASSUME NEW g, Sound(g), NEW amount \in Int, hero.charge + amount \in 0..ChargeLimit(hero.kind)
      PROVE  Accounts(p, f, AddCharge(g, id, amount))
  <2>1. FieldOK(g) /\ id \in Living(g, p)
    BY <1>7 DEF Counted
  <2>2. Hit(p, g, AddCharge(g, id, amount))
    BY <1>7, <2>1, AddChargeHits
  <2>3. Accounts(p, g, AddCharge(g, id, amount))
    BY <1>7, <2>1, <2>2, RestAccounts
  <2> QED
    BY <1>5, <1>7, <2>2, <2>3
<1> HIDE DEF Sound
<1>8. \/ hero.kind = "IronFighter" \/ hero.kind = "SilentHunter"
      \/ hero.kind = "Regent" /\ (hero.charge >= 2 \/ hero.charge < 2)
      \/ hero.kind = "ChickenPot" /\ (hero.charge = 0 \/ hero.charge > 0)
  <2>1. hero.kind \in {"IronFighter", "SilentHunter", "Regent", "ChickenPot"}
    BY <1>1, KindsAssumption
  <2>2. (hero.charge >= 2 \/ hero.charge < 2) /\ (hero.charge = 0 \/ hero.charge > 0)
    BY <1>1
  <2> QED
    BY <2>1, <2>2
<1>9. CASE hero.kind = "IronFighter"
  BY <1>1, <1>4, <1>6, <1>9 DEF PerformAttack
<1>10. CASE hero.kind = "SilentHunter"
  <2>1. PerformAttack(f, p, id) = GainShield(NormalAttack(f, p, id, 12 * value, 0, 2), id, 8 * value)
    BY <1>10 DEF PerformAttack
  <2>2. Sound(PerformAttack(f, p, id))
    BY <1>1, <1>4, <1>6, <2>1
  <2> QED
    BY <2>2 DEF Sound
<1>11. CASE hero.kind = "Regent" /\ hero.charge >= 2
  <2>1. hero.charge + (-2) \in 0..ChargeLimit(hero.kind)
    BY <1>1, <1>11 DEF ChargeLimit
  <2>2. PerformAttack(f, p, id) = AddCharge(NormalAttack(f, p, id, 14 * value, 1, 2), id, -2)
    <3>1. hero.kind = "Regent" /\ hero.charge >= 2 /\ ~(hero.charge < 2)
      BY <1>1, <1>11
    <3> QED
      BY <3>1 DEF PerformAttack
  <2> QED
    BY <1>1, <1>4, <1>7, <2>1, <2>2
<1>12. ASSUME NEW amount \in Nat, hero.charge + amount <= ChargeLimit(hero.kind),
              ChargeLimit(hero.kind) \in Nat,
              PerformAttack(f, p, id)
                = AddCharge(GainShield(NormalAttack(f, p, id, 6 * value, 0, 0), id, 5 * value),
                            id, amount)
      PROVE  Accounts(p, f, PerformAttack(f, p, id))
  <2>1. Sound(GainShield(NormalAttack(f, p, id, 6 * value, 0, 0), id, 5 * value))
    BY <1>1, <1>4, <1>6
  <2>2. hero.charge + amount \in 0..ChargeLimit(hero.kind)
    BY <1>1, <1>12
  <2> QED
    BY <1>7, <1>12, <2>1, <2>2
<1>13. CASE hero.kind = "Regent" /\ hero.charge < 2
  <2>1. ChargeLimit(hero.kind) = 4 /\ hero.charge + 3 <= 4
    BY <1>1, <1>13 DEF ChargeLimit
  <2>2. PerformAttack(f, p, id)
          = AddCharge(GainShield(NormalAttack(f, p, id, 6 * value, 0, 0), id, 5 * value), id, 3)
    BY <1>13 DEF PerformAttack
  <2> QED
    BY <1>12, <2>1, <2>2
<1>14. CASE hero.kind = "ChickenPot" /\ hero.charge = 0
  <2>1. ChargeLimit(hero.kind) = 1 /\ hero.charge + 1 <= 1
    BY <1>14 DEF ChargeLimit
  <2>2. PerformAttack(f, p, id)
          = AddCharge(GainShield(NormalAttack(f, p, id, 6 * value, 0, 0), id, 5 * value), id, 1)
    BY <1>14 DEF PerformAttack
  <2> QED
    BY <1>12, <2>1, <2>2
<1>15. CASE hero.kind = "ChickenPot" /\ hero.charge > 0
  <2>1. PerformAttack(f, p, id) = NormalAttack(f, p, id, 6 * value, 0, 0)
    BY <1>15 DEF PerformAttack
  <2>2. Sound(PerformAttack(f, p, id))
    BY <1>1, <1>4, <2>1
  <2> QED
    BY <2>2 DEF Sound
<1> QED
  BY <1>8, <1>9, <1>10, <1>11, <1>13, <1>14, <1>15

LEMMA LightningAccounts ==
  ASSUME NEW f, Counted(f), NEW p \in Players, NEW id \in Living(f, p), NEW target,
         target \in LightningTargets(f, p), f.towers[Opponent(p)].hp > 0
  PROVE  Accounts(p, f, Lightning(f, p, id, target))
<1>1. 8 * f.heroes[id].value \in Nat
  BY OwnHero DEF Counted
<1>2. target = TowerTarget(p) \/ target \in Living(f, Opponent(p))
  BY DEF LightningTargets
<1> QED
  BY <1>1, <1>2, DamageTowerAccounts, DamageHeroAccounts DEF Lightning

-----------------------------------------------------------------------------
(* The elimination and the end of the turn.                                *)

LEMMA NewHeroOK ==
  ASSUME NEW kind \in Kinds, NEW value \in Nat \ {0}, NEW position \in Positions
  PROVE  HeroOK(NewHero(kind, value, position)) /\ NewHero(kind, value, position).position = position
<1>1. MaxHp(kind, value) \in Nat \ {0}
  BY MaxHpType
<1>2. InitialCharge(kind) \in Nat /\ InitialCharge(kind) <= ChargeLimit(kind)
  <2>1. kind \in {"IronFighter", "SilentHunter", "Regent", "ChickenPot"}
    BY KindsAssumption
  <2> QED
    BY <2>1 DEF InitialCharge, ChargeLimit
<1> QED
  BY <1>1, <1>2 DEF NewHero, HeroOK, HeroRecords

\* The cells of a legal path, and the gaps it leaves, are cells of the mover's;
\* its last cell is one of them and no gap.
LEMMA PathEnds ==
  ASSUME NEW heroes, NEW p \in Players, NEW path \in Paths(p), NEW kind,
         LegalPath(heroes, p, path, kind)
  PROVE  /\ path[Len(path)] \in Area(p) \ Gaps(path) /\ path[Len(path)] \in OnPath(path)
         /\ Gaps(path) \subseteq OnPath(path) /\ Area(p) \subseteq Positions
<1>1. Len(path) \in Nat /\ Len(path) >= 3
  <2>1. PICK n \in 3..MaxPath : path \in [1..n -> Area(p)]
    BY DEF Paths
  <2>2. path \in Seq(Area(p))
    BY <2>1, BoundsAssumption
  <2> QED
    BY <2>2 DEF LegalPath
<1>2. path[Len(path)] \in OnPath(path)
  BY <1>1 DEF OnPath
<1> QED
  BY <1>2 DEF LegalPath, Gaps, Area

\* The heroes after an elimination: those not on the path, moved and otherwise
\* what they were, on the mover's side if they stood there; and a new one.  No
\* two stand in one cell.
LEMMA ResolveKeeps ==
  ASSUME NEW heroes, NEW p \in Players, NEW path \in Paths(p), NEW kind \in Kinds,
         LegalPath(heroes, p, path, kind), Value(heroes, path) \in Nat \ {0},
         \A i \in DOMAIN heroes : HeroOK(heroes[i]),
         \A a, b \in DOMAIN heroes : heroes[a].position = heroes[b].position => a = b,
         NEW new, new \notin DOMAIN heroes,
         NEW r, r = Resolve(heroes, p, path, kind, new)
  PROVE  /\ r = [i \in DOMAIN r |-> r[i]] /\ new \in DOMAIN r
         /\ DOMAIN r \subseteq DOMAIN heroes \cup {new}
         /\ \A i \in DOMAIN r : HeroOK(r[i])
         /\ \A i \in DOMAIN r \ {new} :
              /\ r[i].weak = heroes[i].weak
              /\ PlayerIdForPosition(heroes[i].position) = p => PlayerIdForPosition(r[i].position) = p
         /\ \A a, b \in DOMAIN r : r[a].position = r[b].position => a = b
<1> DEFINE stay == DOMAIN heroes \ IdsOn(heroes, OnPath(path))
           gaps == Gaps(path)
           end == path[Len(path)]
           first == NewHero(kind, Value(heroes, path), Landing(p, gaps, end))
<1>1. r = [i \in stay \cup {new} |->
             IF i = new THEN first
             ELSE [heroes[i] EXCEPT !.position = Landing(p, gaps, heroes[i].position)]]
  BY DEF Resolve
<1> HIDE DEF first
<1>2. /\ DOMAIN r = stay \cup {new} /\ r = [i \in DOMAIN r |-> r[i]] /\ r[new] = first
      /\ \A i \in stay : r[i] = [heroes[i] EXCEPT !.position = Landing(p, gaps, heroes[i].position)]
  BY <1>1
<1>3. /\ end \in Area(p) \ gaps /\ end \in OnPath(path) /\ gaps \subseteq OnPath(path)
      /\ Area(p) \subseteq Positions /\ p \in {0, 1}
  BY PathEnds DEF Players
<1> HIDE DEF gaps, end
<1>4. HeroOK(first) /\ first.position = Landing(p, gaps, end)
  BY <1>3, LandingInside, NewHeroOK DEF first
<1>5. ASSUME NEW i \in stay
      PROVE  /\ heroes[i].position \in Positions \ gaps /\ heroes[i].position # end
             /\ HeroOK(r[i]) /\ r[i].position = Landing(p, gaps, heroes[i].position)
             /\ r[i].weak = heroes[i].weak
             /\ PlayerIdForPosition(heroes[i].position) = p => PlayerIdForPosition(r[i].position) = p
  <2> DEFINE hero == heroes[i]
             there == Landing(p, gaps, hero.position)
  <2>1. HeroOK(hero) /\ hero \in HeroRecords /\ hero.position \in Positions
    BY HeroTypes DEF HeroOK
  <2>2. hero.position \notin OnPath(path)
    BY DEF IdsOn
  <2>3. there \in Positions
    BY <1>3, <2>1, LandingInside
  <2>4. r[i] = [hero EXCEPT !.position = there]
    BY <1>2
  <2> HIDE DEF hero, there
  <2>5. /\ r[i].position = there /\ r[i].weak = hero.weak /\ HeroOK(r[i])
    BY <2>1, <2>3, <2>4 DEF HeroOK, HeroRecords
  <2>6. PlayerIdForPosition(hero.position) = p => PlayerIdForPosition(there) = p
    BY <1>3, <2>1, LandsInArea DEF Area, there
  <2> QED
    BY <1>3, <2>1, <2>2, <2>5, <2>6 DEF hero, there
<1>6. new \notin stay
  OBVIOUS
<1>7. \A i \in DOMAIN r : HeroOK(r[i])
  BY <1>2, <1>4, <1>5
<1>8. ASSUME NEW a \in DOMAIN r, NEW b \in DOMAIN r, r[a].position = r[b].position
      PROVE  a = b
  <2>1. CASE a \in stay /\ b \in stay
    <3>1. heroes[a].position = heroes[b].position
      BY <1>3, <1>5, <1>8, <2>1, LandingInjective
    <3> QED
      BY <2>1, <3>1
  <2>2. ASSUME NEW i \in stay, r[i].position = r[new].position
        PROVE  FALSE
    BY <1>2, <1>3, <1>4, <1>5, <2>2, LandingInjective
  <2> QED
    BY <1>2, <1>8, <2>1, <2>2
<1> QED
  BY <1>2, <1>5, <1>6, <1>7, <1>8

\* No hero of a field is dead, so the last conversion finds none.
LEMMA ConvertNobody ==
  ASSUME NEW f, FieldOK(f)
  PROVE  /\ FieldOK(ConvertDead(f)) /\ DOMAIN ConvertDead(f).heroes = DOMAIN f.heroes
         /\ \A i \in DOMAIN f.heroes : ConvertDead(f).heroes[i] = f.heroes[i]
         /\ ConvertDead(f).towers = f.towers /\ ConvertDead(f).falls = f.falls
<1> DEFINE g == ConvertDead(f)
<1>1. /\ IsField(g) /\ g.towers = f.towers /\ g.dealt = f.dealt /\ g.falls = f.falls
      /\ g.heroes = [i \in {j \in DOMAIN f.heroes : f.heroes[j].hp > 0} |-> f.heroes[i]]
  BY FieldParts, ConvertDeadShape, ZenonT(30)
<1> HIDE DEF g
<1>2. \A i \in DOMAIN f.heroes : HeroOK(f.heroes[i]) /\ f.heroes[i].hp \in Nat \ {0}
  BY FieldParts, HeroTypes
<1>3. {j \in DOMAIN f.heroes : f.heroes[j].hp > 0} = DOMAIN f.heroes
  BY <1>2
<1>4. /\ DOMAIN g.heroes = DOMAIN f.heroes /\ \A i \in DOMAIN f.heroes : g.heroes[i] = f.heroes[i]
      /\ g.heroes = [i \in DOMAIN g.heroes |-> g.heroes[i]]
  BY <1>1, <1>3
<1>5. /\ g.towers \in [Players -> [hp : 0..TowerMaxHp, vulnerable : Nat, weak : Nat]]
      /\ g.dealt \in Nat /\ g.falls \in Nat
  BY <1>1, FieldParts
<1>6. FieldOK(g)
  <2>1. \A i \in DOMAIN g.heroes : HeroOK(g.heroes[i])
    BY <1>2, <1>4
  <2> QED
    BY <1>1, <1>4, <1>5, <2>1, FieldFromParts
<1> QED
  BY <1>1, <1>4, <1>6 DEF g

\* A layer less, and nothing else.
LEMMA WearOffKeeps ==
  ASSUME NEW f, FieldOK(f), NEW g, g = WearOff(f)
  PROVE  /\ FieldOK(g) /\ DOMAIN g.heroes = DOMAIN f.heroes
         /\ \A i \in DOMAIN f.heroes : /\ g.heroes[i].position = f.heroes[i].position
                                       /\ g.heroes[i].weak = Greatest(0, f.heroes[i].weak - 1)
         /\ \A q \in Players : g.towers[q].hp = f.towers[q].hp
         /\ g.falls = f.falls
<1> DEFINE Fewer(x) == [x EXCEPT !.vulnerable = Greatest(0, @ - 1), !.weak = Greatest(0, @ - 1)]
           heroes == [i \in DOMAIN f.heroes |-> Fewer(f.heroes[i])]
           towers == [q \in Players |-> Fewer(f.towers[q])]
<1>1. g = [f EXCEPT !.heroes = heroes, !.towers = towers]
  BY DEF WearOff
<1>2. ASSUME NEW i \in DOMAIN f.heroes
      PROVE  /\ HeroOK(heroes[i]) /\ heroes[i].position = f.heroes[i].position
             /\ heroes[i].weak = Greatest(0, f.heroes[i].weak - 1)
  <2> DEFINE hero == f.heroes[i]
  <2>1. HeroOK(hero) /\ hero \in HeroRecords
    BY FieldParts
  <2>2. /\ hero.vulnerable \in Nat /\ hero.weak \in Nat /\ hero.hp \in Nat \ {0}
        /\ hero.shield \in Nat /\ hero.charge \in Nat
        /\ hero.hp <= MaxHp(hero.kind, hero.value) /\ hero.charge <= ChargeLimit(hero.kind)
    BY <2>1, HeroTypes DEF HeroOK
  <2>3. Greatest(0, hero.vulnerable - 1) \in Nat /\ Greatest(0, hero.weak - 1) \in Nat
    BY <2>2 DEF Greatest
  <2>4. heroes[i] = Fewer(hero)
    OBVIOUS
  <2> HIDE DEF heroes, hero
  <2>5. /\ IsHero(heroes[i]) /\ SameHero(hero, heroes[i])
        /\ heroes[i].hp = hero.hp /\ heroes[i].shield = hero.shield
        /\ heroes[i].vulnerable = Greatest(0, hero.vulnerable - 1)
        /\ heroes[i].weak = Greatest(0, hero.weak - 1) /\ heroes[i].charge = hero.charge
    BY <2>1, <2>4 DEF HeroRecords, IsHero, SameHero
  <2>6. HeroOK(heroes[i])
    BY <2>1, <2>2, <2>3, <2>5, ChangedHero
  <2> QED
    BY <2>5, <2>6 DEF hero, SameHero
<1>3. ASSUME NEW q \in Players
      PROVE  /\ towers[q] \in [hp : 0..TowerMaxHp, vulnerable : Nat, weak : Nat]
             /\ towers[q].hp = f.towers[q].hp
  <2> DEFINE tower == f.towers[q]
  <2>1. /\ tower \in [hp : 0..TowerMaxHp, vulnerable : Nat, weak : Nat]
        /\ tower.vulnerable \in Nat /\ tower.weak \in Nat
    BY TowerTypes
  <2>2. Greatest(0, tower.vulnerable - 1) \in Nat /\ Greatest(0, tower.weak - 1) \in Nat
    BY <2>1 DEF Greatest
  <2>3. towers[q] = Fewer(tower)
    OBVIOUS
  <2> HIDE DEF towers, tower
  <2>4. towers[q] = [hp |-> tower.hp, vulnerable |-> Greatest(0, tower.vulnerable - 1),
                     weak |-> Greatest(0, tower.weak - 1)]
    BY <2>1, <2>3
  <2> QED
    BY <2>1, <2>2, <2>4 DEF tower
<1>4. heroes = [i \in DOMAIN heroes |-> heroes[i]] /\ DOMAIN heroes = DOMAIN f.heroes
  OBVIOUS
<1>5. towers \in [Players -> [hp : 0..TowerMaxHp, vulnerable : Nat, weak : Nat]]
  BY <1>3
<1> HIDE DEF heroes, towers
<1>6. f \in [heroes : [DOMAIN f.heroes -> HeroRecords],
             towers : [Players -> [hp : 0..TowerMaxHp, vulnerable : Nat, weak : Nat]],
             dealt : Nat, falls : Nat]
  BY DEF FieldOK
<1>7. IsField(g)
  BY <1>1, <1>6 DEF IsField
<1>8. /\ g.heroes = heroes /\ g.towers = towers /\ g.dealt = f.dealt /\ g.falls = f.falls
      /\ g.dealt \in Nat /\ g.falls \in Nat
  BY <1>1, <1>6
<1>9. FieldOK(g)
  BY <1>2, <1>4, <1>5, <1>7, <1>8, FieldFromParts
<1> QED
  BY <1>2, <1>3, <1>4, <1>8, <1>9

-----------------------------------------------------------------------------
(* The invariant.                                                          *)

Side(hero) == PlayerIdForPosition(hero.position)

\* Turns, and who has won.
TurnInv == /\ mover = IF turn % 2 = 1 THEN FirstPlayer ELSE 1 - FirstPlayer
           /\ phase # "Finished" => winner = -1
           /\ phase = "WaitingForPlayers" => turn = 1
           /\ phase = "Combat" => turn > 1

\* The mover's tower stands; the other falls in a combat, is announced, and ends
\* the game.
TowerInv == LET enemy == field.towers[Opponent(mover)]
            IN  /\ field.towers[mover].hp > 0
                /\ field.falls = IF enemy.hp = 0 THEN 1 ELSE 0
                /\ phase \in {"WaitingForPlayers", "Elimination"} => enemy.hp > 0
                /\ phase = "Finished" => enemy.hp = 0
                /\ bolts > 0 => enemy.hp > 0

\* The mover's tower is what it was when the combat started, the other no more.
StartInv == phase = "Combat" =>
              /\ \A q \in Players : start.towers[q].hp \in Nat
              /\ start.towers[mover].hp = field.towers[mover].hp
              /\ field.towers[Opponent(mover)].hp <= start.towers[Opponent(mover)].hp

\* Those left weak by the last combat stand on the mover's side; those made weak
\* in this one have two layers.
WeakInv == \A i \in weakened \cap DOMAIN field.heroes :
             /\ field.heroes[i].weak > 0
             /\ phase \in {"WaitingForPlayers", "Elimination"} => Side(field.heroes[i]) = mover
             /\ phase = "Combat" /\ Side(field.heroes[i]) # mover => field.heroes[i].weak >= 2

CombatInv == TypeOK /\ OnePerCell /\ TurnInv /\ TowerInv /\ StartInv /\ WeakInv

LEMMA InitInv == Init => CombatInv
<1> SUFFICES ASSUME Init PROVE CombatInv
  OBVIOUS
<1>1. /\ field = [heroes |-> [id \in {} |-> 0], towers |-> [p \in Players |-> NewTower],
                 dealt |-> 0, falls |-> 0]
      /\ phase = "WaitingForPlayers" /\ mover = FirstPlayer /\ turn = 1 /\ winner = -1
      /\ bolts = 0 /\ weakened = {}
  BY DEF Init
<1>2. /\ IsField(field) /\ field.heroes = [id \in {} |-> 0] /\ field.dealt = 0 /\ field.falls = 0
      /\ field.towers = [p \in Players |-> NewTower]
  BY <1>1 DEF IsField
<1>3. DOMAIN field.heroes = {} /\ field.heroes = [i \in DOMAIN field.heroes |-> field.heroes[i]]
  BY <1>2
<1>4. /\ field.towers \in [Players -> [hp : 0..TowerMaxHp, vulnerable : Nat, weak : Nat]]
      /\ \A p \in Players : field.towers[p].hp > 0
  BY <1>2, TowerAssumption DEF NewTower
<1>5. FieldOK(field)
  <2>1. \A i \in DOMAIN field.heroes : HeroOK(field.heroes[i])
    BY <1>3
  <2>2. field.dealt \in Nat /\ field.falls \in Nat
    BY <1>2
  <2> QED
    BY <1>2, <1>3, <1>4, <2>1, <2>2, FieldFromParts
<1>6. mover \in Players /\ Opponent(mover) \in Players
  BY <1>1, PlayerAssumption, OpponentType DEF Players
<1>7. TypeOK
  BY <1>1, <1>3, <1>5, <1>6 DEF TypeOK, LightningActivationCount
<1>8. OnePerCell /\ WeakInv /\ StartInv
  BY <1>1, <1>3 DEF OnePerCell, WeakInv, StartInv
<1>9. TurnInv
  BY <1>1 DEF TurnInv
<1>10. TowerInv
  <2>1. field.towers[Opponent(mover)].hp > 0 /\ field.towers[Opponent(mover)].hp # 0
        /\ field.towers[mover].hp > 0
    BY <1>4, <1>6
  <2> QED
    BY <1>1, <1>2, <2>1 DEF TowerInv
<1> QED
  BY <1>7, <1>8, <1>9, <1>10 DEF CombatInv

LEMMA StartStep ==
  ASSUME CombatInv, Start
  PROVE  CombatInv'
<1>1. /\ phase = "WaitingForPlayers" /\ phase' = "Elimination"
      /\ field' = field /\ mover' = mover /\ turn' = turn /\ winner' = winner
      /\ queue' = queue /\ bolts' = bolts /\ start' = start /\ weakened' = weakened
  BY DEF Start, history
<1>2. TypeOK'
  BY <1>1 DEF CombatInv, TypeOK
<1>3. OnePerCell' /\ TurnInv' /\ TowerInv' /\ StartInv' /\ WeakInv'
  BY <1>1 DEF CombatInv, OnePerCell, TurnInv, TowerInv, StartInv, WeakInv
<1> QED
  BY <1>2, <1>3 DEF CombatInv

\* A step of a combat that hits keeps all but what is said of the bolts.
LEMMA HitStep ==
  ASSUME CombatInv, phase = "Combat", phase' = "Combat",
         mover' = mover, turn' = turn, winner' = winner, start' = start,
         Hit(mover, field, field'), field.towers[Opponent(mover)].hp > 0,
         weakened' \subseteq DOMAIN field'.heroes,
         \A i \in weakened' : i \in weakened \/ field'.heroes[i].weak > field.heroes[i].weak,
         bolts' \in 0..LightningActivationCount,
         bolts' > 0 => /\ queue' # << >> /\ Head(queue') \in Living(field', mover)
                       /\ Charged(field', Head(queue'))
                       /\ field'.towers[Opponent(mover)].hp > 0
  PROVE  CombatInv'
<1>1. /\ FieldOK(field) /\ mover \in Players /\ Opponent(mover) \in Players
      /\ turn \in Nat \ {0} /\ winner \in Players \cup {-1}
      /\ DOMAIN field.heroes \cup weakened \subseteq 1..turn
  BY OpponentType DEF CombatInv, TypeOK
<1>2. /\ FieldOK(field') /\ DOMAIN field'.heroes \subseteq DOMAIN field.heroes
      /\ \A i \in DOMAIN field'.heroes : HeroHit(mover, field.heroes[i], field'.heroes[i])
      /\ TowersHit(mover, field, field')
  BY DEF Hit
<1>3. TypeOK'
  BY <1>1, <1>2 DEF TypeOK
<1>4. OnePerCell'
  <2>1. \A i \in DOMAIN field'.heroes : field'.heroes[i].position = field.heroes[i].position
    BY <1>2 DEF HeroHit, SameHero
  <2> QED
    BY <1>2, <2>1 DEF CombatInv, OnePerCell
<1>5. TurnInv'
  BY DEF CombatInv, TurnInv
<1>6. field'.towers[mover].hp \in Nat /\ field'.towers[Opponent(mover)].hp \in Nat
      /\ field.towers[Opponent(mover)].hp \in Nat
  BY <1>1, <1>2, TowerTypes
<1>7. TowerInv'
  BY <1>1, <1>2, <1>6 DEF CombatInv, TowerInv, TowersHit
<1>8. StartInv'
  BY <1>1, <1>2, <1>6 DEF CombatInv, StartInv, TowersHit
<1>9. WeakInv'
  <2> SUFFICES ASSUME NEW i \in weakened' \cap DOMAIN field'.heroes
               PROVE  /\ field'.heroes[i].weak > 0
                      /\ Side(field'.heroes[i]) # mover => field'.heroes[i].weak >= 2
    BY DEF WeakInv
  <2>1. i \in DOMAIN field.heroes /\ HeroHit(mover, field.heroes[i], field'.heroes[i])
    BY <1>2
  <2>2. field.heroes[i].weak \in Nat /\ field'.heroes[i].weak \in Nat
    BY <1>1, <1>2, <2>1, FieldParts, HeroTypes
  <2>3. i \in weakened => /\ field.heroes[i].weak > 0
                          /\ Side(field.heroes[i]) # mover => field.heroes[i].weak >= 2
    BY <2>1 DEF CombatInv, WeakInv
  <2>4. i \in weakened \/ field'.heroes[i].weak > field.heroes[i].weak
    OBVIOUS
  <2>5. /\ Side(field'.heroes[i]) = Side(field.heroes[i])
        /\ Side(field.heroes[i]) = mover => field'.heroes[i].weak = field.heroes[i].weak
        /\ Side(field.heroes[i]) # mover =>
             \/ field'.heroes[i].weak = field.heroes[i].weak
             \/ field'.heroes[i].weak >= field.heroes[i].weak + 2
    BY <2>1 DEF HeroHit, SameHero, Spared, Side
  <2> QED
    BY <2>2, <2>3, <2>4, <2>5
<1> QED
  BY <1>3, <1>4, <1>5, <1>7, <1>8, <1>9 DEF CombatInv

\* A star or an orb changes nothing else.
LEMMA AddChargeKeeps ==
  ASSUME NEW f, FieldOK(f), NEW id \in DOMAIN f.heroes, NEW amount \in Int
  PROVE  /\ DOMAIN AddCharge(f, id, amount).heroes = DOMAIN f.heroes
         /\ \A i \in DOMAIN f.heroes : AddCharge(f, id, amount).heroes[i].weak = f.heroes[i].weak
         /\ AddCharge(f, id, amount).towers = f.towers
<1> DEFINE x == [f.heroes[id] EXCEPT !.charge = @ + amount]
           heroes == [f.heroes EXCEPT ![id] = x]
<1>1. /\ AddCharge(f, id, amount).heroes = heroes
      /\ AddCharge(f, id, amount).towers = f.towers
  BY DEF FieldOK, AddCharge
<1>2. f.heroes[id] \in HeroRecords /\ f.heroes = [i \in DOMAIN f.heroes |-> f.heroes[i]]
  BY FieldParts
<1>3. x.weak = f.heroes[id].weak
  BY <1>2 DEF HeroRecords
<1> HIDE DEF x
<1> QED
  BY <1>1, <1>2, <1>3

LEMMA AttackStep ==
  ASSUME CombatInv, Attack
  PROVE  CombatInv' /\ Hit(mover, field, field')
<1> DEFINE id == Head(queue)
           enemy == Opponent(mover)
           own == id \in Living(field, mover)
           struck == IF own THEN PerformAttack(field, mover, id) ELSE field
           spent == AddCharge(struck, id, -1)
           bursts == own /\ Charged(field, id)
<1>1. /\ phase = "Combat" /\ phase' = "Combat" /\ queue # << >> /\ bolts = 0
      /\ field.towers[enemy].hp # 0
      /\ mover' = mover /\ turn' = turn /\ winner' = winner /\ start' = start
      /\ weakened' = {i \in DOMAIN struck.heroes :
                        i \in weakened \/ struck.heroes[i].weak > field.heroes[i].weak}
  BY DEF Attack, GameFinished
<1>2. \/ /\ bursts /\ struck.towers[enemy].hp # 0
         /\ field' = struck /\ bolts' = LightningActivationCount /\ queue' = queue
      \/ field' = (IF bursts THEN spent ELSE struck) /\ bolts' = bolts
  BY DEF Attack, GameFinished
<1>3. FieldOK(field) /\ mover \in Players /\ enemy \in Players
  BY OpponentType DEF CombatInv, TypeOK
<1>4. field.towers[enemy].hp > 0
  BY <1>1, <1>3, TowerTypes
<1>5. Hit(mover, field, struck) /\ (bursts => KeepsCharge(mover, field, struck))
  <2>1. CASE own
    BY <1>3, <1>4, <2>1, PerformAttackHits
  <2>2. CASE ~own
    BY <1>3, <2>2, HitNothing
  <2> QED
    BY <2>1, <2>2
<1> HIDE DEF struck
<1>6. FieldOK(struck) /\ Living(struck, mover) = Living(field, mover)
  BY <1>3, <1>5, HitLiving DEF Hit
<1>7. ASSUME bursts
      PROVE  /\ id \in Living(struck, mover) /\ id \in DOMAIN struck.heroes
             /\ Charged(struck, id) /\ struck.heroes[id].charge = 1
  <2>1. id \in Living(struck, mover) /\ id \in DOMAIN struck.heroes /\ id \in Living(field, mover)
    BY <1>6, <1>7 DEF Living
  <2>2. struck.heroes[id].kind = "ChickenPot" /\ struck.heroes[id].charge > 0
    BY <1>5, <1>7, <2>1 DEF Hit, HeroHit, SameHero, KeepsCharge, Charged
  <2>3. struck.heroes[id].charge \in Nat /\ struck.heroes[id].charge <= 1
    BY <1>6, <2>1, <2>2, OwnHero DEF ChargeLimit
  <2> QED
    BY <2>1, <2>2, <2>3 DEF Charged
<1>8. ASSUME bursts
      PROVE  /\ Hit(mover, field, spent) /\ DOMAIN spent.heroes = DOMAIN struck.heroes
             /\ \A i \in DOMAIN struck.heroes : spent.heroes[i].weak = struck.heroes[i].weak
  <2>1. struck.heroes[id].charge + (-1) \in 0..ChargeLimit(struck.heroes[id].kind)
    BY <1>7, <1>8 DEF Charged, ChargeLimit
  <2>2. Hit(mover, struck, spent)
    BY <1>3, <1>6, <1>7, <1>8, <2>1, AddChargeHits
  <2> QED
    BY <1>3, <1>5, <1>6, <1>7, <1>8, <2>2, AddChargeKeeps, HitsCompose
<1> HIDE DEF spent
<1>9. /\ Hit(mover, field, field') /\ DOMAIN field'.heroes = DOMAIN struck.heroes
      /\ \A i \in DOMAIN struck.heroes : field'.heroes[i].weak = struck.heroes[i].weak
  BY <1>2, <1>5, <1>8
<1>10. /\ weakened' \subseteq DOMAIN field'.heroes
       /\ \A i \in weakened' : i \in weakened \/ field'.heroes[i].weak > field.heroes[i].weak
  BY <1>1, <1>9
<1>11. struck.towers[enemy].hp \in Nat
  BY <1>3, <1>6, TowerTypes
<1>12. /\ bolts' \in 0..LightningActivationCount
       /\ bolts' > 0 => /\ queue' # << >> /\ Head(queue') \in Living(field', mover)
                        /\ Charged(field', Head(queue'))
                        /\ field'.towers[Opponent(mover)].hp > 0
  BY <1>1, <1>2, <1>7, <1>11 DEF LightningActivationCount
<1> QED
  BY <1>1, <1>4, <1>9, <1>10, <1>12, HitStep

LEMMA StrikeStep ==
  ASSUME CombatInv, NEW target, Strike(target)
  PROVE  CombatInv' /\ Hit(mover, field, field')
<1> DEFINE id == Head(queue)
           enemy == Opponent(mover)
           struck == Lightning(field, mover, id, target)
           spent == AddCharge(struck, id, -1)
           last == bolts = 1 \/ struck.towers[enemy].hp = 0
<1>1. /\ phase = "Combat" /\ phase' = "Combat" /\ bolts > 0
      /\ mover' = mover /\ turn' = turn /\ winner' = winner /\ start' = start
      /\ weakened' = weakened \cap DOMAIN struck.heroes
      /\ field' = IF last THEN spent ELSE struck
      /\ bolts' = IF last THEN 0 ELSE bolts - 1
      /\ ~last => queue' = queue
  BY DEF Strike, GameFinished
<1>2. FieldOK(field) /\ mover \in Players /\ enemy \in Players /\ bolts \in 0..2
  BY OpponentType DEF CombatInv, TypeOK, LightningActivationCount
<1>3. queue # << >> /\ id \in Living(field, mover) /\ Charged(field, id)
      /\ field.towers[enemy].hp > 0
  BY <1>1 DEF CombatInv, TypeOK, TowerInv
<1>4. Hit(mover, field, struck) /\ KeepsCharge(mover, field, struck)
  BY <1>2, <1>3, LightningHits
<1> HIDE DEF struck
<1>5. FieldOK(struck) /\ Living(struck, mover) = Living(field, mover)
  BY <1>2, <1>4, HitLiving DEF Hit
<1>6. id \in Living(struck, mover) /\ id \in DOMAIN struck.heroes
  BY <1>3, <1>5 DEF Living
<1>7. struck.heroes[id].kind = "ChickenPot" /\ struck.heroes[id].charge > 0
  BY <1>3, <1>4, <1>6 DEF Hit, HeroHit, SameHero, KeepsCharge, Charged
<1>8. struck.heroes[id].charge \in Nat /\ struck.heroes[id].charge <= 1
  BY <1>5, <1>6, <1>7, OwnHero DEF ChargeLimit
<1>9. struck.heroes[id].charge + (-1) \in 0..ChargeLimit(struck.heroes[id].kind)
  BY <1>7, <1>8 DEF ChargeLimit
<1>10. Hit(mover, struck, spent) /\ DOMAIN spent.heroes = DOMAIN struck.heroes
  BY <1>2, <1>5, <1>6, <1>9, AddChargeHits, AddChargeKeeps
<1>11. Hit(mover, field, spent)
  BY <1>2, <1>4, <1>10, HitsCompose
<1> HIDE DEF spent
<1>12. Hit(mover, field, field') /\ DOMAIN field'.heroes = DOMAIN struck.heroes
  BY <1>1, <1>4, <1>10, <1>11
<1>13. /\ weakened' \subseteq DOMAIN field'.heroes
       /\ \A i \in weakened' : i \in weakened \/ field'.heroes[i].weak > field.heroes[i].weak
  BY <1>1, <1>12
<1>14. struck.towers[enemy].hp \in Nat
  BY <1>2, <1>5, TowerTypes
<1>15. /\ bolts' \in 0..LightningActivationCount
       /\ bolts' > 0 => /\ queue' # << >> /\ Head(queue') \in Living(field', mover)
                        /\ Charged(field', Head(queue'))
                        /\ field'.towers[Opponent(mover)].hp > 0
  BY <1>1, <1>2, <1>3, <1>6, <1>7, <1>14 DEF LightningActivationCount, Charged
<1> QED
  BY <1>1, <1>3, <1>12, <1>13, <1>15, HitStep

LEMMA EliminateStep ==
  ASSUME CombatInv, NEW path \in Paths(mover), NEW kind \in Kinds, Eliminate(path, kind)
  PROVE  CombatInv' /\ field'.towers = field.towers
<1> DEFINE heroes == Resolve(field.heroes, mover, path, kind, turn)
           arranged == [field EXCEPT !.heroes = heroes, !.dealt = 0, !.falls = 0]
<1>1. /\ phase = "Elimination" /\ LegalPath(field.heroes, mover, path, kind)
      /\ Value(field.heroes, path) \in Nat \ {0}
      /\ field' = arranged /\ winner' = winner /\ bolts' = bolts /\ weakened' = weakened
      /\ \/ /\ turn = 1 /\ phase' = "Elimination"
            /\ mover' = Opponent(mover) /\ turn' = turn + 1
         \/ /\ turn # 1 /\ phase' = "Combat" /\ start' = arranged
            /\ mover' = mover /\ turn' = turn
  BY DEF Eliminate, PassTurn
<1>2. /\ FieldOK(field) /\ mover \in Players /\ Opponent(mover) \in Players
      /\ turn \in Nat \ {0} /\ winner \in Players \cup {-1} /\ bolts = 0
      /\ DOMAIN field.heroes \cup weakened \subseteq 1..turn - 1
  BY <1>1, OpponentType DEF CombatInv, TypeOK, LightningActivationCount
<1>3. turn \notin DOMAIN field.heroes
  BY <1>2
<1>4. /\ heroes = [i \in DOMAIN heroes |-> heroes[i]]
      /\ DOMAIN heroes \subseteq DOMAIN field.heroes \cup {turn}
      /\ \A i \in DOMAIN heroes : HeroOK(heroes[i])
      /\ \A i \in DOMAIN heroes \ {turn} :
           /\ heroes[i].weak = field.heroes[i].weak
           /\ Side(field.heroes[i]) = mover => Side(heroes[i]) = mover
      /\ \A a, b \in DOMAIN heroes : heroes[a].position = heroes[b].position => a = b
  <2>1. \A i \in DOMAIN field.heroes : HeroOK(field.heroes[i])
    BY <1>2, FieldParts
  <2>2. \A a, b \in DOMAIN field.heroes :
          field.heroes[a].position = field.heroes[b].position => a = b
    BY DEF CombatInv, OnePerCell
  <2> HIDE DEF heroes
  <2>3. ASSUME NEW r, r = Resolve(field.heroes, mover, path, kind, turn)
        PROVE  /\ r = [i \in DOMAIN r |-> r[i]]
               /\ DOMAIN r \subseteq DOMAIN field.heroes \cup {turn}
               /\ \A i \in DOMAIN r : HeroOK(r[i])
               /\ \A i \in DOMAIN r \ {turn} :
                    /\ r[i].weak = field.heroes[i].weak
                    /\ Side(field.heroes[i]) = mover => Side(r[i]) = mover
               /\ \A a, b \in DOMAIN r : r[a].position = r[b].position => a = b
    BY <1>1, <1>2, <1>3, <2>1, <2>2, <2>3, ResolveKeeps DEF Side
  <2> QED
    BY <2>3 DEF heroes
<1> HIDE DEF heroes
<1>5. /\ IsField(arranged) /\ arranged.heroes = heroes /\ arranged.towers = field.towers
      /\ arranged.dealt = 0 /\ arranged.falls = 0
  <2>1. field \in [heroes : [DOMAIN field.heroes -> HeroRecords],
                  towers : [Players -> [hp : 0..TowerMaxHp, vulnerable : Nat, weak : Nat]],
                  dealt : Nat, falls : Nat]
    BY <1>2 DEF FieldOK
  <2>2. ASSUME NEW m, m = arranged
        PROVE  /\ IsField(m) /\ m.heroes = heroes /\ m.towers = field.towers
               /\ m.dealt = 0 /\ m.falls = 0
    <3>1. m = [field EXCEPT !.heroes = heroes, !.dealt = 0, !.falls = 0]
      BY <2>2
    <3>2. IsField(m)
      BY <2>1, <3>1 DEF IsField
    <3>3. m.heroes = heroes /\ m.towers = field.towers /\ m.dealt = 0 /\ m.falls = 0
      BY <2>1, <3>1
    <3> QED
      BY <3>2, <3>3
  <2> HIDE DEF arranged
  <2> QED
    BY <2>2
<1>6. FieldOK(arranged)
  <2>1. /\ field.towers \in [Players -> [hp : 0..TowerMaxHp, vulnerable : Nat, weak : Nat]]
        /\ 0 \in Nat
    BY <1>2, FieldParts
  <2> HIDE DEF arranged
  <2>2. \A i \in DOMAIN arranged.heroes : HeroOK(arranged.heroes[i])
    BY <1>4, <1>5
  <2>3. arranged.heroes = [i \in DOMAIN arranged.heroes |-> arranged.heroes[i]]
    BY <1>4, <1>5
  <2> QED
    BY <1>5, <2>1, <2>2, <2>3, FieldFromParts
<1> HIDE DEF arranged
<1>7. \A p \in Players : field.towers[p].hp \in Nat /\ field.towers[p].hp > 0
  <2>1. field.towers[mover].hp > 0 /\ field.towers[Opponent(mover)].hp > 0
    BY <1>1 DEF CombatInv, TowerInv
  <2> QED
    BY <1>2, <2>1, TowerTypes DEF Players, Opponent
<1>8. /\ turn' \in Nat \ {0} /\ mover' \in Players
      /\ turn' = turn \/ (turn = 1 /\ turn' = 2)
  BY <1>1, <1>2
<1>9. TypeOK'
  <2>1. DOMAIN field'.heroes \cup weakened'
          \subseteq 1..IF phase' \in {"Combat", "Finished"} THEN turn' ELSE turn' - 1
    <3>1. DOMAIN field'.heroes \cup weakened' \subseteq (1..turn - 1) \cup {turn}
      BY <1>1, <1>2, <1>4, <1>5
    <3>2. (1..turn - 1) \cup {turn} \subseteq 1..turn
      BY <1>2
    <3> QED
      BY <1>1, <1>2, <3>1, <3>2
  <2> QED
    BY <1>1, <1>2, <1>6, <1>8, <2>1 DEF TypeOK, LightningActivationCount
<1>10. OnePerCell'
  BY <1>1, <1>4, <1>5 DEF OnePerCell
<1>11. TurnInv'
  BY <1>1, <1>2, <1>8, PlayerAssumption DEF CombatInv, TurnInv, Opponent, Players
<1>12. TowerInv'
  <2>1. mover' \in Players /\ Opponent(mover') \in Players
    BY <1>8, OpponentType
  <2>2. /\ field'.towers[mover'].hp > 0 /\ field'.towers[Opponent(mover')].hp > 0
        /\ field'.towers[Opponent(mover')].hp # 0 /\ field'.falls = 0
    BY <1>1, <1>5, <1>7, <2>1
  <2> QED
    BY <1>1, <1>2, <2>2 DEF TowerInv
<1>13. StartInv'
  BY <1>1, <1>2, <1>5, <1>7 DEF StartInv
<1>14. WeakInv'
  <2> SUFFICES ASSUME NEW i \in weakened' \cap DOMAIN field'.heroes
               PROVE  /\ field'.heroes[i].weak > 0 /\ turn # 1
                      /\ Side(field'.heroes[i]) = mover
    BY <1>1 DEF WeakInv
  <2>1. i \in weakened /\ i \in DOMAIN heroes /\ i \in 1..turn - 1
    BY <1>1, <1>2, <1>5
  <2>2. i \in DOMAIN heroes \ {turn} /\ i \in DOMAIN field.heroes /\ turn # 1
    BY <1>2, <1>4, <2>1
  <2>3. field.heroes[i].weak > 0 /\ Side(field.heroes[i]) = mover
    BY <1>1, <2>1, <2>2 DEF CombatInv, WeakInv
  <2> QED
    BY <1>1, <1>4, <1>5, <2>2, <2>3
<1> QED
  BY <1>1, <1>5, <1>9, <1>10, <1>11, <1>12, <1>13, <1>14 DEF CombatInv

\* The end of a combat: what it does to the towers, and to the heroes.
LEMMA EndCombatField ==
  ASSUME CombatInv, EndCombat
  PROVE  /\ FieldOK(field') /\ DOMAIN field'.heroes = DOMAIN field.heroes
         /\ \A i \in DOMAIN field.heroes :
              /\ field'.heroes[i].position = field.heroes[i].position
              /\ field'.heroes[i].weak = Greatest(0, field.heroes[i].weak - 1)
         /\ \A q \in Players : field'.towers[q].hp = field.towers[q].hp
         /\ field'.falls = field.falls
<1>1. FieldOK(field) /\ field' = ConvertDead(WearOff(field))
  BY DEF CombatInv, TypeOK, EndCombat
<1>2. ASSUME NEW g, g = WearOff(field)
      PROVE  /\ FieldOK(g) /\ DOMAIN g.heroes = DOMAIN field.heroes
             /\ \A i \in DOMAIN field.heroes :
                  /\ g.heroes[i].position = field.heroes[i].position
                  /\ g.heroes[i].weak = Greatest(0, field.heroes[i].weak - 1)
             /\ \A q \in Players : g.towers[q].hp = field.towers[q].hp
             /\ g.falls = field.falls
  BY <1>1, <1>2, WearOffKeeps
<1>3. PICK g : g = WearOff(field)
  OBVIOUS
<1> QED
  BY <1>1, <1>2, <1>3, ConvertNobody

LEMMA EndCombatStep ==
  ASSUME CombatInv, EndCombat
  PROVE  CombatInv'
<1>1. /\ phase = "Combat" /\ bolts = 0 /\ bolts' = bolts
      /\ weakened' = weakened \cap Living(field, Opponent(mover))
      /\ \/ /\ field.towers[Opponent(mover)].hp = 0 /\ phase' = "Finished" /\ winner' = mover
            /\ mover' = mover /\ turn' = turn
         \/ /\ field.towers[Opponent(mover)].hp # 0 /\ phase' = "Elimination" /\ winner' = winner
            /\ mover' = Opponent(mover) /\ turn' = turn + 1
  BY DEF EndCombat, GameFinished, PassTurn
<1>2. /\ FieldOK(field') /\ DOMAIN field'.heroes = DOMAIN field.heroes
      /\ \A i \in DOMAIN field.heroes :
           /\ field'.heroes[i].position = field.heroes[i].position
           /\ field'.heroes[i].weak = Greatest(0, field.heroes[i].weak - 1)
      /\ \A q \in Players : field'.towers[q].hp = field.towers[q].hp
      /\ field'.falls = field.falls
  BY EndCombatField
<1>3. /\ FieldOK(field) /\ mover \in Players /\ Opponent(mover) \in Players
      /\ Opponent(Opponent(mover)) = mover /\ Opponent(mover) # mover
      /\ turn \in Nat \ {0} /\ winner \in Players \cup {-1}
      /\ DOMAIN field.heroes \cup weakened \subseteq 1..turn
  BY <1>1, OpponentType DEF CombatInv, TypeOK
<1>4. /\ field.towers[mover].hp > 0 /\ field.towers[mover].hp # 0
      /\ field.towers[Opponent(mover)].hp \in Nat
      /\ field.falls = IF field.towers[Opponent(mover)].hp = 0 THEN 1 ELSE 0
  BY <1>3, TowerTypes DEF CombatInv, TowerInv
<1>5. TypeOK'
  <2>1. turn' \in Nat \ {0} /\ mover' \in Players /\ winner' \in Players \cup {-1}
    BY <1>1, <1>3
  <2>2. DOMAIN field'.heroes \cup weakened'
          \subseteq 1..IF phase' \in {"Combat", "Finished"} THEN turn' ELSE turn' - 1
    BY <1>1, <1>2, <1>3
  <2> QED
    BY <1>1, <1>2, <2>1, <2>2 DEF TypeOK, LightningActivationCount
<1>6. OnePerCell'
  BY <1>2 DEF CombatInv, OnePerCell
<1>7. TurnInv'
  BY <1>1, <1>3, PlayerAssumption DEF CombatInv, TurnInv, Opponent, Players
<1>8. TowerInv'
  BY <1>1, <1>2, <1>3, <1>4 DEF TowerInv
<1>9. StartInv'
  BY <1>1 DEF StartInv
<1>10. WeakInv'
  <2> SUFFICES ASSUME NEW i \in weakened' \cap DOMAIN field'.heroes
               PROVE  /\ field'.heroes[i].weak > 0
                      /\ Side(field'.heroes[i]) = Opponent(mover)
    BY <1>1 DEF WeakInv
  <2>1. /\ i \in weakened \cap DOMAIN field.heroes /\ Side(field.heroes[i]) = Opponent(mover)
        /\ Side(field.heroes[i]) # mover
    BY <1>1, <1>2, <1>3 DEF Living, Side
  <2>2. field.heroes[i].weak >= 2
    BY <1>1, <2>1 DEF CombatInv, WeakInv
  <2>3. field.heroes[i].weak \in Nat
    BY <1>3, <2>1, FieldParts, HeroTypes
  <2> QED
    BY <1>2, <2>1, <2>2, <2>3 DEF Greatest, Side
<1> QED
  BY <1>5, <1>6, <1>7, <1>8, <1>9, <1>10 DEF CombatInv

LEMMA StepInv == CombatInv /\ [Next]_vars => CombatInv'
<1> SUFFICES ASSUME CombatInv, [Next]_vars PROVE CombatInv'
  OBVIOUS
<1>1. CASE Start
  BY <1>1, StartStep
<1>2. ASSUME NEW path \in Paths(mover), NEW kind \in Kinds, Eliminate(path, kind)
      PROVE  CombatInv'
  BY <1>2, EliminateStep
<1>3. CASE Attack
  BY <1>3, AttackStep
<1>4. ASSUME NEW target, Strike(target)
      PROVE  CombatInv'
  BY <1>4, StrikeStep
<1>5. CASE EndCombat
  BY <1>5, EndCombatStep
<1>6. CASE UNCHANGED vars
  BY <1>6 DEF vars, history, CombatInv, TypeOK, OnePerCell, TurnInv, TowerInv, StartInv, WeakInv
<1> QED
  BY <1>1, <1>2, <1>3, <1>4, <1>5, <1>6 DEF Next

-----------------------------------------------------------------------------
(* The theorems.                                                           *)

THEOREM Invariance == Spec => []CombatInv
BY InitInv, StepInv, PTL DEF Spec

\* Between two strikes every hero on the board lives within its limits, and
\* lightning only strikes from a charged pot on the mover's side, on any board.
THEOREM TypeCorrect == Spec => []TypeOK
<1>1. CombatInv => TypeOK
  BY DEF CombatInv
<1> QED
  BY <1>1, Invariance, PTL

\* No elimination, collapse or death ever puts two heroes into one cell.
THEOREM HeroesApart == Spec => []OnePerCell
<1>1. CombatInv => OnePerCell
  BY DEF CombatInv
<1> QED
  BY <1>1, Invariance, PTL

\* A hero left weak by a combat is still weak in its own side's next one.
THEOREM WeaknessBites == Spec => []WeakUntilItStrikes
<1>1. CombatInv => WeakUntilItStrikes
  BY DEF CombatInv, WeakInv, WeakUntilItStrikes
<1> QED
  BY <1>1, Invariance, PTL

\* One announcement for a fallen tower, none for a standing one.
THEOREM OneFall == Spec => []FallAnnouncedOnce
<1>1. ASSUME CombatInv PROVE FallAnnouncedOnce
  <2> DEFINE enemy == Opponent(mover)
             fallen == {p \in Players : field.towers[p].hp = 0}
  <2>1. mover \in Players /\ enemy \in Players /\ \A p \in Players : p \in {mover, enemy}
    BY <1>1 DEF CombatInv, TypeOK, Players, Opponent
  <2>2. /\ field.towers[mover].hp > 0 /\ field.towers[mover].hp # 0
        /\ field.falls = IF field.towers[enemy].hp = 0 THEN 1 ELSE 0
    BY <1>1 DEF CombatInv, TowerInv
  <2>3. CASE field.towers[enemy].hp = 0
    <3>1. fallen = {enemy}
      BY <2>1, <2>2, <2>3
    <3> QED
      BY <2>2, <2>3, <3>1, FS_Singleton DEF FallAnnouncedOnce
  <2>4. CASE field.towers[enemy].hp # 0
    <3>1. fallen = {}
      BY <2>1, <2>2, <2>4
    <3> QED
      BY <2>2, <2>4, <3>1, FS_EmptySet DEF FallAnnouncedOnce
  <2> QED
    BY <2>3, <2>4
<1> QED
  BY <1>1, Invariance, PTL

\* A hit spares all but the defender.
LEMMA HitSpares ==
  ASSUME NEW f, FieldOK(f), NEW g, NEW p \in Players, Hit(p, f, g)
  PROVE  /\ g.towers[p] = f.towers[p] /\ Living(f, p) = Living(g, p)
         /\ \A id \in DOMAIN g.heroes :
              /\ g.heroes[id].position = f.heroes[id].position
              /\ IF id \in Living(f, p) THEN Spared(f.heroes[id], g.heroes[id])
                 ELSE /\ g.heroes[id].hp <= f.heroes[id].hp
                      /\ g.heroes[id].shield <= f.heroes[id].shield
                      /\ g.heroes[id].charge = f.heroes[id].charge
<1>1. \A i \in DOMAIN g.heroes : i \in DOMAIN f.heroes /\ HeroHit(p, f.heroes[i], g.heroes[i])
  BY DEF Hit
<1>2. Living(f, p) = {i \in DOMAIN f.heroes : PlayerIdForPosition(f.heroes[i].position) = p}
  BY LivingBySide
<1> QED
  BY <1>1, <1>2, HitLiving DEF Hit, TowersHit, HeroHit, SameHero

\* Whatever its heroes do in a combat, the mover's side is spared and the
\* defender gains nothing but statuses.
THEOREM DefenderPays == Spec => OnlyDefenderPays
<1> DEFINE Spares ==
      phase = "Combat" /\ phase' = "Combat" =>
        /\ field'.towers[mover] = field.towers[mover]
        /\ Living(field, mover) = Living(field', mover)
        /\ \A id \in DOMAIN field'.heroes :
             LET before == field.heroes[id]
                 after  == field'.heroes[id]
             IN  /\ after.position = before.position
                 /\ IF id \in Living(field, mover) THEN Spared(before, after)
                    ELSE /\ after.hp <= before.hp /\ after.shield <= before.shield
                         /\ after.charge = before.charge
<1>1. ASSUME CombatInv, Next, phase = "Combat", phase' = "Combat" PROVE Hit(mover, field, field')
  <2>1. ~Start /\ ~EndCombat /\ \A path, kind : ~Eliminate(path, kind)
    BY <1>1 DEF Start, EndCombat, PassTurn, Eliminate
  <2> QED
    BY <1>1, <2>1, AttackStep, StrikeStep DEF Next
<1>2. ASSUME CombatInv, [Next]_vars PROVE [Spares]_vars
  <2>1. FieldOK(field) /\ mover \in Players
    BY <1>2 DEF CombatInv, TypeOK
  <2>2. CASE Next
    BY <1>1, <1>2, <2>1, <2>2, HitSpares
  <2> QED
    BY <1>2, <2>2
<1>3. OnlyDefenderPays <=> [][Spares]_vars
  BY DEF OnlyDefenderPays
<1> QED
  BY <1>2, <1>3, Invariance, PTL DEF Spec

-----------------------------------------------------------------------------
(* Everyone strikes once.                                                  *)

\* Those that have struck and those that are to come are the mover's heroes, in
\* the order of attack; the one whose lightning is under way has struck.
QueueInv ==
  phase = "Combat" =>
    LET left == IF bolts = 0 THEN queue ELSE Tail(queue)
    IN  /\ queue \in Seq(Living(field, mover)) /\ attacked \in Seq(Living(field, mover))
        /\ attacked \o left = CollectAttackers(field, mover)

\* What nobody can disturb within a combat.
LEMMA OrderKept ==
  ASSUME CombatInv, NEW g, Hit(mover, field, g)
  PROVE  /\ Living(g, mover) = Living(field, mover)
         /\ CollectAttackers(g, mover) = CollectAttackers(field, mover)
<1>1. FieldOK(field) /\ mover \in Players
  BY DEF CombatInv, TypeOK
<1>2. Living(g, mover) = Living(field, mover) /\ Living(field, mover) \subseteq DOMAIN g.heroes
  BY <1>1, HitLiving DEF Hit
<1>3. \A i \in DOMAIN g.heroes : g.heroes[i].position = field.heroes[i].position
  BY DEF Hit, HeroHit, SameHero
<1> QED
  BY <1>2, <1>3, OrderStays

LEMMA EliminateQueue ==
  ASSUME CombatInv, CombatInv', NEW path, NEW kind, Eliminate(path, kind)
  PROVE  QueueInv'
<1> SUFFICES ASSUME phase' = "Combat"
             PROVE  /\ queue' \in Seq(Living(field', mover'))
                    /\ attacked' \in Seq(Living(field', mover'))
                    /\ bolts' = 0
                    /\ attacked' \o queue' = CollectAttackers(field', mover')
  BY DEF QueueInv
<1> DEFINE ids == Living(field', mover')
<1>1. /\ phase = "Elimination" /\ bolts' = bolts /\ mover' = mover
      /\ queue' = CollectAttackers(field', mover') /\ attacked' = << >>
  BY DEF Eliminate, PassTurn
<1>2. bolts' = 0
  BY <1>1 DEF CombatInv, TypeOK, LightningActivationCount
<1>3. /\ FieldOK(field') /\ turn' \in Nat /\ DOMAIN field'.heroes \subseteq 1..turn'
      /\ mover' \in Players
      /\ \A a, b \in DOMAIN field'.heroes :
           field'.heroes[a].position = field'.heroes[b].position => a = b
  BY DEF CombatInv, TypeOK, OnePerCell
<1>4. ids \subseteq DOMAIN field'.heroes
  BY DEF Living
<1> HIDE DEF ids
<1>5. InOrder(field', mover', ids) \in Seq(ids)
  BY <1>3, <1>4, InOrderLists
<1>6. queue' \in Seq(ids)
  BY <1>1, <1>5 DEF CollectAttackers, ids
<1>7. << >> \in Seq(ids)
  OBVIOUS
<1>8. << >> \o queue' = queue'
  BY <1>6
<1> QED
  BY <1>1, <1>2, <1>6, <1>7, <1>8 DEF ids

\* Shifting the first of the rest to the end of the done changes nothing.
LEMMA ShiftOne ==
  ASSUME NEW S, NEW done \in Seq(S), NEW rest \in Seq(S), rest # << >>
  PROVE  /\ Head(rest) \in S /\ Tail(rest) \in Seq(S) /\ Append(done, Head(rest)) \in Seq(S)
         /\ Append(done, Head(rest)) \o Tail(rest) = done \o rest
OBVIOUS

LEMMA AttackQueue ==
  ASSUME CombatInv, QueueInv, Attack
  PROVE  QueueInv'
<1> DEFINE id == Head(queue)
           struck == PerformAttack(field, mover, id)
           ids == Living(field, mover)
           order == CollectAttackers(field, mover)
<1>1. /\ phase = "Combat" /\ phase' = "Combat" /\ bolts = 0 /\ queue # << >> /\ mover' = mover
      /\ field.towers[Opponent(mover)].hp # 0
  BY DEF Attack, GameFinished
<1>2. Living(field', mover') = ids /\ CollectAttackers(field', mover') = order
  BY <1>1, AttackStep, OrderKept
<1>3. queue \in Seq(ids) /\ attacked \in Seq(ids) /\ attacked \o queue = order
  BY <1>1 DEF QueueInv
<1> HIDE DEF order
<1>4. id \in ids
  <2> HIDE DEF ids
  <2> QED
    BY <1>1, <1>3, ShiftOne
<1>5. struck.dealt > field.dealt
  <2>1. /\ FieldOK(field) /\ mover \in Players /\ Opponent(mover) \in Players
        /\ turn \in Nat /\ DOMAIN field.heroes \subseteq 1..turn
    BY <1>1, OpponentType DEF CombatInv, TypeOK
  <2>2. field.towers[Opponent(mover)].hp > 0
    BY <1>1, <2>1, TowerTypes
  <2> HIDE DEF id
  <2> QED
    BY <1>4, <2>1, <2>2, AttackCounts DEF CombatInv, OnePerCell
<1>6. attacked' = Append(attacked, id)
  BY <1>4, <1>5 DEF Attack
<1>7. \/ queue' = queue /\ bolts' = LightningActivationCount
      \/ queue' = Tail(queue) /\ bolts' = bolts
  BY DEF Attack
<1> HIDE DEF ids
<1>8. /\ Tail(queue) \in Seq(ids) /\ Append(attacked, id) \in Seq(ids)
      /\ Append(attacked, id) \o Tail(queue) = order
  BY <1>1, <1>3, ShiftOne
<1> HIDE DEF id
<1>9. CASE queue' = queue /\ bolts' = LightningActivationCount
  <2>1. bolts' # 0
    BY <1>9 DEF LightningActivationCount
  <2> QED
    BY <1>1, <1>2, <1>3, <1>6, <1>8, <1>9, <2>1 DEF QueueInv
<1>10. CASE queue' = Tail(queue) /\ bolts' = bolts
  BY <1>1, <1>2, <1>6, <1>8, <1>10 DEF QueueInv
<1> QED
  BY <1>7, <1>9, <1>10

LEMMA StrikeQueue ==
  ASSUME CombatInv, QueueInv, NEW target, Strike(target)
  PROVE  QueueInv'
<1> DEFINE ids == Living(field, mover)
           order == CollectAttackers(field, mover)
<1>1. /\ phase = "Combat" /\ phase' = "Combat" /\ bolts > 0 /\ mover' = mover
      /\ attacked' = attacked
      /\ \/ queue' = Tail(queue) /\ bolts' = 0
         \/ queue' = queue /\ bolts' = bolts - 1 /\ bolts # 1
  BY DEF Strike
<1>2. bolts \in 0..2 /\ bolts # 0 /\ queue # << >>
  BY <1>1 DEF CombatInv, TypeOK, LightningActivationCount
<1>3. Living(field', mover') = ids /\ CollectAttackers(field', mover') = order
  BY <1>1, StrikeStep, OrderKept
<1>4. queue \in Seq(ids) /\ attacked \in Seq(ids) /\ attacked \o Tail(queue) = order
  BY <1>1, <1>2 DEF QueueInv
<1> HIDE DEF ids, order
<1>5. Tail(queue) \in Seq(ids)
  BY <1>2, <1>4, ShiftOne
<1>6. CASE queue' = Tail(queue) /\ bolts' = 0
  BY <1>1, <1>3, <1>4, <1>5, <1>6 DEF QueueInv
<1>7. CASE queue' = queue /\ bolts' = bolts - 1 /\ bolts # 1
  <2>1. bolts' # 0
    BY <1>1, <1>2, <1>7
  <2> QED
    BY <1>1, <1>3, <1>4, <1>7, <2>1 DEF QueueInv
<1> QED
  BY <1>1, <1>6, <1>7

LEMMA StepQueue == CombatInv /\ CombatInv' /\ QueueInv /\ [Next]_vars => QueueInv'
<1> SUFFICES ASSUME CombatInv, CombatInv', QueueInv, [Next]_vars PROVE QueueInv'
  OBVIOUS
<1>1. CASE Start
  BY <1>1 DEF Start, QueueInv
<1>2. ASSUME NEW path, NEW kind, Eliminate(path, kind)
      PROVE  QueueInv'
  BY <1>2, EliminateQueue
<1>3. CASE Attack
  BY <1>3, AttackQueue
<1>4. ASSUME NEW target, Strike(target)
      PROVE  QueueInv'
  BY <1>4, StrikeQueue
<1>5. CASE EndCombat
  BY <1>5 DEF EndCombat, PassTurn, QueueInv
<1>6. CASE UNCHANGED vars
  BY <1>6 DEF vars, history, QueueInv
<1> QED
  BY <1>1, <1>2, <1>3, <1>4, <1>5, <1>6 DEF Next

\* So they are in every reachable state.
THEOREM QueueInvariance == Spec => []QueueInv
<1>1. Init => QueueInv
  BY DEF Init, QueueInv
<1> QED
  BY <1>1, StepQueue, Invariance, PTL DEF Spec

\* When a combat is over every hero on the mover's side, whoever made it, has
\* struck once and in order, or the tower fell before its turn, on any board.
THEOREM StrikesInOrder == Spec => EachStrikesOnce
<1> DEFINE Ends ==
      phase = "Combat" /\ phase' # "Combat" =>
        IF phase' = "Finished"
        THEN IsPrefix(attacked, CollectAttackers(field', mover))
        ELSE attacked = CollectAttackers(field', mover)
<1>1. ASSUME CombatInv, QueueInv, Next, phase = "Combat", phase' # "Combat"
      PROVE  Ends
  <2> DEFINE ids == Living(field, mover)
             order == CollectAttackers(field', mover)
  <2>1. EndCombat
    BY <1>1 DEF Next, Start, Eliminate, Attack, Strike
  <2>2. /\ bolts = 0
        /\ queue = << >> \/ phase' = "Finished"
    BY <2>1 DEF EndCombat
  <2>3. Living(field', mover) = ids
    <3>1. FieldOK(field) /\ FieldOK(field') /\ DOMAIN field'.heroes = DOMAIN field.heroes
          /\ \A i \in DOMAIN field.heroes : field'.heroes[i].position = field.heroes[i].position
      BY <1>1, <2>1, EndCombatField DEF CombatInv, TypeOK
    <3>2. /\ Living(field, mover)
               = {i \in DOMAIN field.heroes : PlayerIdForPosition(field.heroes[i].position) = mover}
          /\ Living(field', mover)
               = {i \in DOMAIN field'.heroes : PlayerIdForPosition(field'.heroes[i].position) = mover}
      BY <3>1, LivingBySide
    <3> QED
      BY <3>1, <3>2
  <2>4. order = CollectAttackers(field, mover)
    <3>1. \A i \in ids : field'.heroes[i].position = field.heroes[i].position
      BY <1>1, <2>1, EndCombatField DEF Living
    <3> QED
      BY <2>3, <3>1, OrderStays
  <2>5. queue \in Seq(ids) /\ attacked \in Seq(ids) /\ attacked \o queue = order
    BY <1>1, <2>2, <2>4 DEF QueueInv
  <2> HIDE DEF ids, order
  <2>6. queue = << >> => attacked = order
    BY <2>5
  <2>7. IsPrefix(attacked, order)
    BY <2>5 DEF IsPrefix
  <2> QED
    BY <2>2, <2>6, <2>7 DEF order
<1>2. ASSUME CombatInv, QueueInv, [Next]_vars PROVE [Ends]_vars
  BY <1>1, <1>2
<1>3. EachStrikesOnce <=> [][Ends]_vars
  BY DEF EachStrikesOnce
<1> QED
  BY <1>2, <1>3, Invariance, QueueInvariance, PTL DEF Spec

-----------------------------------------------------------------------------
(* The accounts of a combat.                                               *)

\* Since the combat started the defender has lost what was announced.
LossInv == phase = "Combat" => /\ Counted(start) /\ start.dealt = 0
                               /\ Accounts(mover, start, field)

LEMMA CombatCounted ==
  ASSUME CombatInv
  PROVE  /\ Counted(field) /\ mover \in Players /\ Opponent(mover) \in Players
         /\ \A a, b \in DOMAIN field.heroes :
              field.heroes[a].position = field.heroes[b].position => a = b
<1>1. FieldOK(field) /\ mover \in Players /\ turn \in Nat /\ turn - 1 \in Nat
  BY DEF CombatInv, TypeOK
<1>2. \E n \in Nat : DOMAIN field.heroes \subseteq 1..n
  BY <1>1 DEF CombatInv, TypeOK
<1> QED
  BY <1>1, <1>2, OpponentType DEF Counted, CombatInv, OnePerCell

LEMMA AttackLoss ==
  ASSUME CombatInv, LossInv, Attack
  PROVE  LossInv'
<1> DEFINE id == Head(queue)
           own == id \in Living(field, mover)
           struck == IF own THEN PerformAttack(field, mover, id) ELSE field
           spent == AddCharge(struck, id, -1)
           bursts == own /\ Charged(field, id)
<1>1. /\ phase = "Combat" /\ mover' = mover /\ start' = start
      /\ field.towers[Opponent(mover)].hp # 0
      /\ field' = struck \/ (bursts /\ field' = spent)
  BY DEF Attack, GameFinished
<1>2. /\ Counted(field) /\ FieldOK(field) /\ mover \in Players /\ Opponent(mover) \in Players
      /\ \A a, b \in DOMAIN field.heroes :
           field.heroes[a].position = field.heroes[b].position => a = b
  BY CombatCounted DEF Counted
<1>3. field.towers[Opponent(mover)].hp > 0
  BY <1>1, <1>2, TowerTypes
<1>4. Accounts(mover, field, struck) /\ Hit(mover, field, struck)
  <2>1. CASE own
    BY <1>2, <1>3, <2>1, PerformAttackAccounts, PerformAttackHits
  <2>2. CASE ~own
    BY <1>2, <2>2, SparedAccounts, HitNothing
  <2> QED
    BY <2>1, <2>2
<1>5. Hit(mover, field, field')
  BY AttackStep
<1>6. Counted(struck) /\ Counted(field')
  BY <1>2, <1>4, <1>5, HitCounted
<1>7. Accounts(mover, field, field')
  <2>1. CASE field' = struck
    BY <1>4, <2>1
  <2>2. CASE bursts /\ field' = spent
    <3>1. id \in Living(struck, mover)
      BY <1>2, <1>4, <2>2, HitLiving
    <3>2. Hit(mover, struck, spent)
      <4>1. Charged(field, id) => KeepsCharge(mover, field, struck)
        BY <1>2, <1>3, <2>2, PerformAttackHits
      <4> HIDE DEF struck
      <4>2. id \in DOMAIN struck.heroes
        BY <3>1 DEF Living
      <4>3. struck.heroes[id].kind = "ChickenPot" /\ struck.heroes[id].charge > 0
        BY <1>4, <2>2, <4>1, <4>2 DEF Hit, HeroHit, SameHero, KeepsCharge, Charged
      <4>4. FieldOK(struck)
        BY <1>6 DEF Counted
      <4>5. struck.heroes[id].charge \in Nat /\ struck.heroes[id].charge <= 1
        BY <3>1, <4>3, <4>4, OwnHero DEF ChargeLimit
      <4>6. struck.heroes[id].charge + (-1) \in 0..ChargeLimit(struck.heroes[id].kind)
        BY <4>3, <4>5 DEF ChargeLimit
      <4> QED
        BY <1>2, <3>1, <4>4, <4>6, AddChargeHits
    <3> HIDE DEF struck
    <3>3. Accounts(mover, struck, spent)
      BY <1>2, <1>6, <3>1, <3>2, RestAccounts
    <3>4. Counted(spent)
      BY <1>6, <3>2, HitCounted
    <3> HIDE DEF spent
    <3> QED
      BY <1>2, <1>4, <1>6, <2>2, <3>2, <3>3, <3>4, AccountsCompose
  <2> QED
    BY <1>1, <2>1, <2>2
<1>8. Counted(start) /\ start.dealt = 0 /\ Accounts(mover, start, field)
  BY <1>1 DEF LossInv
<1>9. Accounts(mover, start, field')
  BY <1>2, <1>5, <1>6, <1>7, <1>8, AccountsCompose
<1> QED
  BY <1>1, <1>8, <1>9 DEF LossInv

LEMMA StrikeLoss ==
  ASSUME CombatInv, LossInv, NEW target \in LightningTargets(field, mover), Strike(target)
  PROVE  LossInv'
<1> DEFINE id == Head(queue)
           struck == Lightning(field, mover, id, target)
           spent == AddCharge(struck, id, -1)
<1>1. /\ phase = "Combat" /\ bolts > 0 /\ mover' = mover /\ start' = start
      /\ field' = struck \/ field' = spent
  BY DEF Strike
<1>2. Counted(field) /\ FieldOK(field) /\ mover \in Players /\ Opponent(mover) \in Players
  BY CombatCounted DEF Counted
<1>3. /\ id \in Living(field, mover) /\ Charged(field, id)
      /\ field.towers[Opponent(mover)].hp > 0
  BY <1>1 DEF CombatInv, TypeOK, TowerInv
<1>4. /\ Accounts(mover, field, struck) /\ Hit(mover, field, struck)
      /\ KeepsCharge(mover, field, struck)
  BY <1>2, <1>3, LightningAccounts, LightningHits
<1>5. Hit(mover, field, field')
  BY StrikeStep
<1>6. Counted(struck) /\ Counted(field')
  BY <1>2, <1>4, <1>5, HitCounted
<1> HIDE DEF struck
<1>7. ASSUME field' = spent PROVE Accounts(mover, field, field')
  <2>1. id \in Living(struck, mover) /\ FieldOK(struck)
    BY <1>2, <1>3, <1>4, HitLiving DEF Hit
  <2>2. id \in DOMAIN struck.heroes
    BY <2>1 DEF Living
  <2>3. struck.heroes[id].kind = "ChickenPot" /\ struck.heroes[id].charge > 0
    BY <1>3, <1>4, <2>2 DEF Hit, HeroHit, SameHero, KeepsCharge, Charged
  <2>4. struck.heroes[id].charge \in Nat /\ struck.heroes[id].charge <= 1
    BY <2>1, <2>3, OwnHero DEF ChargeLimit
  <2>5. struck.heroes[id].charge + (-1) \in 0..ChargeLimit(struck.heroes[id].kind)
    BY <2>3, <2>4 DEF ChargeLimit
  <2>6. Hit(mover, struck, spent)
    BY <1>2, <2>1, <2>5, AddChargeHits
  <2>7. Accounts(mover, struck, spent)
    BY <1>2, <1>6, <2>1, <2>6, RestAccounts
  <2> HIDE DEF spent
  <2> QED
    BY <1>2, <1>4, <1>6, <1>7, <2>6, <2>7, AccountsCompose
<1>8. Accounts(mover, field, field')
  <2>1. CASE field' = struck
    BY <1>4, <2>1
  <2> QED
    BY <1>1, <1>7, <2>1
<1>9. Counted(start) /\ start.dealt = 0 /\ Accounts(mover, start, field)
  BY <1>1 DEF LossInv
<1>10. Accounts(mover, start, field')
  BY <1>2, <1>5, <1>6, <1>8, <1>9, AccountsCompose
<1> QED
  BY <1>1, <1>9, <1>10 DEF LossInv

LEMMA EliminateLoss ==
  ASSUME CombatInv, CombatInv', NEW path, NEW kind, Eliminate(path, kind)
  PROVE  LossInv'
<1> SUFFICES ASSUME phase' = "Combat"
             PROVE  Counted(start') /\ start'.dealt = 0 /\ Accounts(mover', start', field')
  BY DEF LossInv
<1>1. FieldOK(field) /\ mover' \in Players /\ Counted(field')
  <2>1. FieldOK(field)
    BY DEF CombatInv, TypeOK
  <2>2. FieldOK(field') /\ mover' \in Players /\ turn' \in Nat /\ DOMAIN field'.heroes \subseteq 1..turn'
    BY DEF CombatInv, TypeOK
  <2> QED
    BY <2>1, <2>2 DEF Counted
<1> DEFINE heroes == Resolve(field.heroes, mover, path, kind, turn)
<1>2. start' = field' /\ field' = [field EXCEPT !.heroes = heroes, !.dealt = 0, !.falls = 0]
  BY DEF Eliminate, PassTurn
<1> HIDE DEF heroes
<1>3. field'.dealt = 0
  BY <1>1, <1>2 DEF FieldOK
<1> QED
  BY <1>1, <1>2, <1>3, SparedAccounts

LEMMA StepLoss == CombatInv /\ CombatInv' /\ LossInv /\ [Next]_vars => LossInv'
<1> SUFFICES ASSUME CombatInv, CombatInv', LossInv, [Next]_vars PROVE LossInv'
  OBVIOUS
<1>1. CASE Start
  BY <1>1 DEF Start, LossInv
<1>2. ASSUME NEW path, NEW kind, Eliminate(path, kind)
      PROVE  LossInv'
  BY <1>2, EliminateLoss
<1>3. CASE Attack
  BY <1>3, AttackLoss
<1>4. ASSUME NEW target \in LightningTargets(field, mover), Strike(target)
      PROVE  LossInv'
  BY <1>4, StrikeLoss
<1>5. CASE EndCombat
  BY <1>5 DEF EndCombat, PassTurn, LossInv
<1>6. CASE UNCHANGED vars
  BY <1>6 DEF vars, history, LossInv
<1> QED
  BY <1>1, <1>2, <1>3, <1>4, <1>5, <1>6 DEF Next

\* So it has in every reachable state.
THEOREM LossInvariance == Spec => []LossInv
<1>1. Init => LossInv
  BY DEF Init, LossInv
<1> QED
  BY <1>1, StepLoss, Invariance, PTL DEF Spec

\* Every point of damage announced in a combat is one that the defender's
\* shields, heroes or tower have lost, on any board, however many heroes there
\* are; only what is more than a falling tower had is announced in vain.
THEOREM DamageIsLoss == Spec => []DamageAccounted
<1>1. ASSUME CombatInv, LossInv PROVE DamageAccounted
  <2> SUFFICES ASSUME phase = "Combat"
               PROVE  LET loss == Toughness(start, Opponent(mover))
                                    - Toughness(field, Opponent(mover))
                      IN  IF GameFinished(field) THEN loss <= field.dealt ELSE loss = field.dealt
    BY DEF DamageAccounted
  <2>1. Counted(field) /\ Opponent(mover) \in Players
    BY <1>1, CombatCounted
  <2>2. field.towers[Opponent(mover)].hp \in Nat /\ field.dealt \in Nat
    BY <2>1, TowerTypes, FieldParts DEF Counted
  <2>3. start.dealt = 0 /\ Accounts(mover, start, field)
    BY <1>1 DEF LossInv
  <2>4. field.dealt - 0 = field.dealt
    BY <2>2
  <2> QED
    BY <2>2, <2>3, <2>4 DEF Accounts, GameFinished
<1> QED
  BY <1>1, Invariance, LossInvariance, PTL

-----------------------------------------------------------------------------
(* The turns are those of the abstract match.                              *)

\* Whose turn it is, and the towers as the match sees them.
LEMMA SeenTowers ==
  ASSUME CombatInv
  PROVE  /\ mover = Match!Mover(turn) /\ Opponent(mover) = 1 - Match!Mover(turn)
         /\ Opponent(mover) \in Players /\ Opponent(mover) # mover
         /\ \A p \in Players : p = mover \/ p = Opponent(mover)
         /\ TowersHp = [p \in Players |-> TowersHp[p]]
         /\ phase = "Combat" => TowersHp = [p \in Players |-> start.towers[p].hp]
         /\ phase # "Combat" => TowersHp = [p \in Players |-> field.towers[p].hp]
<1>1. mover \in Players
  BY DEF CombatInv, TypeOK
<1>2. mover = Match!Mover(turn)
  BY DEF CombatInv, TurnInv, Match!Mover
<1>3. \A p \in Players : p = mover \/ p = Opponent(mover)
  BY <1>1 DEF Players, Opponent
<1> QED
  BY <1>1, <1>2, <1>3, OpponentType DEF TowersHp, Opponent

LEMMA EndCombatImplements ==
  ASSUME CombatInv, CombatInv', EndCombat
  PROVE  Match!MatchNext
<1> DEFINE enemy == Opponent(mover)
           left == field.towers[enemy].hp
<1>1. /\ phase = "Combat"
      /\ \/ /\ left = 0 /\ phase' = "Finished" /\ winner' = mover /\ turn' = turn
         \/ /\ left # 0 /\ phase' = "Elimination" /\ winner' = winner /\ turn' = turn + 1
  BY DEF EndCombat, GameFinished, PassTurn
<1>2. FieldOK(field) /\ turn > 1 /\ Stage = "playing"
  BY <1>1 DEF CombatInv, TypeOK, TurnInv, Stage
<1>3. /\ mover = Match!Mover(turn) /\ enemy = 1 - Match!Mover(turn)
      /\ enemy \in Players /\ enemy # mover /\ \A p \in Players : p = mover \/ p = enemy
      /\ TowersHp = [p \in Players |-> start.towers[p].hp]
  BY <1>1, SeenTowers
<1>4. TowersHp' = [p \in Players |-> field'.towers[p].hp]
  BY <1>1 DEF TowersHp
<1>5. \A p \in Players : field'.towers[p].hp = field.towers[p].hp
  BY EndCombatField
<1>6. /\ start.towers[mover].hp = field.towers[mover].hp /\ start.towers[enemy].hp \in Nat
      /\ left <= start.towers[enemy].hp /\ left \in Nat
  BY <1>1, <1>2, <1>3, TowerTypes DEF CombatInv, StartInv
<1>7. TowersHp' = [TowersHp EXCEPT ![enemy] = left]
  BY <1>3, <1>4, <1>5, <1>6
<1>8. CASE left = 0
  <2>1. Stage' = "over" /\ winner' = mover /\ turn' = turn
    BY <1>1, <1>8 DEF Stage
  <2>2. Match!Victory
    BY <1>2, <1>3, <1>7, <1>8, <2>1 DEF Match!Victory
  <2> QED
    BY <2>2 DEF Match!MatchNext
<1>9. CASE left # 0
  <2>1. Stage' = "playing" /\ winner' = winner /\ turn' = turn + 1
    BY <1>1, <1>9 DEF Stage
  <2>2. left \in 1..TowersHp[enemy]
    BY <1>3, <1>6, <1>9
  <2>3. Match!BattleTurn
    BY <1>2, <1>3, <1>7, <2>1, <2>2 DEF Match!BattleTurn
  <2> QED
    BY <2>3 DEF Match!MatchNext
<1> QED
  BY <1>8, <1>9

LEMMA StepImplements ==
  CombatInv /\ CombatInv' /\ [Next]_vars => [Match!MatchNext]_(Match!matchVars)
<1> SUFFICES ASSUME CombatInv, CombatInv', [Next]_vars
             PROVE  [Match!MatchNext]_(Match!matchVars)
  OBVIOUS
<1>1. CASE Start
  <2>1. /\ Stage = "lobby" /\ Stage' = "playing" /\ turn' = turn /\ winner' = winner
        /\ TowersHp' = TowersHp
    BY <1>1 DEF Start, Stage, TowersHp
  <2> QED
    BY <2>1 DEF Match!MatchNext, Match!Begin
<1>2. ASSUME NEW path \in Paths(mover), NEW kind \in Kinds, Eliminate(path, kind)
      PROVE  [Match!MatchNext]_(Match!matchVars)
  <2>1. field'.towers = field.towers
    BY <1>2, EliminateStep
  <2>2. /\ phase = "Elimination" /\ winner' = winner
        /\ \/ turn = 1 /\ phase' = "Elimination" /\ turn' = turn + 1
           \/ turn # 1 /\ phase' = "Combat" /\ turn' = turn /\ start' = field'
    BY <1>2 DEF Eliminate, PassTurn
  <2>3. Stage = "playing" /\ Stage' = "playing" /\ TowersHp' = TowersHp
    BY <2>1, <2>2 DEF Stage, TowersHp
  <2>4. CASE turn = 1
    BY <2>2, <2>3, <2>4 DEF Match!MatchNext, Match!OpeningTurn
  <2>5. CASE turn # 1
    BY <2>2, <2>3, <2>5 DEF Match!matchVars
  <2> QED
    BY <2>4, <2>5
<1>3. ASSUME Attack \/ \E target : Strike(target)
      PROVE  UNCHANGED Match!matchVars
  BY <1>3 DEF Attack, Strike, Stage, TowersHp, Match!matchVars
<1>4. CASE EndCombat
  BY <1>4, EndCombatImplements
<1>5. CASE UNCHANGED vars
  BY <1>5 DEF vars, history, Stage, TowersHp, Match!matchVars
<1> QED
  BY <1>1, <1>2, <1>3, <1>4, <1>5 DEF Next

\* Turn by turn, a match with its combats in full is the match TurnGame
\* promises: only the mover's opponent is hurt, and its tower's fall wins.
THEOREM CombatImplementsMatch == Spec => ImplementsTurnGame
<1>1. ASSUME Init PROVE Match!MatchInit
  <2>1. /\ phase = "WaitingForPlayers" /\ turn = 1 /\ winner = -1
        /\ field = [heroes |-> [id \in {} |-> 0], towers |-> [p \in Players |-> NewTower],
                    dealt |-> 0, falls |-> 0]
    BY <1>1 DEF Init
  <2>2. field.towers = [p \in Players |-> NewTower]
    BY <2>1
  <2>3. Stage = "lobby" /\ TowersHp = [p \in {0, 1} |-> TowerMaxHp]
    BY <2>1, <2>2 DEF Stage, TowersHp, NewTower, Players
  <2> QED
    BY <2>1, <2>3 DEF Match!MatchInit
<1> QED
  BY <1>1, Invariance, StepImplements, PTL DEF Spec, ImplementsTurnGame, Match!MatchSpec

-----------------------------------------------------------------------------
(* The board turned half around.                                           *)

\* A cell turned is a cell, of the other player's half, and turned again itself.
LEMMA MirroredCell ==
  ASSUME NEW a \in Positions
  PROVE  /\ Mirrored(a) \in Positions
         /\ Row(Mirrored(a)) = Rows - 1 - Row(a) /\ Column(Mirrored(a)) = Columns - 1 - Column(a)
         /\ Mirrored(Mirrored(a)) = a
         /\ \A p \in Players : PlayerIdForPosition(Mirrored(a)) = Opponent(p)
                                 <=> PlayerIdForPosition(a) = p
<1>1. /\ Row(a) \in 0..Rows - 1 /\ Column(a) \in 0..Columns - 1
      /\ a = <<Row(a), Column(a)>>
  BY PositionParts
<1>2. PICK h \in Nat : Rows = 2 * h /\ PlayerAreaRows = h
  BY RowsAssumption DEF PlayerAreaRows
<1>3. Columns \in Nat /\ Rows \in Nat
  BY ColumnsAssumption, RowsAssumption
<1>4. /\ Row(Mirrored(a)) = Rows - 1 - Row(a) /\ Column(Mirrored(a)) = Columns - 1 - Column(a)
  BY DEF Mirrored, Row, Column
<1>5. Mirrored(a) \in Positions
  BY <1>1, <1>3 DEF Mirrored, Positions
<1>6. Mirrored(Mirrored(a)) = <<Rows - 1 - (Rows - 1 - Row(a)), Columns - 1 - (Columns - 1 - Column(a))>>
  BY <1>4 DEF Mirrored
<1>7. ASSUME NEW p \in Players
      PROVE  PlayerIdForPosition(Mirrored(a)) = Opponent(p) <=> PlayerIdForPosition(a) = p
  <2>1. Row(Mirrored(a)) < PlayerAreaRows <=> ~(Row(a) < PlayerAreaRows)
    BY <1>1, <1>2, <1>4
  <2> QED
    BY <2>1 DEF PlayerIdForPosition, Players, Opponent
<1> QED
  BY <1>1, <1>3, <1>4, <1>5, <1>6, <1>7

\* The one player's order is the other's, turned.
LEMMA MirroredBefore ==
  ASSUME NEW p \in Players, NEW a \in Positions, NEW b \in Positions
  PROVE  Before(Opponent(p), Mirrored(a), Mirrored(b)) <=> Before(p, a, b)
<1>1. ASSUME NEW c \in Positions
      PROVE  Index(Mirrored(c)) = Rows * Columns - 1 - Index(c) /\ Index(c) \in Int
  <2>1. /\ Row(c) \in Int /\ Column(c) \in Int /\ Rows \in Int /\ Columns \in Int
        /\ Row(Mirrored(c)) = Rows - 1 - Row(c) /\ Column(Mirrored(c)) = Columns - 1 - Column(c)
    BY PositionParts, RowsAssumption, ColumnsAssumption, MirroredCell
  <2>2. (Rows - 1 - Row(c)) * Columns = Rows * Columns - Columns - Row(c) * Columns
    BY <2>1
  <2>3. Rows * Columns \in Int /\ Row(c) * Columns \in Int
    BY <2>1
  <2> QED
    BY <2>1, <2>2, <2>3 DEF Index
<1>2. Rows * Columns \in Int
  BY RowsAssumption, ColumnsAssumption
<1>3. /\ Index(Mirrored(a)) > Index(Mirrored(b)) <=> Index(a) < Index(b)
      /\ Index(Mirrored(a)) < Index(Mirrored(b)) <=> Index(a) > Index(b)
  BY <1>1, <1>2
<1> QED
  BY <1>3 DEF Before, Players, Opponent

\* A hero turned is the hero in the turned cell.
TurnedHero(hero, x) ==
  /\ IsHero(hero) /\ IsHero(x) /\ hero.position \in Positions
  /\ x.position = Mirrored(hero.position)
  /\ x.kind = hero.kind /\ x.value = hero.value /\ x.hp = hero.hp /\ x.shield = hero.shield
  /\ x.vulnerable = hero.vulnerable /\ x.weak = hero.weak /\ x.charge = hero.charge

TurnedHeroes(heroes, t) ==
  /\ heroes = [i \in DOMAIN heroes |-> heroes[i]]
  /\ t = [i \in DOMAIN heroes |-> t[i]]
  /\ \A i \in DOMAIN heroes : TurnedHero(heroes[i], t[i])

TurnedTowers(towers, t) == /\ towers = [q \in Players |-> towers[q]]
                           /\ t = [q \in Players |-> towers[Opponent(q)]]

\* t is f turned, with the players swapped.
Turned(f, t) ==
  /\ IsField(f) /\ IsField(t)
  /\ TurnedHeroes(f.heroes, t.heroes) /\ TurnedTowers(f.towers, t.towers)
  /\ t.dealt = f.dealt /\ t.falls = f.falls

LEMMA TurnedRecord ==
  ASSUME NEW hero, IsHero(hero), NEW x
  PROVE  TurnedHero(hero, x) => x = [hero EXCEPT !.position = Mirrored(@)]
BY DEF TurnedHero, IsHero

\* Turned is what MirroredHeroes and MirroredField make of a field.
LEMMA TurnedIsMirrored ==
  /\ \A heroes, t : TurnedHeroes(heroes, t) => t = MirroredHeroes(heroes)
  /\ \A f, t : Turned(f, t) => t = MirroredField(f)
<1>1. ASSUME NEW heroes, NEW t, TurnedHeroes(heroes, t)
      PROVE  t = MirroredHeroes(heroes)
  <2>1. \A i \in DOMAIN heroes : t[i] = [heroes[i] EXCEPT !.position = Mirrored(@)]
    BY <1>1, TurnedRecord DEF TurnedHeroes, TurnedHero
  <2>2. t = [i \in DOMAIN heroes |-> t[i]]
    BY <1>1 DEF TurnedHeroes
  <2> QED
    BY <2>1, <2>2 DEF MirroredHeroes
<1>2. ASSUME NEW f, NEW t, Turned(f, t)
      PROVE  t = MirroredField(f)
  <2>1. t.heroes = MirroredHeroes(f.heroes)
    BY <1>1, <1>2 DEF Turned
  <2>2. t.towers = [q \in Players |-> f.towers[Opponent(q)]]
    BY <1>2 DEF Turned, TurnedTowers
  <2> QED
    BY <1>2, <2>1, <2>2 DEF Turned, IsField, MirroredField
<1> QED
  BY <1>1, <1>2

\* And a field is turned by them.
LEMMA MirroredIsTurned ==
  ASSUME NEW f, FieldOK(f)
  PROVE  Turned(f, MirroredField(f))
<1> SUFFICES ASSUME NEW t, t = MirroredField(f) PROVE Turned(f, t)
  OBVIOUS
<1>1. /\ IsField(f) /\ f.heroes = [i \in DOMAIN f.heroes |-> f.heroes[i]]
      /\ \A i \in DOMAIN f.heroes : f.heroes[i] \in HeroRecords
      /\ f.towers \in [Players -> [hp : 0..TowerMaxHp, vulnerable : Nat, weak : Nat]]
  BY FieldParts
<1>2. /\ t.heroes = MirroredHeroes(f.heroes)
      /\ t.towers = [q \in Players |-> f.towers[Opponent(q)]]
      /\ t.dealt = f.dealt /\ t.falls = f.falls /\ IsField(t)
  BY <1>1 DEF MirroredField, IsField
<1>3. ASSUME NEW i \in DOMAIN f.heroes
      PROVE  TurnedHero(f.heroes[i], t.heroes[i])
  <2>1. t.heroes[i] = [f.heroes[i] EXCEPT !.position = Mirrored(@)]
    BY <1>2 DEF MirroredHeroes
  <2>2. f.heroes[i] \in HeroRecords
    BY <1>1
  <2>3. IsHero(f.heroes[i]) /\ f.heroes[i].position \in Positions
    BY <2>2 DEF HeroRecords, IsHero
  <2> QED
    BY <2>1, <2>3 DEF TurnedHero, IsHero
<1>4. t.heroes = [i \in DOMAIN f.heroes |-> t.heroes[i]]
  BY <1>2 DEF MirroredHeroes
<1> QED
  BY <1>1, <1>2, <1>3, <1>4 DEF Turned, TurnedHeroes, TurnedTowers

\* What lives on a side lives, turned, on the other.
LEMMA TurnedLiving ==
  ASSUME NEW f, NEW t, Turned(f, t), NEW p \in Players
  PROVE  /\ Living(t, Opponent(p)) = Living(f, p) /\ Living(t, p) = Living(f, Opponent(p))
         /\ DOMAIN t.heroes = DOMAIN f.heroes
         /\ t.towers[p] = f.towers[Opponent(p)] /\ t.towers[Opponent(p)] = f.towers[p]
<1>1. DOMAIN t.heroes = DOMAIN f.heroes
  BY DEF Turned, TurnedHeroes
<1>2. ASSUME NEW i \in DOMAIN f.heroes, NEW q \in Players
      PROVE  /\ t.heroes[i].hp = f.heroes[i].hp
             /\ PlayerIdForPosition(t.heroes[i].position) = Opponent(q)
                  <=> PlayerIdForPosition(f.heroes[i].position) = q
  BY MirroredCell DEF Turned, TurnedHeroes, TurnedHero
<1>3. Living(t, Opponent(p)) = Living(f, p)
  BY <1>1, <1>2 DEF Living
<1>4. Living(t, Opponent(Opponent(p))) = Living(f, Opponent(p))
  BY <1>1, <1>2, OpponentType DEF Living
<1> QED
  BY <1>1, <1>3, <1>4, OpponentType DEF Turned, TurnedTowers

\* Places turned are ordered alike.
LEMMA TurnedOrder ==
  ASSUME NEW f, NEW t, Turned(f, t), NEW p \in Players, NEW ids, ids \subseteq DOMAIN f.heroes
  PROVE  InOrder(t, Opponent(p), ids) = InOrder(f, p, ids)
<1> DEFINE place == [id \in ids |-> f.heroes[id].position]
           there == [id \in ids |-> t.heroes[id].position]
<1>1. /\ DOMAIN place = ids /\ DOMAIN there = ids
      /\ \A i \in ids : place[i] \in Positions /\ there[i] = Mirrored(place[i])
  BY DEF Turned, TurnedHeroes, TurnedHero
<1>2. InOrder(f, p, ids) = Ordered(p, place) /\ InOrder(t, Opponent(p), ids) = Ordered(Opponent(p), there)
  BY DEF InOrder
<1> HIDE DEF place, there
<1>3. \A i, j \in ids : Before(Opponent(p), there[i], there[j]) <=> Before(p, place[i], place[j])
  BY <1>1, MirroredBefore
<1>4. \A id \in ids : {other \in ids : Before(Opponent(p), there[other], there[id])}
                        = {other \in ids : Before(p, place[other], place[id])}
  BY <1>3
<1> DEFINE n == Cardinality(ids)
           Ahead(id) == Cardinality({other \in ids : Before(p, place[other], place[id])})
           AheadThere(id) == Cardinality({other \in ids : Before(Opponent(p), there[other], there[id])})
<1>5. \A id \in ids : AheadThere(id) = Ahead(id)
  BY <1>4
<1>6. /\ Ordered(p, place) = [i \in 1..n |-> CHOOSE id \in ids : Ahead(id) = i - 1]
      /\ Ordered(Opponent(p), there) = [i \in 1..n |-> CHOOSE id \in ids : AheadThere(id) = i - 1]
  BY <1>1 DEF Ordered
<1> HIDE DEF Ahead, AheadThere, n
<1>7. \A i : (CHOOSE id \in ids : AheadThere(id) = i - 1) = (CHOOSE id \in ids : Ahead(id) = i - 1)
  BY <1>5
<1> QED
  BY <1>2, <1>6, <1>7

LEMMA TurnedAttackers ==
  ASSUME NEW f, NEW t, Turned(f, t), NEW p \in Players
  PROVE  /\ CollectAttackers(t, Opponent(p)) = CollectAttackers(f, p)
         /\ FirstEnemy(t, Opponent(p)) = FirstEnemy(f, p)
<1>1. /\ Living(t, Opponent(p)) = Living(f, p)
      /\ Living(t, Opponent(Opponent(p))) = Living(f, Opponent(p))
  BY TurnedLiving, OpponentType
<1>2. Living(f, p) \subseteq DOMAIN f.heroes /\ Living(f, Opponent(p)) \subseteq DOMAIN f.heroes
  BY DEF Living
<1> QED
  BY <1>1, <1>2, TurnedOrder DEF CollectAttackers, FirstEnemy

\* A field with one hero changed, and the tower of a side, and the events' sums.
Changed(f, id, x, q, tower, dealt, falls) ==
  [heroes |-> [f.heroes EXCEPT ![id] = x], towers |-> [f.towers EXCEPT ![q] = tower],
   dealt |-> dealt, falls |-> falls]

LEMMA TurnedChange ==
  ASSUME NEW f, NEW t, Turned(f, t), NEW id, NEW x, NEW y,
         id \in DOMAIN f.heroes => TurnedHero(x, y),
         NEW q \in Players, NEW tower, NEW dealt, NEW falls
  PROVE  Turned(Changed(f, id, x, Opponent(q), tower, dealt, falls),
                Changed(t, id, y, q, tower, dealt, falls))
<1> DEFINE g == Changed(f, id, x, Opponent(q), tower, dealt, falls)
           u == Changed(t, id, y, q, tower, dealt, falls)
<1>1. /\ IsField(g) /\ IsField(u)
      /\ g.heroes = [f.heroes EXCEPT ![id] = x] /\ u.heroes = [t.heroes EXCEPT ![id] = y]
      /\ g.towers = [f.towers EXCEPT ![Opponent(q)] = tower] /\ u.towers = [t.towers EXCEPT ![q] = tower]
      /\ g.dealt = dealt /\ u.dealt = dealt /\ g.falls = falls /\ u.falls = falls
  BY DEF Changed, IsField
<1> HIDE DEF g, u
<1>2. TurnedHeroes(g.heroes, u.heroes)
  BY <1>1, SMTT(20) DEF Turned, TurnedHeroes
<1>3. TurnedTowers(g.towers, u.towers)
  <2>1. /\ f.towers = [r \in Players |-> f.towers[r]]
        /\ t.towers = [r \in Players |-> f.towers[Opponent(r)]]
    BY DEF Turned, TurnedTowers
  <2>2. /\ g.towers = [r \in Players |-> IF r = Opponent(q) THEN tower ELSE f.towers[r]]
        /\ u.towers = [r \in Players |-> IF r = q THEN tower ELSE t.towers[r]]
    BY <1>1, <2>1
  <2>3. \A r \in Players : u.towers[r] = g.towers[Opponent(r)] /\ Opponent(r) \in Players
    BY <2>1, <2>2, OpponentType
  <2> QED
    BY <2>2, <2>3 DEF TurnedTowers
<1> QED
  BY <1>1, <1>2, <1>3 DEF Turned, g, u

\* One hero changed, and nothing else.
LEMMA TurnedOneHero ==
  ASSUME NEW f, NEW t, Turned(f, t), NEW id, NEW x, NEW y,
         id \in DOMAIN f.heroes => TurnedHero(x, y)
  PROVE  Turned([f EXCEPT !.heroes[id] = x], [t EXCEPT !.heroes[id] = y])
<1>1. 0 \in Players /\ 1 \in Players /\ Opponent(0) = 1
  BY DEF Players, Opponent
<1>2. t.towers[0] = f.towers[1] /\ t.dealt = f.dealt /\ t.falls = f.falls
  BY <1>1 DEF Turned, TurnedTowers
<1>3. Turned(Changed(f, id, x, 1, f.towers[1], f.dealt, f.falls),
             Changed(t, id, y, 0, t.towers[0], t.dealt, t.falls))
  BY <1>1, <1>2, TurnedChange
<1>4. /\ IsField(f) /\ IsField(t)
      /\ [f.towers EXCEPT ![1] = f.towers[1]] = f.towers
      /\ [t.towers EXCEPT ![0] = t.towers[0]] = t.towers
  BY <1>1 DEF Turned, TurnedTowers
<1>5. /\ Changed(f, id, x, 1, f.towers[1], f.dealt, f.falls) = [f EXCEPT !.heroes[id] = x]
      /\ Changed(t, id, y, 0, t.towers[0], t.dealt, t.falls) = [t EXCEPT !.heroes[id] = y]
  BY <1>4 DEF Changed, IsField
<1> QED
  BY <1>3, <1>5

LEMMA TurnedSelf ==
  ASSUME NEW f, NEW t, Turned(f, t), NEW id \in DOMAIN f.heroes
  PROVE  TurnedHero(f.heroes[id], t.heroes[id])
BY DEF Turned, TurnedHeroes

LEMMA TurnedOwn ==
  ASSUME NEW f, NEW t, Turned(f, t), NEW id, NEW amount
  PROVE  /\ Turned(Heal(f, id, amount), Heal(t, id, amount))
         /\ Turned(GainShield(f, id, amount), GainShield(t, id, amount))
         /\ Turned(AddCharge(f, id, amount), AddCharge(t, id, amount))
<1> DEFINE h == f.heroes[id]
           k == t.heroes[id]
<1>1. id \in DOMAIN f.heroes => TurnedHero(h, k)
  BY TurnedSelf
<1>2. Turned(Heal(f, id, amount), Heal(t, id, amount))
  <2> DEFINE x == [h EXCEPT !.hp = h.hp + Least(amount, MaxHp(h.kind, h.value) - h.hp)]
             y == [k EXCEPT !.hp = k.hp + Least(amount, MaxHp(k.kind, k.value) - k.hp)]
  <2>1. Heal(f, id, amount) = [f EXCEPT !.heroes[id] = x] /\ Heal(t, id, amount) = [t EXCEPT !.heroes[id] = y]
    BY DEF Heal
  <2>2. id \in DOMAIN f.heroes => TurnedHero(x, y)
    BY <1>1 DEF TurnedHero, IsHero
  <2> HIDE DEF x, y
  <2> QED
    BY <2>1, <2>2, TurnedOneHero
<1>3. Turned(GainShield(f, id, amount), GainShield(t, id, amount))
  <2> DEFINE x == [h EXCEPT !.shield = h.shield + amount]
             y == [k EXCEPT !.shield = k.shield + amount]
  <2>1. /\ GainShield(f, id, amount) = [f EXCEPT !.heroes[id] = x]
        /\ GainShield(t, id, amount) = [t EXCEPT !.heroes[id] = y]
    BY DEF GainShield
  <2>2. id \in DOMAIN f.heroes => TurnedHero(x, y)
    BY <1>1 DEF TurnedHero, IsHero
  <2> HIDE DEF x, y
  <2> QED
    BY <2>1, <2>2, TurnedOneHero
<1>4. Turned(AddCharge(f, id, amount), AddCharge(t, id, amount))
  <2> DEFINE x == [h EXCEPT !.charge = h.charge + amount]
             y == [k EXCEPT !.charge = k.charge + amount]
  <2>1. /\ AddCharge(f, id, amount) = [f EXCEPT !.heroes[id] = x]
        /\ AddCharge(t, id, amount) = [t EXCEPT !.heroes[id] = y]
    BY DEF AddCharge
  <2>2. id \in DOMAIN f.heroes => TurnedHero(x, y)
    BY <1>1 DEF TurnedHero, IsHero
  <2> HIDE DEF x, y
  <2> QED
    BY <2>1, <2>2, TurnedOneHero
<1> QED
  BY <1>2, <1>3, <1>4

LEMMA TurnedConvert ==
  ASSUME NEW f, NEW t, Turned(f, t)
  PROVE  Turned(ConvertDead(f), ConvertDead(t))
<1> DEFINE g == ConvertDead(f)
           u == ConvertDead(t)
           living == {j \in DOMAIN f.heroes : f.heroes[j].hp > 0}
<1>1. IsField(f) /\ IsField(t)
  BY DEF Turned
<1>2. /\ IsField(g) /\ g.heroes = [i \in living |-> f.heroes[i]]
      /\ g.towers = f.towers /\ g.dealt = f.dealt /\ g.falls = f.falls
  BY <1>1, ConvertDeadShape
<1>3. /\ IsField(u) /\ u.heroes = [i \in {j \in DOMAIN t.heroes : t.heroes[j].hp > 0} |-> t.heroes[i]]
      /\ u.towers = t.towers /\ u.dealt = t.dealt /\ u.falls = t.falls
  BY <1>1, ConvertDeadShape
<1> HIDE DEF g, u
<1>4. DOMAIN t.heroes = DOMAIN f.heroes /\ \A i \in DOMAIN f.heroes : TurnedHero(f.heroes[i], t.heroes[i])
  BY DEF Turned, TurnedHeroes
<1>5. {j \in DOMAIN t.heroes : t.heroes[j].hp > 0} = living
  BY <1>4 DEF TurnedHero
<1>6. TurnedHeroes(g.heroes, u.heroes)
  BY <1>2, <1>3, <1>4, <1>5 DEF TurnedHeroes
<1> QED
  BY <1>2, <1>3, <1>6 DEF Turned, g, u

\* A hit before the dead become boxes.
Struck(f, target, absorbed, lost, o, tower, damage, falls) ==
  [f EXCEPT !.heroes[target].shield = @ - absorbed, !.heroes[target].hp = @ - lost,
            !.towers[o] = tower, !.dealt = @ + damage, !.falls = falls]

\* A hero with less shield and fewer hit points.
Without(hero, absorbed, lost) ==
  [hero EXCEPT !.shield = hero.shield - absorbed, !.hp = hero.hp - lost]

LEMMA StruckChanges ==
  ASSUME NEW f, IsField(f), f.heroes = [i \in DOMAIN f.heroes |-> f.heroes[i]],
         NEW target \in DOMAIN f.heroes, IsHero(f.heroes[target]),
         NEW absorbed, NEW lost, NEW o, NEW tower, NEW damage, NEW falls
  PROVE  Struck(f, target, absorbed, lost, o, tower, damage, falls)
           = Changed(f, target, Without(f.heroes[target], absorbed, lost), o, tower,
                     f.dealt + damage, falls)
<1> SUFFICES ASSUME NEW m, m = Struck(f, target, absorbed, lost, o, tower, damage, falls),
                    NEW x, x = Without(f.heroes[target], absorbed, lost)
             PROVE  m = Changed(f, target, x, o, tower, f.dealt + damage, falls)
  OBVIOUS
<1>1. /\ m.towers = [f.towers EXCEPT ![o] = tower] /\ m.dealt = f.dealt + damage
      /\ m.falls = falls
  BY DEF Struck, IsField
<1>2. IsField(m)
  BY DEF Struck, IsField
<1>3. m.heroes = [f.heroes EXCEPT ![target].shield = @ - absorbed, ![target].hp = @ - lost]
  BY DEF Struck, IsField
<1>4. m.heroes = [f.heroes EXCEPT ![target] = x]
  BY <1>3 DEF IsHero, Without
<1> QED
  BY <1>1, <1>2, <1>4 DEF Changed, IsField

LEMMA TurnedHurt ==
  ASSUME NEW hero, NEW x, TurnedHero(hero, x), NEW absorbed, NEW lost
  PROVE  TurnedHero(Without(hero, absorbed, lost), Without(x, absorbed, lost))
<1> DEFINE shield == hero.shield - absorbed
           hp == hero.hp - lost
<1> SUFFICES ASSUME NEW a, a = [hero EXCEPT !.shield = shield, !.hp = hp],
                    NEW b, b = [x EXCEPT !.shield = shield, !.hp = hp]
             PROVE  TurnedHero(a, b)
  BY DEF Without, TurnedHero
<1> HIDE DEF shield, hp
<1>1. /\ IsHero(a) /\ a.kind = hero.kind /\ a.value = hero.value /\ a.position = hero.position
      /\ a.hp = hp /\ a.shield = shield /\ a.vulnerable = hero.vulnerable
      /\ a.weak = hero.weak /\ a.charge = hero.charge
  BY DEF TurnedHero, IsHero
<1>2. /\ IsHero(b) /\ b.kind = x.kind /\ b.value = x.value /\ b.position = x.position
      /\ b.hp = hp /\ b.shield = shield /\ b.vulnerable = x.vulnerable
      /\ b.weak = x.weak /\ b.charge = x.charge
  BY DEF TurnedHero, IsHero
<1> QED
  BY <1>1, <1>2 DEF TurnedHero

LEMMA TurnedDamageHero ==
  ASSUME NEW f, NEW t, Turned(f, t), NEW p \in Players, NEW id, NEW target, NEW base, NEW kind
  PROVE  Turned(DamageHero(f, p, id, target, base, kind),
                DamageHero(t, Opponent(p), id, target, base, kind))
<1> DEFINE o == Opponent(p)
<1>1. /\ Living(t, o) = Living(f, p) /\ Living(t, Opponent(o)) = Living(f, o)
      /\ t.towers[Opponent(o)] = f.towers[o] /\ o \in Players /\ Opponent(o) = p
  BY TurnedLiving, OpponentType
<1>2. CASE id \notin Living(f, p) \/ target \notin Living(f, o)
  BY <1>1, <1>2 DEF DamageHero
<1>3. CASE id \in Living(f, p) /\ target \in Living(f, o)
  <2> DEFINE Damage(hero, victim) == Greatest(1, Amplified(victim, Weakened(hero, base, kind)))
             Absorbed(victim, n) == Least(victim.shield, n)
             Lost(victim, n) == Least(victim.hp, n - Absorbed(victim, n))
             Over(victim, n) == n - Absorbed(victim, n) - Lost(victim, n)
             Falls(tower, over, falls) == IF over > 0 /\ tower.hp = 0 THEN falls + 1 ELSE falls
             v == f.heroes[target]
             w == t.heroes[target]
             n == Damage(f.heroes[id], v)
             tower == TakeDamage(f.towers[o], Over(v, n))
             falls == Falls(tower, Over(v, n), f.falls)
  <2>1. /\ id \in DOMAIN f.heroes /\ target \in DOMAIN f.heroes
        /\ TurnedHero(f.heroes[id], t.heroes[id]) /\ TurnedHero(v, w)
    BY <1>3, TurnedSelf DEF Living
  <2>2. /\ Damage(t.heroes[id], w) = n /\ t.dealt = f.dealt /\ t.falls = f.falls
    BY <2>1 DEF TurnedHero, Turned, Amplified, Weakened
  <2>3. Absorbed(w, n) = Absorbed(v, n) /\ Lost(w, n) = Lost(v, n) /\ Over(w, n) = Over(v, n)
    <3> HIDE DEF n
    <3> QED
      BY <2>1 DEF TurnedHero
  <2>4. DamageHero(f, p, id, target, base, kind)
          = ConvertDead(Struck(f, target, Absorbed(v, n), Lost(v, n), o, tower, n, falls))
    BY <1>3 DEF DamageHero, Struck
  <2>5. DamageHero(t, o, id, target, base, kind)
          = ConvertDead(Struck(t, target, Absorbed(v, n), Lost(v, n), p, tower, n, falls))
    <3> DEFINE d == Damage(t.heroes[id], w)
               there == TakeDamage(t.towers[Opponent(o)], Over(w, d))
    <3>1. DamageHero(t, o, id, target, base, kind)
            = ConvertDead(Struck(t, target, Absorbed(w, d), Lost(w, d), Opponent(o), there, d,
                                 Falls(there, Over(w, d), t.falls)))
      BY <1>1, <1>3 DEF DamageHero, Struck
    <3>2. d = n
      BY <2>2
    <3> HIDE DEF d, n, Damage
    <3>3. there = tower /\ Over(w, d) = Over(v, n) /\ t.falls = f.falls
      BY <1>1, <2>2, <2>3, <3>2
    <3>4. Falls(there, Over(w, d), t.falls) = falls
      BY <3>3
    <3>5. Absorbed(w, d) = Absorbed(v, n) /\ Lost(w, d) = Lost(v, n)
      BY <2>3, <3>2
    <3> HIDE DEF Absorbed, Lost, Over, Falls, falls, there, tower
    <3> QED
      BY <1>1, <3>1, <3>2, <3>3, <3>4, <3>5
  <2> HIDE DEF Absorbed, Lost, Over, Falls, falls, tower, n
  <2>6. PICK absorbed, lost : absorbed = Absorbed(v, n) /\ lost = Lost(v, n)
    OBVIOUS
  <2> DEFINE g == Changed(f, target, Without(v, absorbed, lost), o, tower, f.dealt + n, falls)
             u == Changed(t, target, Without(w, absorbed, lost), p, tower, t.dealt + n, falls)
  <2>7. /\ IsField(f) /\ IsHero(v) /\ f.heroes = [i \in DOMAIN f.heroes |-> f.heroes[i]]
        /\ IsField(t) /\ IsHero(w) /\ t.heroes = [i \in DOMAIN t.heroes |-> t.heroes[i]]
        /\ target \in DOMAIN t.heroes
    BY <2>1 DEF Turned, TurnedHeroes, TurnedHero
  <2>8. /\ Struck(f, target, absorbed, lost, o, tower, n, falls) = g
        /\ Struck(t, target, absorbed, lost, p, tower, n, falls) = u
    BY <2>1, <2>7, StruckChanges
  <2>9. TurnedHero(Without(v, absorbed, lost), Without(w, absorbed, lost))
    BY <2>1, TurnedHurt
  <2>10. Turned(g, u)
    BY <1>1, <2>2, <2>9, TurnedChange
  <2> HIDE DEF g, u
  <2> QED
    BY <2>4, <2>5, <2>6, <2>8, <2>10, TurnedConvert
<1> QED
  BY <1>2, <1>3

\* A field with the tower of a side changed, and the events' sums.
TowerChanged(f, q, tower, dealt, falls) ==
  [f EXCEPT !.towers[q] = tower, !.dealt = dealt, !.falls = falls]

LEMMA TurnedTower ==
  ASSUME NEW f, NEW t, Turned(f, t), NEW q \in Players, NEW tower, NEW dealt, NEW falls
  PROVE  Turned(TowerChanged(f, Opponent(q), tower, dealt, falls),
                TowerChanged(t, q, tower, dealt, falls))
<1> DEFINE none == CHOOSE i : i \notin DOMAIN f.heroes
           g == Changed(f, none, 0, Opponent(q), tower, dealt, falls)
           u == Changed(t, none, 0, q, tower, dealt, falls)
<1>1. none \notin DOMAIN f.heroes
  BY NoSetContainsEverything
<1>2. Turned(g, u)
  BY <1>1, TurnedChange
<1>3. /\ IsField(f) /\ IsField(t)
      /\ f.heroes = [i \in DOMAIN f.heroes |-> f.heroes[i]]
      /\ t.heroes = [i \in DOMAIN f.heroes |-> t.heroes[i]]
  BY DEF Turned, TurnedHeroes
<1> HIDE DEF none
<1>4. [f.heroes EXCEPT ![none] = 0] = f.heroes /\ [t.heroes EXCEPT ![none] = 0] = t.heroes
  BY <1>1, <1>3
<1>5. ASSUME NEW a, IsField(a), [a.heroes EXCEPT ![none] = 0] = a.heroes, NEW r
      PROVE  Changed(a, none, 0, r, tower, dealt, falls) = TowerChanged(a, r, tower, dealt, falls)
  <2> SUFFICES ASSUME NEW b, b = TowerChanged(a, r, tower, dealt, falls)
               PROVE  Changed(a, none, 0, r, tower, dealt, falls) = b
    OBVIOUS
  <2>1. /\ b.heroes = a.heroes /\ b.towers = [a.towers EXCEPT ![r] = tower]
        /\ b.dealt = dealt /\ b.falls = falls /\ IsField(b)
    BY <1>5 DEF TowerChanged, IsField
  <2> QED
    BY <1>5, <2>1 DEF Changed, IsField
<1>6. /\ g = TowerChanged(f, Opponent(q), tower, dealt, falls)
      /\ u = TowerChanged(t, q, tower, dealt, falls)
  BY <1>3, <1>4, <1>5
<1> HIDE DEF g, u
<1> QED
  BY <1>2, <1>6

LEMMA TurnedDamageTower ==
  ASSUME NEW f, NEW t, Turned(f, t), NEW p \in Players, NEW id, NEW base, NEW kind
  PROVE  Turned(DamageTower(f, p, id, base, kind), DamageTower(t, Opponent(p), id, base, kind))
<1> DEFINE o == Opponent(p)
           damage == Amplified(f.towers[o], Weakened(f.heroes[id], base, kind))
           tower == TakeDamage(f.towers[o], damage)
           falls == IF tower.hp = 0 THEN f.falls + 1 ELSE f.falls
           Misses == \/ id \notin Living(f, p)
                     \/ f.towers[o].hp = 0
                     \/ kind = "NormalAttack" /\ Living(f, o) # {}
<1>1. /\ Living(t, o) = Living(f, p) /\ Living(t, Opponent(o)) = Living(f, o)
      /\ t.towers[Opponent(o)] = f.towers[o] /\ o \in Players /\ Opponent(o) = p
      /\ t.dealt = f.dealt /\ t.falls = f.falls
  BY TurnedLiving, OpponentType DEF Turned
<1>2. CASE Misses
  BY <1>1, <1>2 DEF DamageTower
<1>3. CASE ~Misses
  <2>1. id \in DOMAIN f.heroes
    BY <1>3 DEF Living
  <2>2. TurnedHero(f.heroes[id], t.heroes[id])
    BY <2>1, TurnedSelf
  <2>3. Amplified(t.towers[p], Weakened(t.heroes[id], base, kind)) = damage
    BY <1>1, <2>2 DEF TurnedHero, Weakened
  <2>4. DamageTower(f, p, id, base, kind)
          = TowerChanged(f, o, tower, f.dealt + damage, falls)
    BY <1>3 DEF DamageTower, TowerChanged
  <2>5. DamageTower(t, o, id, base, kind)
          = TowerChanged(t, p, tower, f.dealt + damage, falls)
    <3> DEFINE n == Amplified(t.towers[p], Weakened(t.heroes[id], base, kind))
    <3>1. DamageTower(t, o, id, base, kind)
            = TowerChanged(t, p, TakeDamage(t.towers[p], n), t.dealt + n,
                           IF TakeDamage(t.towers[p], n).hp = 0 THEN t.falls + 1 ELSE t.falls)
      BY <1>1, <1>3 DEF DamageTower, TowerChanged
    <3>2. n = damage
      BY <2>3
    <3> HIDE DEF n, damage
    <3> QED
      BY <1>1, <3>1, <3>2
  <2> HIDE DEF tower, damage, falls
  <2> QED
    BY <2>4, <2>5, TurnedTower
<1> QED
  BY <1>2, <1>3

LEMMA TurnedLayers ==
  ASSUME NEW hero, NEW x, TurnedHero(hero, x), NEW vulnerable, NEW weak
  PROVE  TurnedHero(AddLayers(hero, vulnerable, weak), AddLayers(x, vulnerable, weak))
<1> SUFFICES ASSUME NEW a, a = AddLayers(hero, vulnerable, weak), NEW b, b = AddLayers(x, vulnerable, weak)
             PROVE  TurnedHero(a, b)
  OBVIOUS
<1>1. /\ IsHero(a) /\ a.kind = hero.kind /\ a.value = hero.value /\ a.position = hero.position
      /\ a.hp = hero.hp /\ a.shield = hero.shield /\ a.vulnerable = hero.vulnerable + vulnerable
      /\ a.weak = hero.weak + weak /\ a.charge = hero.charge
  BY DEF TurnedHero, IsHero, AddLayers
<1>2. /\ IsHero(b) /\ b.kind = x.kind /\ b.value = x.value /\ b.position = x.position
      /\ b.hp = x.hp /\ b.shield = x.shield /\ b.vulnerable = x.vulnerable + vulnerable
      /\ b.weak = x.weak + weak /\ b.charge = x.charge
  BY DEF TurnedHero, IsHero, AddLayers
<1> QED
  BY <1>1, <1>2 DEF TurnedHero

LEMMA TurnedDebuff ==
  ASSUME NEW f, NEW t, Turned(f, t), NEW p \in Players, NEW id, NEW target,
         NEW vulnerable, NEW weak
  PROVE  Turned(ApplyDebuff(f, p, id, target, vulnerable, weak),
                ApplyDebuff(t, Opponent(p), id, target, vulnerable, weak))
<1> DEFINE o == Opponent(p)
<1>1. /\ Living(t, o) = Living(f, p) /\ Living(t, Opponent(o)) = Living(f, o)
      /\ t.towers[Opponent(o)] = f.towers[o] /\ o \in Players /\ Opponent(o) = p
      /\ t.dealt = f.dealt /\ t.falls = f.falls
  BY TurnedLiving, OpponentType DEF Turned
<1>2. CASE id \notin Living(f, p)
  BY <1>1, <1>2 DEF ApplyDebuff
<1>3. CASE id \in Living(f, p) /\ target \in Living(f, o)
  <2> DEFINE x == AddLayers(f.heroes[target], vulnerable, weak)
             y == AddLayers(t.heroes[target], vulnerable, weak)
  <2>1. TurnedHero(f.heroes[target], t.heroes[target])
    BY <1>3, TurnedSelf DEF Living
  <2>2. TurnedHero(x, y)
    BY <2>1, TurnedLayers
  <2>3. /\ ApplyDebuff(f, p, id, target, vulnerable, weak) = [f EXCEPT !.heroes[target] = x]
        /\ ApplyDebuff(t, o, id, target, vulnerable, weak) = [t EXCEPT !.heroes[target] = y]
    BY <1>1, <1>3 DEF ApplyDebuff
  <2> HIDE DEF x, y
  <2> QED
    BY <2>2, <2>3, TurnedOneHero
<1>4. CASE id \in Living(f, p) /\ target \notin Living(f, o)
  <2>1. CASE f.towers[o].hp = 0
    BY <1>1, <1>4, <2>1 DEF ApplyDebuff
  <2>2. CASE f.towers[o].hp # 0
    <3> DEFINE tower == AddLayers(f.towers[o], vulnerable, weak)
    <3>1. /\ ApplyDebuff(f, p, id, target, vulnerable, weak) = [f EXCEPT !.towers[o] = tower]
          /\ ApplyDebuff(t, o, id, target, vulnerable, weak) = [t EXCEPT !.towers[p] = tower]
      BY <1>1, <1>4, <2>2 DEF ApplyDebuff
    <3> HIDE DEF tower
    <3>2. Turned(TowerChanged(f, o, tower, f.dealt, f.falls), TowerChanged(t, p, tower, f.dealt, f.falls))
      BY TurnedTower
    <3>3. /\ TowerChanged(f, o, tower, f.dealt, f.falls) = [f EXCEPT !.towers[o] = tower]
          /\ TowerChanged(t, p, tower, f.dealt, f.falls) = [t EXCEPT !.towers[p] = tower]
      BY <1>1 DEF Turned, IsField, TowerChanged
    <3> QED
      BY <3>1, <3>2, <3>3
  <2> QED
    BY <2>1, <2>2
<1> QED
  BY <1>2, <1>3, <1>4

LEMMA TurnedNormalAttack ==
  ASSUME NEW f, NEW t, Turned(f, t), NEW p \in Players, NEW id, NEW base,
         NEW vulnerable, NEW weak
  PROVE  Turned(NormalAttack(f, p, id, base, vulnerable, weak),
                NormalAttack(t, Opponent(p), id, base, vulnerable, weak))
<1> DEFINE o == Opponent(p)
<1>1. Living(t, Opponent(o)) = Living(f, o) /\ FirstEnemy(t, o) = FirstEnemy(f, p)
  BY TurnedLiving, TurnedAttackers, OpponentType
<1>2. CASE Living(f, o) = {}
  <2>1. Turned(DamageTower(f, p, id, base, "NormalAttack"), DamageTower(t, o, id, base, "NormalAttack"))
    BY TurnedDamageTower
  <2> QED
    BY <1>1, <1>2, <2>1 DEF NormalAttack
<1>3. CASE Living(f, o) # {}
  <2> DEFINE target == FirstEnemy(f, p)
             g == DamageHero(f, p, id, target, base, "NormalAttack")
             u == DamageHero(t, o, id, target, base, "NormalAttack")
  <2>1. Turned(g, u)
    BY TurnedDamageHero
  <2>2. /\ NormalAttack(f, p, id, base, vulnerable, weak) = ApplyDebuff(g, p, id, target, vulnerable, weak)
        /\ NormalAttack(t, o, id, base, vulnerable, weak) = ApplyDebuff(u, o, id, target, vulnerable, weak)
    BY <1>1, <1>3 DEF NormalAttack
  <2> HIDE DEF g, u, target
  <2> QED
    BY <2>1, <2>2, TurnedDebuff
<1> QED
  BY <1>2, <1>3

\* An attack of the one side is an attack of the other, turned.
LEMMA TurnedAttack ==
  ASSUME NEW f, NEW t, Turned(f, t), NEW p \in Players, NEW id \in DOMAIN f.heroes,
         HeroOK(f.heroes[id])
  PROVE  Turned(PerformAttack(f, p, id), PerformAttack(t, Opponent(p), id))
<1> DEFINE o == Opponent(p)
           hero == f.heroes[id]
           x == t.heroes[id]
<1>1. x.kind = hero.kind /\ x.value = hero.value /\ x.charge = hero.charge
  BY TurnedSelf DEF TurnedHero
<1>2. /\ hero.kind \in {"IronFighter", "SilentHunter", "Regent", "ChickenPot"}
      /\ hero.charge \in Nat
  BY HeroTypes, KindsAssumption DEF HeroOK
<1>3. ASSUME NEW base, NEW vulnerable, NEW weak, NEW n, NEW m,
             NEW g, g = NormalAttack(f, p, id, base, vulnerable, weak),
             NEW u, u = NormalAttack(t, o, id, base, vulnerable, weak)
      PROVE  /\ Turned(g, u)
             /\ Turned(Heal(g, id, n), Heal(u, id, n))
             /\ Turned(GainShield(g, id, n), GainShield(u, id, n))
             /\ Turned(AddCharge(g, id, n), AddCharge(u, id, n))
             /\ Turned(AddCharge(GainShield(g, id, n), id, m), AddCharge(GainShield(u, id, n), id, m))
  <2>1. Turned(g, u)
    BY <1>3, TurnedNormalAttack
  <2>2. /\ Turned(Heal(g, id, n), Heal(u, id, n))
        /\ Turned(GainShield(g, id, n), GainShield(u, id, n))
        /\ Turned(AddCharge(g, id, n), AddCharge(u, id, n))
    BY <2>1, TurnedOwn
  <2>3. Turned(AddCharge(GainShield(g, id, n), id, m), AddCharge(GainShield(u, id, n), id, m))
    BY <2>2, TurnedOwn
  <2> QED
    BY <2>1, <2>2, <2>3
<1>4. CASE hero.kind = "IronFighter"
  BY <1>1, <1>3, <1>4 DEF PerformAttack
<1>5. CASE hero.kind = "SilentHunter"
  BY <1>1, <1>3, <1>5 DEF PerformAttack
<1>6. CASE hero.kind = "Regent" /\ hero.charge >= 2
  BY <1>1, <1>3, <1>6 DEF PerformAttack
<1>7. CASE hero.kind = "Regent" /\ hero.charge < 2
  BY <1>1, <1>2, <1>3, <1>7 DEF PerformAttack
<1>8. CASE hero.kind = "ChickenPot" /\ hero.charge = 0
  BY <1>1, <1>3, <1>8 DEF PerformAttack
<1>9. CASE hero.kind = "ChickenPot" /\ hero.charge > 0
  BY <1>1, <1>2, <1>3, <1>9 DEF PerformAttack
<1> QED
  BY <1>2, <1>4, <1>5, <1>6, <1>7, <1>8, <1>9

-----------------------------------------------------------------------------
(* The elimination turned half around.                                     *)

MirroredCells(cells) == {Mirrored(c) : c \in cells}

LEMMA MirroredMember ==
  ASSUME NEW cells, cells \subseteq Positions, NEW c \in Positions
  PROVE  /\ Mirrored(c) \in MirroredCells(cells) <=> c \in cells
         /\ c \in MirroredCells(cells) <=> Mirrored(c) \in cells
<1>1. \A a \in Positions : Mirrored(a) \in Positions /\ Mirrored(Mirrored(a)) = a
  BY MirroredCell
<1>2. Mirrored(c) \in MirroredCells(cells) <=> c \in cells
  <2>1. ASSUME Mirrored(c) \in MirroredCells(cells) PROVE c \in cells
    <3>1. PICK a \in cells : Mirrored(c) = Mirrored(a)
      BY <2>1 DEF MirroredCells
    <3> QED
      BY <1>1, <3>1
  <2> QED
    BY <2>1 DEF MirroredCells
<1>3. c \in MirroredCells(cells) <=> Mirrored(c) \in cells
  <2>1. ASSUME c \in MirroredCells(cells) PROVE Mirrored(c) \in cells
    <3>1. PICK a \in cells : c = Mirrored(a)
      BY <2>1 DEF MirroredCells
    <3> QED
      BY <1>1, <3>1
  <2>2. ASSUME Mirrored(c) \in cells PROVE c \in MirroredCells(cells)
    <3>1. c = Mirrored(Mirrored(c))
      BY <1>1
    <3> QED
      BY <2>2, <3>1 DEF MirroredCells
  <2> QED
    BY <2>1, <2>2
<1> QED
  BY <1>2, <1>3

\* As many cells turned as there are.
LEMMA MirroredCount ==
  ASSUME NEW cells, cells \subseteq Positions, IsFiniteSet(cells)
  PROVE  IsFiniteSet(MirroredCells(cells)) /\ Cardinality(MirroredCells(cells)) = Cardinality(cells)
<1> DEFINE f == [c \in cells |-> Mirrored(c)]
<1>1. f \in Surjection(cells, MirroredCells(cells))
  BY DEF Surjection, MirroredCells
<1>2. f \in Injection(cells, MirroredCells(cells))
  <2>1. f \in [cells -> MirroredCells(cells)]
    BY DEF MirroredCells
  <2>2. \A a, b \in cells : f[a] = f[b] => a = b
    BY MirroredCell
  <2> HIDE DEF f
  <2> QED
    BY <2>1, <2>2 DEF Injection, IsInjective
<1>3. f \in Bijection(cells, MirroredCells(cells))
  BY <1>1, <1>2 DEF Bijection
<1> HIDE DEF f
<1>4. ExistsBijection(cells, MirroredCells(cells))
  BY <1>3 DEF ExistsBijection
<1> QED
  BY <1>4, FS_Bijection

\* The gaps below a cell are those above it, turned.
LEMMA MirroredGaps ==
  ASSUME NEW gaps, gaps \subseteq Positions, NEW c \in Positions
  PROVE  /\ Cardinality(GapsAbove(MirroredCells(gaps), Mirrored(c))) = Cardinality(GapsBelow(gaps, c))
         /\ Cardinality(GapsBelow(MirroredCells(gaps), Mirrored(c))) = Cardinality(GapsAbove(gaps, c))
<1>1. /\ Row(c) \in 0..Rows - 1 /\ Column(c) \in 0..Columns - 1
      /\ Rows \in Nat /\ Columns \in Nat
  BY PositionParts, RowsAssumption, ColumnsAssumption
<1>2. /\ Mirrored(c) \in Positions
      /\ Row(Mirrored(c)) = Rows - 1 - Row(c) /\ Column(Mirrored(c)) = Columns - 1 - Column(c)
  BY MirroredCell
<1>3. ASSUME NEW r \in 0..Rows - 1
      PROVE  <<r, Columns - 1 - Column(c)>> \in MirroredCells(gaps)
               <=> <<Rows - 1 - r, Column(c)>> \in gaps
  <2> DEFINE d == <<Rows - 1 - r, Column(c)>>
  <2>1. d \in Positions
    BY <1>1 DEF Positions
  <2>2. Mirrored(d) = <<r, Columns - 1 - Column(c)>>
    BY <1>1 DEF Mirrored, Row, Column
  <2> HIDE DEF d
  <2>3. Mirrored(d) \in MirroredCells(gaps) <=> d \in gaps
    BY <2>1, MirroredMember
  <2> QED
    BY <2>2, <2>3 DEF d
<1>4. ASSUME NEW S, IsFiniteSet(S), S \subseteq 0..Rows - 1, NEW T, T \subseteq 0..Rows - 1,
             \A r \in 0..Rows - 1 : r \in T <=> Rows - 1 - r \in S
      PROVE  Cardinality(T) = Cardinality(S)
  <2> DEFINE f == [s \in S |-> Rows - 1 - s]
  <2>1. f \in [S -> T] /\ \A a, b \in S : f[a] = f[b] => a = b
    BY <1>1, <1>4
  <2>2. \A r \in T : \E s \in S : f[s] = r
    <3> SUFFICES ASSUME NEW r \in T PROVE \E s \in S : f[s] = r
      OBVIOUS
    <3>1. Rows - 1 - r \in S /\ Rows - 1 - (Rows - 1 - r) = r
      BY <1>1, <1>4
    <3> QED
      BY <3>1
  <2> HIDE DEF f
  <2>3. f \in Bijection(S, T)
    BY <2>1, <2>2 DEF Bijection, Injection, IsInjective, Surjection
  <2> QED
    BY <1>4, <2>3, FS_Bijection DEF ExistsBijection
<1>5. Cardinality(GapsAbove(MirroredCells(gaps), Mirrored(c))) = Cardinality(GapsBelow(gaps, c))
  <2> DEFINE S == GapsBelow(gaps, c)
             T == GapsAbove(MirroredCells(gaps), Mirrored(c))
  <2>1. IsFiniteSet(S)
    BY GapsCounted
  <2>2. S \subseteq 0..Rows - 1 /\ T \subseteq 0..Rows - 1
    BY <1>1, <1>2 DEF GapsBelow, GapsAbove
  <2>3. \A r \in 0..Rows - 1 : r \in T <=> Rows - 1 - r \in S
    BY <1>1, <1>2, <1>3 DEF GapsBelow, GapsAbove
  <2> HIDE DEF S, T
  <2>4. Cardinality(T) = Cardinality(S)
    BY <1>4, <2>1, <2>2, <2>3
  <2> QED
    BY <2>4 DEF S, T
<1>6. Cardinality(GapsBelow(MirroredCells(gaps), Mirrored(c))) = Cardinality(GapsAbove(gaps, c))
  <2> DEFINE S == GapsAbove(gaps, c)
             T == GapsBelow(MirroredCells(gaps), Mirrored(c))
  <2>1. IsFiniteSet(S)
    BY GapsCounted
  <2>2. S \subseteq 0..Rows - 1 /\ T \subseteq 0..Rows - 1
    BY <1>1, <1>2 DEF GapsBelow, GapsAbove
  <2>3. \A r \in 0..Rows - 1 : r \in T <=> Rows - 1 - r \in S
    BY <1>1, <1>2, <1>3 DEF GapsBelow, GapsAbove
  <2> HIDE DEF S, T
  <2>4. Cardinality(T) = Cardinality(S)
    BY <1>4, <2>1, <2>2, <2>3
  <2> QED
    BY <2>4 DEF S, T
<1> QED
  BY <1>5, <1>6

\* What falls for the one player rises for the other.
LEMMA MirroredLanding ==
  ASSUME NEW p \in Players, NEW gaps, gaps \subseteq Positions, NEW c \in Positions
  PROVE  Landing(Opponent(p), MirroredCells(gaps), Mirrored(c)) = Mirrored(Landing(p, gaps, c))
<1> DEFINE below == Cardinality(GapsBelow(gaps, c))
           above == Cardinality(GapsAbove(gaps, c))
<1>1. below \in Int /\ above \in Int
  BY GapsCounted, PositionParts, RowsAssumption
<1>2. /\ Row(c) \in Int /\ Column(c) \in Int /\ Rows \in Int /\ Columns \in Int
      /\ Row(Mirrored(c)) = Rows - 1 - Row(c) /\ Column(Mirrored(c)) = Columns - 1 - Column(c)
  BY MirroredCell, PositionParts, RowsAssumption, ColumnsAssumption
<1>3. /\ Landing(0, gaps, c) = <<Row(c) + below, Column(c)>>
      /\ Landing(1, gaps, c) = <<Row(c) - above, Column(c)>>
      /\ Landing(0, MirroredCells(gaps), Mirrored(c)) = <<Rows - 1 - Row(c) + above, Columns - 1 - Column(c)>>
      /\ Landing(1, MirroredCells(gaps), Mirrored(c)) = <<Rows - 1 - Row(c) - below, Columns - 1 - Column(c)>>
  BY <1>2, MirroredGaps DEF Landing
<1> HIDE DEF below, above
<1>4. /\ Mirrored(Landing(0, gaps, c)) = <<Rows - 1 - (Row(c) + below), Columns - 1 - Column(c)>>
      /\ Mirrored(Landing(1, gaps, c)) = <<Rows - 1 - (Row(c) - above), Columns - 1 - Column(c)>>
  BY <1>3 DEF Mirrored, Row, Column
<1>5. /\ Rows - 1 - Row(c) - below = Rows - 1 - (Row(c) + below)
      /\ Rows - 1 - Row(c) + above = Rows - 1 - (Row(c) - above)
  BY <1>1, <1>2
<1> QED
  BY <1>3, <1>4, <1>5 DEF Players, Opponent

TurnedPath(path) == [i \in 1..Len(path) |-> Mirrored(path[i])]

LEMMA TurnedPathCells ==
  ASSUME NEW p \in Players, NEW path \in Paths(p), Len(path) >= 3,
         NEW back, back = TurnedPath(path)
  PROVE  /\ path \in Seq(Area(p)) /\ OnPath(path) \subseteq Area(p) /\ Area(p) \subseteq Positions
         /\ back \in Seq(Area(Opponent(p))) /\ Len(back) = Len(path)
         /\ \A i \in 1..Len(path) : back[i] = Mirrored(path[i]) /\ path[i] \in Positions
         /\ IsFiniteSet(OnPath(path))
         /\ OnPath(back) = MirroredCells(OnPath(path)) /\ Gaps(back) = MirroredCells(Gaps(path))
<1>1. path \in Seq(Area(p))
  <2>1. PICK n \in 3..MaxPath : path \in [1..n -> Area(p)]
    BY DEF Paths
  <2> QED
    BY <2>1, BoundsAssumption
<1>2. Area(p) \subseteq Positions
  BY DEF Area
<1>3. Len(path) \in Nat /\ \A i \in 1..Len(path) : path[i] \in Area(p) /\ path[i] \in Positions
  BY <1>1, <1>2
<1>4. \A c \in Area(p) : Mirrored(c) \in Area(Opponent(p))
  BY MirroredCell DEF Area
<1>5. /\ back \in [1..Len(path) -> Area(Opponent(p))]
      /\ \A i \in 1..Len(path) : back[i] = Mirrored(path[i])
  BY <1>3, <1>4 DEF TurnedPath
<1>6. back \in Seq(Area(Opponent(p))) /\ Len(back) = Len(path)
  BY <1>3, <1>5
<1>7. OnPath(path) \subseteq Area(p)
  BY <1>3 DEF OnPath
<1>8. IsFiniteSet(OnPath(path))
  <2> DEFINE f == [i \in 1..Len(path) |-> path[i]]
  <2>1. IsFiniteSet(1..Len(path))
    BY <1>3, FS_Interval
  <2>2. f \in Surjection(1..Len(path), OnPath(path))
    BY DEF Surjection, OnPath
  <2> HIDE DEF f
  <2> QED
    BY <2>1, <2>2, FS_Surjection
<1>9. OnPath(back) = MirroredCells(OnPath(path))
  <2>1. OnPath(back) = {Mirrored(path[i]) : i \in 1..Len(path)}
    BY <1>5, <1>6 DEF OnPath
  <2> QED
    BY <2>1 DEF OnPath, MirroredCells
<1>10. Gaps(back) = MirroredCells(Gaps(path))
  <2> DEFINE end == path[Len(path)]
  <2>1. end \in Positions /\ back[Len(back)] = Mirrored(end)
    BY <1>3, <1>5, <1>6
  <2> HIDE DEF end
  <2>2. \A c \in OnPath(path) : Mirrored(c) = Mirrored(end) <=> c = end
    BY <1>2, <1>7, <2>1, MirroredCell
  <2>3. Gaps(back) = MirroredCells(OnPath(path)) \ {Mirrored(end)}
    BY <1>9, <2>1 DEF Gaps
  <2>4. Gaps(path) = OnPath(path) \ {end}
    BY DEF Gaps, end
  <2> QED
    BY <2>2, <2>3, <2>4 DEF MirroredCells
<1> QED
  BY <1>1, <1>2, <1>3, <1>5, <1>6, <1>7, <1>8, <1>9, <1>10

\* The heroes on the cells are those on the cells turned.
LEMMA TurnedIds ==
  ASSUME NEW heroes, NEW t, TurnedHeroes(heroes, t), NEW cells, cells \subseteq Positions
  PROVE  IdsOn(t, MirroredCells(cells)) = IdsOn(heroes, cells) /\ DOMAIN t = DOMAIN heroes
<1>1. DOMAIN t = DOMAIN heroes
  BY DEF TurnedHeroes
<1>2. \A i \in DOMAIN heroes : t[i].position = Mirrored(heroes[i].position) /\ heroes[i].position \in Positions
  BY DEF TurnedHeroes, TurnedHero
<1>3. \A i \in DOMAIN heroes : t[i].position \in MirroredCells(cells) <=> heroes[i].position \in cells
  BY <1>2, MirroredMember
<1> QED
  BY <1>1, <1>3 DEF IdsOn

LEMMA MirroredAdjacent ==
  ASSUME NEW a \in Positions, NEW b \in Positions
  PROVE  Adjacent(Mirrored(a), Mirrored(b)) <=> Adjacent(a, b)
<1>1. /\ Row(a) \in Int /\ Column(a) \in Int /\ Row(b) \in Int /\ Column(b) \in Int
      /\ Rows \in Int /\ Columns \in Int
  BY PositionParts, RowsAssumption, ColumnsAssumption
<1>2. /\ Row(Mirrored(a)) = Rows - 1 - Row(a) /\ Column(Mirrored(a)) = Columns - 1 - Column(a)
      /\ Row(Mirrored(b)) = Rows - 1 - Row(b) /\ Column(Mirrored(b)) = Columns - 1 - Column(b)
  BY MirroredCell
<1>3. /\ Near(Row(Mirrored(a)), Row(Mirrored(b))) <=> Near(Row(a), Row(b))
      /\ Near(Column(Mirrored(a)), Column(Mirrored(b))) <=> Near(Column(a), Column(b))
  BY <1>1, <1>2 DEF Near
<1> QED
  BY <1>3 DEF Adjacent

\* A path that is legal is legal turned.
LEMMA TurnedLegal ==
  ASSUME NEW heroes, NEW t, TurnedHeroes(heroes, t), NEW p \in Players, NEW path \in Paths(p),
         NEW kind, LegalPath(heroes, p, path, kind), NEW back, back = TurnedPath(path)
  PROVE  LegalPath(t, Opponent(p), back, kind)
<1>1. Len(path) >= 3
  BY DEF LegalPath
<1>2. /\ path \in Seq(Area(p)) /\ OnPath(path) \subseteq Positions
      /\ back \in Seq(Area(Opponent(p))) /\ Len(back) = Len(path)
      /\ \A i \in 1..Len(path) : back[i] = Mirrored(path[i]) /\ path[i] \in Positions
      /\ IsFiniteSet(OnPath(path)) /\ OnPath(back) = MirroredCells(OnPath(path))
  BY <1>1, TurnedPathCells
<1>3. OnPath(back) \subseteq Area(Opponent(p))
  BY <1>2 DEF OnPath
<1>4. Cardinality(OnPath(back)) = Len(back)
  BY <1>2, MirroredCount DEF LegalPath
<1>5. \A i \in 1..Len(back) - 1 : Adjacent(back[i], back[i + 1])
  <2> SUFFICES ASSUME NEW i \in 1..Len(path) - 1 PROVE Adjacent(back[i], back[i + 1])
    BY <1>2
  <2>1. i \in 1..Len(path) /\ i + 1 \in 1..Len(path)
    BY <1>2
  <2>2. Adjacent(path[i], path[i + 1])
    BY DEF LegalPath
  <2> QED
    BY <1>2, <2>1, <2>2, MirroredAdjacent
<1>6. \A i \in IdsOn(t, OnPath(back)) : t[i].kind = kind
  <2>1. IdsOn(t, OnPath(back)) = IdsOn(heroes, OnPath(path))
    BY <1>2, TurnedIds
  <2>2. \A i \in IdsOn(heroes, OnPath(path)) : heroes[i].kind = kind /\ t[i].kind = heroes[i].kind
    BY DEF LegalPath, TurnedHeroes, TurnedHero, IdsOn
  <2> QED
    BY <2>1, <2>2
<1> QED
  BY <1>1, <1>2, <1>3, <1>4, <1>5, <1>6 DEF LegalPath

\* The heroes used up have the same values, so the new one has.
LEMMA TurnedValue ==
  ASSUME NEW heroes, NEW t, TurnedHeroes(heroes, t), NEW path, NEW back, Len(back) = Len(path),
         IdsOn(t, OnPath(back)) = IdsOn(heroes, OnPath(path))
  PROVE  Value(t, back) = Value(heroes, path)
<1> DEFINE used == IdsOn(heroes, OnPath(path))
           AddsUp(j) == j = [s \in SUBSET used |->
                               IF s = {} THEN 0
                               ELSE heroes[CHOOSE x \in s : TRUE].value + j[s \ {CHOOSE x \in s : TRUE}]]
           AddsUpThere(j) == j = [s \in SUBSET used |->
                               IF s = {} THEN 0
                               ELSE t[CHOOSE x \in s : TRUE].value + j[s \ {CHOOSE x \in s : TRUE}]]
<1>1. \A i \in used : t[i].value = heroes[i].value
  BY DEF TurnedHeroes, TurnedHero, IdsOn
<1>2. /\ Value(heroes, path) = Len(path) - Cardinality(used) + (CHOOSE j : AddsUp(j))[used]
      /\ Value(t, back) = Len(path) - Cardinality(used) + (CHOOSE j : AddsUpThere(j))[used]
  BY DEF Value, MapThenSumSet, MapThenFoldSet
<1> HIDE DEF used
<1>3. \A s \in SUBSET used : s # {} => t[CHOOSE x \in s : TRUE].value = heroes[CHOOSE x \in s : TRUE].value
  BY <1>1
<1>4. ASSUME NEW j PROVE AddsUp(j) <=> AddsUpThere(j)
  <2>1. [s \in SUBSET used |->
           IF s = {} THEN 0
           ELSE heroes[CHOOSE x \in s : TRUE].value + j[s \ {CHOOSE x \in s : TRUE}]]
        = [s \in SUBSET used |->
             IF s = {} THEN 0
             ELSE t[CHOOSE x \in s : TRUE].value + j[s \ {CHOOSE x \in s : TRUE}]]
    BY <1>3
  <2> QED
    BY <2>1
<1> HIDE DEF AddsUp, AddsUpThere
<1>5. (CHOOSE j : AddsUp(j)) = (CHOOSE j : AddsUpThere(j))
  BY <1>4
<1> QED
  BY <1>2, <1>5

\* And the elimination puts everybody where it would have, turned.
LEMMA TurnedResolve ==
  ASSUME NEW heroes, NEW t, TurnedHeroes(heroes, t), NEW p \in Players, NEW path \in Paths(p),
         NEW kind, LegalPath(heroes, p, path, kind), NEW back, back = TurnedPath(path), NEW new
  PROVE  TurnedHeroes(Resolve(heroes, p, path, kind, new),
                      Resolve(t, Opponent(p), back, kind, new))
<1> DEFINE stay == DOMAIN heroes \ IdsOn(heroes, OnPath(path))
           gaps == Gaps(path)
           end == path[Len(path)]
           o == Opponent(p)
           value == Value(heroes, path)
           Land(c) == Landing(p, gaps, c)
           LandThere(c) == Landing(o, MirroredCells(gaps), c)
           first == NewHero(kind, value, Land(end))
           firstThere == NewHero(kind, value, LandThere(Mirrored(end)))
           r == Resolve(heroes, p, path, kind, new)
           u == Resolve(t, o, back, kind, new)
<1>1. Len(path) >= 3
  BY DEF LegalPath
<1>2. /\ path \in Seq(Area(p)) /\ OnPath(path) \subseteq Positions
      /\ Len(back) = Len(path) /\ Gaps(back) = MirroredCells(gaps)
      /\ \A i \in 1..Len(path) : back[i] = Mirrored(path[i]) /\ path[i] \in Positions
      /\ OnPath(back) = MirroredCells(OnPath(path))
  BY <1>1, TurnedPathCells
<1>3. end \in Positions /\ back[Len(back)] = Mirrored(end)
  BY <1>1, <1>2
<1>4. gaps \subseteq Positions
  BY <1>2 DEF Gaps
<1>5. IdsOn(t, OnPath(back)) = IdsOn(heroes, OnPath(path)) /\ DOMAIN t = DOMAIN heroes
  BY <1>2, TurnedIds
<1>6. Value(t, back) = value
  BY <1>2, <1>5, TurnedValue
<1> HIDE DEF value, gaps, end
<1>7. \A c \in Positions : /\ LandThere(Mirrored(c)) = Mirrored(Land(c))
                           /\ Land(c) \in Positions
  BY <1>4, MirroredLanding, LandingInside DEF Players
<1>8. r = [i \in stay \cup {new} |->
             IF i = new THEN first ELSE [heroes[i] EXCEPT !.position = Land(heroes[i].position)]]
  BY DEF Resolve, value, gaps, end
<1>9. u = [i \in stay \cup {new} |->
             IF i = new THEN firstThere ELSE [t[i] EXCEPT !.position = LandThere(t[i].position)]]
  BY <1>2, <1>3, <1>5, <1>6 DEF Resolve
<1> HIDE DEF Land, LandThere
<1>10. TurnedHero(first, firstThere)
  BY <1>3, <1>7 DEF TurnedHero, NewHero, IsHero
<1>11. ASSUME NEW i \in stay
       PROVE  TurnedHero([heroes[i] EXCEPT !.position = Land(heroes[i].position)],
                         [t[i] EXCEPT !.position = LandThere(t[i].position)])
  <2>1. TurnedHero(heroes[i], t[i])
    BY DEF TurnedHeroes
  <2>2. heroes[i].position \in Positions /\ t[i].position = Mirrored(heroes[i].position)
    BY <2>1 DEF TurnedHero
  <2> DEFINE a == Land(heroes[i].position)
             b == LandThere(t[i].position)
  <2>3. a \in Positions /\ b = Mirrored(a)
    BY <1>7, <2>2
  <2> HIDE DEF a, b
  <2>4. ASSUME NEW x, x = [heroes[i] EXCEPT !.position = a], NEW y, y = [t[i] EXCEPT !.position = b]
        PROVE  TurnedHero(x, y)
    BY <2>1, <2>3, <2>4 DEF TurnedHero, IsHero
  <2> QED
    BY <2>4 DEF a, b
<1> HIDE DEF first, firstThere, r, u, stay
<1>12. \A i \in stay \cup {new} : TurnedHero(r[i], u[i])
  BY <1>8, <1>9, <1>10, <1>11
<1>13. TurnedHeroes(r, u)
  BY <1>8, <1>9, <1>12 DEF TurnedHeroes
<1> QED
  BY <1>13 DEF r, u

\* Neither seat has an advantage but the first turn.
THEOREM SeatsAlike == Spec => []SidesAlike
<1>1. CombatInv => SidesAlike
  <2> SUFFICES ASSUME CombatInv PROVE SidesAlike
    OBVIOUS
  <2> DEFINE turned == MirroredField(field)
             other == Opponent(mover)
  <2>1. FieldOK(field) /\ mover \in Players
    BY DEF CombatInv, TypeOK
  <2>2. Turned(field, turned)
    BY <2>1, MirroredIsTurned
  <2>3. TurnedHeroes(field.heroes, turned.heroes)
    BY <2>2 DEF Turned
  <2> HIDE DEF turned
  <2>4. CollectAttackers(turned, other) = CollectAttackers(field, mover)
    BY <2>1, <2>2, TurnedAttackers
  <2>5. ASSUME NEW id \in Living(field, mover)
        PROVE  PerformAttack(turned, other, id) = MirroredField(PerformAttack(field, mover, id))
    <3>1. id \in DOMAIN field.heroes /\ HeroOK(field.heroes[id])
      BY <2>1, FieldParts DEF Living
    <3>2. Turned(PerformAttack(field, mover, id), PerformAttack(turned, other, id))
      BY <2>1, <2>2, <3>1, TurnedAttack
    <3> QED
      BY <3>2, TurnedIsMirrored
  <2>6. ASSUME NEW path \in Paths(mover), NEW kind \in Kinds,
               LegalPath(field.heroes, mover, path, kind),
               NEW back, back = [i \in 1..Len(path) |-> Mirrored(path[i])]
        PROVE  /\ LegalPath(turned.heroes, other, back, kind)
               /\ Resolve(turned.heroes, other, back, kind, turn)
                    = MirroredHeroes(Resolve(field.heroes, mover, path, kind, turn))
    <3>1. back = TurnedPath(path)
      BY <2>6 DEF TurnedPath
    <3>2. LegalPath(turned.heroes, other, back, kind)
      BY <2>1, <2>3, <2>6, <3>1, TurnedLegal
    <3>3. TurnedHeroes(Resolve(field.heroes, mover, path, kind, turn),
                       Resolve(turned.heroes, other, back, kind, turn))
      BY <2>1, <2>3, <2>6, <3>1, TurnedResolve
    <3> QED
      BY <3>2, <3>3, TurnedIsMirrored
  <2> QED
    BY <2>4, <2>5, <2>6 DEF SidesAlike, turned
<1> QED
  BY <1>1, Invariance, PTL
=============================================================================
