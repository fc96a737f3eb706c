------------------------------ MODULE CombatLog ------------------------------
(***************************************************************************)
(* The battle log: the CombatEvents that every call of a combat pushes,    *)
(* beside what Combat lets it do.  Players see the board only when the     *)
(* combat is over; how it came to be so, both clients tell from the log    *)
(* (combatEventText in src/client/main.cpp and src/gui/BoardRenderer.cpp). *)
(*                                                                         *)
(* Of an event its type is kept, the hero or tower it happens to, and the  *)
(* number it gives: what remains, the total, or how many.                  *)
(***************************************************************************)
EXTENDS Combat

VARIABLE log   \* resolution.events

logVars == <<vars, log>>

\* whom: a hero's id, a TowerTarget, or NoOne.
NoOne == 0
Event(type, whom, amount) == [type |-> type, whom |-> whom, amount |-> amount]

When(condition, events) == IF condition THEN events ELSE << >>

HisTower(p) == TowerTarget(p)

\* TowerDamaged and, when it fell, TowerDestroyed.
TowerEvents(p, tower) ==
  <<Event("TowerDamaged", HisTower(p), tower.hp)>>
  \o When(tower.hp = 0, <<Event("TowerDestroyed", HisTower(p), p)>>)

\* Mutant: the hit is announced with the hit points the victim had before.
HitEventsStale(f, p, id, target, base, damageKind) ==
  LET g        == DamageHero(f, p, id, target, base, damageKind)
      victim   == f.heroes[target]
      died     == target \notin DOMAIN g.heroes
      damage   == Greatest(1, Amplified(victim, Weakened(f.heroes[id], base, damageKind)))
      absorbed == Least(victim.shield, damage)
      overflow == Greatest(0, damage - absorbed - victim.hp)
      At(type, amount) == <<Event(type, target, amount)>>
  IN  IF id \notin Living(f, p) \/ target \notin Living(f, Opponent(p)) THEN << >> ELSE
      At("HeroAttacked", base)
      \o When(absorbed > 0, At("ShieldAbsorbed", victim.shield - absorbed)
                            \o When(absorbed = victim.shield, At("ShieldBroken", 0)))
      \o At("HeroDamaged", victim.hp)
      \o When(died, At("HeroDied", 0))
      \o When(overflow > 0, At("OverflowDamageGenerated", overflow)
                            \o TowerEvents(p, g.towers[Opponent(p)]))
      \o When(died, At("HeroConvertedToBox", 0))

\* damageHero.
HitEvents(f, p, id, target, base, damageKind) ==
  LET g        == DamageHero(f, p, id, target, base, damageKind)
      victim   == f.heroes[target]
      died     == target \notin DOMAIN g.heroes
      damage   == Greatest(1, Amplified(victim, Weakened(f.heroes[id], base, damageKind)))
      absorbed == Least(victim.shield, damage)
      overflow == Greatest(0, damage - absorbed - victim.hp)
      At(type, amount) == <<Event(type, target, amount)>>
  IN  IF id \notin Living(f, p) \/ target \notin Living(f, Opponent(p)) THEN << >> ELSE
      At("HeroAttacked", base)
      \o When(absorbed > 0, At("ShieldAbsorbed", victim.shield - absorbed)
                            \o When(absorbed = victim.shield, At("ShieldBroken", 0)))
      \o At("HeroDamaged", Greatest(0, victim.hp - (damage - absorbed)))
      \o When(died, At("HeroDied", 0))
      \o When(overflow > 0, At("OverflowDamageGenerated", overflow)
                            \o TowerEvents(p, g.towers[Opponent(p)]))
      \o When(died, At("HeroConvertedToBox", 0))

\* damageTower.
TowerHitEvents(f, p, id, base, damageKind) ==
  IF DamageTower(f, p, id, base, damageKind) = f THEN << >>
  ELSE TowerEvents(p, DamageTower(f, p, id, base, damageKind).towers[Opponent(p)])

LayerEvents(whom, x, vulnerable, weak) ==
  When(vulnerable > 0, <<Event("VulnerableApplied", whom, x.vulnerable)>>)
  \o When(weak > 0, <<Event("WeakApplied", whom, x.weak)>>)

\* applyDebuffAfterHeroHit, addVulnerable, addWeak.
DebuffEvents(f, p, id, target, vulnerable, weak) ==
  LET g == ApplyDebuff(f, p, id, target, vulnerable, weak)
  IN  IF id \notin Living(f, p) THEN << >>
      ELSE IF target \in Living(f, Opponent(p))
           THEN LayerEvents(target, g.heroes[target], vulnerable, weak)
           ELSE When(f.towers[Opponent(p)].hp > 0,
                     LayerEvents(HisTower(p), g.towers[Opponent(p)], vulnerable, weak))

NormalAttackEvents(f, p, id, base, vulnerable, weak) ==
  IF Living(f, Opponent(p)) = {}
  THEN TowerHitEvents(f, p, id, base, "NormalAttack")
  ELSE LET target == FirstEnemy(f, p)
       IN  HitEvents(f, p, id, target, base, "NormalAttack")
           \o DebuffEvents(DamageHero(f, p, id, target, base, "NormalAttack"),
                           p, id, target, vulnerable, weak)

\* What the attacker g.heroes[id] did to itself in a call that began in f:
\* healHero and gainShield tell of a gain, stars and orbs are always told.
SelfEvents(f, g, id) ==
  LET before == f.heroes[id]
      after  == g.heroes[id]
  IN  When(after.hp > before.hp, <<Event("HeroHealed", id, after.hp)>>)
      \o When(after.shield > before.shield, <<Event("ShieldGained", id, after.shield)>>)
      \o When(after.kind = "Regent", <<Event("RadiantStarsChanged", id, after.charge)>>)
      \o When(after.kind = "ChickenPot" /\ after.charge # before.charge,
              <<Event("LightningOrbChanged", id, after.charge)>>)

\* performAttack of each class, of a ChickenPot up to its lightning.
AttackEvents(f, p, id) ==
  LET hero == f.heroes[id]
      g    == PerformAttack(f, p, id)
      Blow(base, vulnerable, weak) ==
        NormalAttackEvents(f, p, id, base, vulnerable, weak) \o SelfEvents(f, g, id)
      Mode(amount) == <<Event("RegentAttackModeSelected", id, amount)>>
  IN  CASE hero.kind = "IronFighter"  -> Blow(14 * hero.value, 3, 0)
        [] hero.kind = "SilentHunter" -> Blow(12 * hero.value, 0, 2)
        [] hero.kind = "Regent" /\ hero.charge >= 2 -> Mode(1) \o Blow(14 * hero.value, 1, 2)
        [] hero.kind = "Regent" /\ hero.charge < 2  -> Mode(0) \o Blow(6 * hero.value, 0, 0)
        [] hero.kind = "ChickenPot" -> Blow(6 * hero.value, 0, 0)

BoltEvents(f, p, id, target) ==
  LET damage == 8 * f.heroes[id].value
  IN  <<Event("LightningActivated", id, LightningActivationCount + 1 - bolts),
        Event("LightningTargetSelected", target, 0)>>
      \o IF target = TowerTarget(p) THEN TowerHitEvents(f, p, id, damage, "Lightning")
         ELSE HitEvents(f, p, id, target, damage, "Lightning")

OrbEvents(f, id) == <<Event("LightningOrbChanged", id, f.heroes[id].charge)>>

\* A layer less, or the last one gone.
Less(whom, x, y) ==
  When(x.vulnerable > 0, <<Event(IF y.vulnerable = 0 THEN "VulnerableExpired"
                                 ELSE "VulnerableReduced", whom, y.vulnerable)>>)
  \o When(x.weak > 0, <<Event(IF y.weak = 0 THEN "WeakExpired" ELSE "WeakReduced",
                              whom, y.weak)>>)

\* processTurnEndStatuses: the heroes, row by row from the first cell (the order in
\* which player 1 attacks), and both towers.
WearOffEvents(f) ==
  LET ids == InOrder(f, 1, DOMAIN f.heroes)
      OfTower(p) == Less(HisTower(Opponent(p)), f.towers[p], WearOff(f).towers[p])
  IN  FlattenSeq([i \in DOMAIN ids |-> Less(ids[i], f.heroes[ids[i]], WearOff(f).heroes[ids[i]])])
      \o OfTower(0) \o OfTower(1)

-----------------------------------------------------------------------------
(* The turns, with their log.                                              *)

LogInit == Init /\ log = << >>

LoggedElimination(path, kind) ==
  /\ Eliminate(path, kind)
  /\ log' = IF turn = 1
            THEN <<Event("OpeningTurnCompleted", NoOne, 0), Event("TurnChanged", NoOne, 0)>>
            ELSE <<Event("CombatStarted", NoOne, 0)>>

LoggedAttack ==
  LET id     == Head(queue)
      strikes == id \in Living(field, mover)
      bursts == strikes /\ Charged(field, id)
  IN  /\ Attack
      /\ log' = log \o When(strikes, AttackEvents(field, mover, id))
                    \o When(bolts' > 0, <<Event("LightningAttackStarted", id, 0)>>)
                    \o When(bursts /\ bolts' = 0, OrbEvents(field', id))

LoggedBolt(target) ==
  LET id == Head(queue)
  IN  /\ Strike(target)
      /\ log' = log \o BoltEvents(field, mover, id, target)
                    \o When(bolts' = 0, OrbEvents(field', id))

LoggedEnd ==
  /\ EndCombat
  /\ log' = log \o WearOffEvents(field) \o <<Event("CombatFinished", NoOne, 0)>>
                \o <<Event(IF phase' = "Finished" THEN "GameFinished" ELSE "TurnChanged",
                           NoOne, 0)>>

LogNext == \/ Start /\ UNCHANGED log
           \/ /\ turn <= MaxTurn
              /\ \E path \in Paths(mover), kind \in Kinds : LoggedElimination(path, kind)
           \/ LoggedAttack
           \/ \E target \in LightningTargets(field, mover) : LoggedBolt(target)
           \/ LoggedEnd

LogSpec == LogInit /\ [][LogNext]_logVars

-----------------------------------------------------------------------------
(* Properties.                                                             *)

\* What a reader of the log makes of an event.
Told(f, event) ==
  LET Changed(part) ==
        IF event.whom > 0 THEN [f EXCEPT !.heroes[event.whom][part] = event.amount]
        ELSE [f EXCEPT !.towers[event.whom + 2][part] = event.amount]
  IN  CASE event.type \in {"HeroDamaged", "HeroHealed", "TowerDamaged"} -> Changed("hp")
        [] event.type \in {"ShieldAbsorbed", "ShieldGained"} -> Changed("shield")
        [] event.type \in {"VulnerableApplied", "VulnerableReduced", "VulnerableExpired"} ->
             Changed("vulnerable")
        [] event.type \in {"WeakApplied", "WeakReduced", "WeakExpired"} -> Changed("weak")
        [] event.type \in {"RadiantStarsChanged", "LightningOrbChanged"} -> Changed("charge")
        [] event.type = "HeroConvertedToBox" ->
             [f EXCEPT !.heroes = [id \in DOMAIN @ \ {event.whom} |-> @[id]]]
        [] OTHER -> f

\* The log tells the whole combat: who follows it from the board after the
\* elimination, event by event, arrives at the heroes and towers of the snapshot
\* that comes with it, at every moment of the combat.  No change goes untold, none
\* is told wrong or too late, although what is told is put together by hand in a
\* dozen places (CombatContext.cpp:128-401, CombatResolver.cpp:113-199,
\* Hero.cpp:110-239).
ReplayGivesField ==
  log # << >> /\ log[1].type = "CombatStarted" =>
    LET told[i \in 0..Len(log)] == IF i = 0 THEN start ELSE Told(told[i - 1], log[i])
    IN  told[Len(log)].heroes = field.heroes /\ told[Len(log)].towers = field.towers

\* Nothing happens in the log to a hero that is a box again; a fallen tower ends
\* the fighting, is announced once, and only its fall ends the game; the last
\* event passes the turn or ends the game (CombatContext.cpp:198-216,
\* CombatResolver.cpp:78-109, Hero.cpp:206-232, GameSession.cpp:84-117).
QuietAfterTheEnd ==
  LET Types(i, j) == {log[k].type : k \in i..j}
      last == Len(log)
  IN  /\ \A i \in 1..last :
           /\ log[i].type = "HeroConvertedToBox" =>
                \A j \in i + 1..last : log[j].whom # log[i].whom
           /\ log[i].type = "TowerDestroyed" =>
                {"HeroAttacked", "TowerDamaged", "TowerDestroyed", "TurnChanged"}
                  \cap Types(i + 1, last) = {}
           /\ log[i].type = "GameFinished" => "TowerDestroyed" \in Types(1, i)
      /\ phase = "Finished" => log[last].type = "GameFinished"
      /\ phase = "Elimination" /\ turn > 1 => log[last].type = "TurnChanged"
=============================================================================
