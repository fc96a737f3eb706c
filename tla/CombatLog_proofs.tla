-------------------------- MODULE CombatLog_proofs --------------------------
(***************************************************************************)
(* Theorems about CombatLog, for any board and any tower.  The events of a *)
(* call are a Tale: a reader who follows them goes from the field before   *)
(* to the field after, and on the way nothing is told of who is gone.      *)
(* Tales follow one another as the operators of an attack do, so the log   *)
(* of a combat is one.                                                     *)
(***************************************************************************)
EXTENDS CombatLog, Combat_proofs, SequenceTheorems

EventTypes ==
  {"OpeningTurnCompleted", "TurnChanged", "CombatStarted", "CombatFinished", "GameFinished",
   "HeroAttacked", "ShieldAbsorbed", "ShieldBroken", "HeroDamaged", "HeroDied",
   "OverflowDamageGenerated", "TowerDamaged", "TowerDestroyed", "HeroConvertedToBox",
   "VulnerableApplied", "VulnerableReduced", "VulnerableExpired",
   "WeakApplied", "WeakReduced", "WeakExpired", "HeroHealed", "ShieldGained",
   "RegentAttackModeSelected", "RadiantStarsChanged", "LightningAttackStarted",
   "LightningActivated", "LightningTargetSelected", "LightningOrbChanged"}

Events == [type : EventTypes, whom : Int, amount : Int]

\* What a reader of the log knows of a field.
View(heroes, towers) == [heroes |-> heroes, towers |-> towers, dealt |-> 0, falls |-> 0]
Seen(f) == View(f.heroes, f.towers)

\* Following s, a reader goes from x to y.
Follows(s, x, y) ==
  \E fs : /\ fs[0] = x /\ fs[Len(s)] = y
          /\ \A i \in 1..Len(s) : fs[i] = Told(fs[i - 1], s[i])

Standing(p, x) == x.towers[Opponent(p)].hp > 0

\* What is told only while the defender's tower stands.
Fighting == {"HeroAttacked", "TowerDamaged", "TowerDestroyed"}

\* What is told in the middle of a combat.
Fitting(p, x, y, s, i) ==
  /\ s[i].whom > 0 => s[i].whom \in DOMAIN x.heroes
  /\ s[i].type \in Fighting => Standing(p, x)
  /\ s[i].type \notin {"TurnChanged", "GameFinished"}
  /\ s[i].type = "HeroConvertedToBox" =>
       /\ s[i].whom > 0 /\ s[i].whom \notin DOMAIN y.heroes
       /\ \A j \in i + 1..Len(s) : s[j].whom # s[i].whom
  /\ s[i].type = "TowerDestroyed" =>
       /\ ~Standing(p, y)
       /\ \A j \in i + 1..Len(s) : s[j].type \notin Fighting

Tale(p, s, x, y) ==
  /\ s \in Seq(Events)
  /\ Follows(s, x, y)
  /\ DOMAIN y.heroes \subseteq DOMAIN x.heroes
  /\ Standing(p, y) => Standing(p, x)
  /\ Standing(p, x) /\ ~Standing(p, y) => \E i \in 1..Len(s) : s[i].type = "TowerDestroyed"
  /\ \A i \in 1..Len(s) : Fitting(p, x, y, s, i)

-----------------------------------------------------------------------------
(* Tales compose.                                                          *)

LEMMA Joined ==
  ASSUME NEW s \in Seq(Events), NEW t \in Seq(Events)
  PROVE  /\ s \o t \in Seq(Events) /\ Len(s \o t) = Len(s) + Len(t)
         /\ Len(s) \in Nat /\ Len(t) \in Nat
         /\ \A i \in 1..Len(s) : (s \o t)[i] = s[i]
         /\ \A i \in 1..Len(t) : (s \o t)[Len(s) + i] = t[i]
         /\ \A i \in 1..Len(s \o t) : i \in 1..Len(s) \/ i - Len(s) \in 1..Len(t)
OBVIOUS

LEMMA TwoJoined ==
  ASSUME NEW S, NEW a \in S, NEW b \in S
  PROVE  <<a>> \o <<b>> = <<a, b>>
<1> DEFINE s == <<a>>
           t == <<b>>
           u == <<a, b>>
<1>1. /\ s \in Seq(S) /\ Len(s) = 1 /\ s[1] = a
      /\ t \in Seq(S) /\ Len(t) = 1 /\ t[1] = b
      /\ u \in Seq(S) /\ Len(u) = 2 /\ u[1] = a /\ u[2] = b
  OBVIOUS
<1> HIDE DEF s, t, u
<1>2. s \o t \in Seq(S) /\ Len(s \o t) = 2 /\ (s \o t)[1] = a /\ (s \o t)[2] = b
  BY <1>1, ConcatProperties
<1>3. s \o t = u
  BY <1>1, <1>2, SeqEqual
<1> QED
  BY <1>3 DEF s, t, u

LEMMA FollowsOn ==
  ASSUME NEW s \in Seq(Events), NEW t \in Seq(Events), NEW x, NEW y, NEW z,
         Follows(s, x, y), Follows(t, y, z)
  PROVE  Follows(s \o t, x, z)
<1>1. PICK fs : /\ fs[0] = x /\ fs[Len(s)] = y
                /\ \A i \in 1..Len(s) : fs[i] = Told(fs[i - 1], s[i])
  BY DEF Follows
<1>2. PICK gs : /\ gs[0] = y /\ gs[Len(t)] = z
                /\ \A i \in 1..Len(t) : gs[i] = Told(gs[i - 1], t[i])
  BY DEF Follows
<1> DEFINE m == Len(s)
           n == Len(t)
           r == s \o t
           hs == [i \in 0..m + n |-> IF i <= m THEN fs[i] ELSE gs[i - m]]
<1>3. /\ m \in Nat /\ n \in Nat /\ Len(r) = m + n
      /\ \A i \in 1..m : r[i] = s[i]
      /\ \A i \in 1..n : r[m + i] = t[i]
  BY Joined
<1> HIDE DEF r
<1>4. hs[0] = x /\ hs[m + n] = z
  BY <1>1, <1>2, <1>3
<1>5. ASSUME NEW i \in 1..m + n
      PROVE  hs[i] = Told(hs[i - 1], r[i])
  <2>1. CASE i <= m
    <3>1. hs[i] = fs[i] /\ hs[i - 1] = fs[i - 1] /\ r[i] = s[i] /\ i \in 1..m
      BY <1>3, <2>1
    <3> HIDE DEF hs
    <3> QED
      BY <1>1, <3>1
  <2>2. CASE i > m
    <3>1. i - m \in 1..n /\ r[i] = t[i - m]
      <4>1. i - m \in 1..n /\ m + (i - m) = i
        BY <1>3, <2>2
      <4> QED
        BY <1>3, <4>1
    <3>2. hs[i] = gs[i - m]
      BY <1>3, <2>2
    <3>3. hs[i - 1] = gs[(i - m) - 1]
      <4>1. CASE i - 1 = m
        <5>1. (i - m) - 1 = 0 /\ hs[i - 1] = fs[m]
          BY <1>3, <4>1
        <5> QED
          BY <1>1, <1>2, <5>1
      <4>2. CASE i - 1 # m
        <5>1. (i - m) - 1 = (i - 1) - m /\ i - 1 \in 0..m + n /\ ~(i - 1 <= m)
          BY <1>3, <2>2, <4>2, SMTT(20)
        <5> QED
          BY <5>1
      <4> QED
        BY <4>1, <4>2
    <3> HIDE DEF hs
    <3> QED
      BY <1>2, <3>1, <3>2, <3>3
  <2> QED
    BY <1>3, <2>1, <2>2
<1> HIDE DEF hs
<1>6. Follows(r, x, z)
  BY <1>3, <1>4, <1>5 DEF Follows
<1> QED
  BY <1>6 DEF r

LEMMA TalesJoin ==
  ASSUME NEW p, NEW s, NEW t, NEW x, NEW y, NEW z, Tale(p, s, x, y), Tale(p, t, y, z)
  PROVE  Tale(p, s \o t, x, z)
<1> DEFINE m == Len(s)
           n == Len(t)
           r == s \o t
<1>1. s \in Seq(Events) /\ t \in Seq(Events)
  BY DEF Tale
<1>2. /\ r \in Seq(Events) /\ Len(r) = m + n /\ m \in Nat /\ n \in Nat
      /\ \A i \in 1..m : r[i] = s[i]
      /\ \A i \in 1..n : r[m + i] = t[i]
      /\ \A i \in 1..Len(r) : i \in 1..m \/ i - m \in 1..n
  BY <1>1, Joined
<1>3. Follows(r, x, z)
  BY <1>1, FollowsOn DEF Tale
<1> HIDE DEF r, m, n
<1>4. /\ DOMAIN z.heroes \subseteq DOMAIN y.heroes /\ DOMAIN y.heroes \subseteq DOMAIN x.heroes
      /\ Standing(p, z) => Standing(p, y)
      /\ Standing(p, y) => Standing(p, x)
  BY DEF Tale
<1>5. /\ \A i \in 1..m : Fitting(p, x, y, s, i)
      /\ \A i \in 1..n : Fitting(p, y, z, t, i)
  BY DEF Tale, m, n
<1>6. \A i \in 1..m : i \in 1..Len(r) /\ r[i] = s[i]
  BY <1>2
<1>7. \A i \in 1..n : m + i \in 1..Len(r) /\ r[m + i] = t[i]
  BY <1>2
<1>8. Standing(p, x) /\ ~Standing(p, z) => \E i \in 1..Len(r) : r[i].type = "TowerDestroyed"
  <2>1. CASE Standing(p, y)
    <3>1. ~Standing(p, z) => \E i \in 1..n : t[i].type = "TowerDestroyed"
      BY <2>1 DEF Tale, n
    <3> QED
      BY <1>7, <3>1
  <2>2. CASE ~Standing(p, y)
    <3>1. Standing(p, x) => \E i \in 1..m : s[i].type = "TowerDestroyed"
      BY <2>2 DEF Tale, m
    <3> QED
      BY <1>6, <3>1
  <2> QED
    BY <2>1, <2>2
<1>9. ASSUME NEW i \in 1..Len(r)
      PROVE  Fitting(p, x, z, r, i)
  <2>1. CASE i \in 1..m
    <3>1. Fitting(p, x, y, s, i) /\ r[i] = s[i] /\ Len(s) = m
      BY <1>2, <1>5, <2>1 DEF m
    <3>2. ASSUME NEW j \in i + 1..Len(r)
          PROVE  \/ j \in i + 1..m /\ r[j] = s[j]
                 \/ j - m \in 1..n /\ r[j] = t[j - m]
      <4>1. CASE j <= m
        BY <1>2, <2>1, <4>1
      <4>2. CASE j > m
        <5>1. j - m \in 1..n /\ m + (j - m) = j
          BY <1>2, <2>1, <4>2
        <5> QED
          BY <1>2, <5>1
      <4> QED
        BY <1>2, <2>1, <4>1, <4>2
    <3>3. ASSUME r[i].type = "HeroConvertedToBox"
          PROVE  /\ r[i].whom > 0 /\ r[i].whom \notin DOMAIN z.heroes
                 /\ \A j \in i + 1..Len(r) : r[j].whom # r[i].whom
      <4>1. /\ s[i].whom > 0 /\ s[i].whom \notin DOMAIN y.heroes
            /\ \A j \in i + 1..m : s[j].whom # s[i].whom
        BY <3>1, <3>3 DEF Fitting
      <4>2. \A j \in 1..n : t[j].whom # s[i].whom
        BY <1>5, <4>1 DEF Fitting
      <4> QED
        BY <1>4, <3>1, <3>2, <4>1, <4>2
    <3>4. ASSUME r[i].type = "TowerDestroyed"
          PROVE  ~Standing(p, z) /\ \A j \in i + 1..Len(r) : r[j].type \notin Fighting
      <4>1. ~Standing(p, y) /\ \A j \in i + 1..m : s[j].type \notin Fighting
        BY <3>1, <3>4 DEF Fitting
      <4>2. \A j \in 1..n : t[j].type \notin Fighting
        BY <1>5, <4>1 DEF Fitting
      <4> QED
        BY <1>4, <3>2, <4>1, <4>2
    <3> QED
      BY <3>1, <3>3, <3>4 DEF Fitting
  <2>2. CASE i - m \in 1..n
    <3> DEFINE k == i - m
    <3>1. Fitting(p, y, z, t, k) /\ r[i] = t[k] /\ Len(t) = n
      <4>1. m + (i - m) = i
        BY <1>2
      <4> QED
        BY <1>2, <1>5, <2>2, <4>1 DEF n
    <3>2. ASSUME NEW j \in i + 1..Len(r)
          PROVE  j - m \in k + 1..n /\ r[j] = t[j - m]
      <4>1. j - m \in k + 1..n /\ j - m \in 1..n /\ m + (j - m) = j
        BY <1>2, <2>2
      <4> QED
        BY <1>2, <4>1
    <3> HIDE DEF k
    <3> QED
      BY <1>4, <3>1, <3>2 DEF Fitting
  <2> QED
    BY <1>2, <2>1, <2>2
<1> QED
  BY <1>2, <1>3, <1>4, <1>8, <1>9 DEF Tale, r

LEMMA NoTale ==
  ASSUME NEW p, NEW x
  PROVE  Tale(p, << >>, x, x)
<1>1. << >> \in Seq(Events)
  OBVIOUS
<1>2. Follows(<< >>, x, x)
  <2> DEFINE fs == [i \in {0} |-> x]
  <2>1. fs[0] = x /\ Len(<< >>) = 0 /\ 1..0 = {}
    OBVIOUS
  <2> HIDE DEF fs
  <2> QED
    BY <2>1 DEF Follows
<1> QED
  BY <1>1, <1>2 DEF Tale

\* A single event, other than of deaths and falls.
LEMMA ShortTale ==
  ASSUME NEW p, NEW e \in Events, NEW x, NEW y, y = Told(x, e),
         DOMAIN y.heroes = DOMAIN x.heroes, Standing(p, y) <=> Standing(p, x),
         e.whom > 0 => e.whom \in DOMAIN x.heroes,
         e.type = "HeroAttacked" => Standing(p, x),
         e.type \notin {"HeroConvertedToBox", "TowerDamaged", "TowerDestroyed",
                        "TurnChanged", "GameFinished"}
  PROVE  Tale(p, <<e>>, x, y)
<1> DEFINE s == <<e>>
<1>1. s \in Seq(Events) /\ Len(s) = 1 /\ s[1] = e
  OBVIOUS
<1> HIDE DEF s
<1>2. Follows(s, x, y)
  <2> DEFINE fs == [i \in 0..1 |-> IF i = 0 THEN x ELSE y]
  <2>1. fs[0] = x /\ fs[1] = y /\ \A i \in 1..1 : i = 1 /\ i - 1 = 0
    OBVIOUS
  <2> HIDE DEF fs
  <2> QED
    BY <1>1, <2>1 DEF Follows
<1>3. \A i \in 1..Len(s) : i = 1
  BY <1>1
<1>4. \A i \in 1..Len(s) : Fitting(p, x, y, s, i)
  BY <1>1, <1>3 DEF Fitting, Fighting
<1> QED
  BY <1>1, <1>2, <1>4 DEF Tale, s

-----------------------------------------------------------------------------
(* What a reader makes of one event.                                       *)

TowerRecords == [hp : 0..TowerMaxHp, vulnerable : Nat, weak : Nat]

LEMMA EventType ==
  ASSUME NEW type \in EventTypes, NEW whom \in Int, NEW n \in Int
  PROVE  /\ Event(type, whom, n) \in Events
         /\ Event(type, whom, n).type = type /\ Event(type, whom, n).whom = whom
BY DEF Event, Events

\* A word that changes nothing.
LEMMA Word ==
  ASSUME NEW p, NEW x, NEW whom \in Int, NEW n \in Int,
         whom > 0 => whom \in DOMAIN x.heroes,
         NEW type \in {"HeroAttacked", "ShieldBroken", "HeroDied", "OverflowDamageGenerated",
                       "RegentAttackModeSelected", "LightningAttackStarted",
                       "LightningActivated", "LightningTargetSelected", "CombatStarted",
                       "CombatFinished"},
         type = "HeroAttacked" => Standing(p, x)
  PROVE  Tale(p, <<Event(type, whom, n)>>, x, x)
<1> DEFINE e == Event(type, whom, n)
<1>1. e \in Events /\ e.whom = whom /\ e.type = type
  BY EventType DEF EventTypes
<1>2. Told(x, e) = x
  BY DEF Event, Told
<1> HIDE DEF e
<1> QED
  BY <1>1, <1>2, ShortTale DEF e

\* A number of a hero's.
LEMMA OfHero ==
  ASSUME NEW p, NEW heroes, NEW towers, NEW id \in DOMAIN heroes, id \in Nat \ {0},
         NEW n \in Int
  PROVE  LET x == View(heroes, towers)
             Says(type, y) == Tale(p, <<Event(type, id, n)>>, x, y)
         IN  /\ Says("HeroDamaged", View([heroes EXCEPT ![id].hp = n], towers))
             /\ Says("HeroHealed", View([heroes EXCEPT ![id].hp = n], towers))
             /\ Says("ShieldAbsorbed", View([heroes EXCEPT ![id].shield = n], towers))
             /\ Says("ShieldGained", View([heroes EXCEPT ![id].shield = n], towers))
             /\ Says("VulnerableApplied", View([heroes EXCEPT ![id].vulnerable = n], towers))
             /\ Says("VulnerableReduced", View([heroes EXCEPT ![id].vulnerable = n], towers))
             /\ Says("VulnerableExpired", View([heroes EXCEPT ![id].vulnerable = n], towers))
             /\ Says("WeakApplied", View([heroes EXCEPT ![id].weak = n], towers))
             /\ Says("WeakReduced", View([heroes EXCEPT ![id].weak = n], towers))
             /\ Says("WeakExpired", View([heroes EXCEPT ![id].weak = n], towers))
             /\ Says("RadiantStarsChanged", View([heroes EXCEPT ![id].charge = n], towers))
             /\ Says("LightningOrbChanged", View([heroes EXCEPT ![id].charge = n], towers))
<1> DEFINE x == View(heroes, towers)
<1>1. ASSUME NEW type \in EventTypes, NEW changed, DOMAIN changed = DOMAIN heroes,
             Told(x, Event(type, id, n)) = View(changed, towers),
             type \notin {"HeroAttacked", "HeroConvertedToBox", "TowerDamaged",
                          "TowerDestroyed", "TurnChanged", "GameFinished"}
      PROVE  Tale(p, <<Event(type, id, n)>>, x, View(changed, towers))
  <2> DEFINE e == Event(type, id, n)
             y == View(changed, towers)
  <2>1. e \in Events /\ e.whom = id /\ e.type = type
    BY EventType
  <2>2. /\ DOMAIN x.heroes = DOMAIN heroes /\ DOMAIN y.heroes = DOMAIN heroes
        /\ Standing(p, y) <=> Standing(p, x)
    BY <1>1 DEF View, Standing
  <2>3. y = Told(x, e)
    BY <1>1
  <2> HIDE DEF e, x, y
  <2>4. Tale(p, <<e>>, x, y)
    BY <1>1, <2>1, <2>2, <2>3, ShortTale
  <2> QED
    BY <2>4 DEF e, y
<1>2. ASSUME NEW type \in {"HeroDamaged", "HeroHealed"}
      PROVE  Told(x, Event(type, id, n)) = View([heroes EXCEPT ![id].hp = n], towers)
  <2>1. CASE type = "HeroDamaged"
    BY <2>1 DEF Told, Event, View
  <2>2. CASE type = "HeroHealed"
    BY <2>2 DEF Told, Event, View
  <2> QED
    BY <2>1, <2>2
<1>3. ASSUME NEW type \in {"ShieldAbsorbed", "ShieldGained"}
      PROVE  Told(x, Event(type, id, n)) = View([heroes EXCEPT ![id].shield = n], towers)
  BY DEF Told, Event, View
<1>4. ASSUME NEW type \in {"VulnerableApplied", "VulnerableReduced", "VulnerableExpired"}
      PROVE  Told(x, Event(type, id, n)) = View([heroes EXCEPT ![id].vulnerable = n], towers)
  BY DEF Told, Event, View
<1>5. ASSUME NEW type \in {"WeakApplied", "WeakReduced", "WeakExpired"}
      PROVE  Told(x, Event(type, id, n)) = View([heroes EXCEPT ![id].weak = n], towers)
  BY DEF Told, Event, View
<1>6. ASSUME NEW type \in {"RadiantStarsChanged", "LightningOrbChanged"}
      PROVE  Told(x, Event(type, id, n)) = View([heroes EXCEPT ![id].charge = n], towers)
  BY DEF Told, Event, View
<1>7. /\ DOMAIN [heroes EXCEPT ![id].hp = n] = DOMAIN heroes
      /\ DOMAIN [heroes EXCEPT ![id].shield = n] = DOMAIN heroes
      /\ DOMAIN [heroes EXCEPT ![id].vulnerable = n] = DOMAIN heroes
      /\ DOMAIN [heroes EXCEPT ![id].weak = n] = DOMAIN heroes
      /\ DOMAIN [heroes EXCEPT ![id].charge = n] = DOMAIN heroes
  OBVIOUS
<1> HIDE DEF x
<1>8. ASSUME NEW type \in {"HeroDamaged", "HeroHealed"}
      PROVE  Tale(p, <<Event(type, id, n)>>, x, View([heroes EXCEPT ![id].hp = n], towers))
  BY <1>1, <1>7, <1>2 DEF EventTypes
<1>9. ASSUME NEW type \in {"ShieldAbsorbed", "ShieldGained"}
      PROVE  Tale(p, <<Event(type, id, n)>>, x, View([heroes EXCEPT ![id].shield = n], towers))
  BY <1>1, <1>7, <1>3 DEF EventTypes
<1>10. ASSUME NEW type \in {"VulnerableApplied", "VulnerableReduced", "VulnerableExpired"}
      PROVE  Tale(p, <<Event(type, id, n)>>, x, View([heroes EXCEPT ![id].vulnerable = n], towers))
  BY <1>1, <1>7, <1>4 DEF EventTypes
<1>11. ASSUME NEW type \in {"WeakApplied", "WeakReduced", "WeakExpired"}
      PROVE  Tale(p, <<Event(type, id, n)>>, x, View([heroes EXCEPT ![id].weak = n], towers))
  BY <1>1, <1>7, <1>5 DEF EventTypes
<1>12. ASSUME NEW type \in {"RadiantStarsChanged", "LightningOrbChanged"}
      PROVE  Tale(p, <<Event(type, id, n)>>, x, View([heroes EXCEPT ![id].charge = n], towers))
  BY <1>1, <1>7, <1>6 DEF EventTypes
<1> QED
  BY <1>8, <1>9, <1>10, <1>11, <1>12 DEF x

\* A tower's layers.
LEMMA OfTower ==
  ASSUME NEW p \in Players, NEW heroes, NEW towers \in [Players -> TowerRecords],
         NEW q \in Players, NEW n \in Int
  PROVE  LET Says(type, changed) ==
               Tale(p, <<Event(type, q - 2, n)>>, View(heroes, towers), View(heroes, changed))
         IN  /\ Says("VulnerableApplied", [towers EXCEPT ![q].vulnerable = n])
             /\ Says("VulnerableReduced", [towers EXCEPT ![q].vulnerable = n])
             /\ Says("VulnerableExpired", [towers EXCEPT ![q].vulnerable = n])
             /\ Says("WeakApplied", [towers EXCEPT ![q].weak = n])
             /\ Says("WeakReduced", [towers EXCEPT ![q].weak = n])
             /\ Says("WeakExpired", [towers EXCEPT ![q].weak = n])
<1> DEFINE x == View(heroes, towers)
<1>1. q - 2 \in Int /\ ~(q - 2 > 0) /\ (q - 2) + 2 = q
  BY DEF Players
<1>2. ASSUME NEW type \in EventTypes, NEW changed,
             \A o \in Players : changed[o].hp = towers[o].hp,
             Told(x, Event(type, q - 2, n)) = View(heroes, changed),
             type \notin {"HeroAttacked", "HeroConvertedToBox", "TowerDamaged",
                          "TowerDestroyed", "TurnChanged", "GameFinished"}
      PROVE  Tale(p, <<Event(type, q - 2, n)>>, x, View(heroes, changed))
  <2> DEFINE e == Event(type, q - 2, n)
             y == View(heroes, changed)
  <2>1. e \in Events /\ e.whom = q - 2 /\ e.type = type
    BY <1>1, EventType
  <2>2. DOMAIN x.heroes = DOMAIN y.heroes /\ (Standing(p, y) <=> Standing(p, x))
    BY <1>2, OpponentType DEF View, Standing
  <2>3. y = Told(x, e)
    BY <1>2
  <2> HIDE DEF e, x, y
  <2>4. Tale(p, <<e>>, x, y)
    BY <1>1, <1>2, <2>1, <2>2, <2>3, ShortTale
  <2> QED
    BY <2>4 DEF e, y
<1>3. ASSUME NEW type \in {"VulnerableApplied", "VulnerableReduced", "VulnerableExpired"}
      PROVE  Told(x, Event(type, q - 2, n)) = View(heroes, [towers EXCEPT ![q].vulnerable = n])
  BY <1>1 DEF Told, Event, View
<1>4. ASSUME NEW type \in {"WeakApplied", "WeakReduced", "WeakExpired"}
      PROVE  Told(x, Event(type, q - 2, n)) = View(heroes, [towers EXCEPT ![q].weak = n])
  BY <1>1 DEF Told, Event, View
<1>5. \A o \in Players : /\ [towers EXCEPT ![q].vulnerable = n][o].hp = towers[o].hp
                         /\ [towers EXCEPT ![q].weak = n][o].hp = towers[o].hp
  BY DEF TowerRecords
<1> HIDE DEF x
<1>6. ASSUME NEW type \in {"VulnerableApplied", "VulnerableReduced", "VulnerableExpired"}
      PROVE  Tale(p, <<Event(type, q - 2, n)>>, x, View(heroes, [towers EXCEPT ![q].vulnerable = n]))
  BY <1>2, <1>3, <1>5 DEF EventTypes
<1>7. ASSUME NEW type \in {"WeakApplied", "WeakReduced", "WeakExpired"}
      PROVE  Tale(p, <<Event(type, q - 2, n)>>, x, View(heroes, [towers EXCEPT ![q].weak = n]))
  BY <1>2, <1>4, <1>5 DEF EventTypes
<1> QED
  BY <1>6, <1>7 DEF x

\* A standing tower is damaged, and may fall.
LEMMA OfDamagedTower ==
  ASSUME NEW p \in Players, NEW heroes, NEW towers \in [Players -> TowerRecords],
         NEW n \in Nat, towers[Opponent(p)].hp > 0,
         NEW tower, tower = [towers[Opponent(p)] EXCEPT !.hp = n]
  PROVE  Tale(p, TowerEvents(p, tower), View(heroes, towers),
              View(heroes, [towers EXCEPT ![Opponent(p)] = tower]))
<1> DEFINE o == Opponent(p)
           x == View(heroes, towers)
           y == View(heroes, [towers EXCEPT ![o] = tower])
           d == Event("TowerDamaged", TowerTarget(p), n)
           e == Event("TowerDestroyed", TowerTarget(p), p)
           s == TowerEvents(p, tower)
<1>1. o \in Players /\ p \in Int
  BY OpponentType DEF Players
<1>2. TowerTarget(p) \in Int /\ ~(TowerTarget(p) > 0) /\ TowerTarget(p) + 2 = o
  BY <1>1 DEF TowerTarget, Players
<1>3. tower.hp = n
  BY <1>1 DEF TowerRecords
<1>4. s = <<d>> \o (IF n = 0 THEN <<e>> ELSE << >>)
  BY <1>3 DEF TowerEvents, HisTower, When
<1>5. /\ d \in Events /\ e \in Events
      /\ d.type = "TowerDamaged" /\ e.type = "TowerDestroyed"
      /\ d.whom = TowerTarget(p) /\ e.whom = TowerTarget(p)
  BY <1>1, <1>2, EventType DEF EventTypes
<1>6. Told(x, d) = y
  BY <1>1, <1>2 DEF Told, Event, View
<1>7. Told(y, e) = y
  BY DEF Told, Event
<1>8. Standing(p, x) /\ (Standing(p, y) <=> n # 0)
  BY <1>1, <1>3 DEF Standing, View
<1>9. DOMAIN x.heroes = DOMAIN y.heroes
  BY DEF View
<1> HIDE DEF o, x, y, d, e, s
<1>10. CASE n = 0
  <2>1. /\ <<d>> \in Seq(Events) /\ Len(<<d>>) = 1 /\ <<d>>[1] = d
        /\ <<e>> \in Seq(Events) /\ Len(<<e>>) = 1 /\ <<e>>[1] = e
    BY <1>5
  <2>2. s \in Seq(Events) /\ Len(s) = 2 /\ s[1] = d /\ s[2] = e
    <3>1. s = <<d>> \o <<e>>
      BY <1>4, <1>10
    <3>2. 1 \in 1..1 /\ 1 + 1 = 2
      OBVIOUS
    <3> QED
      BY <2>1, <3>1, <3>2, Joined
  <2>3. Follows(s, x, y)
    <3> DEFINE fs == [i \in 0..2 |-> IF i = 0 THEN x ELSE y]
    <3>1. fs[0] = x /\ fs[1] = y /\ fs[2] = y
      OBVIOUS
    <3>2. \A i \in 1..2 : (i = 1 /\ i - 1 = 0) \/ (i = 2 /\ i - 1 = 1)
      OBVIOUS
    <3> HIDE DEF fs
    <3>3. \A i \in 1..Len(s) : fs[i] = Told(fs[i - 1], s[i])
      BY <1>6, <1>7, <2>2, <3>1, <3>2
    <3> QED
      BY <2>2, <3>1, <3>3 DEF Follows
  <2>4. \A i \in 1..Len(s) : Fitting(p, x, y, s, i)
    <3>1. Fitting(p, x, y, s, 1)
      BY <1>2, <1>5, <1>8, <2>2 DEF Fitting, Fighting
    <3>2. Fitting(p, x, y, s, 2)
      BY <1>2, <1>5, <1>8, <1>10, <2>2 DEF Fitting, Fighting
    <3>3. \A i \in 1..Len(s) : i = 1 \/ i = 2
      BY <2>2
    <3> QED
      BY <3>1, <3>2, <3>3
  <2>5. \E i \in 1..Len(s) : s[i].type = "TowerDestroyed"
    BY <1>5, <2>2
  <2>6. Tale(p, s, x, y)
    BY <1>8, <1>9, <2>2, <2>3, <2>4, <2>5 DEF Tale
  <2> QED
    BY <2>6 DEF s, x, y, o
<1>11. CASE n # 0
  <2>1. s = <<d>>
    BY <1>4, <1>5, <1>11
  <2>2. s \in Seq(Events) /\ Len(s) = 1 /\ s[1] = d
    BY <1>5, <2>1
  <2>3. Follows(s, x, y)
    <3> DEFINE fs == [i \in 0..1 |-> IF i = 0 THEN x ELSE y]
    <3>1. fs[0] = x /\ fs[1] = y /\ \A i \in 1..1 : i = 1 /\ i - 1 = 0
      OBVIOUS
    <3> HIDE DEF fs
    <3> QED
      BY <1>6, <2>2, <3>1 DEF Follows
  <2>4. \A i \in 1..Len(s) : Fitting(p, x, y, s, i)
    <3>1. \A i \in 1..Len(s) : i = 1
      BY <2>2
    <3> QED
      BY <1>2, <1>5, <1>8, <2>2, <3>1 DEF Fitting, Fighting
  <2>5. Tale(p, s, x, y)
    BY <1>8, <1>9, <1>11, <2>2, <2>3, <2>4 DEF Tale
  <2> QED
    BY <2>5 DEF s, x, y, o
<1> QED
  BY <1>10, <1>11

\* A dead hero is a box.
LEMMA OfDead ==
  ASSUME NEW p, NEW heroes, NEW towers, NEW id \in DOMAIN heroes, id \in Nat \ {0}
  PROVE  Tale(p, <<Event("HeroConvertedToBox", id, 0)>>, View(heroes, towers),
              View([i \in DOMAIN heroes \ {id} |-> heroes[i]], towers))
<1> DEFINE x == View(heroes, towers)
           y == View([i \in DOMAIN heroes \ {id} |-> heroes[i]], towers)
           e == Event("HeroConvertedToBox", id, 0)
           s == <<e>>
<1>1. e \in Events /\ e.type = "HeroConvertedToBox" /\ e.whom = id
  BY EventType DEF EventTypes
<1>2. Told(x, e) = y
  BY DEF Told, Event, View
<1>3. /\ DOMAIN y.heroes = DOMAIN heroes \ {id} /\ DOMAIN x.heroes = DOMAIN heroes
      /\ Standing(p, x) <=> Standing(p, y)
  BY DEF View, Standing
<1>4. s \in Seq(Events) /\ Len(s) = 1 /\ s[1] = e
  BY <1>1
<1> HIDE DEF x, y, e, s
<1>5. Follows(s, x, y)
  <2> DEFINE fs == [i \in 0..1 |-> IF i = 0 THEN x ELSE y]
  <2>1. fs[0] = x /\ fs[1] = y /\ \A i \in 1..1 : i = 1 /\ i - 1 = 0
    OBVIOUS
  <2> HIDE DEF fs
  <2> QED
    BY <1>2, <1>4, <2>1 DEF Follows
<1>6. \A i \in 1..Len(s) : Fitting(p, x, y, s, i)
  <2>1. \A i \in 1..Len(s) : i = 1
    BY <1>4
  <2> QED
    BY <1>1, <1>3, <1>4, <2>1 DEF Fitting, Fighting
<1>7. Tale(p, s, x, y)
  BY <1>3, <1>4, <1>5, <1>6 DEF Tale
<1> QED
  BY <1>7 DEF s, e, x, y

-----------------------------------------------------------------------------
(* A hit.                                                                  *)

\* A record written over with what it holds is the same.
LEMMA SameShield ==
  ASSUME NEW heroes, heroes = [i \in DOMAIN heroes |-> heroes[i]],
         NEW id \in DOMAIN heroes, IsHero(heroes[id])
  PROVE  [heroes EXCEPT ![id].shield = heroes[id].shield] = heroes
<1>1. [heroes[id] EXCEPT !.shield = heroes[id].shield] = heroes[id]
  BY DEF IsHero
<1> QED
  BY <1>1

LEMMA ShieldTale ==
  ASSUME NEW p, NEW heroes, heroes = [i \in DOMAIN heroes |-> heroes[i]], NEW towers,
         NEW id \in DOMAIN heroes, id \in Nat \ {0}, IsHero(heroes[id]),
         heroes[id].shield \in Nat, NEW absorbed \in Nat,
         NEW left, left = heroes[id].shield - absorbed
  PROVE  Tale(p, When(absorbed > 0,
                      <<Event("ShieldAbsorbed", id, left)>>
                      \o When(absorbed = heroes[id].shield, <<Event("ShieldBroken", id, 0)>>)),
              View(heroes, towers), View([heroes EXCEPT ![id].shield = left], towers))
<1> DEFINE x == View(heroes, towers)
           y == View([heroes EXCEPT ![id].shield = left], towers)
           t == When(absorbed = heroes[id].shield, <<Event("ShieldBroken", id, 0)>>)
<1>1. Tale(p, <<Event("ShieldAbsorbed", id, left)>>, x, y)
  <2>1. left \in Int
    OBVIOUS
  <2> QED
    BY <2>1, OfHero
<1>2. Tale(p, t, y, y)
  <2>1. id \in DOMAIN y.heroes /\ 0 \in Int /\ id \in Int
    BY DEF View
  <2> HIDE DEF y
  <2>2. Tale(p, <<Event("ShieldBroken", id, 0)>>, y, y)
    BY <2>1, Word
  <2> QED
    BY <2>2, NoTale DEF When
<1>3. absorbed = 0 => y = x
  <2>1. absorbed = 0 => left = heroes[id].shield
    OBVIOUS
  <2> QED
    BY <2>1, SameShield
<1>4. Tale(p, << >>, x, x)
  BY NoTale
<1> HIDE DEF x, y, t
<1>5. Tale(p, <<Event("ShieldAbsorbed", id, left)>> \o t, x, y)
  BY <1>1, <1>2, TalesJoin
<1>6. Tale(p, When(absorbed > 0, <<Event("ShieldAbsorbed", id, left)>> \o t), x, y)
  BY <1>3, <1>4, <1>5 DEF When
<1> QED
  BY <1>6 DEF x, y, t

LEMMA OverflowTale ==
  ASSUME NEW p \in Players, NEW heroes, NEW id \in DOMAIN heroes, id \in Nat \ {0},
         NEW towers \in [Players -> TowerRecords], towers[Opponent(p)].hp > 0,
         NEW overflow \in Nat, NEW tower, tower = TakeDamage(towers[Opponent(p)], overflow)
  PROVE  Tale(p, When(overflow > 0, <<Event("OverflowDamageGenerated", id, overflow)>>
                                    \o TowerEvents(p, tower)),
              View(heroes, towers), View(heroes, [towers EXCEPT ![Opponent(p)] = tower]))
<1> DEFINE o == Opponent(p)
           n == towers[o].hp - Least(towers[o].hp, overflow)
           x == View(heroes, towers)
           y == View(heroes, [towers EXCEPT ![o] = tower])
           s == <<Event("OverflowDamageGenerated", id, overflow)>>
<1>1. o \in Players /\ towers[o] \in TowerRecords /\ towers[o].hp \in Nat
  BY OpponentType, TowerAssumption DEF TowerRecords
<1>2. n \in Nat /\ tower = [towers[o] EXCEPT !.hp = n]
  BY <1>1 DEF Least, TakeDamage
<1>3. overflow = 0 => y = x
  <2>1. overflow = 0 => n = towers[o].hp
    BY <1>1 DEF Least
  <2>2. overflow = 0 => tower = towers[o]
    BY <1>1, <1>2, <2>1 DEF TowerRecords
  <2> QED
    BY <1>1, <2>2
<1> HIDE DEF n
<1>4. Tale(p, TowerEvents(p, tower), x, y)
  BY <1>2, OfDamagedTower
<1>5. Tale(p, s, x, x)
  <2>1. id \in DOMAIN x.heroes /\ id \in Int /\ overflow \in Int
    BY DEF View
  <2> HIDE DEF x
  <2> QED
    BY <2>1, Word
<1> HIDE DEF x, y, s
<1>6. Tale(p, s \o TowerEvents(p, tower), x, y)
  BY <1>4, <1>5, TalesJoin
<1>7. Tale(p, When(overflow > 0, s \o TowerEvents(p, tower)), x, y)
  BY <1>3, <1>6, NoTale DEF When
<1> QED
  BY <1>7 DEF x, y, s

LEMMA DeathTale ==
  ASSUME NEW p, NEW heroes, heroes = [i \in DOMAIN heroes |-> heroes[i]], NEW towers,
         NEW id \in DOMAIN heroes, id \in Nat \ {0},
         \A i \in DOMAIN heroes \ {id} : heroes[i].hp > 0,
         NEW living, living = {i \in DOMAIN heroes : heroes[i].hp > 0},
         NEW after, after = [i \in living |-> heroes[i]]
  PROVE  /\ Tale(p, When(id \notin living, <<Event("HeroDied", id, 0)>>),
                 View(heroes, towers), View(heroes, towers))
         /\ Tale(p, When(id \notin living, <<Event("HeroConvertedToBox", id, 0)>>),
                 View(heroes, towers), View(after, towers))
<1> DEFINE x == View(heroes, towers)
           y == View(after, towers)
<1>1. Tale(p, <<Event("HeroDied", id, 0)>>, x, x)
  <2>1. id \in DOMAIN x.heroes /\ id \in Int /\ 0 \in Int
    BY DEF View
  <2> HIDE DEF x
  <2> QED
    BY <2>1, Word
<1>2. CASE id \in living
  <2>1. living = DOMAIN heroes
    BY <1>2
  <2>2. y = x
    BY <2>1
  <2> HIDE DEF x, y
  <2>3. Tale(p, When(id \notin living, <<Event("HeroDied", id, 0)>>), x, x)
        /\ Tale(p, When(id \notin living, <<Event("HeroConvertedToBox", id, 0)>>), x, y)
    BY <1>2, <2>2, NoTale DEF When
  <2> QED
    BY <2>3 DEF x, y
<1>3. CASE id \notin living
  <2>1. living = DOMAIN heroes \ {id}
    BY <1>3
  <2>2. Tale(p, <<Event("HeroConvertedToBox", id, 0)>>, x, y)
    <3>1. y = View([i \in DOMAIN heroes \ {id} |-> heroes[i]], towers)
      BY <2>1
    <3> HIDE DEF y
    <3> QED
      BY <3>1, OfDead
  <2> HIDE DEF x, y
  <2>3. Tale(p, When(id \notin living, <<Event("HeroDied", id, 0)>>), x, x)
        /\ Tale(p, When(id \notin living, <<Event("HeroConvertedToBox", id, 0)>>), x, y)
    BY <1>1, <1>3, <2>2 DEF When
  <2> QED
    BY <2>3 DEF x, y
<1> QED
  BY <1>2, <1>3

LEMMA HitTale ==
  ASSUME NEW f, FieldOK(f), DOMAIN f.heroes \subseteq Nat \ {0}, NEW p \in Players, NEW id,
         NEW target, NEW base \in Nat, NEW kind, f.towers[Opponent(p)].hp > 0
  PROVE  Tale(p, HitEvents(f, p, id, target, base, kind),
              Seen(f), Seen(DamageHero(f, p, id, target, base, kind)))
<1>1. CASE id \notin Living(f, p) \/ target \notin Living(f, Opponent(p))
  BY <1>1, NoTale DEF DamageHero, HitEvents
<1>2. CASE id \in Living(f, p) /\ target \in Living(f, Opponent(p))
  <2> DEFINE o        == Opponent(p)
             victim   == f.heroes[target]
             damage   == Greatest(1, Amplified(victim, Weakened(f.heroes[id], base, kind)))
             absorbed == Least(victim.shield, damage)
             lost     == Least(victim.hp, damage - absorbed)
             overflow == damage - absorbed - lost
             tower    == TakeDamage(f.towers[o], overflow)
             falls    == IF overflow > 0 /\ tower.hp = 0 THEN f.falls + 1 ELSE f.falls
             m == [f EXCEPT !.heroes[target].shield = @ - absorbed,
                            !.heroes[target].hp = @ - lost,
                            !.towers[o] = tower,
                            !.dealt = @ + damage,
                            !.falls = falls]
             g == DamageHero(f, p, id, target, base, kind)
             died == target \notin DOMAIN g.heroes
             left == victim.shield - absorbed
             rest == victim.hp - lost
             At(type, amount) == <<Event(type, target, amount)>>
  <2>1. g = ConvertDead(m)
    BY <1>2 DEF DamageHero
  <2>2. damage \in Nat /\ base \in Int
    BY DamageType DEF Greatest
  <2>3. HitEvents(f, p, id, target, base, kind)
          = At("HeroAttacked", base)
            \o When(absorbed > 0, At("ShieldAbsorbed", left)
                                  \o When(absorbed = victim.shield, At("ShieldBroken", 0)))
            \o At("HeroDamaged", Greatest(0, victim.hp - (damage - absorbed)))
            \o When(died, At("HeroDied", 0))
            \o When(Greatest(0, damage - absorbed - victim.hp) > 0,
                    At("OverflowDamageGenerated", Greatest(0, damage - absorbed - victim.hp))
                    \o TowerEvents(p, g.towers[o]))
            \o When(died, At("HeroConvertedToBox", 0))
    BY <1>2 DEF HitEvents
  <2> HIDE DEF damage, g
  <2>4. /\ target \in DOMAIN f.heroes /\ victim \in HeroRecords /\ target \in Nat \ {0}
        /\ victim.hp \in Nat \ {0} /\ victim.shield \in Nat
    BY <1>2, OwnHero
  <2>5. /\ absorbed \in Nat /\ overflow \in Nat /\ rest \in Nat /\ left \in Int
        /\ Greatest(0, victim.hp - (damage - absorbed)) = rest
        /\ Greatest(0, damage - absorbed - victim.hp) = overflow
    BY <2>2, <2>4 DEF Least, Greatest
  <2> HIDE DEF overflow, lost
  <2>6. /\ f \in [heroes : [DOMAIN f.heroes -> HeroRecords],
                  towers : [Players -> TowerRecords], dealt : Nat, falls : Nat]
        /\ f.towers \in [Players -> TowerRecords]
    BY DEF FieldOK, TowerRecords
  <2> HIDE DEF tower, falls
  <2> DEFINE hs1 == [f.heroes EXCEPT ![target].shield = left]
             hs2 == [hs1 EXCEPT ![target].hp = rest]
             ts  == [f.towers EXCEPT ![o] = tower]
             living == {i \in DOMAIN hs2 : hs2[i].hp > 0}
             hs3 == [i \in living |-> hs2[i]]
  <2>7. IsHero(victim)
    BY <2>4 DEF HeroRecords, IsHero
  <2>8. hs1[target] = [victim EXCEPT !.shield = left]
    BY <2>4
  <2>9. /\ f.heroes = [i \in DOMAIN f.heroes |-> f.heroes[i]]
        /\ hs2 = [i \in DOMAIN hs2 |-> hs2[i]] /\ DOMAIN hs2 = DOMAIN f.heroes
        /\ DOMAIN hs1 = DOMAIN f.heroes
    BY FieldParts
  <2>10. hs2[target].hp = rest /\ \A i \in DOMAIN f.heroes \ {target} : hs2[i] = f.heroes[i]
    BY <2>4, <2>7, <2>8, <2>9 DEF IsHero
  <2>11. /\ IsField(m) /\ m.towers = ts /\ m.heroes = hs2
    <3>1. ASSUME NEW x, x = m PROVE IsField(x)
      BY <2>6, <3>1 DEF IsField
    <3>2. IsField(m)
      BY <3>1
    <3>3. m.towers = ts
      BY <2>6
    <3>4. m.heroes = [f.heroes EXCEPT ![target].shield = @ - absorbed, ![target].hp = @ - lost]
      BY <2>6
    <3>5. m.heroes = hs2
      BY <2>4, <2>7, <2>8, <3>4 DEF IsHero
    <3> QED
      BY <3>2, <3>3, <3>5
  <2> HIDE DEF m
  <2>12. g.heroes = hs3 /\ g.towers = ts
    <3> HIDE DEF hs2, ts
    <3>1. g.heroes = [i \in {j \in DOMAIN m.heroes : m.heroes[j].hp > 0} |-> m.heroes[i]]
      BY <2>1, <2>11, ConvertDeadShape
    <3>2. g.towers = m.towers
      BY <2>1, <2>11, ConvertDeadShape
    <3> QED
      BY <2>11, <3>1, <3>2
  <2>13. g.towers[o] = tower
    BY <2>6, <2>12, OpponentType
  <2>14. \A i \in DOMAIN hs2 \ {target} : hs2[i].hp > 0
    <3>1. \A i \in DOMAIN f.heroes : f.heroes[i].hp \in Nat \ {0}
      BY FieldParts, HeroTypes
    <3> QED
      BY <2>9, <2>10, <3>1
  <2>15. died <=> target \notin living
    BY <2>12
  <2>16. Tale(p, At("HeroAttacked", base), View(f.heroes, f.towers), View(f.heroes, f.towers))
    <3> DEFINE x == View(f.heroes, f.towers)
    <3>1. target \in DOMAIN x.heroes /\ Standing(p, x) /\ target \in Int
      BY <2>4 DEF View, Standing
    <3> HIDE DEF x
    <3>2. Tale(p, At("HeroAttacked", base), x, x)
      BY <2>2, <3>1, Word
    <3> QED
      BY <3>2 DEF x
  <2>17. Tale(p, When(absorbed > 0, At("ShieldAbsorbed", left)
                                    \o When(absorbed = victim.shield, At("ShieldBroken", 0))),
              View(f.heroes, f.towers), View(hs1, f.towers))
    BY <2>4, <2>5, <2>7, <2>9, ShieldTale
  <2> HIDE DEF hs1, absorbed, left, rest
  <2>18. Tale(p, At("HeroDamaged", rest), View(hs1, f.towers), View(hs2, f.towers))
    <3>1. rest \in Int /\ target \in DOMAIN hs1
      BY <2>4, <2>5, <2>9
    <3> QED
      BY <2>4, <3>1, OfHero
  <2> HIDE DEF hs2
  <2>19. /\ Tale(p, When(died, At("HeroDied", 0)), View(hs2, f.towers), View(hs2, f.towers))
         /\ Tale(p, When(died, At("HeroConvertedToBox", 0)), View(hs2, ts), View(hs3, ts))
    <3>1. target \in DOMAIN hs2
      BY <2>4, <2>9
    <3>2. living = {i \in DOMAIN hs2 : hs2[i].hp > 0}
      OBVIOUS
    <3> HIDE DEF living
    <3>3. hs3 = [i \in living |-> hs2[i]]
      OBVIOUS
    <3> HIDE DEF hs3
    <3>4. ASSUME NEW towers
          PROVE  /\ Tale(p, When(target \notin living, At("HeroDied", 0)),
                         View(hs2, towers), View(hs2, towers))
                 /\ Tale(p, When(target \notin living, At("HeroConvertedToBox", 0)),
                         View(hs2, towers), View(hs3, towers))
      BY <2>4, <2>9, <2>14, <3>1, <3>2, <3>3, DeathTale, ZenonT(30)
    <3>5. died = (target \notin living)
      BY <2>15
    <3> QED
      BY <3>4, <3>5
  <2>20. Tale(p, When(overflow > 0, At("OverflowDamageGenerated", overflow)
                                    \o TowerEvents(p, tower)),
              View(hs2, f.towers), View(hs2, ts))
    <3>1. target \in DOMAIN hs2
      BY <2>4, <2>9
    <3> QED
      BY <2>4, <2>5, <2>6, <3>1, OverflowTale DEF tower
  <2> DEFINE e1 == At("HeroAttacked", base)
             e2 == When(absorbed > 0, At("ShieldAbsorbed", left)
                                      \o When(absorbed = victim.shield, At("ShieldBroken", 0)))
             e3 == At("HeroDamaged", rest)
             e4 == When(died, At("HeroDied", 0))
             e5 == When(overflow > 0, At("OverflowDamageGenerated", overflow)
                                      \o TowerEvents(p, tower))
             e6 == When(died, At("HeroConvertedToBox", 0))
  <2>21. HitEvents(f, p, id, target, base, kind) = e1 \o e2 \o e3 \o e4 \o e5 \o e6
    BY <2>3, <2>5, <2>13
  <2>22. Seen(g) = View(hs3, ts) /\ Seen(f) = View(f.heroes, f.towers)
    BY <2>12 DEF Seen
  <2> HIDE DEF e1, e2, e3, e4, e5, e6, hs3, ts
  <2>23. Tale(p, e1 \o e2, View(f.heroes, f.towers), View(hs1, f.towers))
    BY <2>16, <2>17, TalesJoin DEF e1, e2
  <2>24. Tale(p, e1 \o e2 \o e3, View(f.heroes, f.towers), View(hs2, f.towers))
    BY <2>18, <2>23, TalesJoin DEF e3
  <2>25. Tale(p, e1 \o e2 \o e3 \o e4, View(f.heroes, f.towers), View(hs2, f.towers))
    BY <2>19, <2>24, TalesJoin DEF e4
  <2>26. Tale(p, e1 \o e2 \o e3 \o e4 \o e5, View(f.heroes, f.towers), View(hs2, ts))
    BY <2>20, <2>25, TalesJoin DEF e5
  <2>27. Tale(p, e1 \o e2 \o e3 \o e4 \o e5 \o e6, View(f.heroes, f.towers), View(hs3, ts))
    BY <2>19, <2>26, TalesJoin DEF e6
  <2> QED
    BY <2>21, <2>22, <2>27 DEF g
<1> QED
  BY <1>1, <1>2

LEMMA TowerHitTale ==
  ASSUME NEW f, FieldOK(f), NEW p \in Players, NEW id, NEW base \in Nat, NEW kind
  PROVE  Tale(p, TowerHitEvents(f, p, id, base, kind),
              Seen(f), Seen(DamageTower(f, p, id, base, kind)))
<1> DEFINE o == Opponent(p)
           damage == Amplified(f.towers[o], Weakened(f.heroes[id], base, kind))
           tower == TakeDamage(f.towers[o], damage)
           falls == IF tower.hp = 0 THEN f.falls + 1 ELSE f.falls
           m == [f EXCEPT !.towers[o] = tower, !.dealt = @ + damage, !.falls = falls]
           n == f.towers[o].hp - Least(f.towers[o].hp, damage)
<1>1. CASE DamageTower(f, p, id, base, kind) = f
  BY <1>1, NoTale DEF TowerHitEvents
<1>2. CASE DamageTower(f, p, id, base, kind) # f
  <2>1. DamageTower(f, p, id, base, kind) = m /\ f.towers[o].hp # 0
    BY <1>2 DEF DamageTower
  <2>2. /\ f \in [heroes : [DOMAIN f.heroes -> HeroRecords],
                  towers : [Players -> TowerRecords], dealt : Nat, falls : Nat]
        /\ f.towers \in [Players -> TowerRecords] /\ o \in Players /\ f.towers[o].hp \in Nat
    BY OpponentType, TowerTypes DEF FieldOK, TowerRecords
  <2>3. damage \in Nat
    BY DamageType
  <2> HIDE DEF damage
  <2>4. n \in Nat /\ tower = [f.towers[o] EXCEPT !.hp = n]
    BY <2>2, <2>3 DEF Least, TakeDamage
  <2> HIDE DEF n, tower, falls
  <2>5. m.heroes = f.heroes /\ m.towers = [f.towers EXCEPT ![o] = tower] /\ m.towers[o] = tower
    BY <2>2
  <2>6. TowerHitEvents(f, p, id, base, kind) = TowerEvents(p, tower)
    BY <1>2, <2>1, <2>5 DEF TowerHitEvents
  <2> HIDE DEF m
  <2>7. f.towers[Opponent(p)].hp > 0 /\ tower = [f.towers[Opponent(p)] EXCEPT !.hp = n]
    BY <2>1, <2>2, <2>4
  <2>8. Tale(p, TowerEvents(p, tower), View(f.heroes, f.towers),
             View(f.heroes, [f.towers EXCEPT ![o] = tower]))
    BY <2>2, <2>4, <2>7, OfDamagedTower
  <2> QED
    BY <2>1, <2>5, <2>6, <2>8 DEF Seen
<1> QED
  BY <1>1, <1>2

-----------------------------------------------------------------------------
(* Statuses.                                                               *)

\* Layers that are added are told, of a hero ...
LEMMA HeroLayersTale ==
  ASSUME NEW p, NEW heroes, heroes = [i \in DOMAIN heroes |-> heroes[i]], NEW towers,
         NEW id \in DOMAIN heroes, id \in Nat \ {0}, heroes[id] \in HeroRecords,
         NEW vulnerable \in Nat, NEW weak \in Nat,
         NEW x, x = AddLayers(heroes[id], vulnerable, weak)
  PROVE  Tale(p, LayerEvents(id, x, vulnerable, weak),
              View(heroes, towers), View([heroes EXCEPT ![id] = x], towers))
<1> DEFINE hero == heroes[id]
           v == hero.vulnerable + vulnerable
           w == hero.weak + weak
           hs1 == [heroes EXCEPT ![id].vulnerable = v]
           hs2 == [hs1 EXCEPT ![id].weak = w]
           e1 == When(vulnerable > 0, <<Event("VulnerableApplied", id, v)>>)
           e2 == When(weak > 0, <<Event("WeakApplied", id, w)>>)
<1>1. /\ hero = [kind |-> hero.kind, value |-> hero.value, position |-> hero.position,
                 hp |-> hero.hp, shield |-> hero.shield, vulnerable |-> hero.vulnerable,
                 weak |-> hero.weak, charge |-> hero.charge]
      /\ hero.vulnerable \in Nat /\ hero.weak \in Nat
  BY DEF HeroRecords
<1>2. v \in Int /\ w \in Int /\ (vulnerable = 0 => v = hero.vulnerable) /\ (weak = 0 => w = hero.weak)
  BY <1>1
<1>3. x = [hero EXCEPT !.vulnerable = v, !.weak = w]
  BY DEF AddLayers
<1> HIDE DEF v, w
<1>4. x.vulnerable = v /\ x.weak = w
  BY <1>1, <1>3
<1>5. /\ DOMAIN hs1 = DOMAIN heroes /\ hs1 = [i \in DOMAIN hs1 |-> hs1[i]]
      /\ hs1[id] = [hero EXCEPT !.vulnerable = v]
  OBVIOUS
<1>6. hs2 = [heroes EXCEPT ![id] = x]
  BY <1>1, <1>3, <1>5
<1>7. vulnerable = 0 => hs1 = heroes
  <2>1. vulnerable = 0 => [hero EXCEPT !.vulnerable = v] = hero
    BY <1>1, <1>2
  <2> QED
    BY <2>1
<1>8. weak = 0 => hs2 = hs1
  <2>1. weak = 0 => [hs1[id] EXCEPT !.weak = w] = hs1[id]
    BY <1>1, <1>2, <1>5
  <2> HIDE DEF hs1
  <2> QED
    BY <1>5, <2>1
<1>9. Tale(p, e1, View(heroes, towers), View(hs1, towers))
  <2>1. Tale(p, <<Event("VulnerableApplied", id, v)>>, View(heroes, towers), View(hs1, towers))
    BY <1>2, OfHero
  <2> HIDE DEF hs1
  <2> QED
    BY <1>7, <2>1, NoTale DEF When
<1>10. Tale(p, e2, View(hs1, towers), View(hs2, towers))
  <2>1. id \in DOMAIN hs1
    BY <1>5
  <2> HIDE DEF hs1
  <2>2. Tale(p, <<Event("WeakApplied", id, w)>>, View(hs1, towers), View(hs2, towers))
    BY <1>2, <2>1, OfHero
  <2> HIDE DEF hs2
  <2> QED
    BY <1>8, <2>2, NoTale DEF When
<1>11. LayerEvents(id, x, vulnerable, weak) = e1 \o e2
  BY <1>4 DEF LayerEvents
<1> HIDE DEF e1, e2, hs1, hs2
<1>12. Tale(p, e1 \o e2, View(heroes, towers), View(hs2, towers))
  BY <1>9, <1>10, TalesJoin
<1> QED
  BY <1>6, <1>11, <1>12

\* ... and of a tower.
LEMMA TowerLayersTale ==
  ASSUME NEW p \in Players, NEW heroes, NEW towers \in [Players -> TowerRecords],
         NEW q \in Players, NEW vulnerable \in Nat, NEW weak \in Nat,
         NEW x, x = AddLayers(towers[q], vulnerable, weak)
  PROVE  Tale(p, LayerEvents(q - 2, x, vulnerable, weak),
              View(heroes, towers), View(heroes, [towers EXCEPT ![q] = x]))
<1> DEFINE tower == towers[q]
           v == tower.vulnerable + vulnerable
           w == tower.weak + weak
           ts1 == [towers EXCEPT ![q].vulnerable = v]
           ts2 == [ts1 EXCEPT ![q].weak = w]
           e1 == When(vulnerable > 0, <<Event("VulnerableApplied", q - 2, v)>>)
           e2 == When(weak > 0, <<Event("WeakApplied", q - 2, w)>>)
<1>1. /\ tower = [hp |-> tower.hp, vulnerable |-> tower.vulnerable, weak |-> tower.weak]
      /\ tower.vulnerable \in Nat /\ tower.weak \in Nat /\ tower.hp \in 0..TowerMaxHp
  BY DEF TowerRecords
<1>2. /\ v \in Nat /\ w \in Nat /\ v \in Int /\ w \in Int
      /\ (vulnerable = 0 => v = tower.vulnerable) /\ (weak = 0 => w = tower.weak)
  BY <1>1
<1>3. x = [tower EXCEPT !.vulnerable = v, !.weak = w]
  BY DEF AddLayers
<1> HIDE DEF v, w
<1>4. x.vulnerable = v /\ x.weak = w
  BY <1>1, <1>3
<1>5. ts1[q] = [tower EXCEPT !.vulnerable = v]
  OBVIOUS
<1>6. ts1 \in [Players -> TowerRecords]
  <2>1. [tower EXCEPT !.vulnerable = v] \in TowerRecords
    BY <1>1, <1>2 DEF TowerRecords
  <2> QED
    BY <2>1
<1>7. ts2 = [towers EXCEPT ![q] = x]
  BY <1>1, <1>3, <1>5
<1>8. vulnerable = 0 => ts1 = towers
  <2>1. vulnerable = 0 => [tower EXCEPT !.vulnerable = v] = tower
    BY <1>1, <1>2
  <2> QED
    BY <2>1
<1>9. weak = 0 => ts2 = ts1
  <2>1. weak = 0 => [ts1[q] EXCEPT !.weak = w] = ts1[q]
    BY <1>1, <1>2, <1>5
  <2> HIDE DEF ts1
  <2> QED
    BY <1>6, <2>1
<1>10. Tale(p, e1, View(heroes, towers), View(heroes, ts1))
  <2>1. Tale(p, <<Event("VulnerableApplied", q - 2, v)>>, View(heroes, towers), View(heroes, ts1))
    BY <1>2, OfTower
  <2> HIDE DEF ts1
  <2> QED
    BY <1>8, <2>1, NoTale DEF When
<1>11. Tale(p, e2, View(heroes, ts1), View(heroes, ts2))
  <2> HIDE DEF ts1
  <2>1. Tale(p, <<Event("WeakApplied", q - 2, w)>>, View(heroes, ts1), View(heroes, ts2))
    BY <1>2, <1>6, OfTower
  <2> HIDE DEF ts2
  <2> QED
    BY <1>9, <2>1, NoTale DEF When
<1>12. LayerEvents(q - 2, x, vulnerable, weak) = e1 \o e2
  BY <1>4 DEF LayerEvents
<1> HIDE DEF e1, e2, ts1, ts2
<1>13. Tale(p, e1 \o e2, View(heroes, towers), View(heroes, ts2))
  BY <1>10, <1>11, TalesJoin
<1> QED
  BY <1>7, <1>12, <1>13

LEMMA DebuffTale ==
  ASSUME NEW f, FieldOK(f), DOMAIN f.heroes \subseteq Nat \ {0}, NEW p \in Players, NEW id,
         NEW target, NEW vulnerable \in Nat, NEW weak \in Nat
  PROVE  Tale(p, DebuffEvents(f, p, id, target, vulnerable, weak),
              Seen(f), Seen(ApplyDebuff(f, p, id, target, vulnerable, weak)))
<1> DEFINE o == Opponent(p)
           g == ApplyDebuff(f, p, id, target, vulnerable, weak)
<1>1. f \in [heroes : [DOMAIN f.heroes -> HeroRecords],
             towers : [Players -> TowerRecords], dealt : Nat, falls : Nat]
  BY DEF FieldOK, TowerRecords
<1>2. CASE id \in Living(f, p) /\ target \in Living(f, o)
  <2> DEFINE x == AddLayers(f.heroes[target], vulnerable, weak)
  <2>1. g = [f EXCEPT !.heroes[target] = x]
    BY <1>2 DEF ApplyDebuff
  <2>2. /\ target \in DOMAIN f.heroes /\ f.heroes[target] \in HeroRecords
        /\ target \in Nat \ {0} /\ f.heroes = [i \in DOMAIN f.heroes |-> f.heroes[i]]
    BY <1>2, OwnHero, FieldParts
  <2>3. Tale(p, LayerEvents(target, x, vulnerable, weak),
             View(f.heroes, f.towers), View([f.heroes EXCEPT ![target] = x], f.towers))
    BY <2>2, HeroLayersTale
  <2> HIDE DEF x
  <2>4. g.heroes = [f.heroes EXCEPT ![target] = x] /\ g.towers = f.towers /\ g.heroes[target] = x
    BY <1>1, <2>1, <2>2
  <2>5. DebuffEvents(f, p, id, target, vulnerable, weak)
          = LayerEvents(target, g.heroes[target], vulnerable, weak)
    BY <1>2 DEF DebuffEvents
  <2> HIDE DEF g
  <2> QED
    BY <2>3, <2>4, <2>5 DEF Seen, g
<1>3. CASE id \notin Living(f, p) \/ (target \notin Living(f, o) /\ f.towers[o].hp = 0)
  <2>1. g = f
    BY <1>3 DEF ApplyDebuff
  <2>2. DebuffEvents(f, p, id, target, vulnerable, weak) = << >>
    BY <1>3 DEF DebuffEvents, When
  <2> QED
    BY <2>1, <2>2, NoTale
<1>4. CASE id \in Living(f, p) /\ target \notin Living(f, o) /\ f.towers[o].hp # 0
  <2> DEFINE x == AddLayers(f.towers[o], vulnerable, weak)
  <2>1. g = [f EXCEPT !.towers[o] = x]
    BY <1>4 DEF ApplyDebuff
  <2>2. f.towers \in [Players -> TowerRecords] /\ o \in Players /\ f.towers[o].hp > 0
    BY <1>1, <1>4, OpponentType, TowerTypes
  <2>3. Tale(p, LayerEvents(o - 2, x, vulnerable, weak),
             View(f.heroes, f.towers), View(f.heroes, [f.towers EXCEPT ![o] = x]))
    BY <2>2, TowerLayersTale
  <2> HIDE DEF x
  <2>4. g.heroes = f.heroes /\ g.towers = [f.towers EXCEPT ![o] = x] /\ g.towers[o] = x
    BY <1>1, <2>1, <2>2
  <2>5. DebuffEvents(f, p, id, target, vulnerable, weak)
          = LayerEvents(o - 2, g.towers[o], vulnerable, weak)
    BY <1>4, <2>2 DEF DebuffEvents, When, HisTower, TowerTarget
  <2> HIDE DEF g
  <2> QED
    BY <2>3, <2>4, <2>5 DEF Seen, g
<1> QED
  BY <1>2, <1>3, <1>4

-----------------------------------------------------------------------------
(* An attack, and a bolt.                                                  *)

LEMMA NormalAttackTale ==
  ASSUME NEW f, FieldOK(f), DOMAIN f.heroes \subseteq Nat \ {0}, NEW p \in Players, NEW id,
         NEW base \in Nat, NEW vulnerable \in Nat, NEW weak \in Nat,
         f.towers[Opponent(p)].hp > 0
  PROVE  Tale(p, NormalAttackEvents(f, p, id, base, vulnerable, weak),
              Seen(f), Seen(NormalAttack(f, p, id, base, vulnerable, weak)))
<1> DEFINE target == FirstEnemy(f, p)
           h == DamageHero(f, p, id, target, base, "NormalAttack")
           g == NormalAttack(f, p, id, base, vulnerable, weak)
           e1 == HitEvents(f, p, id, target, base, "NormalAttack")
           e2 == DebuffEvents(h, p, id, target, vulnerable, weak)
<1>1. CASE Living(f, Opponent(p)) = {}
  BY <1>1, TowerHitTale DEF NormalAttack, NormalAttackEvents
<1>2. CASE Living(f, Opponent(p)) # {}
  <2>1. g = ApplyDebuff(h, p, id, target, vulnerable, weak)
    BY <1>2 DEF NormalAttack
  <2>2. NormalAttackEvents(f, p, id, base, vulnerable, weak) = e1 \o e2
    BY <1>2 DEF NormalAttackEvents
  <2>3. FieldOK(h) /\ DOMAIN h.heroes \subseteq Nat \ {0}
    <3>1. Hit(p, f, h)
      BY DamageHeroHits
    <3> HIDE DEF h
    <3> QED
      BY <3>1 DEF Hit
  <2>4. Tale(p, e1, Seen(f), Seen(h))
    BY HitTale
  <2> HIDE DEF h, g, target, e1
  <2>5. Tale(p, e2, Seen(h), Seen(g))
    BY <2>1, <2>3, DebuffTale
  <2> HIDE DEF e2
  <2>6. Tale(p, e1 \o e2, Seen(f), Seen(g))
    BY <2>4, <2>5, TalesJoin
  <2> QED
    BY <2>2, <2>6 DEF g
<1> QED
  BY <1>1, <1>2

\* A normal attack leaves the mover's own heroes as they are.
LEMMA OwnUntouched ==
  ASSUME NEW f, FieldOK(f), NEW p \in Players, NEW id, NEW i \in Living(f, p),
         NEW base \in Nat, NEW vulnerable \in Nat, NEW weak \in Nat, weak # 1,
         f.towers[Opponent(p)].hp > 0
  PROVE  NormalAttack(f, p, id, base, vulnerable, weak).heroes[i] = f.heroes[i]
<1> DEFINE o == Opponent(p)
<1>1. i \in DOMAIN f.heroes /\ i \notin Living(f, o) /\ f.heroes[i].hp > 0
  BY OpponentType DEF Living
<1>2. ASSUME NEW kind
      PROVE  DamageTower(f, p, id, base, kind).heroes = f.heroes
  BY DEF DamageTower, FieldOK
<1>3. ASSUME NEW g, FieldOK(g), NEW target, i \in DOMAIN g.heroes, i \notin Living(g, o)
      PROVE  ApplyDebuff(g, p, id, target, vulnerable, weak).heroes[i] = g.heroes[i]
  <2> DEFINE h == ApplyDebuff(g, p, id, target, vulnerable, weak)
  <2>1. g \in [heroes : [DOMAIN g.heroes -> HeroRecords],
               towers : [Players -> TowerRecords], dealt : Nat, falls : Nat]
    BY <1>3 DEF FieldOK, TowerRecords
  <2>2. CASE id \in Living(g, p) /\ target \in Living(g, o)
    <3> DEFINE x == AddLayers(g.heroes[target], vulnerable, weak)
    <3>1. h = [g EXCEPT !.heroes[target] = x]
      BY <2>2 DEF ApplyDebuff
    <3> HIDE DEF x
    <3>2. h.heroes = [g.heroes EXCEPT ![target] = x]
      BY <2>1, <3>1
    <3> HIDE DEF h
    <3>3. h.heroes[i] = g.heroes[i]
      BY <1>3, <2>2, <3>2
    <3> QED
      BY <3>3 DEF h
  <2>3. CASE ~(id \in Living(g, p) /\ target \in Living(g, o))
    <3> DEFINE x == AddLayers(g.towers[o], vulnerable, weak)
    <3>1. h = g \/ h = [g EXCEPT !.towers[o] = x]
      BY <2>3 DEF ApplyDebuff
    <3> HIDE DEF x
    <3>2. h.heroes = g.heroes
      BY <2>1, <3>1
    <3> QED
      BY <3>2
  <2> QED
    BY <2>2, <2>3
<1>4. ASSUME NEW target, NEW kind
      PROVE  LET g == DamageHero(f, p, id, target, base, kind)
             IN  FieldOK(g) /\ i \in DOMAIN g.heroes /\ g.heroes[i] = f.heroes[i] /\ i \notin Living(g, o)
  <2> DEFINE g == DamageHero(f, p, id, target, base, kind)
             victim   == f.heroes[target]
             damage   == Greatest(1, Amplified(victim, Weakened(f.heroes[id], base, kind)))
             absorbed == Least(victim.shield, damage)
             lost     == Least(victim.hp, damage - absorbed)
             overflow == damage - absorbed - lost
             tower    == TakeDamage(f.towers[o], overflow)
             falls    == IF overflow > 0 /\ tower.hp = 0 THEN f.falls + 1 ELSE f.falls
             m == [f EXCEPT !.heroes[target].shield = @ - absorbed,
                            !.heroes[target].hp = @ - lost,
                            !.towers[o] = tower,
                            !.dealt = @ + damage,
                            !.falls = falls]
  <2>1. Hit(p, f, g)
    BY DamageHeroHits
  <2>2. FieldOK(g) /\ i \in DOMAIN g.heroes /\ g.heroes[i].position = f.heroes[i].position
    BY <2>1 DEF Hit, HeroHit, SameHero
  <2>3. g.heroes[i] = f.heroes[i]
    <3>1. CASE id \notin Living(f, p) \/ target \notin Living(f, o)
      BY <3>1 DEF DamageHero
    <3>2. CASE id \in Living(f, p) /\ target \in Living(f, o)
      <4>1. g = ConvertDead(m)
        BY <3>2 DEF DamageHero
      <4> HIDE DEF damage, absorbed, lost, overflow, tower, falls, g
      <4>2. f \in [heroes : [DOMAIN f.heroes -> HeroRecords],
                   towers : [Players -> TowerRecords], dealt : Nat, falls : Nat]
        BY DEF FieldOK, TowerRecords
      <4>3. ASSUME NEW x, x = m PROVE IsField(x)
        BY <4>2, <4>3 DEF IsField
      <4>4. IsField(m)
        BY <4>3
      <4>5. m.heroes = [f.heroes EXCEPT ![target].shield = @ - absorbed, ![target].hp = @ - lost]
        BY <4>2
      <4> HIDE DEF m
      <4>6. m.heroes[i] = f.heroes[i]
        BY <1>1, <3>2, <4>5
      <4>7. g.heroes = [j \in {k \in DOMAIN m.heroes : m.heroes[k].hp > 0} |-> m.heroes[j]]
        BY <4>1, <4>4, ConvertDeadShape
      <4> QED
        BY <2>2, <4>6, <4>7
    <3> QED
      BY <3>1, <3>2
  <2>4. i \notin Living(g, o)
    <3> HIDE DEF g
    <3> QED
      BY <1>1, <2>2 DEF Living
  <2> QED
    BY <2>2, <2>3, <2>4
<1> QED
  BY <1>2, <1>3, <1>4 DEF NormalAttack

\* What a hero gains by itself.
LEMMA SelfTale ==
  ASSUME NEW p, NEW f, NEW g, FieldOK(g), NEW id \in DOMAIN g.heroes, id \in Nat \ {0},
         g.heroes[id] = f.heroes[id],
         NEW x, IsHero(x), SameHero(g.heroes[id], x),
         x.vulnerable = g.heroes[id].vulnerable, x.weak = g.heroes[id].weak,
         x.hp \in Int, x.hp >= g.heroes[id].hp, x.shield \in Int, x.shield >= g.heroes[id].shield,
         x.charge \in Int,
         x.charge # g.heroes[id].charge => x.kind \in {"Regent", "ChickenPot"},
         NEW h, h.heroes = [g.heroes EXCEPT ![id] = x], h.towers = g.towers
  PROVE  Tale(p, SelfEvents(f, h, id), Seen(g), Seen(h))
<1> DEFINE hero == g.heroes[id]
           hs1 == [g.heroes EXCEPT ![id].hp = x.hp]
           hs2 == [hs1 EXCEPT ![id].shield = x.shield]
           hs3 == [hs2 EXCEPT ![id].charge = x.charge]
           e1 == When(x.hp > hero.hp, <<Event("HeroHealed", id, x.hp)>>)
           e2 == When(x.shield > hero.shield, <<Event("ShieldGained", id, x.shield)>>)
           e3 == When(x.kind = "Regent", <<Event("RadiantStarsChanged", id, x.charge)>>)
           e4 == When(x.kind = "ChickenPot" /\ x.charge # hero.charge,
                      <<Event("LightningOrbChanged", id, x.charge)>>)
<1>1. /\ g.heroes = [i \in DOMAIN g.heroes |-> g.heroes[i]] /\ hero \in HeroRecords
      /\ hero.hp \in Nat /\ hero.shield \in Nat
  BY FieldParts, HeroTypes
<1>2. IsHero(hero)
  BY <1>1 DEF HeroRecords, IsHero
<1>3. hs1[id] = [hero EXCEPT !.hp = x.hp]
  OBVIOUS
<1>4. /\ DOMAIN hs1 = DOMAIN g.heroes /\ hs1 = [i \in DOMAIN hs1 |-> hs1[i]]
      /\ DOMAIN hs2 = DOMAIN g.heroes /\ hs2 = [i \in DOMAIN hs2 |-> hs2[i]]
  BY <1>1
<1>5. hs2[id] = [hero EXCEPT !.hp = x.hp, !.shield = x.shield]
  BY <1>2, <1>3, <1>4 DEF IsHero
<1>6. x = [hero EXCEPT !.hp = x.hp, !.shield = x.shield, !.charge = x.charge]
  BY <1>2 DEF IsHero, SameHero
<1>7. hs3 = h.heroes
  BY <1>2, <1>4, <1>5, <1>6 DEF IsHero
<1>8. x.hp = hero.hp => hs1 = g.heroes
  <2>1. x.hp = hero.hp => [hero EXCEPT !.hp = x.hp] = hero
    BY <1>2 DEF IsHero
  <2> QED
    BY <1>1, <2>1
<1>9. x.shield = hero.shield => hs2 = hs1
  <2>1. x.shield = hero.shield => [hs1[id] EXCEPT !.shield = x.shield] = hs1[id]
    BY <1>2, <1>3 DEF IsHero
  <2> HIDE DEF hs1
  <2> QED
    BY <1>4, <2>1
<1>10. x.charge = hero.charge => hs3 = hs2
  <2>1. x.charge = hero.charge => [hs2[id] EXCEPT !.charge = x.charge] = hs2[id]
    BY <1>2, <1>5 DEF IsHero
  <2> HIDE DEF hs2
  <2> QED
    BY <1>4, <2>1
<1>11. Tale(p, e1, View(g.heroes, g.towers), View(hs1, g.towers))
  <2>1. Tale(p, <<Event("HeroHealed", id, x.hp)>>, View(g.heroes, g.towers), View(hs1, g.towers))
    BY OfHero
  <2> HIDE DEF hs1
  <2>2. ~(x.hp > hero.hp) => x.hp = hero.hp
    BY <1>1
  <2> QED
    BY <1>8, <2>1, <2>2, NoTale DEF When
<1>12. Tale(p, e2, View(hs1, g.towers), View(hs2, g.towers))
  <2>1. id \in DOMAIN hs1
    BY <1>4
  <2> HIDE DEF hs1
  <2>2. Tale(p, <<Event("ShieldGained", id, x.shield)>>, View(hs1, g.towers), View(hs2, g.towers))
    BY <2>1, OfHero
  <2> HIDE DEF hs2
  <2>3. ~(x.shield > hero.shield) => x.shield = hero.shield
    BY <1>1
  <2> QED
    BY <1>9, <2>2, <2>3, NoTale DEF When
<1> DEFINE mid == IF x.kind = "Regent" THEN hs3 ELSE hs2
<1>13. /\ Tale(p, e3, View(hs2, g.towers), View(mid, g.towers))
       /\ Tale(p, e4, View(mid, g.towers), View(hs3, g.towers))
  <2> DEFINE y == View(hs2, g.towers)
             z == View(hs3, g.towers)
  <2>1. id \in DOMAIN hs2
    BY <1>4
  <2>2. x.charge = hero.charge => y = z
    BY <1>10
  <2> HIDE DEF hs2
  <2>3. /\ Tale(p, <<Event("RadiantStarsChanged", id, x.charge)>>, y, z)
        /\ Tale(p, <<Event("LightningOrbChanged", id, x.charge)>>, y, z)
    BY <2>1, OfHero
  <2> HIDE DEF hs3, y, z
  <2>4. CASE x.kind = "Regent"
    <3>1. Tale(p, e3, y, z) /\ Tale(p, e4, z, z)
      BY <2>3, <2>4, NoTale DEF When
    <3> QED
      BY <2>4, <3>1 DEF y, z
  <2>5. CASE x.kind # "Regent"
    <3>1. Tale(p, e3, y, y) /\ Tale(p, e4, y, z)
      BY <2>2, <2>3, <2>5, NoTale DEF When
    <3> QED
      BY <2>5, <3>1 DEF y, z
  <2> QED
    BY <2>4, <2>5
<1>14. SelfEvents(f, h, id) = e1 \o e2 \o e3 \o e4
  <2>1. h.heroes[id] = x
    BY <1>1
  <2> QED
    BY <2>1 DEF SelfEvents
<1> HIDE DEF e1, e2, e3, e4, hs1, hs2, hs3, mid
<1>15. Tale(p, e1 \o e2, View(g.heroes, g.towers), View(hs2, g.towers))
  BY <1>11, <1>12, TalesJoin
<1>16. Tale(p, e1 \o e2 \o e3, View(g.heroes, g.towers), View(mid, g.towers))
  BY <1>13, <1>15, TalesJoin
<1>17. Tale(p, e1 \o e2 \o e3 \o e4, View(g.heroes, g.towers), View(hs3, g.towers))
  BY <1>13, <1>16, TalesJoin
<1> QED
  BY <1>7, <1>14, <1>17 DEF Seen

\* With another record for a hero; with other points in a hero's record.
Put(g, id, x, h) == h.heroes = [g.heroes EXCEPT ![id] = x] /\ h.towers = g.towers
Replaced(g, id, x) == [g EXCEPT !.heroes[id] = x]
Gained(hero, hp, shield, charge) == [hero EXCEPT !.hp = hp, !.shield = shield, !.charge = charge]

\* A blow, and what the attacker gains by it.
LEMMA BlowTale ==
  ASSUME NEW f, FieldOK(f), DOMAIN f.heroes \subseteq Nat \ {0}, NEW p \in Players,
         NEW id \in Living(f, p), f.towers[Opponent(p)].hp > 0,
         NEW base \in Nat, NEW vulnerable \in Nat, NEW weak \in Nat, weak # 1,
         NEW g, g = NormalAttack(f, p, id, base, vulnerable, weak),
         NEW x, IsHero(x), SameHero(f.heroes[id], x),
         x.vulnerable = f.heroes[id].vulnerable, x.weak = f.heroes[id].weak,
         x.hp \in Int, x.hp >= f.heroes[id].hp, x.shield \in Int, x.shield >= f.heroes[id].shield,
         x.charge \in Int,
         x.charge # f.heroes[id].charge => x.kind \in {"Regent", "ChickenPot"},
         NEW h, Put(g, id, x, h)
  PROVE  Tale(p, NormalAttackEvents(f, p, id, base, vulnerable, weak) \o SelfEvents(f, h, id),
              Seen(f), Seen(h))
<1>1. Tale(p, NormalAttackEvents(f, p, id, base, vulnerable, weak), Seen(f), Seen(g))
  BY NormalAttackTale
<1>2. Hit(p, f, g)
  BY NormalAttackHits
<1>3. FieldOK(g) /\ Living(g, p) = Living(f, p)
  BY <1>2, HitLiving DEF Hit
<1>4. id \in DOMAIN g.heroes /\ id \in DOMAIN f.heroes /\ id \in Nat \ {0}
  BY <1>3 DEF Living
<1>5. g.heroes[id] = f.heroes[id]
  BY OwnUntouched
<1>6. Tale(p, SelfEvents(f, h, id), Seen(g), Seen(h))
  BY <1>3, <1>4, <1>5, SelfTale DEF Put
<1> QED
  BY <1>1, <1>6, TalesJoin

\* What heal, shield and charge do to the heroes.
LEMMA Rewritten ==
  ASSUME NEW g, FieldOK(g), NEW id \in DOMAIN g.heroes, NEW x, NEW h, h = Replaced(g, id, x)
  PROVE  Put(g, id, x, h) /\ h.heroes[id] = x
<1>1. /\ g \in [heroes : [DOMAIN g.heroes -> HeroRecords],
                towers : [Players -> TowerRecords], dealt : Nat, falls : Nat]
      /\ g.heroes = [i \in DOMAIN g.heroes |-> g.heroes[i]]
  BY FieldParts DEF FieldOK, TowerRecords
<1>2. h.heroes = [g.heroes EXCEPT ![id] = x] /\ h.towers = g.towers
  BY <1>1 DEF Replaced
<1>3. h.heroes[id] = x
  BY <1>2
<1> QED
  BY <1>2, <1>3 DEF Put

LEMMA RewrittenTwice ==
  ASSUME NEW g, FieldOK(g), NEW id \in DOMAIN g.heroes, NEW x, NEW h, h = Replaced(g, id, x),
         NEW y, NEW r, r = Replaced(h, id, y)
  PROVE  Put(g, id, y, r)
<1>1. /\ g \in [heroes : [DOMAIN g.heroes -> HeroRecords],
                towers : [Players -> TowerRecords], dealt : Nat, falls : Nat]
  BY FieldParts DEF FieldOK, TowerRecords
<1>2. h.heroes = [g.heroes EXCEPT ![id] = x] /\ h.towers = g.towers
  BY Rewritten DEF Put
<1>3. r.heroes = [h.heroes EXCEPT ![id] = y] /\ r.towers = h.towers
  BY <1>1 DEF Replaced
<1> QED
  BY <1>1, <1>2, <1>3 DEF Put

LEMMA Healed ==
  ASSUME NEW g, FieldOK(g), NEW id \in DOMAIN g.heroes, NEW a,
         NEW hero, hero = g.heroes[id], IsHero(hero), NEW h, h = Heal(g, id, a),
         NEW hp, hp = hero.hp + Least(a, MaxHp(hero.kind, hero.value) - hero.hp),
         NEW x, x = Gained(hero, hp, hero.shield, hero.charge)
  PROVE  Put(g, id, x, h)
<1>1. x = [hero EXCEPT !.hp = hp]
  BY DEF Gained, IsHero
<1>2. h = Replaced(g, id, x)
  BY <1>1 DEF Heal, Replaced
<1> QED
  BY <1>2, Rewritten

LEMMA Shielded ==
  ASSUME NEW g, FieldOK(g), NEW id \in DOMAIN g.heroes, NEW a,
         NEW hero, hero = g.heroes[id], IsHero(hero), NEW h, h = GainShield(g, id, a),
         NEW shield, shield = hero.shield + a,
         NEW x, x = Gained(hero, hero.hp, shield, hero.charge)
  PROVE  Put(g, id, x, h)
<1>1. x = [hero EXCEPT !.shield = shield]
  BY DEF Gained, IsHero
<1>2. h = Replaced(g, id, x)
  BY <1>1 DEF GainShield, Replaced
<1> QED
  BY <1>2, Rewritten

LEMMA ChargedBy ==
  ASSUME NEW g, FieldOK(g), NEW id \in DOMAIN g.heroes, NEW a,
         NEW hero, hero = g.heroes[id], IsHero(hero), NEW h, h = AddCharge(g, id, a),
         NEW charge, charge = hero.charge + a,
         NEW x, x = Gained(hero, hero.hp, hero.shield, charge)
  PROVE  Put(g, id, x, h)
<1>1. x = [hero EXCEPT !.charge = charge]
  BY DEF Gained, IsHero
<1>2. h = Replaced(g, id, x)
  BY <1>1 DEF AddCharge, Replaced
<1> QED
  BY <1>2, Rewritten

LEMMA ShieldedAndCharged ==
  ASSUME NEW g, FieldOK(g), NEW id \in DOMAIN g.heroes, NEW a, NEW b,
         NEW hero, hero = g.heroes[id], IsHero(hero),
         NEW h, h = GainShield(g, id, a), NEW r, r = AddCharge(h, id, b),
         NEW shield, shield = hero.shield + a, NEW charge, charge = hero.charge + b,
         NEW x, x = Gained(hero, hero.hp, shield, charge)
  PROVE  Put(g, id, x, r)
<1> DEFINE y == [hero EXCEPT !.shield = shield]
<1>1. h = Replaced(g, id, y)
  BY DEF GainShield, Replaced
<1>2. [y EXCEPT !.charge = y.charge + b] = x
  BY DEF IsHero, Gained
<1> HIDE DEF y
<1>3. h.heroes[id] = y
  BY <1>1, Rewritten
<1>4. r = Replaced(h, id, x)
  BY <1>2, <1>3 DEF AddCharge, Replaced
<1> QED
  BY <1>1, <1>4, RewrittenTwice

\* A blow leaves the attacker as it was.
LEMMA StruckUntouched ==
  ASSUME NEW f, FieldOK(f), NEW p \in Players, NEW id \in Living(f, p), f.towers[Opponent(p)].hp > 0,
         NEW base \in Nat, NEW vulnerable \in Nat, NEW weak \in Nat, weak # 1,
         NEW g, g = NormalAttack(f, p, id, base, vulnerable, weak)
  PROVE  /\ FieldOK(g) /\ id \in DOMAIN g.heroes /\ g.heroes[id] = f.heroes[id]
         /\ Put(g, id, f.heroes[id], g)
<1>1. Hit(p, f, g)
  BY NormalAttackHits
<1>2. FieldOK(g) /\ Living(g, p) = Living(f, p)
  BY <1>1, HitLiving DEF Hit
<1>3. id \in DOMAIN g.heroes
  BY <1>2 DEF Living
<1>4. g.heroes[id] = f.heroes[id]
  BY OwnUntouched
<1>5. g.heroes = [i \in DOMAIN g.heroes |-> g.heroes[i]]
  BY <1>2, FieldParts
<1>6. Put(g, id, f.heroes[id], g)
  BY <1>3, <1>4, <1>5 DEF Put
<1> QED
  BY <1>2, <1>3, <1>4, <1>6

\* A blow with one of the gains.
LEMMA GainTale ==
  ASSUME NEW f, FieldOK(f), DOMAIN f.heroes \subseteq Nat \ {0}, NEW p \in Players,
         NEW id \in Living(f, p), f.towers[Opponent(p)].hp > 0,
         NEW hero, hero = f.heroes[id], IsHero(hero),
         NEW base \in Nat, NEW vulnerable \in Nat, NEW weak \in Nat, weak # 1,
         NEW g, g = NormalAttack(f, p, id, base, vulnerable, weak),
         NEW hp \in Int, hp >= hero.hp, NEW shield \in Int, shield >= hero.shield,
         NEW charge \in Int,
         charge # hero.charge => hero.kind \in {"Regent", "ChickenPot"},
         NEW x, x = Gained(hero, hp, shield, charge),
         NEW h, Put(g, id, x, h)
  PROVE  Tale(p, NormalAttackEvents(f, p, id, base, vulnerable, weak) \o SelfEvents(f, h, id),
              Seen(f), Seen(h))
<1>1. /\ IsHero(x) /\ SameHero(hero, x) /\ x.vulnerable = hero.vulnerable
      /\ x.weak = hero.weak /\ x.hp = hp /\ x.shield = shield /\ x.charge = charge
      /\ x.kind = hero.kind
  BY DEF IsHero, SameHero, Gained
<1>2. /\ SameHero(f.heroes[id], x) /\ x.vulnerable = f.heroes[id].vulnerable
      /\ x.weak = f.heroes[id].weak /\ x.hp \in Int /\ x.hp >= f.heroes[id].hp
      /\ x.shield \in Int /\ x.shield >= f.heroes[id].shield /\ x.charge \in Int
      /\ x.charge # f.heroes[id].charge => x.kind \in {"Regent", "ChickenPot"}
  BY <1>1
<1> QED
  BY <1>1, <1>2, BlowTale

LEMMA AttackTale ==
  ASSUME NEW f, FieldOK(f), DOMAIN f.heroes \subseteq Nat \ {0}, NEW p \in Players,
         NEW id \in Living(f, p), f.towers[Opponent(p)].hp > 0,
         NEW hero, hero = f.heroes[id], NEW h, h = PerformAttack(f, p, id)
  PROVE  Tale(p, AttackEvents(f, p, id), Seen(f), Seen(h))
<1>0. PICK value : value = hero.value
  OBVIOUS
<1>1. /\ hero.kind \in Kinds /\ value \in Nat \ {0} /\ hero \in HeroRecords
      /\ hero.hp \in Nat \ {0} /\ hero.shield \in Nat /\ hero.charge \in Nat
      /\ MaxHp(hero.kind, value) \in Nat \ {0} /\ hero.hp <= MaxHp(hero.kind, value)
      /\ id \in DOMAIN f.heroes
  BY <1>0, OwnHero
<1>2. /\ 14 * value \in Nat /\ 12 * value \in Nat /\ 8 * value \in Nat
      /\ 6 * value \in Nat /\ 5 * value \in Nat /\ 2 * value \in Nat
  BY <1>1
<1>3. /\ IsHero(hero) /\ hero.kind \in {"IronFighter", "SilentHunter", "Regent", "ChickenPot"}
  BY <1>1, KindsAssumption DEF HeroRecords, IsHero
<1>4. /\ hero.hp \in Int /\ hero.hp >= hero.hp
      /\ hero.shield \in Int /\ hero.shield >= hero.shield /\ hero.charge \in Int
  BY <1>1
<1>6. CASE hero.kind = "IronFighter"
  <2> PICK base \in Nat : base = 14 * value
    BY <1>2
  <2>v. PICK v, w : v = 3 /\ w = 0
    OBVIOUS
  <2>n. base \in Nat /\ v \in Nat /\ w \in Nat /\ w # 1
    BY <2>v
  <2>0. PICK g : g = NormalAttack(f, p, id, base, v, w)
    OBVIOUS
  <2> DEFINE hp == hero.hp + Least(2 * value, MaxHp(hero.kind, value) - hero.hp)
             x == Gained(hero, hp, hero.shield, hero.charge)
  <2>1. h = Heal(g, id, 2 * value)
    BY <1>0, <2>0, <1>6, <2>v DEF PerformAttack
  <2>2. AttackEvents(f, p, id)
          = NormalAttackEvents(f, p, id, base, v, w) \o SelfEvents(f, h, id)
    BY <1>0, <1>6, <2>v DEF AttackEvents
  <2>3. hp \in Int /\ hp >= hero.hp
    BY <1>1, <1>2 DEF Least
  <2>5. FieldOK(g) /\ id \in DOMAIN g.heroes /\ g.heroes[id] = hero
    BY <2>0, <2>n, StruckUntouched
  <2>x. x = Gained(hero, hp, hero.shield, hero.charge)
        /\ hp = hero.hp + Least(2 * value, MaxHp(hero.kind, value) - hero.hp)
    OBVIOUS
  <2> HIDE DEF x, hp
  <2>6. Put(g, id, x, h)
    BY <1>0, <1>3, <2>1, <2>5, <2>x, Healed
  <2>7. Tale(p, NormalAttackEvents(f, p, id, base, v, w) \o SelfEvents(f, h, id),
             Seen(f), Seen(h))
    BY <1>3, <1>4, <2>n, GainTale, <1>6, <2>0, <2>3, <2>6, <2>x
  <2> QED
    BY <2>2, <2>7
<1>7. CASE hero.kind = "SilentHunter"
  <2> PICK base \in Nat : base = 12 * value
    BY <1>2
  <2>v. PICK v, w : v = 0 /\ w = 2
    OBVIOUS
  <2>n. base \in Nat /\ v \in Nat /\ w \in Nat /\ w # 1
    BY <2>v
  <2>0. PICK g : g = NormalAttack(f, p, id, base, v, w)
    OBVIOUS
  <2> DEFINE shield == hero.shield + 8 * value
             x == Gained(hero, hero.hp, shield, hero.charge)
  <2>1. h = GainShield(g, id, 8 * value)
    BY <1>0, <2>0, <1>7, <2>v DEF PerformAttack
  <2>2. AttackEvents(f, p, id)
          = NormalAttackEvents(f, p, id, base, v, w) \o SelfEvents(f, h, id)
    BY <1>0, <1>7, <2>v DEF AttackEvents
  <2>3. shield \in Int /\ shield >= hero.shield
    BY <1>1, <1>2
  <2>5. FieldOK(g) /\ id \in DOMAIN g.heroes /\ g.heroes[id] = hero
    BY <2>0, <2>n, StruckUntouched
  <2>x. x = Gained(hero, hero.hp, shield, hero.charge) /\ shield = hero.shield + 8 * value
    OBVIOUS
  <2> HIDE DEF x, shield
  <2>6. Put(g, id, x, h)
    BY <1>3, <2>1, <2>5, <2>x, Shielded
  <2>7. Tale(p, NormalAttackEvents(f, p, id, base, v, w) \o SelfEvents(f, h, id),
             Seen(f), Seen(h))
    BY <1>3, <1>4, <2>n, GainTale, <1>7, <2>0, <2>3, <2>6, <2>x
  <2> QED
    BY <2>2, <2>7
\* A Regent says how it attacks.
<1>8. Tale(p, <<Event("RegentAttackModeSelected", id, 0)>>, Seen(f), Seen(f))
      /\ Tale(p, <<Event("RegentAttackModeSelected", id, 1)>>, Seen(f), Seen(f))
  <2> DEFINE y == Seen(f)
  <2>1. id \in Int /\ id \in DOMAIN y.heroes /\ 0 \in Int /\ 1 \in Int
    BY <1>1 DEF Seen, View
  <2> HIDE DEF y
  <2>2. Tale(p, <<Event("RegentAttackModeSelected", id, 0)>>, y, y)
        /\ Tale(p, <<Event("RegentAttackModeSelected", id, 1)>>, y, y)
    BY <2>1, Word
  <2> QED
    BY <2>2 DEF y
<1>9. CASE hero.kind = "Regent" /\ hero.charge >= 2
  <2> PICK base \in Nat : base = 14 * value
    BY <1>2
  <2>v. PICK v, w : v = 1 /\ w = 2
    OBVIOUS
  <2>n. base \in Nat /\ v \in Nat /\ w \in Nat /\ w # 1
    BY <2>v
  <2>0. PICK g : g = NormalAttack(f, p, id, base, v, w)
    OBVIOUS
  <2> DEFINE charge == hero.charge + (-2)
             x == Gained(hero, hero.hp, hero.shield, charge)
             e == <<Event("RegentAttackModeSelected", id, 1)>>
  <2>1. hero.kind = "Regent" /\ hero.charge >= 2 /\ ~(hero.charge < 2)
    BY <1>1, <1>9
  <2>2. h = AddCharge(g, id, -2)
    BY <1>0, <2>0, <2>1, <2>v DEF PerformAttack
  <2>3. AttackEvents(f, p, id)
          = e \o (NormalAttackEvents(f, p, id, base, v, w) \o SelfEvents(f, h, id))
    BY <1>0, <2>1, <2>v DEF AttackEvents
  <2>4. charge \in Int
    BY <1>1
  <2>6. FieldOK(g) /\ id \in DOMAIN g.heroes /\ g.heroes[id] = hero
    BY <2>0, <2>n, StruckUntouched
  <2>x. x = Gained(hero, hero.hp, hero.shield, charge) /\ charge = hero.charge + (-2)
    OBVIOUS
  <2> HIDE DEF x, charge, e
  <2>7. Put(g, id, x, h)
    BY <1>3, <2>2, <2>6, <2>x, ChargedBy
  <2>8. Tale(p, NormalAttackEvents(f, p, id, base, v, w) \o SelfEvents(f, h, id),
             Seen(f), Seen(h))
    BY <1>3, <1>4, <2>n, GainTale, <1>9, <2>0, <2>4, <2>7, <2>x
  <2>9. Tale(p, e, Seen(f), Seen(f))
    BY <1>8 DEF e
  <2> QED
    BY <2>3, <2>8, <2>9, TalesJoin
\* The light attack of a Regent and of a ChickenPot without orbs.
<1>10. ASSUME NEW base \in Nat, base = 6 * value,
              NEW amount \in Nat, hero.kind \in {"Regent", "ChickenPot"},
              h = AddCharge(GainShield(NormalAttack(f, p, id, base, 0, 0), id, 5 * value),
                            id, amount)
       PROVE  Tale(p, NormalAttackEvents(f, p, id, base, 0, 0) \o SelfEvents(f, h, id),
                   Seen(f), Seen(h))
  <2>v. PICK v, w : v = 0 /\ w = 0
    OBVIOUS
  <2>n. base \in Nat /\ v \in Nat /\ w \in Nat /\ w # 1
    BY <1>10, <2>v
  <2>0. PICK g : g = NormalAttack(f, p, id, base, v, w)
    OBVIOUS
  <2> DEFINE shield == hero.shield + 5 * value
             charge == hero.charge + amount
             x == Gained(hero, hero.hp, shield, charge)
  <2>1. PICK k : k = GainShield(g, id, 5 * value)
    OBVIOUS
  <2>2. shield \in Int /\ shield >= hero.shield /\ charge \in Int
    BY <1>1, <1>2
  <2>4. FieldOK(g) /\ id \in DOMAIN g.heroes /\ g.heroes[id] = hero
    BY <2>0, <2>n, StruckUntouched
  <2>x. /\ x = Gained(hero, hero.hp, shield, charge)
        /\ shield = hero.shield + 5 * value /\ charge = hero.charge + amount
    OBVIOUS
  <2> HIDE DEF x, shield, charge
  <2>5. Put(g, id, x, h)
    BY <1>3, <1>10, <2>0, <2>1, <2>4, <2>v, <2>x, ShieldedAndCharged
  <2>6. Tale(p, NormalAttackEvents(f, p, id, base, v, w) \o SelfEvents(f, h, id),
             Seen(f), Seen(h))
    BY <1>3, <1>4, <2>n, GainTale, <1>10, <2>0, <2>2, <2>5, <2>x
  <2> QED
    BY <2>6, <2>v
<1>11. CASE hero.kind = "Regent" /\ hero.charge < 2
  <2> PICK base \in Nat : base = 6 * value
    BY <1>2
  <2> DEFINE e == <<Event("RegentAttackModeSelected", id, 0)>>
  <2>1. hero.kind = "Regent" /\ hero.charge < 2 /\ ~(hero.charge >= 2)
    BY <1>1, <1>11
  <2>2. h = AddCharge(GainShield(NormalAttack(f, p, id, base, 0, 0), id, 5 * value), id, 3)
    BY <1>0, <2>1 DEF PerformAttack
  <2>3. AttackEvents(f, p, id)
          = e \o (NormalAttackEvents(f, p, id, base, 0, 0) \o SelfEvents(f, h, id))
    BY <1>0, <2>1 DEF AttackEvents
  <2> HIDE DEF e
  <2>4. Tale(p, NormalAttackEvents(f, p, id, base, 0, 0) \o SelfEvents(f, h, id),
             Seen(f), Seen(h))
    BY <1>10, <2>1, <2>2
  <2>5. Tale(p, e, Seen(f), Seen(f))
    BY <1>8 DEF e
  <2> QED
    BY <2>3, <2>4, <2>5, TalesJoin
<1>12. CASE hero.kind = "ChickenPot"
  <2> PICK base \in Nat : base = 6 * value
    BY <1>2
  <2>v. PICK v, w : v = 0 /\ w = 0
    OBVIOUS
  <2>n. base \in Nat /\ v \in Nat /\ w \in Nat /\ w # 1
    BY <2>v
  <2>0. PICK g : g = NormalAttack(f, p, id, base, v, w)
    OBVIOUS
  <2> DEFINE x == Gained(hero, hero.hp, hero.shield, hero.charge)
  <2>1. AttackEvents(f, p, id)
          = NormalAttackEvents(f, p, id, base, v, w) \o SelfEvents(f, h, id)
    BY <1>0, <1>12, <2>v DEF AttackEvents
  <2>2. hero.charge = 0 \/ hero.charge > 0
    BY <1>1
  <2>3. CASE hero.charge = 0
    <3>1. h = AddCharge(GainShield(NormalAttack(f, p, id, base, 0, 0), id, 5 * value),
                        id, 1)
      BY <1>0, <1>12, <2>3, <2>v DEF PerformAttack
    <3> QED
      BY <1>10, <1>12, <2>1, <2>v, <3>1
  <2>4. CASE hero.charge > 0
    <3>1. h = g
      BY <1>0, <2>0, <1>12, <2>4, <2>v DEF PerformAttack
    <3>2. x = hero
      BY <1>3 DEF IsHero, Gained
    <3>3. Put(g, id, hero, g)
      BY <2>0, <2>n, StruckUntouched
    <3>4. Put(g, id, x, h)
      BY <3>1, <3>2, <3>3
    <3>x. x = Gained(hero, hero.hp, hero.shield, hero.charge)
      OBVIOUS
    <3> HIDE DEF x
    <3>5. Tale(p, NormalAttackEvents(f, p, id, base, v, w) \o SelfEvents(f, h, id),
               Seen(f), Seen(h))
      BY <1>3, <1>4, <2>n, GainTale, <1>12, <2>0, <3>4, <3>x
    <3> QED
      BY <2>1, <3>5
  <2> QED
    BY <2>2, <2>3, <2>4
<1>13. hero.kind = "Regent" => hero.charge >= 2 \/ hero.charge < 2
  BY <1>1
<1> QED
  BY <1>3, <1>6, <1>7, <1>9, <1>11, <1>12, <1>13

\* An orb is used up.
LEMMA OrbTale ==
  ASSUME NEW f, FieldOK(f), DOMAIN f.heroes \subseteq Nat \ {0}, NEW p,
         NEW id \in DOMAIN f.heroes, NEW g, g = AddCharge(f, id, -1)
  PROVE  Tale(p, OrbEvents(g, id), Seen(f), Seen(g))
<1> DEFINE n == f.heroes[id].charge + (-1)
<1>1. f.heroes[id] \in HeroRecords /\ id \in Nat \ {0} /\ n \in Int
  <2>1. f.heroes[id] \in HeroRecords
    BY FieldParts
  <2>2. f.heroes[id].charge \in Nat
    BY <2>1 DEF HeroRecords
  <2> QED
    BY <2>1, <2>2
<1>2. /\ g.heroes = [f.heroes EXCEPT ![id] = [f.heroes[id] EXCEPT !.charge = n]]
      /\ g.towers = f.towers
  <2>1. g = Replaced(f, id, [f.heroes[id] EXCEPT !.charge = n])
    BY DEF AddCharge, Replaced
  <2> QED
    BY <2>1, Rewritten DEF Put
<1> HIDE DEF n
<1>3. g.heroes = [f.heroes EXCEPT ![id].charge = n]
  BY <1>2
<1>4. g.heroes[id].charge = n
  BY <1>1, <1>2 DEF HeroRecords
<1>5. Tale(p, <<Event("LightningOrbChanged", id, n)>>, View(f.heroes, f.towers),
           View([f.heroes EXCEPT ![id].charge = n], f.towers))
  BY <1>1, OfHero
<1> QED
  BY <1>2, <1>3, <1>4, <1>5 DEF OrbEvents, Seen

LEMMA BoltTale ==
  ASSUME NEW f, FieldOK(f), DOMAIN f.heroes \subseteq Nat \ {0}, NEW p \in Players,
         NEW id \in Living(f, p), NEW target \in LightningTargets(f, p),
         f.towers[Opponent(p)].hp > 0, bolts \in Int
  PROVE  Tale(p, BoltEvents(f, p, id, target), Seen(f), Seen(Lightning(f, p, id, target)))
<1> DEFINE damage == 8 * f.heroes[id].value
           x == Seen(f)
           y == Seen(Lightning(f, p, id, target))
           a == Event("LightningActivated", id, LightningActivationCount + 1 - bolts)
           b == Event("LightningTargetSelected", target, 0)
           e == IF target = TowerTarget(p) THEN TowerHitEvents(f, p, id, damage, "Lightning")
                ELSE HitEvents(f, p, id, target, damage, "Lightning")
<1>1. damage \in Nat /\ id \in DOMAIN f.heroes /\ id \in Nat \ {0}
  BY OwnHero
<1>2. target \in Int /\ (target > 0 => target \in DOMAIN f.heroes)
  <2>1. TowerTarget(p) \in Int /\ ~(TowerTarget(p) > 0)
    BY OpponentType DEF TowerTarget, Players
  <2>2. Living(f, Opponent(p)) \subseteq DOMAIN f.heroes
    BY DEF Living
  <2> QED
    BY <2>1, <2>2 DEF LightningTargets
<1> HIDE DEF damage
<1>3. Tale(p, e, x, y)
  <2>1. CASE target = TowerTarget(p)
    BY <1>1, <2>1, TowerHitTale DEF Lightning, damage
  <2>2. CASE target # TowerTarget(p)
    BY <1>1, <2>2, HitTale DEF Lightning, damage
  <2> QED
    BY <2>1, <2>2
<1>4. DOMAIN x.heroes = DOMAIN f.heroes /\ id \in Int /\ 0 \in Int
      /\ LightningActivationCount + 1 - bolts \in Int
  BY <1>1 DEF Seen, View, LightningActivationCount
<1>5. BoltEvents(f, p, id, target) = <<a, b>> \o e
  BY DEF BoltEvents, damage
<1> HIDE DEF x, y, e
<1>10. a \in Events /\ b \in Events
  BY <1>1, <1>2, <1>4 DEF Event, Events, EventTypes
<1>6. Tale(p, <<a>>, x, x)
  BY <1>1, <1>4, Word
<1>7. Tale(p, <<b>>, x, x)
  BY <1>2, <1>4, Word
<1> HIDE DEF a, b
<1>8. <<a>> \o <<b>> = <<a, b>>
  BY <1>10, TwoJoined
<1>9. Tale(p, <<a, b>>, x, x)
  BY <1>6, <1>7, <1>8, TalesJoin
<1> QED
  BY <1>3, <1>5, <1>9, TalesJoin DEF x, y

-----------------------------------------------------------------------------
(* The end of the combat: the layers wear off.                             *)

Faded(x) == [x EXCEPT !.vulnerable = Greatest(0, @ - 1), !.weak = Greatest(0, @ - 1)]

LEMMA FadingHeroTale ==
  ASSUME NEW p, NEW heroes, heroes = [i \in DOMAIN heroes |-> heroes[i]], NEW towers,
         NEW id \in DOMAIN heroes, id \in Nat \ {0}, heroes[id] \in HeroRecords,
         NEW x, x = Faded(heroes[id])
  PROVE  Tale(p, Less(id, heroes[id], x),
              View(heroes, towers), View([heroes EXCEPT ![id] = x], towers))
<1> DEFINE hero == heroes[id]
           v == Greatest(0, hero.vulnerable - 1)
           w == Greatest(0, hero.weak - 1)
           hs1 == [heroes EXCEPT ![id].vulnerable = v]
           hs2 == [hs1 EXCEPT ![id].weak = w]
           vtype == IF v = 0 THEN "VulnerableExpired" ELSE "VulnerableReduced"
           wtype == IF w = 0 THEN "WeakExpired" ELSE "WeakReduced"
           e1 == When(hero.vulnerable > 0, <<Event(vtype, id, v)>>)
           e2 == When(hero.weak > 0, <<Event(wtype, id, w)>>)
<1>1. /\ hero = [kind |-> hero.kind, value |-> hero.value, position |-> hero.position,
                 hp |-> hero.hp, shield |-> hero.shield, vulnerable |-> hero.vulnerable,
                 weak |-> hero.weak, charge |-> hero.charge]
      /\ hero.vulnerable \in Nat /\ hero.weak \in Nat
  BY DEF HeroRecords
<1>2. /\ v \in Int /\ w \in Int
      /\ ~(hero.vulnerable > 0) => v = hero.vulnerable
      /\ ~(hero.weak > 0) => w = hero.weak
  BY <1>1 DEF Greatest
<1>3. x = [hero EXCEPT !.vulnerable = v, !.weak = w]
  BY DEF Faded
<1> HIDE DEF v, w
<1>4. x.vulnerable = v /\ x.weak = w
  BY <1>1, <1>3
<1>5. /\ DOMAIN hs1 = DOMAIN heroes /\ hs1 = [i \in DOMAIN hs1 |-> hs1[i]]
      /\ hs1[id] = [hero EXCEPT !.vulnerable = v]
  OBVIOUS
<1>6. hs2 = [heroes EXCEPT ![id] = x]
  BY <1>1, <1>3, <1>5
<1>7. ~(hero.vulnerable > 0) => hs1 = heroes
  <2>1. ~(hero.vulnerable > 0) => [hero EXCEPT !.vulnerable = v] = hero
    BY <1>1, <1>2
  <2> QED
    BY <2>1
<1>8. ~(hero.weak > 0) => hs2 = hs1
  <2>1. ~(hero.weak > 0) => [hs1[id] EXCEPT !.weak = w] = hs1[id]
    BY <1>1, <1>2, <1>5
  <2> HIDE DEF hs1
  <2> QED
    BY <1>5, <2>1
<1>9. Tale(p, e1, View(heroes, towers), View(hs1, towers))
  <2>1. /\ Tale(p, <<Event("VulnerableExpired", id, v)>>, View(heroes, towers), View(hs1, towers))
        /\ Tale(p, <<Event("VulnerableReduced", id, v)>>, View(heroes, towers), View(hs1, towers))
    BY <1>2, OfHero
  <2> HIDE DEF hs1
  <2> QED
    BY <1>7, <2>1, NoTale DEF When
<1>10. Tale(p, e2, View(hs1, towers), View(hs2, towers))
  <2>1. id \in DOMAIN hs1
    BY <1>5
  <2> HIDE DEF hs1
  <2>2. /\ Tale(p, <<Event("WeakExpired", id, w)>>, View(hs1, towers), View(hs2, towers))
        /\ Tale(p, <<Event("WeakReduced", id, w)>>, View(hs1, towers), View(hs2, towers))
    BY <1>2, <2>1, OfHero
  <2> HIDE DEF hs2
  <2> QED
    BY <1>8, <2>2, NoTale DEF When
<1>11. Less(id, hero, x) = e1 \o e2
  BY <1>4 DEF Less
<1> HIDE DEF e1, e2, hs1, hs2
<1>12. Tale(p, e1 \o e2, View(heroes, towers), View(hs2, towers))
  BY <1>9, <1>10, TalesJoin
<1> QED
  BY <1>6, <1>11, <1>12

LEMMA FadingTowerTale ==
  ASSUME NEW p \in Players, NEW heroes, NEW towers \in [Players -> TowerRecords],
         NEW q \in Players, NEW x, x = Faded(towers[q])
  PROVE  Tale(p, Less(q - 2, towers[q], x),
              View(heroes, towers), View(heroes, [towers EXCEPT ![q] = x]))
<1> DEFINE tower == towers[q]
           v == Greatest(0, tower.vulnerable - 1)
           w == Greatest(0, tower.weak - 1)
           ts1 == [towers EXCEPT ![q].vulnerable = v]
           ts2 == [ts1 EXCEPT ![q].weak = w]
           vtype == IF v = 0 THEN "VulnerableExpired" ELSE "VulnerableReduced"
           wtype == IF w = 0 THEN "WeakExpired" ELSE "WeakReduced"
           e1 == When(tower.vulnerable > 0, <<Event(vtype, q - 2, v)>>)
           e2 == When(tower.weak > 0, <<Event(wtype, q - 2, w)>>)
<1>1. /\ tower = [hp |-> tower.hp, vulnerable |-> tower.vulnerable, weak |-> tower.weak]
      /\ tower.vulnerable \in Nat /\ tower.weak \in Nat /\ tower.hp \in 0..TowerMaxHp
  BY DEF TowerRecords
<1>2. /\ v \in Nat /\ w \in Nat /\ v \in Int /\ w \in Int
      /\ ~(tower.vulnerable > 0) => v = tower.vulnerable
      /\ ~(tower.weak > 0) => w = tower.weak
  BY <1>1 DEF Greatest
<1>3. x = [tower EXCEPT !.vulnerable = v, !.weak = w]
  BY DEF Faded
<1> HIDE DEF v, w
<1>4. x.vulnerable = v /\ x.weak = w
  BY <1>1, <1>3
<1>5. ts1[q] = [tower EXCEPT !.vulnerable = v]
  OBVIOUS
<1>6. ts1 \in [Players -> TowerRecords]
  <2>1. [tower EXCEPT !.vulnerable = v] \in TowerRecords
    BY <1>1, <1>2 DEF TowerRecords
  <2> QED
    BY <2>1
<1>7. ts2 = [towers EXCEPT ![q] = x]
  BY <1>1, <1>3, <1>5
<1>8. ~(tower.vulnerable > 0) => ts1 = towers
  <2>1. ~(tower.vulnerable > 0) => [tower EXCEPT !.vulnerable = v] = tower
    BY <1>1, <1>2
  <2> QED
    BY <2>1
<1>9. ~(tower.weak > 0) => ts2 = ts1
  <2>1. ~(tower.weak > 0) => [ts1[q] EXCEPT !.weak = w] = ts1[q]
    BY <1>1, <1>2, <1>5
  <2> HIDE DEF ts1
  <2> QED
    BY <1>6, <2>1
<1>10. Tale(p, e1, View(heroes, towers), View(heroes, ts1))
  <2>1. /\ Tale(p, <<Event("VulnerableExpired", q - 2, v)>>, View(heroes, towers), View(heroes, ts1))
        /\ Tale(p, <<Event("VulnerableReduced", q - 2, v)>>, View(heroes, towers), View(heroes, ts1))
    BY <1>2, OfTower
  <2> HIDE DEF ts1
  <2> QED
    BY <1>8, <2>1, NoTale DEF When
<1>11. Tale(p, e2, View(heroes, ts1), View(heroes, ts2))
  <2> HIDE DEF ts1
  <2>1. /\ Tale(p, <<Event("WeakExpired", q - 2, w)>>, View(heroes, ts1), View(heroes, ts2))
        /\ Tale(p, <<Event("WeakReduced", q - 2, w)>>, View(heroes, ts1), View(heroes, ts2))
    BY <1>2, <1>6, OfTower
  <2> HIDE DEF ts2
  <2> QED
    BY <1>9, <2>1, NoTale DEF When
<1>12. Less(q - 2, tower, x) = e1 \o e2
  BY <1>4 DEF Less
<1> HIDE DEF e1, e2, ts1, ts2
<1>13. Tale(p, e1 \o e2, View(heroes, towers), View(heroes, ts2))
  BY <1>10, <1>11, TalesJoin
<1> QED
  BY <1>7, <1>12, <1>13

\* What FlattenSeq joins, joined by steps.
Joins(ss, n, g) == g = [i \in 1..n |-> IF i = 1 THEN ss[i] ELSE g[i - 1] \o ss[i]]

LEMMA Flattening ==
  ASSUME NEW ss, NEW n \in Nat
  PROVE  \E g : Joins(ss, n, g)
<1> DEFINE A == {m \in Nat : \E g : Joins(ss, m, g)}
<1>1. 0 \in A
  <2> DEFINE g == [i \in 1..0 |-> ss[i]]
  <2>1. Joins(ss, 0, g)
    BY DEF Joins
  <2> QED
    BY <2>1
<1>2. ASSUME NEW m \in Nat, m \in A PROVE m + 1 \in A
  <2>1. PICK g : Joins(ss, m, g)
    BY <1>2
  <2> DEFINE next == IF m = 0 THEN ss[1] ELSE g[m] \o ss[m + 1]
             h == [i \in 1..m + 1 |-> IF i <= m THEN g[i] ELSE next]
  <2>2. ASSUME NEW i \in 1..m + 1
        PROVE  h[i] = IF i = 1 THEN ss[i] ELSE h[i - 1] \o ss[i]
    <3>1. CASE i <= m
      <4>1. i \in 1..m /\ h[i] = g[i] /\ (i # 1 => h[i - 1] = g[i - 1])
        BY <3>1
      <4>2. g[i] = IF i = 1 THEN ss[i] ELSE g[i - 1] \o ss[i]
        BY <2>1, <4>1 DEF Joins
      <4> HIDE DEF h
      <4> QED
        BY <4>1, <4>2
    <3>2. CASE ~(i <= m)
      <4>1. i = m + 1 /\ h[i] = next /\ (m # 0 => h[i - 1] = g[m]) /\ (i = 1 <=> m = 0)
        BY <3>2
      <4> HIDE DEF h
      <4> QED
        BY <4>1
    <3> QED
      BY <3>1, <3>2
  <2>3. h = [i \in 1..m + 1 |-> h[i]]
    OBVIOUS
  <2> HIDE DEF h
  <2>4. h = [i \in 1..m + 1 |-> IF i = 1 THEN ss[i] ELSE h[i - 1] \o ss[i]]
    BY <2>2, <2>3
  <2>5. Joins(ss, m + 1, h)
    BY <2>4 DEF Joins
  <2> QED
    BY <2>5
<1> HIDE DEF A
<1>3. n \in A
  BY <1>1, <1>2, CountingInduction
<1> QED
  BY <1>3 DEF A

\* Tales one after another.
LEMMA ManyTales ==
  ASSUME NEW p, NEW ss \in Seq(Seq(Events)), NEW zs,
         \A i \in 1..Len(ss) : Tale(p, ss[i], zs[i - 1], zs[i])
  PROVE  Tale(p, FlattenSeq(ss), zs[0], zs[Len(ss)])
<1> DEFINE n == Len(ss)
<1>0. n \in Nat
  OBVIOUS
<1>1. CASE n = 0
  <2>1. ss = << >>
    BY <1>1
  <2>2. FlattenSeq(ss) = << >>
    BY <1>1, <2>1 DEF FlattenSeq
  <2> QED
    BY <1>1, <2>2, NoTale
<1>2. CASE n # 0
  <2> DEFINE flatten[i \in 1..n] == IF i = 1 THEN ss[i] ELSE flatten[i - 1] \o ss[i]
  <2>1. FlattenSeq(ss) = flatten[n]
    BY <1>2 DEF FlattenSeq
  <2>2. flatten = [i \in 1..n |-> IF i = 1 THEN ss[i] ELSE flatten[i - 1] \o ss[i]]
    <3>1. \E g : g = [i \in 1..n |-> IF i = 1 THEN ss[i] ELSE g[i - 1] \o ss[i]]
      BY <1>0, Flattening DEF Joins
    <3> QED
      BY <3>1
  <2> HIDE DEF flatten
  <2>3. \A i \in 1..n : flatten[i] = IF i = 1 THEN ss[i] ELSE flatten[i - 1] \o ss[i]
    BY <2>2
  <2> DEFINE A == {m \in Nat : m \in 1..n => Tale(p, flatten[m], zs[0], zs[m])}
  <2> HIDE DEF n
  <2>4. 0 \in A
    OBVIOUS
  <2>5. ASSUME NEW m \in Nat, m \in A PROVE m + 1 \in A
    <3> SUFFICES ASSUME m + 1 \in 1..n PROVE Tale(p, flatten[m + 1], zs[0], zs[m + 1])
      OBVIOUS
    <3>1. Tale(p, ss[m + 1], zs[m], zs[m + 1])
      BY <1>0 DEF n
    <3>2. CASE m = 0
      BY <2>3, <3>1, <3>2
    <3>3. CASE m # 0
      <4>1. m \in 1..n /\ flatten[m + 1] = flatten[m] \o ss[m + 1]
        <5>1. m \in 1..n /\ m + 1 # 1 /\ (m + 1) - 1 = m
          BY <1>0, <3>3
        <5>2. flatten[m + 1] = IF m + 1 = 1 THEN ss[m + 1]
                               ELSE flatten[(m + 1) - 1] \o ss[m + 1]
          BY <2>3
        <5> QED
          BY <5>1, <5>2
      <4>2. Tale(p, flatten[m], zs[0], zs[m])
        BY <2>5, <4>1
      <4> QED
        BY <3>1, <4>1, <4>2, TalesJoin
    <3> QED
      BY <3>2, <3>3
  <2> HIDE DEF A
  <2>6. n \in A /\ n \in 1..n
    <3>1. Nat \subseteq A
      BY <2>4, <2>5, CountingInduction
    <3> QED
      BY <1>0, <1>2, <3>1
  <2>7. Tale(p, flatten[n], zs[0], zs[n])
    BY <2>6 DEF A
  <2> QED
    BY <2>1, <2>7 DEF n
<1> QED
  BY <1>1, <1>2

LEMMA FunctionSeq ==
  ASSUME NEW T, NEW n \in Nat, NEW s \in [1..n -> T]
  PROVE  s \in Seq(T) /\ Len(s) = n
OBVIOUS

\* A list of different heroes, one after the other.
AllFaded(heroes) == [i \in DOMAIN heroes |-> Faded(heroes[i])]
AllLess(heroes, ids) ==
  [i \in DOMAIN ids |-> Less(ids[i], heroes[ids[i]], Faded(heroes[ids[i]]))]

LEMMA FadingHeroesTale ==
  ASSUME NEW p, NEW heroes, heroes \in [DOMAIN heroes -> HeroRecords], NEW towers,
         DOMAIN heroes \subseteq Nat \ {0},
         NEW ids \in Seq(DOMAIN heroes), \A a \in DOMAIN heroes : \E i \in 1..Len(ids) : ids[i] = a,
         \A i, j \in 1..Len(ids) : i < j => ids[i] # ids[j],
         NEW ss, ss = AllLess(heroes, ids)
  PROVE  Tale(p, FlattenSeq(ss), View(heroes, towers), View(AllFaded(heroes), towers))
<1> DEFINE n == Len(ids)
           S == DOMAIN heroes
           Part(k) == [i \in S |-> IF \E j \in 1..k : ids[j] = i THEN Faded(heroes[i])
                                   ELSE heroes[i]]
           zs == [k \in 0..n |-> View(Part(k), towers)]
<1>0. n \in Nat /\ DOMAIN ids = 1..n /\ \A i \in 1..n : ids[i] \in S /\ ids[i] \in Nat \ {0}
  BY SMTT(20)
<1>10. ss = [i \in 1..n |-> Less(ids[i], heroes[ids[i]], Faded(heroes[ids[i]]))]
  BY <1>0 DEF AllLess
<1>1. Part(0) = heroes
  OBVIOUS
<1>2. Part(n) = AllFaded(heroes)
  BY DEF AllFaded
<1>3. ASSUME NEW k \in 1..n
      PROVE  Tale(p, ss[k], View(Part(k - 1), towers), View(Part(k), towers))
  <2> DEFINE id == ids[k]
             before == Part(k - 1)
             after == Part(k)
  <2>1. id \in S /\ id \in Nat \ {0} /\ k - 1 \in Nat /\ k \in Nat
    BY <1>0
  <2>2. ~ \E j \in 1..k - 1 : ids[j] = id
    BY <1>0
  <2>3. DOMAIN before = S /\ before[id] = heroes[id] /\ before = [i \in S |-> before[i]]
    BY <2>1, <2>2
  <2>4. after[id] = Faded(heroes[id])
    <3>1. k \in 1..k /\ ids[k] = id
      BY <2>1
    <3> QED
      BY <2>1, <3>1
  <2>5. ASSUME NEW i \in S, i # id PROVE after[i] = before[i]
    <3>1. (\E j \in 1..k : ids[j] = i) <=> (\E j \in 1..k - 1 : ids[j] = i)
      BY <1>0, <2>1, <2>5
    <3> QED
      BY <3>1
  <2>6. after = [before EXCEPT ![id] = Faded(heroes[id])]
    <3>1. after = [i \in S |-> after[i]]
      OBVIOUS
    <3> HIDE DEF after, before
    <3> QED
      BY <2>1, <2>3, <2>4, <2>5, <3>1
  <2>7. ss[k] = Less(id, heroes[id], Faded(heroes[id]))
    BY <1>10
  <2> HIDE DEF after, before
  <2>8. PICK x : x = Faded(heroes[id])
    OBVIOUS
  <2>9. /\ before = [i \in DOMAIN before |-> before[i]] /\ id \in DOMAIN before
        /\ before[id] \in HeroRecords /\ x = Faded(before[id])
    BY <2>1, <2>3, <2>8
  <2> HIDE DEF id
  <2>10. Tale(p, Less(id, before[id], x), View(before, towers),
              View([before EXCEPT ![id] = x], towers))
    BY <2>1, <2>9, FadingHeroTale
  <2>11. Tale(p, ss[k], View(before, towers), View(after, towers))
    BY <2>3, <2>6, <2>7, <2>8, <2>10
  <2> QED
    BY <2>11 DEF before, after
<1> HIDE DEF Part
<1>4. /\ zs[0] = View(heroes, towers)
      /\ zs[n] = View(AllFaded(heroes), towers)
  BY <1>0, <1>1, <1>2
<1>5. \A k \in 1..n : zs[k - 1] = View(Part(k - 1), towers) /\ zs[k] = View(Part(k), towers)
  BY <1>0
<1> HIDE DEF zs
<1>6. \A k \in 1..n : Tale(p, ss[k], zs[k - 1], zs[k])
  BY <1>3, <1>5
<1>7. ss \in Seq(Seq(Events)) /\ Len(ss) = n
  <2>1. DOMAIN ss = 1..n /\ ss = [i \in 1..n |-> ss[i]]
    BY <1>10
  <2>2. \A k \in 1..n : ss[k] \in Seq(Events)
    BY <1>6 DEF Tale
  <2>3. ss \in [1..n -> Seq(Events)]
    BY <2>1, <2>2
  <2> HIDE DEF n
  <2> QED
    BY <1>0, <2>3, FunctionSeq
<1> HIDE DEF n
<1>8. Tale(p, FlattenSeq(ss), zs[0], zs[n])
  BY <1>6, <1>7, ManyTales
<1> QED
  BY <1>4, <1>8

LEMMA WearOffTale ==
  ASSUME NEW f, FieldOK(f), NEW n \in Nat, DOMAIN f.heroes \subseteq 1..n,
         \A a, b \in DOMAIN f.heroes : f.heroes[a].position = f.heroes[b].position => a = b,
         NEW p \in Players, NEW g, g = WearOff(f)
  PROVE  Tale(p, WearOffEvents(f), Seen(f), Seen(g))
<1> DEFINE S == DOMAIN f.heroes
           place == [id \in S |-> f.heroes[id].position]
           ids == InOrder(f, 1, S)
           faded == AllFaded(f.heroes)
           ss == [i \in DOMAIN ids |-> Less(ids[i], f.heroes[ids[i]], g.heroes[ids[i]])]
           ts1 == [f.towers EXCEPT ![0] = Faded(f.towers[0])]
           ts2 == [ts1 EXCEPT ![1] = Faded(ts1[1])]
           e1 == Less(0 - 2, f.towers[0], g.towers[0])
           e2 == Less(1 - 2, f.towers[1], g.towers[1])
<1>1. /\ f.heroes = [i \in S |-> f.heroes[i]] /\ \A i \in S : f.heroes[i] \in HeroRecords
      /\ f.heroes \in [S -> HeroRecords]
      /\ f.towers \in [Players -> TowerRecords] /\ 0 \in Players /\ 1 \in Players
  BY FieldParts DEF TowerRecords, Players
<1>2. IsFiniteSet(S) /\ S \subseteq Nat \ {0}
  <2>1. IsFiniteSet(1..n)
    BY FS_Interval
  <2>2. S \in SUBSET (1..n)
    OBVIOUS
  <2>3. S \subseteq Nat \ {0}
    OBVIOUS
  <2> HIDE DEF S
  <2> QED
    BY <2>1, <2>2, <2>3, FS_Subset
<1>3. place \in [S -> Positions] /\ \A a, b \in S : place[a] = place[b] => a = b
  BY <1>1, HeroTypes
<1>4. ids = Ordered(1, place)
  BY DEF InOrder
<1>5. /\ ids \in Seq(S) /\ Len(ids) = Cardinality(S)
      /\ \A a \in S : \E i \in 1..Len(ids) : ids[i] = a
      /\ \A i, j \in 1..Len(ids) : i < j => Before(1, place[ids[i]], place[ids[j]])
  <2> HIDE DEF S, place, ids
  <2>1. PICK q \in Players : q = 1
    BY <1>1
  <2>2. ids = Ordered(q, place)
    BY <1>4, <2>1
  <2>3. /\ ids \in Seq(S) /\ Len(ids) = Cardinality(S)
        /\ \A a \in S : \E i \in 1..Cardinality(S) : ids[i] = a
        /\ \A i, j \in 1..Cardinality(S) : i < j => Before(q, place[ids[i]], place[ids[j]])
    <3>1. /\ Ordered(q, place) \in Seq(S) /\ Len(Ordered(q, place)) = Cardinality(S)
          /\ \A a \in S : \E i \in 1..Cardinality(S) : Ordered(q, place)[i] = a
          /\ \A i, j \in 1..Cardinality(S) :
               i < j => Before(q, place[Ordered(q, place)[i]], place[Ordered(q, place)[j]])
      BY <1>2, <1>3, OrderedLists
    <3> QED
      BY <2>2, <3>1
  <2> QED
    BY <2>1, <2>3
<1>6. \A i, j \in 1..Len(ids) : i < j => ids[i] # ids[j]
  <2>1. \A a \in S : ~Before(1, place[a], place[a])
    <3> SUFFICES ASSUME NEW a \in S PROVE ~Before(1, place[a], place[a])
      OBVIOUS
    <3>1. place[a] \in Positions
      BY <1>3
    <3> HIDE DEF place
    <3> QED
      BY <1>1, <3>1, BeforeOrders DEF Before
  <2> HIDE DEF S, place, ids
  <2>2. \A i \in 1..Len(ids) : ids[i] \in S
    BY <1>5
  <2> QED
    BY <1>5, <2>1, <2>2
<1>7. g.heroes = faded /\ g.towers = [q \in Players |-> Faded(f.towers[q])]
  <2>1. f \in [heroes : [DOMAIN f.heroes -> HeroRecords],
               towers : [Players -> TowerRecords], dealt : Nat, falls : Nat]
    BY DEF FieldOK, TowerRecords
  <2> QED
    BY <2>1 DEF WearOff, Faded, AllFaded
<1>8. ss = AllLess(f.heroes, ids)
  <2>1. \A i \in DOMAIN ids : ids[i] \in S
    BY <1>5
  <2> HIDE DEF ids
  <2> QED
    BY <1>7, <2>1 DEF AllLess, AllFaded
<1>9. Tale(p, FlattenSeq(ss), View(f.heroes, f.towers), View(faded, f.towers))
  <2> HIDE DEF ids, ss
  <2> QED
    BY <1>1, <1>2, <1>5, <1>6, <1>8, FadingHeroesTale
<1>10. g.towers[0] = Faded(f.towers[0]) /\ g.towers[1] = Faded(f.towers[1])
  BY <1>1, <1>7
<1> HIDE DEF faded
<1>11. Tale(p, e1, View(faded, f.towers), View(faded, ts1))
  BY <1>1, <1>10, FadingTowerTale
<1>12. ts1 \in [Players -> TowerRecords] /\ ts1[1] = f.towers[1]
  <2>1. f.towers[0] \in TowerRecords
    BY <1>1
  <2>2. /\ f.towers[0].vulnerable \in Nat /\ f.towers[0].weak \in Nat
        /\ f.towers[0].hp \in 0..TowerMaxHp
    BY <2>1 DEF TowerRecords
  <2>3. /\ Greatest(0, f.towers[0].vulnerable - 1) \in Nat
        /\ Greatest(0, f.towers[0].weak - 1) \in Nat
    BY <2>2 DEF Greatest
  <2>4. Faded(f.towers[0]) \in TowerRecords
    BY <2>1, <2>3 DEF TowerRecords, Faded
  <2> QED
    BY <1>1, <2>4
<1>13. Tale(p, e2, View(faded, ts1), View(faded, ts2))
  <2> HIDE DEF ts1
  <2> QED
    BY <1>1, <1>10, <1>12, FadingTowerTale
<1>14. ts2 = g.towers
  <2>1. ts1 = [q \in Players |-> ts1[q]] /\ ts1[0] = Faded(f.towers[0])
    BY <1>1, <1>12
  <2> HIDE DEF ts1
  <2> QED
    BY <1>1, <1>7, <1>12, <2>1 DEF Players
<1>15. WearOffEvents(f) = FlattenSeq(ss) \o e1 \o e2
  BY DEF WearOffEvents, HisTower, TowerTarget, Opponent
<1> HIDE DEF ss, e1, e2, ts1, ts2, ids
<1>16. Tale(p, FlattenSeq(ss) \o e1, View(f.heroes, f.towers), View(faded, ts1))
  BY <1>9, <1>11, TalesJoin
<1>17. Tale(p, FlattenSeq(ss) \o e1 \o e2, View(f.heroes, f.towers), View(faded, ts2))
  BY <1>13, <1>16, TalesJoin
<1> QED
  BY <1>7, <1>14, <1>15, <1>17 DEF Seen

-----------------------------------------------------------------------------
(* What is quiet.                                                          *)

Quiet(s) ==
  \A i \in 1..Len(s) :
    /\ s[i].type = "HeroConvertedToBox" => \A j \in i + 1..Len(s) : s[j].whom # s[i].whom
    /\ s[i].type = "TowerDestroyed" =>
         \A j \in i + 1..Len(s) : s[j].type \notin Fighting \cup {"TurnChanged"}
    /\ s[i].type = "GameFinished" => \E j \in 1..i : s[j].type = "TowerDestroyed"

LEMMA TaleQuiet ==
  ASSUME NEW p, NEW s, NEW x, NEW y, Tale(p, s, x, y)
  PROVE  Quiet(s)
<1>1. s \in Seq(Events) /\ \A i \in 1..Len(s) : Fitting(p, x, y, s, i)
  BY DEF Tale
<1> SUFFICES ASSUME NEW i \in 1..Len(s)
             PROVE  /\ s[i].type = "HeroConvertedToBox" =>
                         \A j \in i + 1..Len(s) : s[j].whom # s[i].whom
                    /\ s[i].type = "TowerDestroyed" =>
                         \A j \in i + 1..Len(s) : s[j].type \notin Fighting \cup {"TurnChanged"}
                    /\ s[i].type # "GameFinished"
  BY DEF Quiet
<1>2. \A j \in i + 1..Len(s) : j \in 1..Len(s)
  BY <1>1
<1>3. \A j \in i + 1..Len(s) : s[j].type # "TurnChanged"
  BY <1>1, <1>2 DEF Fitting
<1> QED
  BY <1>1, <1>3 DEF Fitting

\* The combat is over, and the turn or the game.
LEMMA ClosedQuiet ==
  ASSUME NEW p, NEW s, NEW x, NEW y, Tale(p, s, x, y), Standing(p, x),
         NEW type, type = IF Standing(p, y) THEN "TurnChanged" ELSE "GameFinished",
         NEW r, r = s \o <<Event("CombatFinished", NoOne, 0)>> \o <<Event(type, NoOne, 0)>>
  PROVE  /\ r \in Seq(Events) /\ Quiet(r) /\ r # << >> /\ r[Len(r)].type = type
         /\ s # << >> => r[1] = s[1]
<1> DEFINE n == Len(s)
           a == Event("CombatFinished", NoOne, 0)
           b == Event(type, NoOne, 0)
<1>1. s \in Seq(Events) /\ n \in Nat /\ \A i \in 1..n : Fitting(p, x, y, s, i)
  BY DEF Tale
<1>10. r = s \o <<a>> \o <<b>>
  OBVIOUS
<1>2. /\ a \in Events /\ b \in Events /\ a.type = "CombatFinished" /\ b.type = type
      /\ a.whom = 0 /\ b.whom = 0
  BY DEF Event, Events, EventTypes, NoOne
<1> HIDE DEF a, b
<1>3. /\ r \in Seq(Events) /\ Len(r) = n + 2
      /\ \A i \in 1..n : r[i] = s[i]
      /\ r[n + 1] = a /\ r[n + 2] = b
  <2>1. /\ <<a>> \in Seq(Events) /\ Len(<<a>>) = 1 /\ <<a>>[1] = a
        /\ <<b>> \in Seq(Events) /\ Len(<<b>>) = 1 /\ <<b>>[1] = b
    BY <1>2
  <2>2. PICK u, v : u = <<a>> /\ v = <<b>>
    OBVIOUS
  <2>3. PICK t : t = s \o u
    OBVIOUS
  <2>4. /\ u \in Seq(Events) /\ Len(u) = 1 /\ u[1] = a
        /\ v \in Seq(Events) /\ Len(v) = 1 /\ v[1] = b /\ r = t \o v
    BY <1>10, <2>1, <2>2, <2>3
  <2>5. /\ t \in Seq(Events) /\ Len(t) = n + 1
        /\ \A i \in 1..n : t[i] = s[i]
        /\ t[n + 1] = a
    <3>1. 1 \in 1..Len(u)
      BY <2>4
    <3> QED
      BY <1>1, <2>3, <2>4, <3>1, Joined
  <2>6. /\ r \in Seq(Events) /\ Len(r) = (n + 1) + 1
        /\ \A i \in 1..n + 1 : r[i] = t[i]
        /\ r[(n + 1) + 1] = b
    <3>1. 1 \in 1..Len(v)
      BY <2>4
    <3> QED
      BY <1>1, <2>4, <2>5, <3>1, Joined
  <2>7. n + 1 \in 1..n + 1 /\ (\A i \in 1..n : i \in 1..n + 1) /\ (n + 1) + 1 = n + 2
    BY <1>1
  <2> QED
    BY <2>5, <2>6, <2>7
<1>4. \A i \in 1..n + 2 : i \in 1..n \/ i = n + 1 \/ i = n + 2
  BY <1>1
<1>5. ASSUME NEW i \in 1..n + 2, r[i].type = "HeroConvertedToBox", NEW j \in i + 1..n + 2
      PROVE  r[j].whom # r[i].whom
  <2>1. i \in 1..n
    BY <1>2, <1>3, <1>4, <1>5
  <2>2. s[i].whom > 0 /\ \A k \in i + 1..n : s[k].whom # s[i].whom
    BY <1>1, <1>3, <1>5, <2>1 DEF Fitting
  <2>3. j \in i + 1..n \/ j = n + 1 \/ j = n + 2
    <3>1. i \in Nat /\ n \in Nat
      BY <1>1, <2>1
    <3> HIDE DEF n
    <3> QED
      BY <3>1
  <2>4. j \in i + 1..n => j \in 1..n
    BY <1>1, <2>1
  <2> QED
    BY <1>2, <1>3, <2>1, <2>2, <2>3, <2>4
<1>6. ASSUME NEW i \in 1..n + 2, r[i].type = "TowerDestroyed", NEW j \in i + 1..n + 2
      PROVE  r[j].type \notin Fighting \cup {"TurnChanged"}
  <2>1. i \in 1..n
    BY <1>2, <1>3, <1>4, <1>6
  <2>2. ~Standing(p, y) /\ \A k \in i + 1..n : s[k].type \notin Fighting
    BY <1>1, <1>3, <1>6, <2>1 DEF Fitting
  <2>3. j \in i + 1..n \/ j = n + 1 \/ j = n + 2
    <3>1. i \in Nat /\ n \in Nat
      BY <1>1, <2>1
    <3> HIDE DEF n
    <3> QED
      BY <3>1
  <2>4. CASE j \in i + 1..n
    <3>1. j \in 1..n
      BY <1>1, <2>1, <2>4
    <3> QED
      BY <1>1, <1>3, <2>2, <2>4, <3>1 DEF Fitting
  <2>5. CASE j = n + 1 \/ j = n + 2
    BY <1>2, <1>3, <2>2, <2>5 DEF Fighting
  <2> QED
    BY <2>3, <2>4, <2>5
<1>7. ASSUME NEW i \in 1..n + 2, r[i].type = "GameFinished"
      PROVE  \E j \in 1..i : r[j].type = "TowerDestroyed"
  <2>1. i = n + 2 /\ type = "GameFinished"
    BY <1>1, <1>2, <1>3, <1>4, <1>7 DEF Fitting
  <2>2. PICK k \in 1..n : s[k].type = "TowerDestroyed"
    BY <2>1 DEF Tale
  <2>3. k \in 1..i /\ r[k] = s[k]
    BY <1>1, <1>3, <2>1
  <2> QED
    BY <2>2, <2>3
<1>8. r # << >> /\ (s # << >> => 1 \in 1..n)
  BY <1>1, <1>3
<1> HIDE DEF n
<1>9. Quiet(r)
  <2> SUFFICES ASSUME NEW i \in 1..n + 2
               PROVE  /\ r[i].type = "HeroConvertedToBox" =>
                           \A j \in i + 1..n + 2 : r[j].whom # r[i].whom
                      /\ r[i].type = "TowerDestroyed" =>
                           \A j \in i + 1..n + 2 : r[j].type \notin Fighting \cup {"TurnChanged"}
                      /\ r[i].type = "GameFinished" => \E j \in 1..i : r[j].type = "TowerDestroyed"
    BY <1>3, SMTT(20) DEF Quiet
  <2> QED
    BY <1>5, <1>6, <1>7
<1> QED
  BY <1>2, <1>3, <1>8, <1>9

-----------------------------------------------------------------------------
(* The invariant.                                                          *)

\* In a combat the log is the tale of it so far; after it, that and its end.
LogInv ==
  /\ log \in Seq(Events)
  /\ phase = "Combat" => Standing(mover, start) /\ Tale(mover, log, start, Seen(field))
  /\ phase # "Combat" =>
       /\ Quiet(log)
       /\ log # << >> /\ log[1].type = "CombatStarted" => Follows(log, start, Seen(field))
       /\ phase = "Finished" => log[Len(log)].type = "GameFinished"
       /\ phase = "Elimination" /\ turn > 1 => log[Len(log)].type = "TurnChanged"

LEMMA LogInit0 == LogInit => LogInv
<1> SUFFICES ASSUME LogInit PROVE LogInv
  OBVIOUS
<1>1. log = << >> /\ phase = "WaitingForPlayers"
  BY DEF LogInit, Init
<1>2. << >> \in Seq(Events) /\ Len(<< >>) = 0 /\ 1..0 = {}
  OBVIOUS
<1>3. Quiet(log)
  BY <1>1, <1>2 DEF Quiet
<1> QED
  BY <1>1, <1>2, <1>3 DEF LogInv

\* What an event of a combat adds to its tale.
LEMMA TaleGoesOn ==
  ASSUME LogInv, phase = "Combat", phase' = "Combat", mover' = mover, start' = start,
         NEW s, log' = log \o s, Tale(mover, s, Seen(field), Seen(field'))
  PROVE  LogInv'
<1>1. Standing(mover, start) /\ Tale(mover, log, start, Seen(field))
  BY DEF LogInv
<1>2. Tale(mover, log', start, Seen(field'))
  BY <1>1, TalesJoin
<1>3. log' \in Seq(Events)
  BY <1>2 DEF Tale
<1> QED
  BY <1>1, <1>2, <1>3 DEF LogInv

LEMMA Arranged ==
  ASSUME NEW f, FieldOK(f), NEW heroes, NEW m,
         m = [f EXCEPT !.heroes = heroes, !.dealt = 0, !.falls = 0]
  PROVE  m = Seen(m) /\ m.towers = f.towers
<1>1. f = [heroes |-> f.heroes, towers |-> f.towers, dealt |-> f.dealt, falls |-> f.falls]
  BY FieldParts DEF IsField
<1>2. m = [heroes |-> heroes, towers |-> f.towers, dealt |-> 0, falls |-> 0]
  BY <1>1
<1> QED
  BY <1>2 DEF Seen, View

LEMMA LoggedEliminationStep ==
  ASSUME CombatInv, CombatInv', LogInv, NEW path, NEW kind, LoggedElimination(path, kind)
  PROVE  LogInv'
<1>1. phase = "Elimination" /\ Eliminate(path, kind)
  BY DEF LoggedElimination, Eliminate
<1>2. CASE turn = 1
  <2> DEFINE a == Event("OpeningTurnCompleted", NoOne, 0)
             b == Event("TurnChanged", NoOne, 0)
  <2>1. log' = <<a, b>> /\ phase' = "Elimination"
    BY <1>1, <1>2 DEF LoggedElimination, Eliminate, PassTurn
  <2>2. /\ a \in Events /\ b \in Events
        /\ a.type = "OpeningTurnCompleted" /\ b.type = "TurnChanged"
    BY DEF Event, Events, EventTypes, NoOne
  <2> HIDE DEF a, b
  <2>3. log' \in Seq(Events) /\ Len(log') = 2 /\ log'[1] = a /\ log'[2] = b
    BY <2>1, <2>2
  <2>4. Quiet(log')
    <3> SUFFICES ASSUME NEW i \in 1..2
                 PROVE  log'[i].type \notin {"HeroConvertedToBox", "TowerDestroyed", "GameFinished"}
      BY <2>3 DEF Quiet
    <3>1. i = 1 \/ i = 2
      OBVIOUS
    <3> QED
      BY <2>2, <2>3, <3>1
  <2> QED
    BY <2>1, <2>2, <2>3, <2>4 DEF LogInv
<1>3. CASE turn # 1
  <2> DEFINE e == Event("CombatStarted", NoOne, 0)
             x == Seen(field')
             heroes == Resolve(field.heroes, mover, path, kind, turn)
             arranged == [field EXCEPT !.heroes = heroes, !.dealt = 0, !.falls = 0]
  <2>1. /\ log' = <<e>> /\ phase' = "Combat" /\ mover' = mover
        /\ field' = arranged /\ start' = arranged
    BY <1>1, <1>3 DEF LoggedElimination, Eliminate
  <2> HIDE DEF heroes
  <2>2. FieldOK(field)
    BY DEF CombatInv, TypeOK
  <2>3. PICK m : m = arranged
    OBVIOUS
  <2>9. m = Seen(m) /\ m.towers = field.towers
    BY <2>2, <2>3, Arranged
  <2> HIDE DEF arranged
  <2>4. start' = x /\ field'.towers = field.towers
    BY <2>1, <2>3, <2>9
  <2>5. Tale(mover, <<e>>, x, x)
    <3>1. NoOne \in Int /\ 0 \in Int /\ ~(NoOne > 0)
      BY DEF NoOne
    <3> HIDE DEF x
    <3> QED
      BY <3>1, Word
  <2>6. Standing(mover, start')
    <3>1. field.towers[Opponent(mover)].hp > 0
      BY <1>1 DEF CombatInv, TowerInv
    <3>2. start'.towers = field.towers
      BY <2>1, <2>4
    <3> QED
      BY <3>1, <3>2 DEF Standing
  <2> HIDE DEF x
  <2>7. Tale(mover', log', start', x) /\ Standing(mover', start')
    BY <2>1, <2>4, <2>5, <2>6
  <2>8. log' \in Seq(Events)
    BY <2>7 DEF Tale
  <2> QED
    BY <2>1, <2>7, <2>8 DEF LogInv, x
<1> QED
  BY <1>2, <1>3

LEMMA LoggedAttackStep ==
  ASSUME CombatInv, CombatInv', LogInv, LoggedAttack
  PROVE  LogInv'
<1> DEFINE id == Head(queue)
           strikes == id \in Living(field, mover)
           struck == IF strikes THEN PerformAttack(field, mover, id) ELSE field
           bursts == strikes /\ Charged(field, id)
           e1 == When(strikes, AttackEvents(field, mover, id))
           e2 == When(bolts' > 0, <<Event("LightningAttackStarted", id, 0)>>)
           e3 == When(bursts /\ bolts' = 0, OrbEvents(field', id))
<1>1. /\ phase = "Combat" /\ phase' = "Combat" /\ mover' = mover /\ start' = start
      /\ bolts = 0 /\ field.towers[Opponent(mover)].hp # 0
      /\ log' = log \o e1 \o e2 \o e3
  BY DEF LoggedAttack, Attack, GameFinished
<1>2. \/ bursts /\ field' = struck /\ bolts' = LightningActivationCount
      \/ field' = (IF bursts THEN AddCharge(struck, id, -1) ELSE struck) /\ bolts' = bolts
  BY DEF LoggedAttack, Attack
<1>3. /\ FieldOK(field) /\ mover \in Players /\ Opponent(mover) \in Players
      /\ DOMAIN field.heroes \subseteq Nat \ {0}
  <2>1. FieldOK(field) /\ mover \in Players /\ turn \in Nat /\ DOMAIN field.heroes \subseteq 1..turn
    BY <1>1 DEF CombatInv, TypeOK
  <2> QED
    BY <2>1, OpponentType
<1>4. field.towers[Opponent(mover)].hp > 0
  BY <1>1, <1>3, TowerTypes
<1>5. PICK g : g = struck
  OBVIOUS
<1>6. Tale(mover, e1, Seen(field), Seen(g))
  <2>1. CASE strikes
    <3>1. PICK hero : hero = field.heroes[id]
      OBVIOUS
    <3>2. Tale(mover, AttackEvents(field, mover, id), Seen(field), Seen(g))
      <4>1. g = PerformAttack(field, mover, id)
        BY <1>5, <2>1
      <4> QED
        BY <1>3, <1>4, <2>1, <3>1, <4>1, AttackTale
    <3> QED
      BY <2>1, <3>2 DEF When
  <2>2. CASE ~strikes
    BY <1>5, <2>2, NoTale DEF When
  <2> QED
    BY <2>1, <2>2
<1>7. FieldOK(g) /\ Living(g, mover) = Living(field, mover) /\ DOMAIN g.heroes \subseteq Nat \ {0}
  <2>1. Hit(mover, field, g)
    <3>1. CASE strikes
      BY <1>3, <1>4, <1>5, <3>1, PerformAttackHits
    <3>2. CASE ~strikes
      BY <1>3, <1>5, <3>2, HitNothing
    <3> QED
      BY <3>1, <3>2
  <2> QED
    BY <1>3, <2>1, HitLiving DEF Hit
<1>8. bursts => id \in DOMAIN g.heroes /\ id \in Nat \ {0}
  BY <1>7 DEF Living
<1>9. \/ bursts /\ field' = g /\ bolts' = 2
      \/ bursts /\ field' = AddCharge(g, id, -1) /\ bolts' = 0
      \/ ~bursts /\ field' = g /\ bolts' = 0
  BY <1>1, <1>2, <1>5 DEF LightningActivationCount
<1> HIDE DEF struck, strikes, e1
<1>10. Tale(mover, e2 \o e3, Seen(g), Seen(field'))
  <2>1. CASE bursts /\ field' = g /\ bolts' = 2
    <3>1. e2 = <<Event("LightningAttackStarted", id, 0)>> /\ e3 = << >>
      BY <2>1 DEF When
    <3>2. Tale(mover, <<Event("LightningAttackStarted", id, 0)>>, Seen(g), Seen(g))
      <4>1. PICK x : x = Seen(g)
        OBVIOUS
      <4>2. id \in Int /\ 0 \in Int /\ id \in DOMAIN x.heroes
        BY <1>8, <2>1, <4>1 DEF Seen, View
      <4> HIDE DEF id
      <4>3. Tale(mover, <<Event("LightningAttackStarted", id, 0)>>, x, x)
        BY <4>2, Word
      <4> QED
        BY <4>1, <4>3
    <3>3. Tale(mover, e2, Seen(g), Seen(g)) /\ Tale(mover, e3, Seen(g), Seen(g))
      BY <3>1, <3>2, NoTale
    <3> QED
      BY <2>1, <3>3, TalesJoin
  <2>2. CASE bursts /\ field' = AddCharge(g, id, -1) /\ bolts' = 0
    <3>1. e2 = << >> /\ e3 = OrbEvents(field', id)
      BY <2>2 DEF When
    <3>2. PICK h : h = AddCharge(g, id, -1)
      OBVIOUS
    <3>3. Tale(mover, OrbEvents(h, id), Seen(g), Seen(h))
      BY <1>7, <1>8, <2>2, <3>2, OrbTale
    <3>4. Tale(mover, e2, Seen(g), Seen(g)) /\ Tale(mover, e3, Seen(g), Seen(field'))
      BY <2>2, <3>1, <3>2, <3>3, NoTale
    <3> QED
      BY <3>4, TalesJoin
  <2>3. CASE ~bursts /\ field' = g /\ bolts' = 0
    <3>1. e2 = << >> /\ e3 = << >>
      BY <2>3 DEF When
    <3>2. Tale(mover, e2, Seen(g), Seen(g)) /\ Tale(mover, e3, Seen(g), Seen(g))
      BY <3>1, NoTale
    <3> QED
      BY <2>3, <3>2, TalesJoin
  <2> QED
    BY <1>9, <2>1, <2>2, <2>3
<1> HIDE DEF e2, e3
<1>11. Tale(mover, e1 \o (e2 \o e3), Seen(field), Seen(field'))
  BY <1>6, <1>10, TalesJoin
<1>12. log' = log \o (e1 \o (e2 \o e3))
  <2>1. log \in Seq(Events) /\ e1 \in Seq(Events)
    BY <1>6 DEF LogInv, Tale
  <2> QED
    BY <1>1
<1> QED
  BY <1>1, <1>11, <1>12, TaleGoesOn

LEMMA LoggedBoltStep ==
  ASSUME CombatInv, LogInv, NEW target \in LightningTargets(field, mover), LoggedBolt(target)
  PROVE  LogInv'
<1> DEFINE id == Head(queue)
           struck == Lightning(field, mover, id, target)
           e1 == BoltEvents(field, mover, id, target)
           e2 == When(bolts' = 0, OrbEvents(field', id))
<1>1. /\ phase = "Combat" /\ phase' = "Combat" /\ mover' = mover /\ start' = start
      /\ bolts > 0 /\ log' = log \o e1 \o e2
  BY DEF LoggedBolt, Strike
<1>2. \/ field' = AddCharge(struck, id, -1) /\ bolts' = 0
      \/ field' = struck /\ bolts # 1 /\ bolts' = bolts - 1
  BY DEF LoggedBolt, Strike
<1>3. /\ FieldOK(field) /\ mover \in Players /\ bolts \in Int
      /\ DOMAIN field.heroes \subseteq Nat \ {0}
      /\ id \in Living(field, mover) /\ field.towers[Opponent(mover)].hp > 0
  BY <1>1 DEF CombatInv, TypeOK, TowerInv, LightningActivationCount
<1>4. PICK g : g = struck
  OBVIOUS
<1>5. Tale(mover, e1, Seen(field), Seen(g))
  BY <1>3, <1>4, BoltTale
<1>6. FieldOK(g) /\ id \in DOMAIN g.heroes /\ DOMAIN g.heroes \subseteq Nat \ {0}
  <2>1. Hit(mover, field, g)
    BY <1>3, <1>4, LightningHits
  <2> QED
    BY <1>3, <2>1 DEF Hit
<1>7. \/ field' = AddCharge(g, id, -1) /\ bolts' = 0
      \/ field' = g /\ bolts' # 0
  BY <1>2, <1>3, <1>4
<1> HIDE DEF struck, e1
<1>8. Tale(mover, e2, Seen(g), Seen(field'))
  <2>1. CASE field' = AddCharge(g, id, -1) /\ bolts' = 0
    <3>1. PICK h : h = AddCharge(g, id, -1)
      OBVIOUS
    <3>2. Tale(mover, OrbEvents(h, id), Seen(g), Seen(h))
      BY <1>6, <3>1, OrbTale
    <3> QED
      BY <2>1, <3>1, <3>2 DEF When
  <2>2. CASE field' = g /\ bolts' # 0
    BY <2>2, NoTale DEF When
  <2> QED
    BY <1>7, <2>1, <2>2
<1> HIDE DEF e2
<1>9. Tale(mover, e1 \o e2, Seen(field), Seen(field'))
  BY <1>5, <1>8, TalesJoin
<1>10. log' = log \o (e1 \o e2)
  <2>1. log \in Seq(Events) /\ e1 \in Seq(Events) /\ e2 \in Seq(Events)
    BY <1>5, <1>8 DEF LogInv, Tale
  <2> QED
    BY <1>1, <2>1
<1> QED
  BY <1>1, <1>9, <1>10, TaleGoesOn

\* The turn or the game is over: nothing changes.
LEMMA LastWord ==
  ASSUME NEW type \in {"GameFinished", "TurnChanged"}, NEW x
  PROVE  Follows(<<Event(type, NoOne, 0)>>, x, x) /\ <<Event(type, NoOne, 0)>> \in Seq(Events)
<1> DEFINE e == Event(type, NoOne, 0)
           s == <<e>>
           fs == [i \in 0..1 |-> x]
<1>1. e \in Events /\ Told(x, e) = x
  BY DEF Event, Events, EventTypes, NoOne, Told
<1> HIDE DEF e
<1>2. s \in Seq(Events) /\ Len(s) = 1 /\ s[1] = e
  BY <1>1
<1> HIDE DEF s
<1>3. fs[0] = x /\ fs[1] = x /\ \A i \in 1..1 : i = 1 /\ i - 1 = 0
  OBVIOUS
<1> HIDE DEF fs
<1>4. Follows(s, x, x)
  BY <1>1, <1>2, <1>3 DEF Follows
<1> QED
  BY <1>2, <1>4 DEF s, e

LEMMA LoggedEndStep ==
  ASSUME CombatInv, CombatInv', LogInv, LoggedEnd
  PROVE  LogInv'
<1> DEFINE type == IF phase' = "Finished" THEN "GameFinished" ELSE "TurnChanged"
           a == Event("CombatFinished", NoOne, 0)
           b == Event(type, NoOne, 0)
           s == log \o WearOffEvents(field)
<1>1. /\ phase = "Combat" /\ start' = start /\ field' = ConvertDead(WearOff(field))
      /\ log' = s \o <<a>> \o <<b>>
      /\ \/ phase' = "Finished" /\ field.towers[Opponent(mover)].hp = 0
         \/ phase' = "Elimination" /\ field.towers[Opponent(mover)].hp # 0
  BY DEF LoggedEnd, EndCombat, GameFinished, PassTurn
<1>2. /\ FieldOK(field) /\ mover \in Players /\ turn \in Nat /\ Opponent(mover) \in Players
      /\ DOMAIN field.heroes \subseteq 1..turn
      /\ \A i, j \in DOMAIN field.heroes :
           field.heroes[i].position = field.heroes[j].position => i = j
  BY <1>1, OpponentType DEF CombatInv, TypeOK, OnePerCell
<1>3. PICK g : g = WearOff(field)
  OBVIOUS
<1>4. Tale(mover, WearOffEvents(field), Seen(field), Seen(g))
  BY <1>2, <1>3, WearOffTale
<1>5. FieldOK(g) /\ \A q \in Players : g.towers[q].hp = field.towers[q].hp
  BY <1>2, <1>3, WearOffKeeps
<1>6. Seen(field') = Seen(g)
  <2>1. /\ FieldOK(field') /\ DOMAIN field'.heroes = DOMAIN g.heroes
        /\ \A i \in DOMAIN g.heroes : field'.heroes[i] = g.heroes[i]
        /\ field'.towers = g.towers
    BY <1>1, <1>3, <1>5, ConvertNobody
  <2>2. field'.heroes = g.heroes
    BY <1>5, <2>1, FieldParts
  <2> QED
    BY <2>1, <2>2 DEF Seen
<1>7. PICK y : y = Seen(field')
  OBVIOUS
<1>8. Standing(mover, start) /\ Tale(mover, log, start, Seen(field))
  BY <1>1 DEF LogInv
<1>9. Tale(mover, s, start, y)
  BY <1>4, <1>6, <1>7, <1>8, TalesJoin
<1>10. /\ type \in {"GameFinished", "TurnChanged"}
       /\ type = "GameFinished" <=> ~Standing(mover, y)
       /\ type = "GameFinished" <=> phase' = "Finished"
  <2>1. Standing(mover, y) <=> field.towers[Opponent(mover)].hp > 0
    BY <1>2, <1>5, <1>6, <1>7 DEF Standing, Seen, View
  <2>2. field.towers[Opponent(mover)].hp \in Nat
    BY <1>2, TowerTypes
  <2> QED
    BY <1>1, <2>1, <2>2
<1> HIDE DEF s, type
<1>11. /\ log' \in Seq(Events) /\ Quiet(log') /\ log' # << >> /\ log'[Len(log')].type = type
  <2>1. PICK r : r = s \o <<a>> \o <<b>>
    OBVIOUS
  <2>2. PICK p, x, w, kind : p = mover /\ x = start /\ w = s /\ kind = type
    OBVIOUS
  <2>3. /\ Tale(p, w, x, y) /\ Standing(p, x)
        /\ kind = IF Standing(p, y) THEN "TurnChanged" ELSE "GameFinished"
        /\ r = w \o <<Event("CombatFinished", NoOne, 0)>> \o <<Event(kind, NoOne, 0)>>
    BY <1>8, <1>9, <1>10, <2>1, <2>2
  <2>4. r \in Seq(Events) /\ Quiet(r)
    <3>1. Quiet(r)
      BY <2>3, ClosedQuiet
    <3>2. r \in Seq(Events)
      BY <2>3, ClosedQuiet
    <3> QED
      BY <3>1, <3>2
  <2>5. r # << >> /\ r[Len(r)].type = kind
    BY <2>3, ClosedQuiet
  <2> QED
    BY <1>1, <2>1, <2>2, <2>4, <2>5
<1>12. Follows(log', start, y)
  <2>1. NoOne \in Int /\ 0 \in Int /\ ~(NoOne > 0)
    BY DEF NoOne
  <2>2. Tale(mover, <<a>>, y, y)
    BY <2>1, Word
  <2>3. Follows(<<b>>, y, y) /\ <<b>> \in Seq(Events)
    BY <1>10, LastWord
  <2>4. Tale(mover, s \o <<a>>, start, y)
    <3> HIDE DEF a
    <3> QED
      BY <1>9, <2>2, TalesJoin
  <2>5. PICK t, v : t = s \o <<a>> /\ v = <<b>>
    OBVIOUS
  <2>6. /\ t \in Seq(Events) /\ Follows(t, start, y)
        /\ v \in Seq(Events) /\ Follows(v, y, y)
    BY <2>3, <2>4, <2>5 DEF Tale
  <2>7. log' = t \o v
    BY <1>1, <2>5
  <2> HIDE DEF a, b
  <2> QED
    BY <2>6, <2>7, FollowsOn
<1>13. /\ phase' # "Combat"
       /\ phase' = "Elimination" => type = "TurnChanged"
  BY <1>1, <1>10
<1> QED
  BY <1>1, <1>7, <1>10, <1>11, <1>12, <1>13 DEF LogInv

-----------------------------------------------------------------------------
(* The theorems.                                                           *)

LEMMA StepLog == CombatInv /\ CombatInv' /\ LogInv /\ [LogNext]_logVars => LogInv'
<1> SUFFICES ASSUME CombatInv, CombatInv', LogInv, [LogNext]_logVars PROVE LogInv'
  OBVIOUS
<1>1. CASE Start /\ UNCHANGED log
  <2>1. /\ phase = "WaitingForPlayers" /\ phase' = "Elimination" /\ turn' = 1
        /\ UNCHANGED <<log, start, field>>
    BY <1>1 DEF Start, history, CombatInv, TurnInv
  <2> QED
    BY <2>1 DEF LogInv
<1>2. ASSUME NEW path \in Paths(mover), NEW kind \in Kinds, LoggedElimination(path, kind)
      PROVE  LogInv'
  BY <1>2, LoggedEliminationStep
<1>3. CASE LoggedAttack
  BY <1>3, LoggedAttackStep
<1>4. ASSUME NEW target \in LightningTargets(field, mover), LoggedBolt(target)
      PROVE  LogInv'
  BY <1>4, LoggedBoltStep
<1>5. CASE LoggedEnd
  BY <1>5, LoggedEndStep
<1>6. CASE UNCHANGED logVars
  BY <1>6 DEF logVars, vars, history, LogInv
<1> QED
  BY <1>1, <1>2, <1>3, <1>4, <1>5, <1>6 DEF LogNext

\* The log watches the combat: what the turns do with it they do without it.
THEOREM LogWatches == LogSpec => Spec
<1>1. LogInit => Init
  BY DEF LogInit
<1>2. [LogNext]_logVars => [Next]_vars
  BY DEF LogNext, Next, logVars, LoggedElimination, LoggedAttack, LoggedBolt, LoggedEnd
<1> QED
  BY <1>1, <1>2, PTL DEF LogSpec, Spec

\* Whatever the board, the tower and the number of turns, the log of a combat is
\* a tale of it.
THEOREM LogInvariance == LogSpec => []LogInv
<1>1. LogSpec => []CombatInv
  BY LogWatches, Invariance, PTL
<1> QED
  BY <1>1, LogInit0, StepLog, PTL DEF LogSpec

\* A dead hero and a fallen tower are left alone by the log, and it ends as the
\* turn or the game does.
THEOREM LogEndsQuiet == LogSpec => []QuietAfterTheEnd
<1>1. CombatInv /\ LogInv => QuietAfterTheEnd
  <2> SUFFICES ASSUME CombatInv, LogInv PROVE QuietAfterTheEnd
    OBVIOUS
  <2>1. log \in Seq(Events) /\ Quiet(log)
    BY TaleQuiet DEF LogInv
  <2> QED
    BY <2>1 DEF QuietAfterTheEnd, Quiet, LogInv, Fighting
<1> QED
  BY <1>1, LogWatches, Invariance, LogInvariance, PTL

\* What a reader makes of s, from x.
Retells(x, s, told) ==
  told = [i \in 0..Len(s) |-> IF i = 0 THEN x ELSE Told(told[i - 1], s[i])]

LEMMA Retelling ==
  ASSUME NEW s \in Seq(Events), NEW x, NEW y, Follows(s, x, y)
  PROVE  /\ \E told : Retells(x, s, told)
         /\ \A told : Retells(x, s, told) => told[Len(s)] = y
<1>1. PICK fs : /\ fs[0] = x /\ fs[Len(s)] = y
                /\ \A i \in 1..Len(s) : fs[i] = Told(fs[i - 1], s[i])
  BY DEF Follows
<1> DEFINE n == Len(s)
           gs == [i \in 0..n |-> fs[i]]
<1>2. n \in Nat
  OBVIOUS
<1>3. Retells(x, s, gs)
  <2> SUFFICES ASSUME NEW i \in 0..n
               PROVE  gs[i] = IF i = 0 THEN x ELSE Told(gs[i - 1], s[i])
    BY DEF Retells
  <2>1. CASE i = 0
    BY <1>1, <2>1
  <2>2. CASE i # 0
    <3>1. i \in 1..n /\ i - 1 \in 0..n
      BY <1>2, <2>2
    <3>2. gs[i] = fs[i] /\ gs[i - 1] = fs[i - 1]
      BY <3>1
    <3> HIDE DEF gs
    <3> QED
      BY <1>1, <2>2, <3>1, <3>2
  <2> QED
    BY <2>1, <2>2
<1>4. ASSUME NEW told, Retells(x, s, told)
      PROVE  told[n] = y
  <2> DEFINE A == {m \in Nat : m <= n => told[m] = fs[m]}
  <2>1. 0 \in A
    BY <1>1, <1>2, <1>4 DEF Retells
  <2>2. ASSUME NEW m \in Nat, m \in A
        PROVE  m + 1 \in A
    <3> SUFFICES ASSUME m + 1 <= n PROVE told[m + 1] = fs[m + 1]
      OBVIOUS
    <3>1. told[m] = fs[m] /\ m + 1 \in 1..n /\ (m + 1) - 1 = m
      BY <1>2, <2>2
    <3>2. told[m + 1] = Told(told[m], s[m + 1])
      BY <1>2, <1>4, <3>1 DEF Retells
    <3> QED
      BY <1>1, <3>1, <3>2
  <2>3. n \in A
    <3> HIDE DEF A, n
    <3> QED
      BY <1>2, <2>1, <2>2, CountingInduction
  <2> QED
    BY <1>1, <2>3
<1> QED
  BY <1>3, <1>4

\* Nothing that happens in a combat goes untold, whatever the board: who follows
\* the log from the board after the elimination always has the heroes and towers
\* of the field.
THEOREM LogTellsAll == LogSpec => []ReplayGivesField
<1>1. LogInv => ReplayGivesField
  <2> SUFFICES ASSUME LogInv, log # << >> /\ log[1].type = "CombatStarted"
               PROVE  ReplayGivesField
    BY DEF ReplayGivesField
  <2> DEFINE told == CHOOSE g : Retells(start, log, g)
  <2>1. log \in Seq(Events) /\ Follows(log, start, Seen(field))
    BY DEF LogInv, Tale
  <2>2. told[Len(log)] = Seen(field)
    BY <2>1, Retelling
  <2>3. told[Len(log)].heroes = field.heroes /\ told[Len(log)].towers = field.towers
    <3> HIDE DEF told
    <3> QED
      BY <2>2 DEF Seen, View
  <2> QED
    BY <2>3 DEF ReplayGivesField, Retells
<1> QED
  BY <1>1, LogInvariance, PTL
=============================================================================
