----------------------- MODULE HunterAwareness_proofs -----------------------
(***************************************************************************)
(* Proofs about HunterAwareness for every set of herds, every length of a  *)
(* reaction and every stuck interval: its type invariant, that a pursuit   *)
(* keeps the place it remembers, that an animal that would flee does not   *)
(* pursue, and that the leg of a flee is aimed anew in time.               *)
(***************************************************************************)
EXTENDS HunterAwareness, TLAPS

-----------------------------------------------------------------------------
(* The inductive invariant.                                                *)

Packs  == [alert : BOOLEAN, _alert : BOOLEAN, attack : BOOLEAN, _attack : BOOLEAN]
States == {0, 1, 2, 3, 5}
Goals  == {"own", "event", "search", "hunter", "away", "pack"}

(* What holds of an animal whatever it is doing, its hunter being h: the   *)
(* leg of a flee is the history's, outside the family whose animator also  *)
(* sets the clock back; an animal that pursues has no authored reason to   *)
(* flee; and, while the hunter lives, one that is aware of him is awake    *)
(* and afraid still, and one that pursues remembers.                       *)
Sound(a, h) ==
  /\ herd.family # "ambient" => a.unclosed = a.leg
  /\ herd.family # "trex" /\ IsFixedHunterPursuit(a) => ~Is("passive") /\ ~FearsHit(a)
  /\ h = "alive" /\ IsHunterAware(a) => a.state # 0 /\ a.afraid > 0
  /\ h = "alive" /\ herd.family # "brahi" /\ IsFixedHunterPursuit(a) =>
       a.goal \in {"event", "search"}

IInv ==
  /\ TypeOK
  /\ cur \in Members
  /\ \A i \in Members : Sound(animals[i], hunter)

(* An animal in its turn: sound, of a hunter who does not rise again.      *)
Turns == [a : Animal, p : Packs, hunter : {"alive", "dead"}, loops : BOOLEAN]
Good ==
  { x \in Turns :
      /\ Sound(x.a, x.hunter)
      /\ x.hunter = "alive" => hunter = "alive" }

-----------------------------------------------------------------------------
(* One animal: what makes it sound.                                        *)

LEMMA Sizes ==
  MaxAfraid \in Nat /\ MaxAfraid \in 0 .. MaxAfraid /\ MaxAfraid > 0
  /\ Stuck \in Nat /\ 0 \in 0 .. Stuck - 1 /\ 0 \in 0 .. Stuck
BY HerdConstants

(* An animal that is not aware of the hunter.                              *)
LEMMA UnawareSound ==
  ASSUME NEW a, NEW h, a.aware = "none", a.unclosed = a.leg \/ herd.family = "ambient"
  PROVE  Sound(a, h)
BY DEF Sound, IsFixedHunterPursuit, IsHunterAware, Pursuits

LEMMA BornSound ==
  ASSUME NEW health \in {"full", "hurt", "dead"}, NEW h
  PROVE  /\ [Born EXCEPT !.health = health] \in Animal
         /\ Sound([Born EXCEPT !.health = health], h)
<1> DEFINE b == [Born EXCEPT !.health = health]
<1>1. b \in Animal
  BY Sizes DEF Born, Animal
<1>2. b.aware = "none" /\ b.unclosed = b.leg
  BY DEF Born
<1> QED
  BY <1>1, <1>2, UnawareSound

LEMMA NewbornSound == Born \in Animal /\ \A h : Sound(Born, h)
<1>1. Born \in Animal
  BY Sizes DEF Born, Animal
<1>2. Born.aware = "none" /\ Born.unclosed = Born.leg
  BY DEF Born
<1> QED
  BY <1>1, <1>2, UnawareSound

(* An animal that tracks the hunter, or flees.                             *)
LEMMA AwareSound ==
  ASSUME NEW a \in Animal, NEW h, ~IsFixedHunterPursuit(a),
         a.unclosed = a.leg \/ herd.family = "ambient",
         h = "alive" => a.state # 0 /\ a.afraid > 0
  PROVE  Sound(a, h)
BY DEF Sound

LEMMA TrackSound ==
  ASSUME NEW a \in Animal, NEW h, h = "alive" => a.state # 0
  PROVE  Track(a) \in Animal /\ Sound(Track(a), h)
<1> DEFINE b == Track(a)
<1>1. b \in Animal
  BY Sizes DEF Track, Animal
<1>2. b.aware = "tracking" /\ b.unclosed = b.leg /\ b.state = a.state /\ b.afraid > 0
  BY Sizes DEF Track, Animal
<1> QED
  BY <1>1, <1>2, AwareSound DEF IsFixedHunterPursuit, Pursuits

LEMMA RouseSound ==
  ASSUME NEW a \in Animal, NEW h, NEW s \in States \ {0}
  PROVE  [Track(a) EXCEPT !.state = s] \in Animal /\ Sound([Track(a) EXCEPT !.state = s], h)
<1> DEFINE b == [Track(a) EXCEPT !.state = s]
<1>1. b \in Animal
  BY Sizes DEF Track, Animal, States
<1>2. b.aware = "tracking" /\ b.unclosed = b.leg /\ b.state = s /\ b.afraid > 0
  BY Sizes DEF Track, Animal
<1> QED
  BY <1>1, <1>2, AwareSound DEF IsFixedHunterPursuit, Pursuits

(* What is sound of a living hunter is sound of a dead one.                *)
LEMMA OutlivesHunter ==
  ASSUME NEW a, NEW h, NEW k, Sound(a, h), k = "alive" => h = "alive"
  PROVE  Sound(a, k)
BY DEF Sound

-----------------------------------------------------------------------------
(* An animal in its turn: what an assignment to one of its fields needs.   *)

LEMMA Parts ==
  ASSUME NEW x \in Good
  PROVE  /\ x.a \in Animal /\ x.p \in Packs /\ x.hunter \in {"alive", "dead"}
         /\ Sound(x.a, x.hunter)
         /\ x.a.state \in States /\ x.a.goal \in Goals /\ x.a.afraid \in 0 .. MaxAfraid
BY DEF Good, Turns, Animal, States, Goals

LEMMA Replace ==
  ASSUME NEW x \in Good, NEW b \in Animal, Sound(b, x.hunter)
  PROVE  [x EXCEPT !.a = b] \in Good
BY DEF Good, Turns

LEMMA Retarget ==
  ASSUME NEW x \in Good, NEW g \in Goals,
         IsFixedHunterPursuit(x.a) => \/ g \in {"event", "search"} \/ x.hunter = "dead"
                                      \/ herd.family = "brahi"
  PROVE  /\ [x EXCEPT !.a.goal = g] \in Good
         /\ [x EXCEPT !.a.goal = g].a.aware = x.a.aware
         /\ [x EXCEPT !.a.goal = g].a.state = x.a.state
<1> DEFINE b == [x.a EXCEPT !.goal = g]
<1>1. x.a \in Animal
  BY Parts
<1>2. b \in Animal
  BY <1>1 DEF Animal, Goals
<1>3. Sound(b, x.hunter)
  BY <1>1 DEF Good, Sound, Animal, IsFixedHunterPursuit, IsHunterAware, FearsHit
<1>4. [x EXCEPT !.a.goal = g] = [x EXCEPT !.a = b]
  OBVIOUS
<1>5. [x EXCEPT !.a = b].a = b
  BY DEF Good, Turns
<1>6. b.aware = x.a.aware /\ b.state = x.a.state
  BY <1>1 DEF Animal
<1> QED
  BY <1>2, <1>3, <1>4, <1>5, <1>6, Replace

LEMMA Restate ==
  ASSUME NEW x \in Good, NEW s \in States,
         x.hunter = "alive" /\ IsHunterAware(x.a) => s # 0
  PROVE  /\ [x EXCEPT !.a.state = s] \in Good
         /\ [x EXCEPT !.a.state = s].a.aware = x.a.aware
         /\ [x EXCEPT !.a.state = s].a.state = s
         /\ [x EXCEPT !.a.state = s].hunter = x.hunter
<1> DEFINE b == [x.a EXCEPT !.state = s]
<1>1. x.a \in Animal
  BY Parts
<1>2. b \in Animal
  BY <1>1 DEF Animal, States
<1>3. Sound(b, x.hunter)
  BY <1>1 DEF Good, Sound, Animal, IsFixedHunterPursuit, IsHunterAware, FearsHit
<1>4. [x EXCEPT !.a.state = s] = [x EXCEPT !.a = b]
  OBVIOUS
<1>5. [x EXCEPT !.a = b].a = b /\ [x EXCEPT !.a = b].hunter = x.hunter
  BY DEF Good, Turns
<1>6. b.aware = x.a.aware /\ b.state = s
  BY <1>1 DEF Animal
<1> QED
  BY <1>2, <1>3, <1>4, <1>5, <1>6, Replace

LEMMA Refear ==
  ASSUME NEW x \in Good, NEW f \in 0 .. MaxAfraid,
         x.hunter = "alive" /\ IsHunterAware(x.a) => f > 0
  PROVE  /\ [x EXCEPT !.a.afraid = f] \in Good
         /\ [x EXCEPT !.a.afraid = f].a.aware = x.a.aware
         /\ [x EXCEPT !.a.afraid = f].a.state = x.a.state
         /\ [x EXCEPT !.a.afraid = f].hunter = x.hunter
<1> DEFINE b == [x.a EXCEPT !.afraid = f]
<1>1. x.a \in Animal
  BY Parts
<1>2. b \in Animal
  BY <1>1 DEF Animal
<1>3. Sound(b, x.hunter)
  BY <1>1 DEF Good, Sound, Animal, IsFixedHunterPursuit, IsHunterAware, FearsHit
<1>4. [x EXCEPT !.a.afraid = f] = [x EXCEPT !.a = b]
  OBVIOUS
<1>5. [x EXCEPT !.a = b].a = b /\ [x EXCEPT !.a = b].hunter = x.hunter
  BY DEF Good, Turns
<1>6. b.aware = x.a.aware /\ b.state = x.a.state
  BY <1>1 DEF Animal
<1> QED
  BY <1>2, <1>3, <1>4, <1>5, <1>6, Replace

(* An animal that is asleep is not aware of a hunter who lives.            *)
LEMMA Asleep ==
  ASSUME NEW x \in Good, x.a.state = 0 \/ x.a.afraid = 0
  PROVE  x.hunter = "alive" => ~IsHunterAware(x.a) /\ ~IsFixedHunterPursuit(x.a)
BY Parts DEF Sound, IsHunterAware, IsFixedHunterPursuit, Pursuits

LEMMA AlarmGood ==
  ASSUME NEW x \in Good
  PROVE  Alarm(x) \in Good /\ Alarm(x).a = x.a /\ Alarm(x).hunter = x.hunter
BY DEF Good, Turns, Packs, Alarm

LEMMA CallAttackGood ==
  ASSUME NEW x \in Good, NEW e
  PROVE  CallAttack(x, e) \in Good /\ CallAttack(x, e).a = x.a /\ CallAttack(x, e).hunter = x.hunter
BY DEF Good, Turns, Packs, CallAttack

-----------------------------------------------------------------------------
(* The turn before the animator: timeout, contact, tick, navigator.        *)

LEMMA OutOfTimeGood ==
  ASSUME NEW x \in Good, NEW e
  PROVE  OutOfTime(x, e) \in Good
<1>1. CASE ~IsTimedHunterReaction(x.a) /\ e.settled
  <2>1. "own" \in Goals /\ ~IsFixedHunterPursuit(x.a)
    BY <1>1 DEF Goals, IsTimedHunterReaction, IsFixedHunterPursuit
  <2> QED
    BY <1>1, <2>1, Retarget DEF OutOfTime
<1> QED
  BY <1>1 DEF OutOfTime

LEMMA ApplyContactGood ==
  ASSUME NEW x \in Good, NEW e
  PROVE  ApplyContact(x, e) \in Good
<1>1. CASE x.hunter = "alive" /\ IsFixedHunterPursuit(x.a) /\ Is("bites") /\ e.near = "reach"
  <2>1. x.a \in Animal /\ x.a.state # 0
    BY <1>1, Parts, Asleep
  <2>2. Track(x.a) \in Animal /\ Sound(Track(x.a), x.hunter)
    BY <2>1, TrackSound
  <2> QED
    BY <1>1, <2>2, Replace DEF ApplyContact
<1> QED
  BY <1>1 DEF ApplyContact

LEMMA TickGood ==
  ASSUME NEW x \in Good
  PROVE  TickHunterAwareness(x) \in Good
<1> DEFINE left == IF x.a.afraid > 1 THEN x.a.afraid - 1 ELSE 0
<1>1. x.a \in Animal /\ x.a.afraid \in 0 .. MaxAfraid
  BY Parts
<1>2. left \in 0 .. MaxAfraid
  BY <1>1, Sizes
<1>3. CASE left > 0
  <2>1. PICK f \in 0 .. MaxAfraid : f = left
    BY <1>2
  <2>2. TickHunterAwareness(x) = [x EXCEPT !.a.afraid = f]
    BY <1>3, <2>1 DEF TickHunterAwareness
  <2> QED
    BY <1>3, <2>1, <2>2, Refear, ZenonT(40)
<1>4. CASE ~(left > 0) /\ IsTimedHunterReaction(x.a)
  <2>1. TickHunterAwareness(x) = [x EXCEPT !.a = ClearHunterReaction(x.a)]
    BY <1>4 DEF TickHunterAwareness
  <2>2. x.a.health \in {"full", "hurt", "dead"}
    BY <1>1 DEF Animal
  <2>3. ClearHunterReaction(x.a) \in Animal /\ Sound(ClearHunterReaction(x.a), x.hunter)
    BY <2>2, BornSound DEF ClearHunterReaction
  <2> QED
    BY <2>1, <2>3, Replace
<1>5. CASE ~(left > 0) /\ ~IsTimedHunterReaction(x.a)
  <2>1. PICK y : y = [x EXCEPT !.a.afraid = 0]
    OBVIOUS
  <2>2. y \in Turns /\ y.hunter = x.hunter /\ y.a.unclosed = x.a.unclosed /\ y.a.leg = x.a.leg
    BY <1>1, <2>1, Sizes DEF Good, Turns, Animal
  <2> DEFINE b == [y.a EXCEPT !.aware = "none"]
  <2>3. PICK r \in Turns : /\ r = [y EXCEPT !.a.aware = "none"]
                           /\ r.hunter = y.hunter /\ r.a.aware = "none"
                           /\ r.a.unclosed = y.a.unclosed /\ r.a.leg = y.a.leg
    <3>1. y.a \in Animal
      BY <2>2 DEF Turns
    <3>2. b \in Animal /\ b.aware = "none" /\ b.unclosed = y.a.unclosed /\ b.leg = y.a.leg
      BY <3>1 DEF Animal
    <3>3. PICK r : r = [y EXCEPT !.a = b]
      OBVIOUS
    <3>4. r \in Turns /\ r.a = b /\ r.hunter = y.hunter
      BY <2>2, <3>2, <3>3 DEF Turns
    <3>5. r = [y EXCEPT !.a.aware = "none"]
      BY <3>3
    <3> QED
      BY <3>2, <3>4, <3>5
  <2>4. Sound(r.a, r.hunter)
    BY <2>2, <2>3, Parts, UnawareSound DEF Sound
  <2>5. TickHunterAwareness(x) = r
    BY <1>5, <2>1, <2>3 DEF TickHunterAwareness
  <2> QED
    BY <2>2, <2>3, <2>4, <2>5 DEF Good
<1> QED
  BY <1>3, <1>4, <1>5

LEMMA FollowGood ==
  ASSUME NEW x \in Good, NEW e, ~IsFixedHunterPursuit(x.a)
  PROVE  SetPackLeaderTarget(x, e) \in Good
BY Retarget DEF SetPackLeaderTarget, Goals

LEMMA LiveTargetGood ==
  ASSUME NEW x \in Good, NEW e, ~IsFixedHunterPursuit(x.a)
  PROVE  LiveTarget(x, e) \in Good
<1>1. {"hunter", "away"} \subseteq Goals
  BY DEF Goals
<1>2. \A g \in {"hunter", "away"} : [x EXCEPT !.a.goal = g] \in Good
  BY <1>1, Retarget
<1>3. CASE herd.family = "fish"
  <2>1. PICK g \in {"hunter", "away"} :
          g = IF TracksHunterExactly(x.a) /\ Is("dangerFish") THEN "hunter" ELSE "away"
    OBVIOUS
  <2> QED
    BY <1>2, <1>3, <2>1 DEF LiveTarget
<1>4. CASE herd.family = "trex"
  BY <1>2, <1>4, FollowGood DEF LiveTarget
<1>5. CASE herd.family \notin {"fish", "trex"}
  <2>1. PICK y \in Good : y = CallAttack(x, e) /\ y.a = x.a
    BY CallAttackGood
  <2>2. PICK g \in {"hunter", "away"} : g = IF ShouldFleeHunter(y, e) THEN "away" ELSE "hunter"
    OBVIOUS
  <2>3. [y EXCEPT !.a.goal = g] \in Good /\ SetPackLeaderTarget(y, e) \in Good
    BY <1>1, <2>1, Retarget, FollowGood
  <2> QED
    BY <1>5, <2>1, <2>2, <2>3 DEF LiveTarget
<1> QED
  BY <1>3, <1>4, <1>5

LEMMA LiveNavigationGood ==
  ASSUME NEW x \in Good, NEW e
  PROVE  UpdateLiveHunterNavigation(x, e) \in Good
BY LiveTargetGood DEF UpdateLiveHunterNavigation

(* A flee that is aimed anew, or whose leg is one frame older.             *)
LEMMA NextLegSound ==
  ASSUME NEW a \in Animal, NEW h, IsFixedHunterFlee(a), Sound(a, h), NEW e
  PROVE  NextLeg(a, e) \in Animal /\ Sound(NextLeg(a, e), h)
<1>1. ~IsFixedHunterPursuit(a) /\ IsHunterAware(a)
  BY DEF IsFixedHunterFlee, IsFixedHunterPursuit, IsHunterAware, Flights, Pursuits
<1>2. CASE e.there \/ a.leg + 1 = Stuck
  <2> DEFINE b == Aim(a)
  <2>1. NextLeg(a, e) = b
    BY <1>2 DEF NextLeg
  <2>2. b \in Animal
    BY Sizes DEF Aim, Animal
  <2>3. b.unclosed = b.leg /\ b.aware = a.aware /\ b.state = a.state /\ b.afraid = a.afraid
    BY DEF Aim, Animal
  <2> QED
    BY <1>1, <2>1, <2>2, <2>3, AwareSound DEF Sound, IsFixedHunterPursuit
<1>3. CASE ~(e.there \/ a.leg + 1 = Stuck)
  <2>1. a.leg \in 0 .. Stuck - 1 /\ a.unclosed \in 0 .. Stuck
    BY DEF Animal
  <2>2. PICK l \in 0 .. Stuck - 1 : l = a.leg + 1
    BY <1>3, <2>1, Sizes
  <2>3. PICK u \in 0 .. Stuck : u = IF a.unclosed < Stuck THEN a.unclosed + 1 ELSE a.unclosed
    BY <2>1, Sizes
  <2> DEFINE b == [a EXCEPT !.leg = l, !.unclosed = u]
  <2>4. NextLeg(a, e) = b
    BY <1>3, <2>2, <2>3 DEF NextLeg
  <2>5. b \in Animal
    BY DEF Animal
  <2>6. b.leg = l /\ b.unclosed = u /\ b.aware = a.aware /\ b.state = a.state /\ b.afraid = a.afraid
    BY DEF Animal
  <2>7. b.unclosed = b.leg \/ herd.family = "ambient"
    BY <2>1, <2>2, <2>3, <2>6, Sizes DEF Sound
  <2> QED
    BY <1>1, <2>4, <2>5, <2>6, <2>7, AwareSound DEF Sound, IsFixedHunterPursuit
<1> QED
  BY <1>2, <1>3

LEMMA NavigationGood ==
  ASSUME NEW x \in Good, NEW e
  PROVE  UpdateHunterNavigation(x, e) \in Good
<1>1. PICK y \in Good : y = (IF IsTimedHunterReaction(x.a) THEN Alarm(x) ELSE x) /\ y.a = x.a
  BY AlarmGood
<1>2. CASE IsFixedHunterFlee(x.a)
  <2>1. y.a \in Animal /\ Sound(y.a, y.hunter)
    BY Parts
  <2>2. [y EXCEPT !.a = NextLeg(y.a, e)] \in Good
    BY <1>1, <1>2, <2>1, NextLegSound, Replace
  <2>3. UpdateHunterNavigation(x, e) = [y EXCEPT !.a = NextLeg(y.a, e)]
    BY <1>1, <1>2 DEF UpdateHunterNavigation
  <2> QED
    BY <2>2, <2>3
<1>3. CASE ~IsFixedHunterFlee(x.a)
  <2>1. PICK z : z = IF IsFixedHunterPursuit(x.a) /\ e.there
                       THEN [y EXCEPT !.a.goal = "search"] ELSE y
    OBVIOUS
  <2>2. [y EXCEPT !.a.goal = "search"] \in Good
    BY Retarget DEF Goals
  <2>3. z \in Good
    BY <2>1, <2>2
  <2>4. UpdateHunterNavigation(x, e) = UpdateLiveHunterNavigation(z, e)
    BY <1>1, <1>3, <2>1 DEF UpdateHunterNavigation
  <2> QED
    BY <2>3, <2>4, LiveNavigationGood
<1> QED
  BY <1>2, <1>3

-----------------------------------------------------------------------------
(* What the animators share.                                               *)

LEMMA BiteGood ==
  ASSUME NEW x \in Good, NEW e
  PROVE  Bite(x, e) \in Good /\ (Bite(x, e).hunter = "alive" => Bite(x, e) = x)
<1>1. CASE CanKillHunter(x, e)
  <2>1. PICK s \in States : s = IF e.bites = "grab" THEN 1 ELSE 0
    BY DEF States
  <2> DEFINE y == [x EXCEPT !.hunter = "dead"]
  <2>2. y \in Good /\ y.hunter = "dead" /\ y.a = x.a
    BY OutlivesHunter DEF Good, Turns
  <2>3. Bite(x, e) = [y EXCEPT !.a.state = s]
    BY <1>1, <2>1 DEF Bite
  <2>4. [y EXCEPT !.a.state = s] \in Good /\ [y EXCEPT !.a.state = s].hunter = "dead"
    BY <2>2, Restate
  <2> QED
    BY <2>3, <2>4
<1> QED
  BY <1>1 DEF Bite

LEMMA SwapGood ==
  ASSUME NEW x \in Good, NEW e
  PROVE  Swap(x, e) \in Good /\ Swap(x, e).hunter = x.hunter
<1>1. [x EXCEPT !.a = Born] \in Good /\ [x EXCEPT !.a = Born].hunter = x.hunter
  BY NewbornSound, Replace DEF Good, Turns
<1> QED
  BY <1>1 DEF Swap

LEMMA WanderGood ==
  ASSUME NEW x \in Good, NEW e, x.a.state = 0
  PROVE  Wander(x, e) \in Good
<1>1. IsFixedHunterPursuit(x.a) => x.hunter = "dead"
  BY Asleep, Parts
<1> QED
  BY <1>1, Retarget DEF Wander, Goals

(* An animal that calms down, wherever it goes then.                       *)
LEMMA SleepGood ==
  ASSUME NEW x \in Good, x.a.afraid = 0, NEW g \in Goals
  PROVE  [x EXCEPT !.a.state = 0, !.a.goal = g] \in Good
<1>1. /\ x.hunter = "alive" => ~IsHunterAware(x.a) /\ ~IsFixedHunterPursuit(x.a)
      /\ x.hunter \in {"alive", "dead"}
  BY Asleep, Parts
<1>2. PICK y \in Good : y = [x EXCEPT !.a.state = 0] /\ y.a.aware = x.a.aware /\ y.hunter = x.hunter
  BY <1>1, Restate DEF States
<1>3. IsFixedHunterPursuit(y.a) => y.hunter = "dead"
  BY <1>1, <1>2 DEF IsFixedHunterPursuit
<1>4. [y EXCEPT !.a.goal = g] \in Good
  BY <1>3, Retarget
<1>5. [y EXCEPT !.a.goal = g] = [x EXCEPT !.a.state = 0, !.a.goal = g]
  BY <1>2
<1> QED
  BY <1>4, <1>5

LEMMA FleeInPackGood ==
  ASSUME NEW x \in Good
  PROVE  FleeInPack(x) \in Good
<1>1. CASE x.a.afraid = 0 /\ ~(InPack /\ x.p._alert)
  <2>1. x.a.goal \in Goals /\ "own" \in Goals
    BY Parts DEF Goals
  <2>2. PICK g \in Goals : g = IF Is("carnivore") \/ herd.family = "brahi" THEN x.a.goal ELSE "own"
    BY <2>1
  <2>3. FleeInPack(x) = [x EXCEPT !.a.state = 0, !.a.goal = g]
    BY <1>1, <2>2 DEF FleeInPack
  <2> QED
    BY <1>1, <2>3, SleepGood
<1> QED
  BY <1>1, AlarmGood DEF FleeInPack

(* A hunter who is dead, or a State that is 0, ends every reaction.        *)
LEMMA StillGood ==
  ASSUME NEW x \in Good, x.hunter = "dead" \/ x.a.state = 0
  PROVE  [x EXCEPT !.a.state = 0] \in Good
<1>1. x.hunter = "alive" => ~IsHunterAware(x.a)
  BY Asleep
<1> QED
  BY <1>1, Restate DEF States

-----------------------------------------------------------------------------
(* AnimateHuntable.                                                        *)

LEMMA StillCalm ==
  ASSUME NEW x \in Good, x.a.state = 0
  PROVE  [x EXCEPT !.a.afraid = 0] \in Good /\ [x EXCEPT !.a.afraid = 0].a.state = 0
<1>1. x.hunter = "alive" => ~IsHunterAware(x.a)
  BY Asleep
<1>2. PICK f \in 0 .. MaxAfraid : f = 0
  BY Sizes
<1>3. [x EXCEPT !.a.afraid = f] \in Good /\ [x EXCEPT !.a.afraid = f].a.state = 0
  BY <1>1, Refear
<1> QED
  BY <1>2, <1>3

LEMMA HuntableReactsGood ==
  ASSUME NEW x \in Good, NEW e
  PROVE  HuntableReacts(x, e) \in Good
<1>1. CASE x.hunter = "dead" \/ x.a.state = 0
  BY <1>1, StillGood DEF HuntableReacts
<1>2. CASE ~(x.hunter = "dead" \/ x.a.state = 0)
  <2>1. PICK y \in Good : y = CallAttack(x, e)
    BY CallAttackGood
  <2>2. PICK z \in Good :
          z = IF ShouldFleeHunter(y, e) THEN FleeInPack(y)
              ELSE IF TracksHunterExactly(y.a) /\ Is("carnivore") THEN Alarm(y) ELSE y
    BY FleeInPackGood, AlarmGood
  <2>3. HuntableReacts(x, e) = Bite(z, e)
    BY <1>2, <2>1, <2>2 DEF HuntableReacts
  <2> QED
    BY <2>3, BiteGood
<1> QED
  BY <1>1, <1>2

(* Scared where it stands: what it was doing is forgotten.                 *)
LEMMA ScaredGood ==
  ASSUME NEW x \in Good
  PROVE  [x EXCEPT !.a = [Track(@) EXCEPT !.state = 1]] \in Good
<1>1. x.a \in Animal /\ 1 \in States \ {0}
  BY Parts DEF States
<1>2. [Track(x.a) EXCEPT !.state = 1] \in Animal /\ Sound([Track(x.a) EXCEPT !.state = 1], x.hunter)
  BY <1>1, RouseSound
<1>3. [x EXCEPT !.a = [Track(x.a) EXCEPT !.state = 1]] \in Good
  BY <1>2, Replace
<1> QED
  BY <1>3

LEMMA HuntableRestsGood ==
  ASSUME NEW x \in Good, NEW e
  PROVE  HuntableRests(x, e) \in Good
<1>1. CASE x.a.state # 0
  BY <1>1 DEF HuntableRests
<1>2. CASE x.a.state = 0
  <2>1. PICK y \in Good : /\ y = IF Is("forgets") THEN [x EXCEPT !.a.afraid = 0] ELSE x
                          /\ y.a.state = 0
    BY <1>2, StillCalm
  <2>2. CASE ~(Is("deer") /\ e.near = "reach")
    <3>1. HuntableRests(x, e) = Wander(y, e)
      BY <1>2, <2>1, <2>2 DEF HuntableRests
    <3> QED
      BY <2>1, <3>1, WanderGood
  <2>3. CASE Is("deer") /\ e.near = "reach"
    <3>1. PICK s \in Good : s = [y EXCEPT !.a = [Track(@) EXCEPT !.state = 1]]
      BY ScaredGood
    <3>2. PICK z \in Good : z = HuntableReacts(s, e)
      BY HuntableReactsGood
    <3>3. [y EXCEPT !.loops = TRUE] \in Good
      BY DEF Good, Turns
    <3>4. HuntableRests(x, e) = IF z.a.state = 0 THEN [y EXCEPT !.loops = TRUE] ELSE z
      BY <1>2, <2>1, <2>3, <3>1, <3>2 DEF HuntableRests
    <3> QED
      BY <3>3, <3>4
  <2> QED
    BY <2>2, <2>3
<1> QED
  BY <1>1, <1>2

(* Whoever is woken is in State 1.                                         *)
LEMMA WakeGood ==
  ASSUME NEW x \in Good
  PROVE  /\ [x EXCEPT !.a.state = 1] \in Good
         /\ [x EXCEPT !.a.state = 1].a.aware = x.a.aware
         /\ [x EXCEPT !.a.state = 1].hunter = x.hunter
<1>1. PICK s \in States : s = 1
  BY DEF States
<1>2. /\ [x EXCEPT !.a.state = s] \in Good
      /\ [x EXCEPT !.a.state = s].a.aware = x.a.aware
      /\ [x EXCEPT !.a.state = s].hunter = x.hunter
  BY <1>1, Restate
<1> QED
  BY <1>1, <1>2

LEMMA AnimateHuntableGood ==
  ASSUME NEW x \in Good, NEW e
  PROVE  AnimateHuntable(x, e) \in Good
<1> DEFINE alertInit == x.a.state = 2 \/ (InPack /\ x.a.state = 0 /\ x.p._alert)
<1>1. PICK y \in Good : y = IF alertInit /\ (x.hunter = "alive" \/ Is("carnivore"))
                              THEN [x EXCEPT !.a.state = 1] ELSE x
  BY WakeGood
<1>2. AnimateHuntable(x, e) = HuntableRests(Swap(HuntableReacts(y, e), e), e)
  BY <1>1 DEF AnimateHuntable
<1>3. HuntableReacts(y, e) \in Good
  BY HuntableReactsGood
<1>4. Swap(HuntableReacts(y, e), e) \in Good
  BY <1>3, SwapGood
<1> QED
  BY <1>2, <1>4, HuntableRestsGood

-----------------------------------------------------------------------------
(* AnimateTRex.                                                            *)

LEMMA TRexWakesGood ==
  ASSUME NEW x \in Good
  PROVE  TRexWakes(x) \in Good
<1>1. CASE x.a.state = 5 \/ (InPack /\ x.a.state = 0 /\ x.p._alert)
  <2>1. x.a.afraid \in 0 .. MaxAfraid /\ 1 \in 0 .. MaxAfraid
    BY Parts, Sizes
  <2>2. PICK f \in 0 .. MaxAfraid :
          f = IF IsFixedHunterPursuit(x.a) \/ TracksHunterExactly(x.a) THEN x.a.afraid ELSE 1
    BY <2>1
  <2>3. PICK y \in Good : /\ y = [x EXCEPT !.a.state = 1]
                          /\ y.a.aware = x.a.aware /\ y.hunter = x.hunter
    BY WakeGood
  <2>4. y.hunter = "alive" /\ IsHunterAware(y.a) => f > 0
    BY <2>1, <2>2, <2>3, Parts DEF Sound, IsHunterAware
  <2>5. [y EXCEPT !.a.afraid = f] \in Good
    BY <2>4, Refear
  <2>6. TRexWakes(x) = [y EXCEPT !.a.afraid = f]
    BY <1>1, <2>2, <2>3 DEF TRexWakes
  <2> QED
    BY <2>5, <2>6
<1> QED
  BY <1>1 DEF TRexWakes

LEMMA TRexReactsGood ==
  ASSUME NEW x \in Good, NEW e
  PROVE  TRexReacts(x, e) \in Good
<1>1. CASE x.a.state = 0
  BY <1>1 DEF TRexReacts
<1>2. CASE x.a.state # 0 /\ ~IsHunterAware(x.a) /\ x.a.afraid = 0
  <2>1. PICK y \in Good : y = [x EXCEPT !.a.state = 0, !.a.goal = "own"]
    BY <1>2, SleepGood DEF Goals
  <2>2. TRexReacts(x, e) = TRexWakes(y)
    BY <1>2, <2>1 DEF TRexReacts
  <2> QED
    BY <2>2, TRexWakesGood
<1>3. CASE x.a.state # 0 /\ ~(~IsHunterAware(x.a) /\ x.a.afraid = 0)
  <2>1. PICK y \in Good : y = IF TracksHunterExactly(x.a) THEN Alarm(x) ELSE x
    BY AlarmGood
  <2>2. PICK z \in Good : z = IF e.settled THEN [y EXCEPT !.a.state = 1] ELSE y
    BY WakeGood
  <2>3. TRexReacts(x, e) = Bite(z, e)
    BY <1>3, <2>1, <2>2 DEF TRexReacts
  <2> QED
    BY <2>3, BiteGood
<1> QED
  BY <1>1, <1>2, <1>3

LEMMA AnimateTRexGood ==
  ASSUME NEW x \in Good, NEW e
  PROVE  AnimateTRex(x, e) \in Good
<1>1. PICK y \in Good : y = TRexWakes(Swap(TRexReacts(TRexWakes(x), e), e))
  <2>1. TRexReacts(TRexWakes(x), e) \in Good
    BY TRexWakesGood, TRexReactsGood
  <2>2. Swap(TRexReacts(TRexWakes(x), e), e) \in Good
    BY <2>1, SwapGood
  <2> QED
    BY <2>2, TRexWakesGood
<1> QED
  BY <1>1, WanderGood DEF AnimateTRex

-----------------------------------------------------------------------------
(* AnimateBrahi.                                                           *)

(* A brachiosaur leaves deep water: whatever it follows is put aside.      *)
LEMMA LandGood ==
  ASSUME NEW x \in Good, herd.family = "brahi"
  PROVE  [x EXCEPT !.a.goal = "own", !.a.leg = 0, !.a.unclosed = 0] \in Good
<1>1. PICK y \in Good : y = [x EXCEPT !.a.goal = "own"]
  BY Retarget DEF Goals
<1>2. y.a \in Animal /\ Sound(y.a, y.hunter)
  BY Parts
<1>3. PICK b : b = [y.a EXCEPT !.leg = 0]
  OBVIOUS
<1> DEFINE c == [b EXCEPT !.unclosed = 0]
<1>4. c \in Animal
  BY <1>3, <1>2, Sizes DEF Animal
<1>5. /\ c.leg = 0 /\ c.unclosed = 0 /\ c.aware = y.a.aware /\ c.state = y.a.state
      /\ c.afraid = y.a.afraid /\ c.health = y.a.health
  BY <1>3, <1>2 DEF Animal
<1>6. Sound(c, y.hunter)
  BY <1>2, <1>5 DEF Sound, IsFixedHunterPursuit, IsHunterAware, FearsHit
<1>7. PICK z : z = [y EXCEPT !.a = b] /\ z.a = b
  <2>1. y \in [a : Animal, p : Packs, hunter : {"alive", "dead"}, loops : BOOLEAN]
    BY DEF Good, Turns
  <2>2. [y EXCEPT !.a = b].a = b
    BY <2>1
  <2> QED
    BY <2>2
<1>8. [z EXCEPT !.a = c] = [y EXCEPT !.a = c]
  BY <1>7
<1>9. [z EXCEPT !.a = c] = [z EXCEPT !.a.unclosed = 0]
  BY <1>7
<1>10. z = [y EXCEPT !.a.leg = 0]
  BY <1>3, <1>7
<1>11. [z EXCEPT !.a.unclosed = 0] = [x EXCEPT !.a.goal = "own", !.a.leg = 0, !.a.unclosed = 0]
  BY <1>1, <1>10
<1> QED
  BY <1>4, <1>6, <1>8, <1>9, <1>11, Replace

LEMMA BrahiWakesGood ==
  ASSUME NEW x \in Good
  PROVE  BrahiWakes(x) \in Good
BY WakeGood DEF BrahiWakes

LEMMA BrahiReactsGood ==
  ASSUME NEW x \in Good, NEW e, herd.family = "brahi"
  PROVE  BrahiReacts(x, e) \in Good
<1>1. CASE x.hunter = "dead" \/ x.a.state = 0
  BY <1>1, StillGood DEF BrahiReacts
<1>2. CASE ~(x.hunter = "dead" \/ x.a.state = 0)
  <2>1. PICK y \in Good : y = CallAttack(x, e)
    BY CallAttackGood
  <2>2. PICK z \in Good :
          z = IF e.deep THEN [y EXCEPT !.a.goal = "own", !.a.leg = 0, !.a.unclosed = 0]
              ELSE IF ShouldFleeHunter(y, e) THEN FleeInPack(y)
              ELSE IF TracksHunterExactly(y.a) THEN Alarm(y) ELSE y
    BY LandGood, FleeInPackGood, AlarmGood
  <2>3. BrahiReacts(x, e) = Bite(z, e)
    BY <1>2, <2>1, <2>2 DEF BrahiReacts
  <2> QED
    BY <2>3, BiteGood
<1> QED
  BY <1>1, <1>2

LEMMA AnimateBrahiGood ==
  ASSUME NEW x \in Good, NEW e, herd.family = "brahi"
  PROVE  AnimateBrahi(x, e) \in Good
<1>1. PICK y \in Good : y = BrahiReacts(BrahiWakes(x), e)
  BY BrahiWakesGood, BrahiReactsGood
<1>2. PICK z \in Good : z = IF e.swapped THEN BrahiReacts(BrahiWakes(Swap(y, e)), e) ELSE y
  BY SwapGood, BrahiWakesGood, BrahiReactsGood
<1>3. AnimateBrahi(x, e) = IF z.a.state = 0 THEN Wander([z EXCEPT !.a.afraid = 0], e) ELSE z
  BY <1>1, <1>2 DEF AnimateBrahi
<1>4. CASE z.a.state = 0
  <2>1. [z EXCEPT !.a.afraid = 0] \in Good /\ [z EXCEPT !.a.afraid = 0].a.state = 0
    BY <1>4, StillCalm
  <2> QED
    BY <1>3, <1>4, <2>1, WanderGood
<1> QED
  BY <1>3, <1>4

-----------------------------------------------------------------------------
(* AnimateFish.                                                            *)

(* One that is awake and turns to the hunter.                              *)
LEMMA NoticedGood ==
  ASSUME NEW x \in Good, x.a.state # 0
  PROVE  [x EXCEPT !.a = Track(@)] \in Good
<1>1. x.a \in Animal
  BY Parts
<1>2. Track(x.a) \in Animal /\ Sound(Track(x.a), x.hunter)
  BY <1>1, TrackSound
<1>3. [x EXCEPT !.a = Track(x.a)] \in Good
  BY <1>2, Replace
<1> QED
  BY <1>3

LEMMA FishNoticesGood ==
  ASSUME NEW x \in Good, NEW e
  PROVE  FishNotices(x, e) \in Good
<1>1. CASE x.a.state = 0 /\ FishSees(x, e)
  <2>1. PICK y \in Good : y = [x EXCEPT !.a = [Track(@) EXCEPT !.state = 1]]
    BY ScaredGood
  <2>2. FishNotices(x, e) = Alarm(y)
    BY <1>1, <2>1 DEF FishNotices
  <2> QED
    BY <2>2, AlarmGood
<1>2. CASE x.a.state = 0 /\ ~FishSees(x, e)
  BY <1>2, WanderGood DEF FishNotices
<1>3. CASE x.a.state # 0
  BY <1>3, NoticedGood DEF FishNotices
<1> QED
  BY <1>1, <1>2, <1>3

LEMMA FishRelaxesGood ==
  ASSUME NEW x \in Good, NEW e
  PROVE  FishRelaxes(x, e) \in Good
<1>1. CASE x.a.afraid > 0 \/ (InPack /\ x.p._alert)
  BY <1>1, AlarmGood DEF FishRelaxes
<1>2. CASE ~(x.a.afraid > 0 \/ (InPack /\ x.p._alert))
  <2>1. x.a.afraid = 0 /\ "own" \in Goals
    BY <1>2, Parts, Sizes DEF Goals
  <2> QED
    BY <1>2, <2>1, SleepGood DEF FishRelaxes
<1> QED
  BY <1>1, <1>2

LEMMA FishHuntsGood ==
  ASSUME NEW x \in Good, NEW e
  PROVE  FishHunts(x, e) \in Good
<1>1. PICK y \in Good : y = IF FishSees(x, e) THEN [x EXCEPT !.a.afraid = MaxAfraid] ELSE x
  BY Sizes, Refear
<1> QED
  BY <1>1, AlarmGood DEF FishHunts

LEMMA FishReactsGood ==
  ASSUME NEW x \in Good, NEW e, NEW timed, NEW pursuit
  PROVE  FishReacts(x, e, timed, pursuit) \in Good
<1>1. PICK y \in Good : y = IF ~timed /\ e.outside THEN FishRelaxes(x, e) ELSE x
  BY FishRelaxesGood
<1>2. PICK z \in Good : z = IF pursuit THEN y ELSE FishHunts(y, e)
  BY FishHuntsGood
<1>3. FishReacts(x, e, timed, pursuit) \in {x, y, Bite(z, e)}
  BY <1>1, <1>2 DEF FishReacts
<1> QED
  BY <1>3, BiteGood

LEMMA AnimateFishGood ==
  ASSUME NEW x \in Good, NEW e
  PROVE  AnimateFish(x, e) \in Good
<1>1. PICK y \in Good : y = Swap(x, e)
  BY SwapGood
<1>2. PICK z \in Good : z = IF y.hunter = "dead" THEN [y EXCEPT !.a.state = 0] ELSE y
  BY StillGood
<1>3. AnimateFish(x, e) =
        FishReacts(FishNotices(z, e), e, IsTimedHunterReaction(z.a), IsFixedHunterPursuit(z.a))
  BY <1>1, <1>2 DEF AnimateFish
<1> QED
  BY <1>3, FishNoticesGood, FishReactsGood

-----------------------------------------------------------------------------
(* AnimateClassicAmbient.                                                  *)

LEMMA AmbientFearsGood ==
  ASSUME NEW x \in Good, NEW e, x.a.state # 0
  PROVE  AmbientFears(x, e) \in Good
<1>1. PICK y \in Good : y = [x EXCEPT !.a = Track(@)]
  BY NoticedGood
<1>2. CASE x.a.afraid > 0
  BY <1>2, AlarmGood DEF AmbientFears
<1>3. CASE ~(x.a.afraid > 0)
  <2>1. x.a.afraid = 0 /\ "own" \in Goals
    BY <1>3, Parts, Sizes DEF Goals
  <2>2. PICK z \in Good : z = [x EXCEPT !.a.state = 0, !.a.goal = "own"]
    BY <2>1, SleepGood
  <2>3. AmbientFears(x, e) \in {Alarm(y), z, x}
    BY <1>1, <1>3, <2>2 DEF AmbientFears
  <2> QED
    BY <2>3, AlarmGood
<1> QED
  BY <1>2, <1>3

LEMMA AmbientTargetGood ==
  ASSUME NEW x \in Good, NEW e, herd.family = "ambient"
  PROVE  AmbientTarget(x, e) \in Good
<1>1. CASE x.a.state = 0
  BY <1>1 DEF AmbientTarget
<1>2. CASE x.a.state # 0 /\ TracksHunterExactly(x.a)
  <2>1. ~IsFixedHunterPursuit(x.a) /\ ~IsTimedHunterReaction(x.a)
    BY <1>2 DEF TracksHunterExactly, IsFixedHunterPursuit, IsTimedHunterReaction, Pursuits, Flights
  <2>2. PICK y \in Good : y = [x EXCEPT !.a.goal = "away"]
    BY <2>1, Retarget DEF Goals
  <2> QED
    BY <1>2, <2>1, <2>2 DEF AmbientTarget
<1>3. CASE x.a.state # 0 /\ IsTimedHunterReaction(x.a)
  <2>1. ~TracksHunterExactly(x.a)
    BY <1>3 DEF TracksHunterExactly, IsTimedHunterReaction, Pursuits, Flights
  <2>2. PICK b : b = [x.a EXCEPT !.leg = 0]
    OBVIOUS
  <2>3. x.a \in Animal /\ Sound(x.a, x.hunter)
    BY Parts
  <2>4. b \in Animal
    BY <2>2, <2>3, Sizes DEF Animal
  <2>5. /\ b.aware = x.a.aware /\ b.state = x.a.state /\ b.afraid = x.a.afraid
        /\ b.health = x.a.health /\ b.goal = x.a.goal
    BY <2>2, <2>3 DEF Animal
  <2>6. Sound(b, x.hunter)
    BY <2>3, <2>5 DEF Sound, IsFixedHunterPursuit, IsHunterAware, FearsHit
  <2>7. [x EXCEPT !.a = b] = [x EXCEPT !.a.leg = 0]
    BY <2>2
  <2>8. AmbientTarget(x, e) = [x EXCEPT !.a.leg = 0]
    BY <1>3, <2>1 DEF AmbientTarget
  <2> QED
    BY <2>4, <2>6, <2>7, <2>8, Replace
<1>4. CASE x.a.state # 0 /\ ~TracksHunterExactly(x.a) /\ ~IsTimedHunterReaction(x.a)
  <2>1. ~IsFixedHunterPursuit(x.a)
    BY <1>4 DEF IsFixedHunterPursuit, IsTimedHunterReaction
  <2>2. AmbientTarget(x, e) = SetPackLeaderTarget(x, e)
    BY <1>4 DEF AmbientTarget
  <2> QED
    BY <2>1, <2>2, FollowGood
<1> QED
  BY <1>1, <1>2, <1>3, <1>4

LEMMA AmbientReactsGood ==
  ASSUME NEW x \in Good, NEW e, herd.family = "ambient"
  PROVE  AmbientReacts(x, e) \in Good
BY AmbientFearsGood, AmbientTargetGood DEF AmbientReacts

LEMMA AmbientRestsGood ==
  ASSUME NEW x \in Good, NEW e, herd.family = "ambient"
  PROVE  AmbientRests(x, e) \in Good
<1>1. CASE x.a.state # 0
  BY <1>1 DEF AmbientRests
<1>2. CASE x.a.state = 0 /\ e.near = "reach"
  <2>1. PICK y \in Good : y = [x EXCEPT !.a = [Track(@) EXCEPT !.state = 1]]
    BY ScaredGood
  <2>2. AmbientRests(x, e) = AmbientReacts(y, e)
    BY <1>2, <2>1 DEF AmbientRests
  <2> QED
    BY <2>2, AmbientReactsGood
<1>3. CASE x.a.state = 0 /\ e.near # "reach"
  <2>1. PICK y \in Good : y = [x EXCEPT !.a.afraid = 0] /\ y.a.state = 0
    BY <1>3, StillCalm
  <2>2. AmbientRests(x, e) = Wander(y, e)
    BY <1>3, <2>1 DEF AmbientRests
  <2> QED
    BY <2>1, <2>2, WanderGood
<1> QED
  BY <1>1, <1>2, <1>3

LEMMA AnimateAmbientGood ==
  ASSUME NEW x \in Good, NEW e, herd.family = "ambient"
  PROVE  AnimateClassicAmbient(x, e) \in Good
<1>1. PICK y \in Good :
        y = IF x.a.state = 2 \/ (InPack /\ x.a.state = 0 /\ x.p._alert)
              THEN [x EXCEPT !.a.state = 1] ELSE x
  BY WakeGood
<1>2. PICK z \in Good : z = Swap(AmbientReacts(y, e), e)
  BY AmbientReactsGood, SwapGood
<1>3. AnimateClassicAmbient(x, e) = AmbientRests(z, e)
  BY <1>1, <1>2 DEF AnimateClassicAmbient
<1> QED
  BY <1>3, AmbientRestsGood

-----------------------------------------------------------------------------
(* A whole turn.                                                           *)

LEMMA AnimateGood ==
  ASSUME NEW x \in Good, NEW e, herd \in Herds
  PROVE  Animate(x, e) \in Good
<1>1. herd.family \in {"standard", "brahi", "trex", "fish", "ambient"}
  BY HerdConstants
<1>2. CASE herd.family = "standard"
  BY <1>2, AnimateHuntableGood DEF Animate
<1>3. CASE herd.family = "trex"
  BY <1>3, AnimateTRexGood DEF Animate
<1>4. CASE herd.family = "brahi"
  BY <1>4, AnimateBrahiGood DEF Animate
<1>5. CASE herd.family = "fish"
  BY <1>5, AnimateFishGood DEF Animate
<1>6. CASE herd.family = "ambient"
  BY <1>6, AnimateAmbientGood DEF Animate
<1> QED
  BY <1>1, <1>2, <1>3, <1>4, <1>5, <1>6

LEMMA TurnGood ==
  ASSUME NEW x \in Good, NEW e, herd \in Herds, NEW y \in Turn(x, e)
  PROVE  y \in Good
<1>1. CASE x.a.health = "dead"
  BY <1>1 DEF Turn
<1>2. CASE x.a.health # "dead"
  <2>1. OutOfTime(x, e) \in Good
    BY OutOfTimeGood
  <2>2. ApplyContact(OutOfTime(x, e), e) \in Good
    BY <2>1, ApplyContactGood
  <2>3. PICK t \in Good : t = TickHunterAwareness(ApplyContact(OutOfTime(x, e), e))
    BY <2>2, TickGood
  <2>4. PICK n \in Good : n = UpdateHunterNavigation(t, e)
    BY NavigationGood
  <2>5. y = Animate(n, e)
    BY <1>2, <2>3, <2>4 DEF Turn
  <2> QED
    BY <2>5, AnimateGood
<1> QED
  BY <1>1, <1>2

-----------------------------------------------------------------------------
(* The stimuli, outside a turn.                                            *)

LEMMA AimSound ==
  ASSUME NEW a \in Animal, NEW h, NEW s \in States, NEW w \in Flights, h = "alive" => s # 0,
         NEW b, b = Aim([a EXCEPT !.afraid = MaxAfraid, !.state = s, !.aware = w])
  PROVE  b \in Animal /\ Sound(b, h)
<1>1. PICK c : c = [a EXCEPT !.afraid = MaxAfraid, !.state = s, !.aware = w]
  OBVIOUS
<1>2. c \in Animal
  BY <1>1, Sizes DEF Animal, States
<1>3. c.state = s /\ c.aware = w /\ c.afraid = MaxAfraid
  BY <1>1 DEF Animal
<1>4. b = [c EXCEPT !.goal = "away", !.leg = 0, !.unclosed = 0]
  BY <1>1 DEF Aim
<1>5. b \in Animal
  BY <1>2, <1>4, Sizes DEF Animal
<1>6. b.leg = 0 /\ b.unclosed = 0 /\ b.state = s /\ b.aware = w /\ b.afraid = MaxAfraid
  BY <1>2, <1>3, <1>4 DEF Animal
<1>7. ~IsFixedHunterPursuit(b)
  BY <1>6 DEF IsFixedHunterPursuit, Pursuits, Flights
<1> QED
  BY <1>5, <1>6, <1>7, Sizes, AwareSound

LEMMA RememberSound ==
  ASSUME NEW a \in Animal, NEW h, NEW s \in States, NEW w \in Pursuits, h = "alive" => s # 0,
         herd.family # "trex" => ~Is("passive") /\ ~FearsHit(a),
         NEW b, b = Remember([a EXCEPT !.afraid = MaxAfraid, !.state = s, !.aware = w])
  PROVE  b \in Animal /\ Sound(b, h)
<1>1. PICK c : c = [a EXCEPT !.afraid = MaxAfraid, !.state = s, !.aware = w]
  OBVIOUS
<1>2. c \in Animal
  BY <1>1, Sizes DEF Animal, States
<1>3. c.state = s /\ c.aware = w /\ c.afraid = MaxAfraid /\ c.health = a.health
  BY <1>1 DEF Animal
<1>4. b = [c EXCEPT !.goal = "event", !.leg = 0, !.unclosed = 0]
  BY <1>1 DEF Remember
<1>5. b \in Animal
  BY <1>2, <1>4, Sizes DEF Animal
<1>6. /\ b.leg = 0 /\ b.unclosed = 0 /\ b.state = s /\ b.aware = w /\ b.afraid = MaxAfraid
      /\ b.health = a.health /\ b.goal = "event"
  BY <1>2, <1>3, <1>4 DEF Animal
<1> QED
  BY <1>5, <1>6, Sizes DEF Sound, FearsHit

LEMMA GunshotSound ==
  ASSUME NEW a \in Animal, NEW h, Sound(a, h), NEW far
  PROVE  ApplyGunshotHeard(a, far) \in Animal /\ Sound(ApplyGunshotHeard(a, far), h)
<1>1. CASE \/ a.health = "dead" \/ herd.family = "fish"
           \/ a.aware \notin {"none", "investigating", "fleeingShot"}
  BY <1>1 DEF ApplyGunshotHeard
<1>2. CASE ~(\/ a.health = "dead" \/ herd.family = "fish"
             \/ a.aware \notin {"none", "investigating", "fleeingShot"})
  <2>1. PICK s \in States \ {0} : s = IF a.state = 0 THEN 2 ELSE a.state
    BY DEF Animal, States
  <2>2. PICK fears : fears = (Is("fearsShots") \/ FearsHit(a))
    OBVIOUS
  <2>3. CASE FleesEvent(a, Is("fearsShots") \/ FearsHit(a), far)
    <3>1. ApplyGunshotHeard(a, far) =
            Aim([a EXCEPT !.afraid = MaxAfraid, !.state = s, !.aware = "fleeingShot"])
      BY <1>2, <2>1, <2>3 DEF ApplyGunshotHeard
    <3>2. "fleeingShot" \in Flights
      BY DEF Flights
    <3> QED
      BY <3>1, <3>2, AimSound
  <2>4. CASE ~FleesEvent(a, Is("fearsShots") \/ FearsHit(a), far)
    <3>1. ApplyGunshotHeard(a, far) =
            Remember([a EXCEPT !.afraid = MaxAfraid, !.state = s, !.aware = "investigating"])
      BY <1>2, <2>1, <2>4 DEF ApplyGunshotHeard
    <3>2. herd.family # "trex" => ~Is("passive") /\ ~FearsHit(a)
      BY <2>4 DEF FleesEvent
    <3>3. "investigating" \in Pursuits
      BY DEF Pursuits
    <3> QED
      BY <3>1, <3>2, <3>3, RememberSound
  <2> QED
    BY <2>3, <2>4
<1> QED
  BY <1>1, <1>2

LEMMA CallSound ==
  ASSUME NEW a \in Animal, NEW h, Sound(a, h)
  PROVE  ApplyHunterCall(a) \in Animal /\ Sound(ApplyHunterCall(a), h)
<1>1. PICK s \in States : s = 2
  BY DEF States
<1>2. PICK w \in Flights : w = "fleeingCall"
  BY DEF Flights
<1>3. PICK b : b = Aim([a EXCEPT !.afraid = MaxAfraid, !.state = s, !.aware = w])
  OBVIOUS
<1>4. [a EXCEPT !.state = s, !.afraid = MaxAfraid, !.aware = w] =
      [a EXCEPT !.afraid = MaxAfraid, !.state = s, !.aware = w]
  BY DEF Animal
<1>5. s # 0
  BY <1>1
<1>6. b \in Animal /\ Sound(b, h)
  BY <1>3, <1>5, AimSound
<1>7. Aim([a EXCEPT !.state = s, !.afraid = MaxAfraid, !.aware = w]) = b
  BY <1>3, <1>4
<1>8. ApplyHunterCall(a) = a \/ ApplyHunterCall(a) = b
  BY <1>1, <1>2, <1>7 DEF ApplyHunterCall
<1> QED
  BY <1>6, <1>8

(* A lure: a calm animal takes the call for its target.                    *)
LEMMA LureSound ==
  ASSUME NEW a \in Animal, NEW h, Sound(a, h), a.state = 0, h = "alive"
  PROVE  Remember(a) \in Animal /\ Sound(Remember(a), h)
<1>1. a.aware = "none"
  BY DEF Sound, IsHunterAware
<1>2. Remember(a) \in Animal
  BY Sizes DEF Remember, Animal
<1>3. Remember(a).aware = "none" /\ Remember(a).leg = 0 /\ Remember(a).unclosed = 0
  BY <1>1 DEF Remember, Animal
<1> QED
  BY <1>2, <1>3, UnawareSound

(* A hit: of an animal whose health is now what the hit left of it.        *)
LEMMA DirectHitSound ==
  ASSUME NEW a \in Animal, NEW h, NEW far,
         a.unclosed = a.leg \/ herd.family = "ambient",
         h = "alive" /\ IsHunterAware(a) => a.state # 0,
         a.health = "dead" => Sound(a, h)
  PROVE  ApplyDirectHit(a, far) \in Animal /\ Sound(ApplyDirectHit(a, far), h)
<1> DEFINE flees == FleesEvent(a, FearsHit(a), far)
           keeps == TracksHunterExactly(a) /\ ~flees
<1>1. PICK roused \in States : roused = IF IsHunterAware(a) THEN a.state ELSE 2
  BY DEF Animal, States
<1>2. h = "alive" => roused # 0
  BY <1>1
<1>3. CASE a.health = "dead"
  BY <1>3 DEF ApplyDirectHit
<1>4. CASE a.health # "dead" /\ keeps
  <2>1. PICK b : b = [a EXCEPT !.afraid = MaxAfraid, !.state = roused]
    OBVIOUS
  <2>2. b \in Animal
    BY <2>1, Sizes DEF Animal, States
  <2>3. /\ b.aware = "tracking" /\ b.state = roused /\ b.afraid = MaxAfraid
        /\ b.unclosed = a.unclosed /\ b.leg = a.leg
    BY <1>4, <2>1 DEF Animal, TracksHunterExactly
  <2>4. Sound(b, h)
    BY <1>2, <2>2, <2>3, Sizes, AwareSound DEF IsFixedHunterPursuit, Pursuits
  <2>5. ApplyDirectHit(a, far) = b
    BY <1>1, <1>4, <2>1 DEF ApplyDirectHit
  <2> QED
    BY <2>2, <2>4, <2>5
<1>5. CASE a.health # "dead" /\ flees
  <2>1. ApplyDirectHit(a, far) =
          Aim([a EXCEPT !.afraid = MaxAfraid, !.state = roused, !.aware = "fleeingHit"])
    BY <1>1, <1>5 DEF ApplyDirectHit
  <2>2. "fleeingHit" \in Flights
    BY DEF Flights
  <2> QED
    BY <1>2, <2>1, <2>2, AimSound
<1>6. CASE a.health # "dead" /\ ~keeps /\ ~flees
  <2>1. PICK s \in States : s = IF herd.family = "trex" /\ a.aware # "retaliating"
                                  THEN (IF roused # 0 THEN 5 ELSE 1) ELSE roused
    BY DEF States
  <2>2. h = "alive" => s # 0
    BY <1>2, <2>1
  <2>3. ApplyDirectHit(a, far) =
          Remember([a EXCEPT !.afraid = MaxAfraid, !.state = s, !.aware = "retaliating"])
    BY <1>1, <1>6, <2>1 DEF ApplyDirectHit
  <2>4. herd.family # "trex" => ~Is("passive") /\ ~FearsHit(a)
    BY <1>6 DEF FleesEvent
  <2>5. "retaliating" \in Pursuits
    BY DEF Pursuits
  <2> QED
    BY <2>2, <2>3, <2>4, <2>5, RememberSound
<1> QED
  BY <1>3, <1>4, <1>5, <1>6

LEMMA StruckSound ==
  ASSUME NEW a \in Animal, NEW h, Sound(a, h), NEW health \in {"hurt", "dead"}, NEW far
  PROVE  Struck(a, health, far) \in Animal /\ Sound(Struck(a, health, far), h)
<1>1. PICK b : b = Damage(a, health)
  OBVIOUS
<1>2. CASE a.health = "dead"
  <2>1. Struck(a, health, far) = a
    BY <1>2 DEF Struck, Damage, ApplyDirectHit
  <2> QED
    BY <2>1
<1>3. CASE a.health # "dead" /\ health = "dead"
  <2>1. b = [Born EXCEPT !.health = health]
    BY <1>1, <1>3 DEF Damage
  <2>2. b \in Animal /\ Sound(b, h)
    BY <2>1, BornSound
  <2>3. b.health = "dead"
    BY <1>3, <2>1 DEF Born
  <2>4. Struck(a, health, far) = b
    BY <1>1, <2>3 DEF Struck, ApplyDirectHit
  <2> QED
    BY <2>2, <2>4
<1>4. CASE a.health # "dead" /\ health = "hurt"
  <2>1. b = [a EXCEPT !.health = health]
    BY <1>1, <1>4 DEF Damage
  <2>2. b \in Animal
    BY <2>1 DEF Animal
  <2>3. /\ b.aware = a.aware /\ b.state = a.state /\ b.unclosed = a.unclosed /\ b.leg = a.leg
        /\ b.health = "hurt"
    BY <1>4, <2>1 DEF Animal
  <2>4. b.unclosed = b.leg \/ herd.family = "ambient"
    BY <2>3 DEF Sound
  <2>5. h = "alive" /\ IsHunterAware(b) => b.state # 0
    BY <2>3 DEF Sound, IsHunterAware
  <2>6. Struck(a, health, far) = ApplyDirectHit(b, far)
    BY <1>1 DEF Struck
  <2> QED
    BY <2>2, <2>3, <2>4, <2>5, <2>6, DirectHitSound
<1> QED
  BY <1>2, <1>3, <1>4

LEMMA SenseSound ==
  ASSUME NEW a \in Animal, NEW h, Sound(a, h), NEW sight
  PROVE  Sense(a, sight) \in Animal /\ Sound(Sense(a, sight), h)
<1>1. CASE a.health = "dead" \/ ~Is("sniffs")
  BY <1>1 DEF Sense
<1>2. CASE ~(a.health = "dead" \/ ~Is("sniffs"))
  <2>1. Track(a).state = a.state /\ a.state \in States
    BY DEF Track, Animal, States
  <2>2. PICK s \in States \ {0} :
          s = IF herd.family = "trex" /\ ~IsHunterAware(a) /\ ~sight THEN 3
              ELSE IF a.state = 0 THEN 2 ELSE a.state
    BY <2>1 DEF States
  <2>3. Sense(a, sight) = [Track(a) EXCEPT !.state = s]
    BY <1>2, <2>1, <2>2 DEF Sense
  <2> QED
    BY <2>3, RouseSound
<1> QED
  BY <1>1, <1>2
-----------------------------------------------------------------------------
(* The actions.                                                            *)

LEMMA InitHolds == Init => IInv
<1> SUFFICES ASSUME Init PROVE IInv
  OBVIOUS
<1>1. herd.size \in 1 .. 2 /\ herd \in Herds
  BY HerdConstants DEF Init
<1>2. \A i \in Members : animals[i] = Born
  BY DEF Init, Members
<1>3. TypeOK
  <2>1. animals \in [1 .. herd.size -> Animal]
    <3>1. PICK born \in Animal : born = Born
      BY NewbornSound
    <3>2. animals = [i \in 1 .. herd.size |-> born]
      BY <3>1 DEF Init
    <3> QED
      BY <3>2
  <2>2. pack \in [alert : BOOLEAN, _alert : BOOLEAN, attack : BOOLEAN, _attack : BOOLEAN]
    BY DEF Init
  <2>3. withdrawn \in BOOLEAN
    BY Zenon DEF Init
  <2>4. /\ hunter \in {"alive", "dead"} /\ cur \in 1 .. 2
        /\ phase \in {"controls", "animals", "bullets", "senses", "looping"}
    BY DEF Init
  <2> QED
    BY <1>1, <2>1, <2>2, <2>3, <2>4 DEF TypeOK
<1>4. cur \in Members
  BY <1>1 DEF Init, Members
<1>5. \A i \in Members : Sound(animals[i], hunter)
  BY <1>2, NewbornSound
<1> QED
  BY <1>3, <1>4, <1>5 DEF IInv

(* The herd of a hunt is the same in every step, so that what is sound of  *)
(* the new animals now is sound of them in the next state.                 *)
LEMMA HerdKept ==
  ASSUME herd' = herd, \A i \in Members : Sound(animals'[i], hunter')
  PROVE  (\A i \in Members : Sound(animals[i], hunter))'
<1>1. ASSUME NEW i \in Members
      PROVE  Sound(animals[i], hunter)'
  <2>1. Sound(animals'[i], hunter')
    BY <1>1
  <2> QED
    BY <2>1 DEF Sound, Is, FearsHit, IsFixedHunterPursuit, IsHunterAware
<1> QED
  BY <1>1 DEF Members

(* A step after which every animal is sound, and the rest has its type.    *)
LEMMA StepHolds ==
  ASSUME IInv, herd' = herd,
         \A i \in Members : animals'[i] \in Animal /\ Sound(animals'[i], hunter'),
         animals' = [i \in Members |-> animals'[i]],
         pack' \in Packs, hunter' \in {"alive", "dead"}, withdrawn' \in BOOLEAN,
         phase' \in {"controls", "animals", "bullets", "senses", "looping"}, cur' \in Members
  PROVE  IInv'
<1>1. herd.size \in 1 .. 2
  BY HerdConstants DEF IInv, TypeOK
<1>2. animals' \in [Members -> Animal]
  BY Zenon
<1>3. TypeOK'
  BY <1>1, <1>2 DEF IInv, TypeOK, Packs, Members
<1>4. (cur \in Members)'
  BY DEF Members
<1> QED
  BY <1>3, <1>4, HerdKept DEF IInv

LEMMA SoundNow ==
  ASSUME IInv
  PROVE  /\ herd \in Herds /\ herd.size \in 1 .. 2
         /\ animals = [i \in Members |-> animals[i]]
         /\ \A i \in Members : animals[i] \in Animal /\ Sound(animals[i], hunter)
         /\ pack \in Packs /\ hunter \in {"alive", "dead"} /\ withdrawn \in BOOLEAN
         /\ phase \in {"controls", "animals", "bullets", "senses", "looping"}
         /\ cur \in Members
BY HerdConstants DEF IInv, TypeOK, Packs, Members

(* One animal of the herd is another.                                      *)
LEMMA OneChanges ==
  ASSUME IInv, NEW k \in Members, NEW b \in Animal, animals' = [animals EXCEPT ![k] = b],
         Sound(b, hunter'), hunter' = "alive" => hunter = "alive"
  PROVE  /\ \A i \in Members : animals'[i] \in Animal /\ Sound(animals'[i], hunter')
         /\ animals' = [i \in Members |-> animals'[i]]
<1>1. /\ animals = [i \in Members |-> animals[i]]
      /\ \A i \in Members : animals[i] \in Animal /\ Sound(animals[i], hunter)
  BY SoundNow
<1>2. \A i \in Members : animals'[i] = IF i = k THEN b ELSE animals[i]
  BY <1>1, Zenon
<1>3. \A i \in Members : Sound(animals[i], hunter')
  BY <1>1, OutlivesHunter
<1>4. animals' = [i \in Members |-> animals'[i]]
  BY <1>1
<1> QED
  BY <1>1, <1>2, <1>3, <1>4

LEMMA ShotsHeard ==
  ASSUME IInv, Shoot
  PROVE  /\ \A i \in Members : animals'[i] \in Animal /\ Sound(animals'[i], hunter)
         /\ animals' = [i \in Members |-> animals'[i]]
<1>1. \A i \in Members : animals[i] \in Animal /\ Sound(animals[i], hunter)
  BY SoundNow
<1>2. PICK ears \in SUBSET Members, far \in SUBSET Members :
        animals' = [i \in Members |->
          IF i \in ears THEN ApplyGunshotHeard(animals[i], i \in far) ELSE animals[i]]
  BY DEF Shoot
<1>3. ASSUME NEW i \in Members
      PROVE  animals'[i] \in Animal /\ Sound(animals'[i], hunter)
  <2>1. PICK f : f = (i \in far)
    OBVIOUS
  <2>2. animals'[i] = animals[i] \/ animals'[i] = ApplyGunshotHeard(animals[i], f)
    BY <1>2, <2>1
  <2> QED
    BY <1>1, <2>2, GunshotSound
<1>4. animals' = [i \in Members |-> animals'[i]]
  BY <1>2
<1> QED
  BY <1>3, <1>4

LEMMA CallsHeard ==
  ASSUME IInv, Call, hunter = "alive"
  PROVE  /\ \A i \in Members : animals'[i] \in Animal /\ Sound(animals'[i], hunter)
         /\ animals' = [i \in Members |-> animals'[i]]
<1>1. \A i \in Members : animals[i] \in Animal /\ Sound(animals[i], hunter)
  BY SoundNow
<1>2. PICK ears \in SUBSET Members, lured \in SUBSET Members :
        animals' = [i \in Members |->
          LET a == IF i \in ears THEN ApplyHunterCall(animals[i]) ELSE animals[i] IN
          IF i \in lured /\ a.health # "dead" /\ a.afraid = 0 /\ a.state = 0
            THEN Remember(a) ELSE a]
  BY DEF Call
<1>3. ASSUME NEW i \in Members
      PROVE  animals'[i] \in Animal /\ Sound(animals'[i], hunter)
  <2>1. PICK a : a = IF i \in ears THEN ApplyHunterCall(animals[i]) ELSE animals[i]
    OBVIOUS
  <2>2. a \in Animal /\ Sound(a, hunter)
    BY <1>1, <2>1, CallSound
  <2>3. animals'[i] = IF i \in lured /\ a.health # "dead" /\ a.afraid = 0 /\ a.state = 0
                        THEN Remember(a) ELSE a
    BY <1>2, <2>1
  <2>4. CASE a.state = 0 /\ animals'[i] = Remember(a)
    BY <2>2, <2>4, LureSound
  <2> QED
    BY <2>2, <2>3, <2>4
<1>4. animals' = [i \in Members |-> animals'[i]]
  BY <1>2
<1> QED
  BY <1>3, <1>4

LEMMA ControlsHold ==
  ASSUME IInv, Controls
  PROVE  IInv'
<1>1. pack' \in Packs
  BY SoundNow DEF Controls, Packs
<1>2. herd' = herd /\ hunter' = hunter /\ withdrawn' = withdrawn /\ phase' = "animals" /\ cur' = 1
  BY DEF Controls
<1>3. cur' \in Members
  BY <1>2, SoundNow DEF Members
<1>4. /\ \A i \in Members : animals'[i] \in Animal /\ Sound(animals'[i], hunter)
      /\ animals' = [i \in Members |-> animals'[i]]
  <2>1. CASE hunter = "alive" /\ Shoot
    BY <2>1, ShotsHeard
  <2>2. CASE hunter = "alive" /\ Call
    BY <2>2, CallsHeard
  <2>3. CASE animals' = animals
    BY <2>3, SoundNow
  <2> QED
    BY <2>1, <2>2, <2>3 DEF Controls
<1> QED
  BY <1>1, <1>2, <1>3, <1>4, SoundNow, StepHolds

LEMMA AnimalTurnHolds ==
  ASSUME IInv, AnimalTurn
  PROVE  IInv'
<1>1. PICK e \in Encounters(animals[cur]) :
      \E x \in Turn([a |-> animals[cur], p |-> pack, hunter |-> hunter, loops |-> FALSE], e) :
        /\ animals' = [animals EXCEPT ![cur] = x.a]
        /\ pack' = x.p
        /\ hunter' = x.hunter
        /\ IF x.loops THEN phase' = "looping" /\ cur' = cur
           ELSE IF cur < herd.size THEN phase' = phase /\ cur' = cur + 1
           ELSE phase' = "bullets" /\ cur' = 1
  BY DEF AnimalTurn
<1>2. PICK s : s = [a |-> animals[cur], p |-> pack, hunter |-> hunter, loops |-> FALSE]
  OBVIOUS
<1>3. s \in Good
  BY <1>2, SoundNow DEF Good, Turns
<1>4. PICK x \in Turn(s, e) :
        /\ animals' = [animals EXCEPT ![cur] = x.a]
        /\ pack' = x.p
        /\ hunter' = x.hunter
        /\ IF x.loops THEN phase' = "looping" /\ cur' = cur
           ELSE IF cur < herd.size THEN phase' = phase /\ cur' = cur + 1
           ELSE phase' = "bullets" /\ cur' = 1
  BY <1>1, <1>2
<1>5. x \in Good
  BY <1>3, SoundNow, TurnGood
<1>6. /\ x.a \in Animal /\ x.p \in Packs /\ x.hunter \in {"alive", "dead"}
      /\ Sound(x.a, x.hunter)
  BY <1>5, Parts
<1>7. hunter' = "alive" => hunter = "alive"
  BY <1>4, <1>5 DEF Good
<1>8. /\ \A i \in Members : animals'[i] \in Animal /\ Sound(animals'[i], hunter')
      /\ animals' = [i \in Members |-> animals'[i]]
  <2>1. Sound(x.a, hunter')
    BY <1>4, <1>6
  <2> QED
    BY <1>4, <1>6, <1>7, <2>1, SoundNow, OneChanges
<1>9. cur' \in Members
  BY <1>4, SoundNow DEF Members
<1>10. phase' \in {"controls", "animals", "bullets", "senses", "looping"}
  BY <1>4, SoundNow
<1>11. herd' = herd /\ withdrawn' = withdrawn
  BY DEF AnimalTurn
<1>12. withdrawn' \in BOOLEAN /\ pack' \in Packs /\ hunter' \in {"alive", "dead"}
  BY <1>4, <1>6, <1>11, SoundNow
<1> QED
  BY <1>8, <1>9, <1>10, <1>11, <1>12, StepHolds

LEMMA BulletsHold ==
  ASSUME IInv, Bullets
  PROVE  IInv'
<1>1. herd' = herd /\ pack' = pack /\ hunter' = hunter /\ withdrawn' = withdrawn /\ cur' = cur
      /\ phase' = "senses"
  BY DEF Bullets
<1>2. /\ \A i \in Members : animals'[i] \in Animal /\ Sound(animals'[i], hunter')
      /\ animals' = [i \in Members |-> animals'[i]]
  <2>1. CASE animals' = animals
    BY <1>1, <2>1, SoundNow
  <2>2. CASE ~(animals' = animals)
    <3>1. PICK i \in Members, health \in {"hurt", "dead"}, far \in BOOLEAN :
            animals' = [animals EXCEPT ![i] = Struck(animals[i], health, far)]
      BY <2>2 DEF Bullets
    <3>2. PICK b : b = Struck(animals[i], health, far)
      OBVIOUS
    <3>3. b \in Animal /\ Sound(b, hunter)
      BY <3>2, SoundNow, StruckSound
    <3> QED
      BY <1>1, <3>1, <3>2, <3>3, OneChanges
  <2> QED
    BY <2>1, <2>2
<1> QED
  BY <1>1, <1>2, SoundNow, StepHolds

LEMMA CheckAfraidHolds ==
  ASSUME IInv, CheckAfraid
  PROVE  IInv'
<1>1. herd' = herd /\ pack' = pack /\ hunter' = hunter /\ withdrawn' = withdrawn /\ cur' = cur
      /\ phase' = "controls"
  BY DEF CheckAfraid
<1>2. /\ \A i \in Members : animals'[i] \in Animal /\ Sound(animals'[i], hunter')
      /\ animals' = [i \in Members |-> animals'[i]]
  <2>1. CASE animals' = animals
    BY <1>1, <2>1, SoundNow
  <2>2. CASE ~(animals' = animals)
    <3>1. PICK noticed \in SUBSET Members, sight \in SUBSET Members :
            animals' = [i \in Members |->
              IF i \in noticed THEN Sense(animals[i], i \in sight) ELSE animals[i]]
      BY <2>2 DEF CheckAfraid
    <3>2. ASSUME NEW i \in Members
          PROVE  animals'[i] \in Animal /\ Sound(animals'[i], hunter)
      <4>1. PICK seen : seen = (i \in sight)
        OBVIOUS
      <4>2. animals'[i] = animals[i] \/ animals'[i] = Sense(animals[i], seen)
        BY <3>1, <4>1
      <4> QED
        BY <4>2, SoundNow, SenseSound
    <3>3. animals' = [i \in Members |-> animals'[i]]
      BY <3>1
    <3> QED
      BY <1>1, <3>2, <3>3
  <2> QED
    BY <2>1, <2>2
<1> QED
  BY <1>1, <1>2, SoundNow, StepHolds

LEMMA NextHolds == IInv /\ [Next]_vars => IInv'
<1> SUFFICES ASSUME IInv, [Next]_vars PROVE IInv'
  OBVIOUS
<1>1. ASSUME UNCHANGED <<herd, animals, pack, phase, cur>>, withdrawn' \in BOOLEAN,
             hunter' = hunter \/ hunter' = "dead"
      PROVE  IInv'
  <2>1. hunter' = "alive" => hunter = "alive"
    BY <1>1
  <2>2. \A i \in Members : animals'[i] \in Animal /\ Sound(animals'[i], hunter')
    BY <1>1, <2>1, SoundNow, OutlivesHunter
  <2> QED
    BY <1>1, <2>2, SoundNow, StepHolds
<1>2. CASE Controls
  BY <1>2, ControlsHold
<1>3. CASE AnimalTurn
  BY <1>3, AnimalTurnHolds
<1>4. CASE Bullets
  BY <1>4, BulletsHold
<1>5. CASE CheckAfraid
  BY <1>5, CheckAfraidHolds
<1>6. CASE Loop \/ UNCHANGED vars
  BY <1>1, <1>6, SoundNow DEF Loop, vars
<1>7. CASE Withdraw
  BY <1>1, <1>7 DEF Withdraw
<1>8. CASE HunterDies
  BY <1>1, <1>8, SoundNow DEF HunterDies
<1> QED
  BY <1>2, <1>3, <1>4, <1>5, <1>6, <1>7, <1>8 DEF Next, Frame

-----------------------------------------------------------------------------
(* The theorems.                                                           *)

(* The inductive invariant: every animal that is not in its turn is sound. *)
THEOREM SpecIInv == Spec => []IInv
BY InitHolds, NextHolds, PTL DEF Spec

(* Every field keeps its range, for every herd and every length of a       *)
(* reaction: no timer runs below zero, no leg reaches the stuck interval.  *)
THEOREM SpecTypeOK == Spec => []TypeOK
<1>1. IInv => TypeOK
  BY DEF IInv
<1> QED
  BY <1>1, SpecIInv, PTL

(* An animal that goes after a remembered shot or hit is awake, and its    *)
(* target is that place or the search around it.                           *)
THEOREM SpecPursuitRemembers == Spec => []PursuitRemembers
<1>1. IInv => PursuitRemembers
  <2> SUFFICES ASSUME IInv, hunter = "alive", herd.family # "brahi",
                      NEW i \in Members, IsFixedHunterPursuit(animals[i])
               PROVE  animals[i].goal \in {"event", "search"} /\ animals[i].state # 0
    BY DEF PursuitRemembers
  <2>1. Sound(animals[i], hunter)
    BY DEF IInv
  <2>2. IsHunterAware(animals[i])
    BY DEF IsFixedHunterPursuit, IsHunterAware, Pursuits
  <2> QED
    BY <2>1, <2>2 DEF Sound
<1> QED
  BY <1>1, SpecIInv, PTL

(* No animal follows a remembered place while its authored fear says flee: *)
(* the reaction chosen at the event stays the one the animator would take. *)
THEOREM SpecFleeAgreement == Spec => []FleeAgreement
<1>1. IInv => FleeAgreement
  <2> SUFFICES ASSUME IInv, herd.family # "trex",
                      NEW i \in Members, IsFixedHunterPursuit(animals[i])
               PROVE  ~FleesAuthored(animals[i], FALSE)
    BY DEF FleeAgreement
  <2>1. ~Is("passive") /\ ~FearsHit(animals[i])
    BY DEF IInv, Sound
  <2>2. IsHunterAware(animals[i]) /\ animals[i].aware # "fleeingShot"
    BY DEF IsFixedHunterPursuit, IsHunterAware, Pursuits
  <2> QED
    BY <2>1, <2>2 DEF FleesAuthored
<1> QED
  BY <1>1, SpecIInv, PTL

(* A fixed flee is aimed anew within the stuck interval, whatever comes in *)
(* between, where the animator leaves the navigator's clock alone.         *)
THEOREM SpecHuntableLegsTurn == Spec => []HuntableLegsTurn
<1>1. IInv => HuntableLegsTurn
  <2> SUFFICES ASSUME IInv, herd.family # "ambient", NEW i \in Members
               PROVE  animals[i].unclosed < Stuck
    BY DEF HuntableLegsTurn, LegsTurn
  <2>1. animals[i].unclosed = animals[i].leg
    BY DEF IInv, Sound
  <2>2. animals[i].leg \in 0 .. Stuck - 1
    BY SoundNow DEF Animal
  <2> QED
    BY <2>1, <2>2, Sizes
<1> QED
  BY <1>1, SpecIInv, PTL
=============================================================================
