-------------------------- MODULE HunterAwareness --------------------------
(***************************************************************************)
(* How the animals of a hunt notice the hunter, what they do about it and  *)
(* how they forget (CharacterAwareness.cpp, CharacterAI.cpp, the frame     *)
(* loop of CharacterAnimation.cpp and the thinking of five animators).     *)
(*                                                                         *)
(* Five writers share an animal's awareness, its timer AfraidTime, its     *)
(* State and its target: the stimuli (a shot heard, a hit, a call,         *)
(* contact), the central tick, the navigator, the animator of its family   *)
(* and the senses.  They run in a fixed order once a frame, and packmates  *)
(* wake each other through a flag that is latched between frames.          *)
(*                                                                         *)
(* Geometry is a choice: how far the hunter is, whether a sound carries    *)
(* and whether a target is reached.  One frame is one unit of time, and    *)
(* every reaction starts with MaxAfraid units: two stimuli in different    *)
(* frames give every difference of their timers.  A target is the reason   *)
(* it was set for.                                                         *)
(***************************************************************************)
EXTENDS Naturals

CONSTANTS
  Herds,      \* set of [family, size, traits]: the animals of a hunt
  MaxAfraid,  \* length of a reaction, in frames
  Stuck       \* kFleeLegStuckMs, in frames

Traits == { "carnivore", "passive", "defensive", "fearsInjury", "fearsShots",
            "fearsCalls", "forgets", "deer", "sniffs", "bites", "swaps",
            "dangerFish", "heedless" }

ASSUME HerdConstants ==
  /\ Herds \subseteq [family : {"standard", "brahi", "trex", "fish", "ambient"}, size : 1 .. 2,
                      traits : SUBSET Traits]
  /\ MaxAfraid \in Nat \ {0}
  /\ Stuck \in Nat \ {0}

VARIABLES
  herd,       \* the species and how many; two animals are one pack
  animals,    \* [1 .. herd.size -> Animal]
  pack,       \* Packs[packId]: alert and attack, and their latched copies
  hunter,     \* MyHealth: "alive" or "dead"
  withdrawn,  \* from now on the hunter is far and silent
  phase, cur  \* the step of the frame, and CurDino

vars == <<herd, animals, pack, hunter, withdrawn, phase, cur>>

Pursuits == {"investigating", "retaliating"}
Flights  == {"fleeingShot", "fleeingHit", "fleeingCall"}

(* leg is tgtime within the stuck interval; unclosed is history: the frames *)
(* since the fixed flee was last aimed.  Both are 0 outside a fixed flee.  *)
Animal ==
  [ aware    : {"none", "tracking"} \cup Pursuits \cup Flights,
    afraid   : 0 .. MaxAfraid,
    state    : {0, 1, 2, 3, 5},
    health   : {"full", "hurt", "dead"},
    goal     : {"own", "event", "search", "hunter", "away", "pack"},
    leg      : 0 .. Stuck - 1,
    unclosed : 0 .. Stuck ]

TypeOK ==
  /\ herd \in Herds
  /\ animals \in [1 .. herd.size -> Animal]
  /\ pack \in [alert : BOOLEAN, _alert : BOOLEAN, attack : BOOLEAN, _attack : BOOLEAN]
  /\ hunter \in {"alive", "dead"}
  /\ withdrawn \in BOOLEAN
  /\ phase \in {"controls", "animals", "bullets", "senses", "looping"}
  /\ cur \in 1 .. 2

Born == [ aware |-> "none", afraid |-> 0, state |-> 0, health |-> "full",
          goal |-> "own", leg |-> 0, unclosed |-> 0 ]

Init ==
  /\ herd \in Herds
  /\ animals = [i \in 1 .. herd.size |-> Born]
  /\ pack = [alert |-> FALSE, _alert |-> FALSE, attack |-> FALSE, _attack |-> FALSE]
  /\ hunter = "alive"
  /\ withdrawn = FALSE
  /\ phase = "controls"
  /\ cur = 1

Is(trait) == trait \in herd.traits
InPack    == herd.size > 1

IsFixedHunterPursuit(a)  == a.aware \in Pursuits
IsFixedHunterFlee(a)     == a.aware \in Flights
IsTimedHunterReaction(a) == a.aware \in Pursuits \cup Flights
TracksHunterExactly(a)   == a.aware = "tracking"
IsHunterAware(a)         == a.aware # "none"

-----------------------------------------------------------------------------
(* Stimuli: what an animal makes of a shot, a hit, a call and contact.     *)

Aim(a)     == [a EXCEPT !.goal = "away", !.leg = 0, !.unclosed = 0]
Remember(a) == [a EXCEPT !.goal = "event", !.leg = 0, !.unclosed = 0]
Track(a)   == [a EXCEPT !.aware = "tracking", !.afraid = MaxAfraid,
                        !.leg = 0, !.unclosed = 0]

(* FearsHunterEvent compares the health with Health0 of the table.  "full" *)
(* is that value: an animal is born with it as long as OptAgres is at most *)
(* 128; above, birth adds to it, and such an animal is left out.           *)
FearsHit(a) ==
  \/ Is("defensive") /\ a.health = "full"
  \/ Is("fearsInjury") /\ a.health = "hurt"

(* ShouldFleeFromHunterEvent: far, if the authored range does not cover it *)
FleesEvent(a, fears, far) ==
  herd.family # "trex" /\ (fears \/ Is("passive") \/ far)

ApplyGunshotHeard(a, far) ==
  IF \/ a.health = "dead" \/ herd.family = "fish"
     \/ a.aware \notin {"none", "investigating", "fleeingShot"} THEN a
  ELSE LET b == [a EXCEPT !.afraid = MaxAfraid, !.state = IF @ = 0 THEN 2 ELSE @] IN
       IF FleesEvent(a, Is("fearsShots") \/ FearsHit(a), far)
         THEN Aim([b EXCEPT !.aware = "fleeingShot"])
         ELSE Remember([b EXCEPT !.aware = "investigating"])

ApplyHunterCall(a) ==
  IF a.health = "dead" \/ ~Is("fearsCalls") \/ a.aware \notin {"none", "fleeingCall"} THEN a
  ELSE Aim([a EXCEPT !.state = 2, !.afraid = MaxAfraid, !.aware = "fleeingCall"])

(* Exact tracking is kept unless the animal flees; a T-Rex charges at once. *)
ApplyDirectHit(a, far) ==
  LET flees  == FleesEvent(a, FearsHit(a), far)
      keeps  == TracksHunterExactly(a) /\ ~flees
      roused == IF IsHunterAware(a) THEN a.state ELSE 2
      b == [a EXCEPT !.afraid = MaxAfraid, !.state = roused]
  IN IF a.health = "dead" THEN a
     ELSE IF keeps THEN b
     ELSE IF flees THEN Aim([b EXCEPT !.aware = "fleeingHit"])
     ELSE Remember([b EXCEPT
            !.aware = "retaliating",
            !.state = IF herd.family = "trex" /\ a.aware # "retaliating"
                        THEN (IF roused # 0 THEN 5 ELSE 1) ELSE @])

(* The fields of a dead animal are not read again.                         *)
Damage(a, health) ==
  IF a.health = "dead" THEN a
  ELSE IF health = "dead" THEN [Born EXCEPT !.health = "dead"]
  ELSE [a EXCEPT !.health = health]

(* Defect: the stimulus is applied before the damage.                      *)
StruckFirst(a, health, far) == Damage(ApplyDirectHit(a, far), health)

(* AnimateBullet: damage first, then registerDamage.                       *)
Struck(a, health, far) == ApplyDirectHit(Damage(a, health), far)

-----------------------------------------------------------------------------
(* One animal's turn in AnimateCharacters.  x is [a, p, hunter, loops]:    *)
(* the animal, its pack, the hunter and whether the animator never returns; *)
(* e is what the animal meets in this frame:                               *)
(*   near     the hunter is near enough to be bitten or to scare it, within *)
(*            2048, within 4096 or beyond                                  *)
(*   outside  the hunter is outside the aggression range, where a          *)
(*            brachiosaur cannot attack him, or, for a fish, on land        *)
(*   deep     a brachiosaur is in deep water, which it leaves in the end    *)
(*   there    the target is reached                                        *)
(*   settled  a wanderer takes a new place or follows its leader, the      *)
(*            30 s of its target are over, or a T-Rex faces its target     *)
(*   follows  SetPackLeaderTarget has a target: a fresh anchor, or the     *)
(*            animal is not the leader                                     *)
(*   bites    the attack is in vertical reach too; with a killing          *)
(*            animation (grab) or without (gulp)                           *)
(*   swapped  ReplaceCharacterForward finds a place                        *)

Near ==
  IF withdrawn THEN {"far"}
  ELSE IF herd.family = "ambient" THEN {"reach", "near", "off", "far"}
  ELSE {"reach", "far"}
When(asked) == IF asked THEN BOOLEAN ELSE {FALSE}

(* What is not asked for is FALSE.                                         *)
Encounters(a) ==
  { e \in [ near : Near, outside : When(herd.family \in {"standard", "brahi", "fish"}),
            deep : When(herd.family = "brahi" /\ ~withdrawn),
            there : When(IsTimedHunterReaction(a)), settled : BOOLEAN,
            follows : When(InPack),
            bites : IF Is("bites") THEN {"no", "grab", "gulp"} ELSE {"no"},
            swapped : When(Is("swaps")) ] :
      /\ e.bites # "no" => e.near = "reach"
      /\ e.swapped => e.near = "far"
      /\ herd.family = "fish" /\ withdrawn => e.outside }

Alarm(x) == IF InPack THEN [x EXCEPT !.p.alert = TRUE] ELSE x

(* Defect: the timeout of a wanderer's target also ends a remembered one.  *)
OutOfTimeAlways(x, e) == IF e.settled THEN [x EXCEPT !.a.goal = "own"] ELSE x

OutOfTime(x, e) ==
  IF ~IsTimedHunterReaction(x.a) /\ e.settled THEN [x EXCEPT !.a.goal = "own"] ELSE x

ApplyContact(x, e) ==
  IF x.hunter = "alive" /\ IsFixedHunterPursuit(x.a) /\ Is("bites") /\ e.near = "reach"
    THEN [x EXCEPT !.a = Track(@)] ELSE x

ClearHunterReaction(a) ==
  [Born EXCEPT !.health = a.health]

(* Defect: the timer is not stopped at zero.                               *)
TickBelowZero(x) ==
  LET left == x.a.afraid - 1 IN
  IF left <= 0 /\ IsTimedHunterReaction(x.a) THEN [x EXCEPT !.a = ClearHunterReaction(@)]
  ELSE [x EXCEPT !.a.afraid = left, !.a.aware = IF left <= 0 THEN "none" ELSE @]

TickHunterAwareness(x) ==
  LET left == IF x.a.afraid > 1 THEN x.a.afraid - 1 ELSE 0 IN
  IF left > 0 THEN [x EXCEPT !.a.afraid = left]
  ELSE IF IsTimedHunterReaction(x.a) THEN [x EXCEPT !.a = ClearHunterReaction(@)]
  ELSE [x EXCEPT !.a.afraid = 0, !.a.aware = "none"]

(* ShouldFleeFromAuthoredThreat, and ShouldFleeHunter in an ordinary hunt. *)
FleesAuthored(a, outside) ==
  \/ outside /\ ~IsFixedHunterPursuit(a)
  \/ Is("passive") \/ ~IsHunterAware(a) \/ FearsHit(a)
  \/ a.aware = "fleeingShot"

ShouldFleeHunter(x, e) ==
  /\ FleesAuthored(x.a, e.outside) \/ IsFixedHunterFlee(x.a)
  /\ ~(InPack /\ x.p._attack /\ ~IsTimedHunterReaction(x.a))

(* Its side effect: a tracking member that does not flee calls an attack.  *)
CallAttack(x, e) ==
  IF /\ InPack /\ TracksHunterExactly(x.a) /\ ~FleesAuthored(x.a, e.outside)
    THEN [x EXCEPT !.p.attack = TRUE] ELSE x

SetPackLeaderTarget(x, e) ==
  IF InPack /\ e.follows THEN [x EXCEPT !.a.goal = "pack"] ELSE x

LiveTarget(x, e) ==
  IF herd.family = "fish"
    THEN [x EXCEPT !.a.goal =
           IF TracksHunterExactly(x.a) /\ Is("dangerFish") THEN "hunter" ELSE "away"]
  ELSE IF herd.family = "trex"
    THEN IF TracksHunterExactly(x.a) THEN [x EXCEPT !.a.goal = "hunter"]
         ELSE SetPackLeaderTarget(x, e)
    ELSE LET y == CallAttack(x, e) IN
         IF InPack /\ ~TracksHunterExactly(x.a) THEN SetPackLeaderTarget(y, e)
         ELSE [y EXCEPT !.a.goal = IF ShouldFleeHunter(y, e) THEN "away" ELSE "hunter"]

(* A wake-up counts before State rises.                                    *)
PackWakes(x) ==
  /\ x.a.state = 0 /\ InPack /\ x.p._alert
  /\ \/ herd.family \in {"brahi", "trex"}
     \/ herd.family = "standard" /\ (x.hunter = "alive" \/ Is("carnivore"))

UpdateLiveHunterNavigation(x, e) ==
  IF \/ IsFixedHunterPursuit(x.a) \/ herd.family = "ambient"
     \/ x.a.state = 0 /\ ~PackWakes(x)
    THEN x ELSE LiveTarget(x, e)

(* Defect: only a leg that was closed is aimed anew.                       *)
NextLegClosed(a, e) ==
  IF e.there THEN Aim(a)
  ELSE [a EXCEPT !.leg = (@ + 1) % Stuck, !.unclosed = IF @ < Stuck THEN @ + 1 ELSE @]

(* A leg that was not closed for Stuck frames is aimed anew.               *)
NextLeg(a, e) ==
  IF e.there \/ a.leg + 1 = Stuck THEN Aim(a)
  ELSE [a EXCEPT !.leg = @ + 1, !.unclosed = IF @ < Stuck THEN @ + 1 ELSE @]

UpdateHunterNavigation(x, e) ==
  LET y == IF IsTimedHunterReaction(x.a) THEN Alarm(x) ELSE x IN
  IF IsFixedHunterFlee(x.a) THEN [y EXCEPT !.a = NextLeg(@, e)]
  ELSE UpdateLiveHunterNavigation(
         IF IsFixedHunterPursuit(x.a) /\ e.there THEN [y EXCEPT !.a.goal = "search"] ELSE y, e)

-----------------------------------------------------------------------------
(* The animators' thinking.                                                *)

CanKillHunter(x, e) ==
  /\ x.hunter = "alive" /\ e.near = "reach" /\ e.bites # "no"
  /\ x.a.afraid > 0
  /\ TracksHunterExactly(x.a) \/ IsFixedHunterFlee(x.a)

Bite(x, e) ==
  IF CanKillHunter(x, e)
    THEN [x EXCEPT !.hunter = "dead", !.a.state = IF e.bites = "grab" THEN 1 ELSE 0]
    ELSE x

(* ReplaceCharacterForward and ResetCharacter.                             *)
Swap(x, e) == IF e.swapped THEN [x EXCEPT !.a = Born] ELSE x

Wander(x, e) == IF e.settled THEN [x EXCEPT !.a.goal = "own"] ELSE x

(* Defect: a member that was only woken passes the alarm on.               *)
FleeInPackEchoing(x) ==
  IF x.a.afraid = 0 /\ ~x.p._alert
    THEN [x EXCEPT !.a.state = 0, !.a.goal = IF Is("carnivore") THEN @ ELSE "own"]
    ELSE IF IsTimedHunterReaction(x.a) THEN x ELSE Alarm(x)

(* Fleeing ends with the fear, for a member once its pack is quiet.        *)
FleeInPack(x) ==
  IF x.a.afraid = 0
    THEN IF InPack /\ x.p._alert THEN x
         ELSE [x EXCEPT !.a.state = 0, !.a.goal =
                IF Is("carnivore") \/ herd.family = "brahi" THEN @ ELSE "own"]
    ELSE IF IsTimedHunterReaction(x.a) THEN x ELSE Alarm(x)

(* AnimateHuntable with State set: once the hunter is dead, nothing.       *)
HuntableReacts(x, e) ==
  IF x.hunter = "dead" \/ x.a.state = 0 THEN [x EXCEPT !.a.state = 0]
  ELSE LET y == CallAttack(x, e) IN
       Bite(IF ShouldFleeHunter(y, e) THEN FleeInPack(y)
            ELSE IF TracksHunterExactly(y.a) /\ Is("carnivore") THEN Alarm(y) ELSE y, e)

(* ... and without.  A deer that is scared thinks again, from the top.     *)
HuntableRests(x, e) ==
  LET y == IF Is("forgets") THEN [x EXCEPT !.a.afraid = 0] ELSE x IN
  IF x.a.state # 0 THEN x
  ELSE IF ~(Is("deer") /\ e.near = "reach") THEN Wander(y, e)
  ELSE LET z == HuntableReacts([y EXCEPT !.a = [Track(@) EXCEPT !.state = 1]], e) IN
       IF z.a.state = 0 THEN [y EXCEPT !.loops = TRUE] ELSE z

AnimateHuntable(x, e) ==
  LET alertInit == x.a.state = 2 \/ (InPack /\ x.a.state = 0 /\ x.p._alert)
      y == IF alertInit /\ (x.hunter = "alive" \/ Is("carnivore"))
             THEN [x EXCEPT !.a.state = 1] ELSE x
  IN HuntableRests(Swap(HuntableReacts(y, e), e), e)

(* AnimateTRex: woken by its pack, or hit, it forgets what it looked at.   *)
TRexWakes(x) ==
  IF x.a.state = 5 \/ (InPack /\ x.a.state = 0 /\ x.p._alert)
    THEN [x EXCEPT !.a.state = 1,
           !.a.afraid = IF IsFixedHunterPursuit(x.a) \/ TracksHunterExactly(x.a) THEN @ ELSE 1]
    ELSE x

TRexReacts(x, e) ==
  IF x.a.state = 0 THEN x
  ELSE IF ~IsHunterAware(x.a) /\ x.a.afraid = 0
    THEN TRexWakes([x EXCEPT !.a.state = 0, !.a.goal = "own"])
  ELSE LET y == IF TracksHunterExactly(x.a) THEN Alarm(x) ELSE x IN
       Bite(IF e.settled THEN [y EXCEPT !.a.state = 1] ELSE y, e)

AnimateTRex(x, e) ==
  LET y == TRexWakes(Swap(TRexReacts(TRexWakes(x), e), e)) IN
  IF y.a.state = 0 THEN Wander(y, e) ELSE y

(* AnimateBrahi: in deep water it turns to a new place, whatever it does.  *)
BrahiWakes(x) ==
  IF x.a.state = 2 \/ (InPack /\ x.a.state = 0 /\ x.p._alert) THEN [x EXCEPT !.a.state = 1] ELSE x

BrahiReacts(x, e) ==
  IF x.hunter = "dead" \/ x.a.state = 0 THEN [x EXCEPT !.a.state = 0]
  ELSE LET y == CallAttack(x, e) IN
       Bite(IF e.deep THEN [y EXCEPT !.a.goal = "own", !.a.leg = 0, !.a.unclosed = 0]
            ELSE IF ShouldFleeHunter(y, e) THEN FleeInPack(y)
            ELSE IF TracksHunterExactly(y.a) THEN Alarm(y) ELSE y, e)

AnimateBrahi(x, e) ==
  LET y == BrahiReacts(BrahiWakes(x), e)
      z == IF e.swapped THEN BrahiReacts(BrahiWakes(Swap(y, e)), e) ELSE y
  IN IF z.a.state = 0 THEN Wander([z EXCEPT !.a.afraid = 0], e) ELSE z

(* AnimateFish: the hunter in the water and in range is noticed, unless it *)
(* was told not to swim away; what it was doing before decides the rest.   *)
FishSees(x, e) == x.hunter = "alive" /\ ~e.outside /\ ~Is("heedless")

FishNotices(x, e) ==
  IF x.a.state = 0 /\ FishSees(x, e)
    THEN Alarm([x EXCEPT !.a = [Track(@) EXCEPT !.state = 1]])
  ELSE IF x.a.state = 0 THEN Wander(x, e)
  ELSE IF IsFixedHunterPursuit(x.a) /\ FishSees(x, e) THEN [x EXCEPT !.a = Track(@)]
  ELSE x

FishRelaxes(x, e) ==
  IF x.a.afraid > 0 THEN Alarm(x)
  ELSE IF InPack /\ x.p._alert THEN x
  ELSE [x EXCEPT !.a.state = 0, !.a.goal = "own"]

FishHunts(x, e) ==
  LET y == IF FishSees(x, e) THEN [x EXCEPT !.a.afraid = MaxAfraid] ELSE x IN
  IF TracksHunterExactly(x.a) /\ Is("dangerFish") THEN Alarm(y) ELSE x

FishReacts(x, e, timed, pursuit) ==
  LET y == IF ~timed /\ e.outside THEN FishRelaxes(x, e) ELSE x IN
  IF x.a.state = 0 THEN x
  ELSE IF y.a.state = 0 THEN y
  ELSE Bite(IF pursuit THEN y ELSE FishHunts(y, e), e)

AnimateFish(x, e) ==
  LET y == Swap(x, e)
      z == IF y.hunter = "dead" THEN [y EXCEPT !.a.state = 0] ELSE y
  IN FishReacts(FishNotices(z, e), e, IsTimedHunterReaction(z.a), IsFixedHunterPursuit(z.a))

(* AnimateClassicAmbient: scared within 2048, calm beyond 4096.            *)
AmbientFears(x, e) ==
  IF x.a.afraid > 0 THEN Alarm(x)
  ELSE IF e.near \in {"reach", "near"} THEN Alarm([x EXCEPT !.a = Track(@)])
  ELSE IF e.near = "far" /\ ~(InPack /\ x.p._alert)
    THEN [x EXCEPT !.a.state = 0, !.a.goal = "own"]
  ELSE x

AmbientTarget(x, e) ==
  IF x.a.state = 0 THEN x
  ELSE IF TracksHunterExactly(x.a) THEN [x EXCEPT !.a.goal = "away"]
  ELSE IF IsTimedHunterReaction(x.a) THEN [x EXCEPT !.a.leg = 0]
  ELSE SetPackLeaderTarget(x, e)

AmbientReacts(x, e) ==
  IF x.a.state = 0 THEN x ELSE AmbientTarget(AmbientFears(x, e), e)

AmbientRests(x, e) ==
  IF x.a.state # 0 THEN x
  ELSE IF e.near = "reach"
    THEN AmbientReacts([x EXCEPT !.a = [Track(@) EXCEPT !.state = 1]], e)
  ELSE Wander([x EXCEPT !.a.afraid = 0], e)

AnimateClassicAmbient(x, e) ==
  LET woken == x.a.state = 2 \/ (InPack /\ x.a.state = 0 /\ x.p._alert)
      y == IF woken THEN [x EXCEPT !.a.state = 1] ELSE x
  IN AmbientRests(Swap(AmbientReacts(y, e), e), e)

Animate(x, e) ==
  CASE herd.family = "standard" -> AnimateHuntable(x, e)
    [] herd.family = "trex"     -> AnimateTRex(x, e)
    [] herd.family = "brahi"    -> AnimateBrahi(x, e)
    [] herd.family = "fish"     -> AnimateFish(x, e)
    [] herd.family = "ambient"  -> AnimateClassicAmbient(x, e)

(* The order within a turn: what e has happened before, the navigator, the *)
(* animator.                                                               *)
Turn(x, e) ==
  LET ticked == { TickHunterAwareness(ApplyContact(OutOfTime(x, e), e)) }
      aimed  == { UpdateHunterNavigation(y, e) : y \in ticked }
  IN IF x.a.health = "dead" THEN {x} ELSE { Animate(y, e) : y \in aimed }

-----------------------------------------------------------------------------
(* A frame.                                                                *)

Members == 1 .. herd.size

(* The keys: a shot is heard by some animals, near or beyond their range;  *)
(* a call scares those that fear it, and lures some that are calm.  Then   *)
(* AnimateCharacters latches the packs' flags.                             *)
Shoot ==
  \E ears \in SUBSET Members, far \in SUBSET Members :
    /\ far \subseteq ears
    /\ animals' = [i \in Members |->
         IF i \in ears THEN ApplyGunshotHeard(animals[i], i \in far) ELSE animals[i]]

Call ==
  \E ears \in SUBSET Members, lured \in SUBSET Members :
    animals' = [i \in Members |->
      LET a == IF i \in ears THEN ApplyHunterCall(animals[i]) ELSE animals[i] IN
      IF i \in lured /\ a.health # "dead" /\ a.afraid = 0 /\ a.state = 0
        THEN Remember(a) ELSE a]

Controls ==
  /\ phase = "controls"
  /\ \/ hunter = "alive" /\ ~withdrawn /\ (Shoot \/ Call)
     \/ UNCHANGED animals
  /\ pack' = [alert |-> FALSE, _alert |-> pack.alert, attack |-> FALSE, _attack |-> pack.attack]
  /\ phase' = "animals" /\ cur' = 1
  /\ UNCHANGED <<herd, hunter, withdrawn>>

AnimalTurn ==
  /\ phase = "animals"
  /\ \E e \in Encounters(animals[cur]) :
     \E x \in Turn([a |-> animals[cur], p |-> pack, hunter |-> hunter, loops |-> FALSE], e) :
       /\ animals' = [animals EXCEPT ![cur] = x.a]
       /\ pack' = x.p
       /\ hunter' = x.hunter
       /\ IF x.loops THEN phase' = "looping" /\ cur' = cur
          ELSE IF cur < herd.size THEN phase' = phase /\ cur' = cur + 1
          ELSE phase' = "bullets" /\ cur' = 1
  /\ UNCHANGED <<herd, withdrawn>>

(* The animator that goes back to TBEGIN for ever.                         *)
Loop == phase = "looping" /\ UNCHANGED vars

Bullets ==
  /\ phase = "bullets"
  /\ \/ UNCHANGED animals
     \/ /\ ~withdrawn
        /\ \E i \in Members, health \in {"hurt", "dead"}, far \in BOOLEAN :
             animals' = [animals EXCEPT ![i] = Struck(@, health, far)]
  /\ phase' = "senses"
  /\ UNCHANGED <<herd, pack, hunter, withdrawn, cur>>

(* CheckAfraid: sight or scent.  Only a new detection plays a notice.      *)
Sense(a, sight) ==
  IF a.health = "dead" \/ ~Is("sniffs") THEN a
  ELSE [Track(a) EXCEPT !.state =
         IF herd.family = "trex" /\ ~IsHunterAware(a) /\ ~sight THEN 3
         ELSE IF @ = 0 THEN 2 ELSE @]

CheckAfraid ==
  /\ phase = "senses"
  /\ \/ UNCHANGED animals
     \/ /\ hunter = "alive" /\ ~withdrawn
        /\ \E noticed \in SUBSET Members, sight \in SUBSET Members :
             animals' = [i \in Members |->
               IF i \in noticed THEN Sense(animals[i], i \in sight) ELSE animals[i]]
  /\ phase' = "controls"
  /\ UNCHANGED <<herd, pack, hunter, withdrawn, cur>>

Frame == Controls \/ AnimalTurn \/ Bullets \/ CheckAfraid \/ Loop

(* The hunter goes away for good, or dies of something else.               *)
Withdraw ==
  /\ phase = "controls" /\ ~withdrawn /\ hunter = "alive"
  /\ withdrawn' = TRUE
  /\ UNCHANGED <<herd, animals, pack, hunter, phase, cur>>

HunterDies ==
  /\ phase = "controls" /\ hunter = "alive"
  /\ hunter' = "dead"
  /\ UNCHANGED <<herd, animals, pack, withdrawn, phase, cur>>

Next == Frame \/ Withdraw \/ HunterDies

Spec == Init /\ [][Next]_vars /\ WF_vars(Frame)

-----------------------------------------------------------------------------
(* Properties                                                              *)

(* While the hunter lives, an animal that goes after a remembered shot or  *)
(* hit is awake and its target is that place or the search around it:      *)
(* neither wandering, the pack, nor the hunter's present position replaces *)
(* it (CharacterAnimation.cpp, UpdateLiveHunterNavigation), except that a  *)
(* brachiosaur leaves deep water first (AnimateBrahi.cpp).                 *)
PursuitRemembers ==
  hunter = "alive" /\ herd.family # "brahi" => \A i \in Members :
    IsFixedHunterPursuit(animals[i]) =>
      animals[i].goal \in {"event", "search"} /\ animals[i].state # 0

(* The decision taken at the event and the one taken every frame agree: no *)
(* animal follows a remembered place while its authored fear says flee     *)
(* (FearsHunterEvent in AIBehavior.h).                                     *)
FleeAgreement ==
  herd.family # "trex" => \A i \in Members :
    IsFixedHunterPursuit(animals[i]) => ~FleesAuthored(animals[i], FALSE)

(* Once the hunter is far and silent, every animal becomes calm and the    *)
(* packs' alarm dies down: no lock and no alarm feeds itself.              *)
Calm ==
  /\ ~pack.alert /\ ~pack._alert
  /\ \A i \in Members : animals[i].health # "dead" =>
       ~IsHunterAware(animals[i]) /\ animals[i].state = 0 /\ animals[i].afraid = 0
QuietCalms == (withdrawn /\ hunter = "alive") ~> (Calm \/ hunter = "dead")

(* "Re-aiming occurs once per interval" (TIBBEE_INTEGRATION.md): a fixed   *)
(* flee whose leg is not closed is aimed anew within the stuck interval.   *)
LegsTurn ==
  hunter = "alive" => \A i \in Members : animals[i].unclosed < Stuck

(* The same of the families whose animator leaves the navigator's clock    *)
(* alone: a call, a second shot, a hit or the pack may come in between.    *)
HuntableLegsTurn == herd.family # "ambient" => LegsTurn

(* "The deer knows where the hunter is, so it may flee" (AnimateHuntable): *)
(* a scared deer's turn ends, with the scare in force.                     *)
ScaredDeerFlees == phase # "looping"
=============================================================================
