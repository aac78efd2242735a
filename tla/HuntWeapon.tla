----------------------------- MODULE HuntWeapon -----------------------------
(***************************************************************************)
(* The hunter of an ordinary hunt: the one slot that holds the game mode,  *)
(* the overlay stashed behind a menu, and the weapon with its ammunition.  *)
(* GameMode.h, HideWeapon of EngineInit.cpp, the weapon keys of            *)
(* PlayerMovement.cpp and the weapon part of DrawPostObjects (Hunt.cpp).   *)
(*                                                                         *)
(* A frame calls many of these one after another, so that each is an       *)
(* operator from a hunter to a hunter.  Weapon.FTime is kept as "busy",    *)
(* not zero; the end of an animation is an argument.                       *)
(***************************************************************************)
EXTENDS Naturals, Integers, FiniteSets

CONSTANTS
  Weapons,    \* the weapons of the game: 1 .. n
  WeapInfo    \* what _RES says of each: see WeaponType

(* The parts of TWeapInfo that decide anything here.  rld and pmp are the  *)
(* signs of rldAnim and pmpAnim.  The parser takes any integer for Reload  *)
(* and Shots.                                                              *)
WeaponType ==
  [optic : BOOLEAN, harpoon : BOOLEAN, reload : Int, shots : Int,
   part : BOOLEAN, rld : {-1, 1}, pmp : {-1, 0, 1}, mustPump : BOOLEAN,
   autoPump : BOOLEAN, autoReload : BOOLEAN, full : BOOLEAN,
   modes : BOOLEAN, retrieve : BOOLEAN]

(* A weapon with a chamber of several rounds has an animation that loads   *)
(* them: AreWeaponAnimationReferencesValid refuses it otherwise.           *)
ASSUME WeaponAssumption ==
  /\ IsFiniteSet(Weapons) /\ Weapons \subseteq Nat \ {0}
  /\ WeapInfo \in [Weapons -> WeaponType]
  /\ \A w \in Weapons : WeapInfo[w].reload > 0 => WeapInfo[w].rld > 0

Modes == {"Normal", "Swimming", "Underwater", "Paused", "Binocular",
          "OpticScope", "MapMode", "ExitCountdown"}

Info(h) == WeapInfo[h.cur]
Arm(h) == h.arms[h.cur]
Armed(h, arm) == [h EXCEPT !.arms[h.cur] = arm]

(* Chambered, ShotsLeft, MagShotsLeft, AmmoMag and FiringMode of a weapon  *)
(* that is not taken along.                                                *)
NoArm == [cham |-> 0, left |-> 0, mag |-> 0, mags |-> 0, auto |-> FALSE]

(* The table gives the weapon what its first load takes.  Nothing in the   *)
(* code asks for it, and refillWeapons subtracts the load all the same.    *)
Stocked(w) ==
  /\ WeapInfo[w].reload >= 0
  /\ WeapInfo[w].shots >= (IF WeapInfo[w].reload > 0 THEN WeapInfo[w].reload ELSE 1)

(* Counts of a weapon that is stocked stay in their ranges; those of any   *)
(* other start below zero, and a round that is owed counts as one.         *)
ArmType(w) ==
  IF Stocked(w)
  THEN [cham : 0..(2 * WeapInfo[w].shots), left : 0..(2 * WeapInfo[w].shots),
        mag : 0..WeapInfo[w].shots, mags : {0, 1}, auto : BOOLEAN]
  ELSE [cham : Int, left : Int, mag : Int, mags : {0, 1}, auto : BOOLEAN]

(* refillWeapons for one weapon, at the start (init) or from the bag.      *)
Refilled(a, w, double, init) ==
  LET i == WeapInfo[w]
      loose == i.reload # 0 \/ i.rld < 0
      load == IF i.reload # 0 THEN i.reload ELSE 1
      loads == init \/ (IF i.reload # 0 THEN i.rld ELSE i.pmp) < 0
  IN [cham |-> IF loads THEN load ELSE a.cham,
      left |-> (IF double /\ loose THEN 2 * i.shots ELSE i.shots)
                 - (IF loads THEN load ELSE 0),
      mag |-> IF double /\ ~loose THEN i.shots ELSE a.mag,
      mags |-> IF double /\ ~loose THEN 1 ELSE a.mags,
      auto |-> i.full]

refillWeapons(h, taken, double, init) ==
  [h EXCEPT !.arms = [w \in Weapons |->
      IF w \in taken THEN Refilled(h.arms[w], w, double, init) ELSE h.arms[w]]]

-----------------------------------------------------------------------------
(* The mode slot.                                                          *)

IsOverlayMode(m) == m \in {"OpticScope", "Binocular", "MapMode"}
IsInWorldMovementMode(m) == m \in {"Normal", "Swimming"}
IsMenu(m) == m \in {"ExitCountdown", "Paused"}
IsScopeView(h) ==
  \/ h.mode = "OpticScope"
  \/ IsMenu(h.mode) /\ h.saved = "OpticScope"

DismissMenuRestore(h) ==
  [h EXCEPT !.mode = IF IsOverlayMode(h.saved) THEN h.saved ELSE "Normal",
            !.saved = "Normal"]

EnterMenuMode(h) ==
  IF h.exit THEN h ELSE [h EXCEPT !.saved = h.mode, !.mode = "ExitCountdown"]

EnterPauseMode(h) == [h EXCEPT !.saved = h.mode, !.mode = "Paused"]

ConfirmExitMenu(h) == DismissMenuRestore([h EXCEPT !.exit = TRUE])

EnterExitCountdownNoStash(h) ==
  [h EXCEPT !.saved = "Normal", !.mode = "ExitCountdown"]

ToggleBinocular(h) ==
  IF h.state # 0 \/ h.water \/ ~h.alive THEN h
  ELSE [h EXCEPT !.mode = IF @ = "Binocular" THEN "Normal" ELSE "Binocular"]

ToggleMapMode(h) ==
  IF ~h.alive \/ h.mode = "Binocular" \/ h.state # 0 THEN h
  ELSE [h EXCEPT !.mode = IF @ = "MapMode" THEN "Normal" ELSE "MapMode"]

-----------------------------------------------------------------------------
(* The weapon keys.  Weapon.state: 0 away, 1 raised, 2 held, 3 lowered,    *)
(* 4 and 5 reloaded in full and in part, 6 pumped, 7 switched.             *)

Ready(h) == h.state = 2 /\ ~h.busy

(* Defect: the scope is left only when the slot holds it, not behind a menu. *)
HideWeaponMenu(h) ==
  IF h.water /\ h.state = 0 /\ ~Info(h).harpoon THEN h
  ELSE IF h.state = 0
  THEN [h EXCEPT !.state = 1, !.busy = FALSE,
                 !.mode = IF Info(h).optic THEN "OpticScope"
                          ELSE IF @ = "Binocular" THEN "Normal" ELSE @]
  ELSE IF Ready(h)
  THEN [h EXCEPT !.state = 3, !.mode = IF @ = "OpticScope" THEN "Normal" ELSE @]
  ELSE h

(* Raises the weapon, with its scope, or lowers it; the slot is set to     *)
(* Normal whatever it held.                                                *)
HideWeapon(h) ==
  IF h.water /\ h.state = 0 /\ ~Info(h).harpoon THEN h
  ELSE IF h.state = 0
  THEN [h EXCEPT !.state = 1, !.busy = FALSE,
                 !.mode = IF Info(h).optic THEN "OpticScope"
                          ELSE IF @ = "Binocular" THEN "Normal" ELSE @]
  ELSE IF Ready(h) THEN [h EXCEPT !.state = 3, !.mode = "Normal"]
  ELSE h

(* The key of weapon w; a weapon in some animation ignores it.             *)
SelectWeapon(h, w) ==
  LET a == h.arms[w]
      aimed == [h EXCEPT !.target = w,
                         !.cur = IF h.state = 0 THEN w ELSE @]
  IN IF h.busy \/ (a.cham = 0 /\ a.left = 0 /\ a.mags = 0) THEN h
     ELSE IF h.water /\ ~WeapInfo[w].harpoon THEN [h EXCEPT !.target = w]
     ELSE HideWeapon(aimed)

(* Defect: what a reload takes is not limited by the rounds that are left. *)
ProcessReloadFull(h) ==
  LET a == Arm(h)  i == Info(h)
      inPart == i.part /\ (a.cham # 0 \/ (i.reload # 0 /\ a.left < i.reload))
      started == IF inPart THEN [h EXCEPT !.state = 5, !.busy = TRUE]
                 ELSE IF i.rld > 0 THEN [h EXCEPT !.state = 4, !.busy = TRUE]
                 ELSE h
  IN IF ~Ready(h) THEN h
     ELSE IF i.reload # 0
     THEN IF a.cham >= i.reload \/ a.left = 0 THEN h
          ELSE [started EXCEPT !.ammoIn = i.reload - a.cham]
     ELSE IF a.mags > 0 THEN started ELSE h

(* A weapon with a chamber of several rounds takes them one by one (in     *)
(* part when it has such an animation), any other changes its magazine.    *)
ProcessReload(h) ==
  LET a == Arm(h)  i == Info(h)
      inPart == i.part /\ (a.cham # 0 \/ (i.reload # 0 /\ a.left < i.reload))
      started == IF inPart THEN [h EXCEPT !.state = 5, !.busy = TRUE]
                 ELSE IF i.rld > 0 THEN [h EXCEPT !.state = 4, !.busy = TRUE]
                 ELSE h
  IN IF ~Ready(h) THEN h
     ELSE IF i.reload # 0
     THEN IF a.cham >= i.reload \/ a.left = 0 THEN h
          ELSE [started EXCEPT !.ammoIn =
                  IF a.left < i.reload THEN a.left ELSE i.reload - a.cham]
     ELSE IF a.mags > 0 THEN started ELSE h

ProcessFireMode(h) ==
  IF Info(h).modes /\ Ready(h) THEN [h EXCEPT !.state = 7, !.busy = TRUE] ELSE h

(* The round in the chamber is thrown out.                                 *)
ProcessPump(h) ==
  IF Info(h).pmp > 0 /\ Ready(h) /\ Info(h).reload = 0
  THEN Armed([h EXCEPT !.state = 6, !.busy = TRUE], [Arm(h) EXCEPT !.cham = 0])
  ELSE h

(* Whether the trigger lets a shot off; a weapon that is not set to fire   *)
(* on does so once until the key is up.                                    *)
Fires(h) ==
  /\ Ready(h) /\ Arm(h).cham # 0
  /\ ~h.water \/ Info(h).harpoon
  /\ ~h.fired \/ Arm(h).auto

ProcessShoot(h) ==
  IF h.water /\ ~Info(h).harpoon THEN HideWeapon(h)
  ELSE IF Fires(h)
  THEN Armed([h EXCEPT !.busy = TRUE], [Arm(h) EXCEPT !.cham = @ - 1])
  ELSE h

-----------------------------------------------------------------------------
(* What DrawPostObjects does to the weapon in one frame.                   *)

(* The next round goes into an empty or spent chamber.                     *)
Chamber(a) ==
  IF a.left # 0 THEN [a EXCEPT !.cham = 1, !.left = @ - 1] ELSE a

SwapMagazine(a) ==
  [a EXCEPT !.left = a.mag, !.mag = a.left,
            !.mags = IF a.left = 0 THEN @ - 1 ELSE @]

(* Defect: the rounds that go in are not taken from those that are left.   *)
LoadedFree(h) ==
  IF Info(h).reload # 0
  THEN Armed(h, [Arm(h) EXCEPT !.cham = @ + h.ammoIn])
  ELSE Armed(h, SwapMagazine(Arm(h)))

(* The end of a reload: the rounds go in, or the magazines change places.  *)
Loaded(h) ==
  IF Info(h).reload # 0
  THEN Armed(h, [Arm(h) EXCEPT !.left = @ - h.ammoIn, !.cham = @ + h.ammoIn])
  ELSE Armed(h, SwapMagazine(Arm(h)))

(* A full change of the magazine also fills the chamber.                   *)
Reloaded(h) ==
  LET l == Loaded([h EXCEPT !.state = 2, !.busy = FALSE])
  IN IF Info(h).reload # 0 \/ Arm(l).cham # 0 THEN l
     ELSE IF Info(h).pmp <= 0
     THEN Armed(l, [Arm(l) EXCEPT !.cham = 1, !.left = @ - 1])
     ELSE IF Info(h).autoPump THEN ProcessPump(l) ELSE l

(* The end of the shot's animation.                                        *)
ShotOver(h) ==
  LET i == Info(h)
      held == [h EXCEPT !.busy = FALSE]
      fed == IF i.reload = 0 /\ ~i.mustPump
             THEN Armed(held, Chamber(Arm(h))) ELSE held
      pumped == IF i.mustPump /\ i.autoPump /\ Arm(fed).left # 0
                THEN ProcessPump(fed) ELSE fed
  IN IF i.autoReload /\ Arm(pumped).cham = 0
          /\ (i.reload # 0 \/ Arm(pumped).left = 0)
     THEN ProcessReload(pumped) ELSE pumped

(* The animation of the weapon's state is over.                            *)
AnimationOver(h) ==
  LET held == [h EXCEPT !.state = 2, !.busy = FALSE]
  IN CASE h.state = 1 -> held
       [] h.state = 2 -> IF h.busy THEN ShotOver(h) ELSE h
       [] h.state = 3 ->
            LET away == [h EXCEPT !.state = 0, !.busy = FALSE, !.cur = h.target]
            IN IF h.cur # h.target THEN HideWeapon(away) ELSE away
       [] h.state = 4 -> Reloaded(h)
       [] h.state = 5 -> Loaded(held)
       [] h.state = 6 -> Armed(held, Chamber(Arm(h)))
       [] h.state = 7 -> Armed(held, [Arm(h) EXCEPT !.auto = ~@])

(* One frame: over says whether the animation ends now, and also whether   *)
(* a pump that its end starts does.  A held weapon closes the map.         *)
AnimateWeapon(h, over, pumpOver) ==
  IF h.state = 0 THEN h
  ELSE LET shown == [h EXCEPT !.mode = IF @ = "MapMode" THEN "Normal" ELSE @]
           next == IF over THEN AnimationOver(shown)
                   ELSE [shown EXCEPT !.busy = @ \/ h.state \in {1, 3}]
       IN IF over /\ pumpOver /\ h.state # 6 /\ next.state = 6
          THEN AnimationOver(next) ELSE next
=============================================================================
