-------------------------- MODULE HuntWeapon_proofs --------------------------
(***************************************************************************)
(* What the operators of HuntWeapon preserve, for every set of weapons and *)
(* whatever the data file says of them: the magnified view is backed by a  *)
(* raised weapon with a scope, and nothing but the bag, a bolt and a new   *)
(* round adds to what a weapon holds.  Of a weapon whose table stocks it,  *)
(* no count of rounds leaves its range, and a reload never takes more than *)
(* is left.                                                                *)
(***************************************************************************)
EXTENDS HuntWeapon, TLAPS

-----------------------------------------------------------------------------
(* The inductive invariant of the hunter.                                  *)

(* A weapon that came with a second magazine has no chamber of several     *)
(* rounds, and one without such a chamber has one round in it or none.     *)
ArmRecord == [cham : Int, left : Int, mag : Int, mags : {0, 1}, auto : BOOLEAN]

(* The counts of a weapon that is stocked: its magazines are never larger  *)
(* than the weapon's, and a second one is not empty.                       *)
Bounds(w, a) ==
  /\ a.cham >= 0 /\ a.left >= 0 /\ a.mag >= 0
  /\ a.cham <= 2 * WeapInfo[w].shots /\ a.left <= 2 * WeapInfo[w].shots
  /\ a.mag <= WeapInfo[w].shots
  /\ a.mags = 1 => a.mag > 0
  /\ WeapInfo[w].reload = 0 /\ WeapInfo[w].rld > 0 => a.left <= WeapInfo[w].shots

Fit(w, a) ==
  /\ a \in ArmRecord
  /\ a.mags = 1 => WeapInfo[w].reload = 0 /\ WeapInfo[w].rld > 0
  /\ WeapInfo[w].reload = 0 => a.cham \in {0, 1}
  /\ Stocked(w) => Bounds(w, a)

HunterType ==
  [mode : Modes, saved : Modes, state : 0..7, busy : BOOLEAN,
   cur : Weapons, target : Weapons, ammoIn : Int, arms : [Weapons -> ArmRecord],
   fired : BOOLEAN, water : BOOLEAN, exit : BOOLEAN, alive : BOOLEAN]

(* What a weapon that is stocked will take in the reload under way is      *)
(* there, and fits; where a magazine is being changed there is another;    *)
(* and only a chamber of one round is pumped.                              *)
LoadsIn(h, a) ==
  /\ h.state \in {4, 5} =>
       IF Info(h).reload # 0
         THEN Stocked(h.cur) =>
                /\ h.ammoIn >= 0 /\ h.ammoIn <= a.left /\ h.ammoIn <= Info(h).reload
                /\ a.cham + h.ammoIn <= 2 * Info(h).reload
         ELSE a.mags = 1
  /\ h.state = 6 => Info(h).reload = 0

Scoped(h) == IsScopeView(h) => h.state \notin {0, 3} /\ Info(h).optic

Hunters(taken) ==
  { h \in HunterType :
      /\ h.cur \in taken /\ h.target \in taken
      /\ \A w \in Weapons : Fit(w, h.arms[w])
      /\ \A w \in Weapons \ taken : h.arms[w] = NoArm
      /\ LoadsIn(h, Arm(h))
      /\ Scoped(h) }

(* How many rounds a weapon holds; that no weapon holds more, the hunter   *)
(* being as alive as he was.                                               *)
Rounds(a) == a.cham + a.left + a.mag
NoMore(h, k) == \A w \in Weapons : Rounds(k.arms[w]) <= Rounds(h.arms[w])
Steady(h, k) == NoMore(h, k) /\ k.alive = h.alive

-----------------------------------------------------------------------------
(* One weapon.                                                             *)

LEMMA WeaponFacts ==
  ASSUME NEW w \in Weapons
  PROVE  /\ WeapInfo[w] \in WeaponType
         /\ WeapInfo[w].shots \in Int /\ WeapInfo[w].reload \in Int
         /\ WeapInfo[w].rld \in {-1, 1} /\ WeapInfo[w].pmp \in {-1, 0, 1}
         /\ WeapInfo[w].reload > 0 => WeapInfo[w].rld > 0
         /\ Stocked(w) => /\ WeapInfo[w].reload >= 0 /\ WeapInfo[w].shots >= 1
                          /\ WeapInfo[w].shots >= WeapInfo[w].reload
<1>1. WeapInfo[w] \in WeaponType
  BY WeaponAssumption
<1>2. /\ WeapInfo[w].shots \in Int /\ WeapInfo[w].reload \in Int
      /\ WeapInfo[w].rld \in {-1, 1} /\ WeapInfo[w].pmp \in {-1, 0, 1}
  BY <1>1 DEF WeaponType
<1>3. WeapInfo[w].reload > 0 => WeapInfo[w].rld > 0
  BY WeaponAssumption
<1>4. Stocked(w) => /\ WeapInfo[w].reload >= 0 /\ WeapInfo[w].shots >= 1
                    /\ WeapInfo[w].shots >= WeapInfo[w].reload
  BY <1>2 DEF Stocked
<1> QED
  BY <1>1, <1>2, <1>3, <1>4

LEMMA FitType ==
  ASSUME NEW w \in Weapons, NEW a, Fit(w, a)
  PROVE  a \in ArmType(w)
<1>1. CASE Stocked(w)
  BY <1>1, WeaponFacts DEF Fit, Bounds, ArmRecord, ArmType
<1>2. CASE ~Stocked(w)
  BY <1>2 DEF Fit, ArmRecord, ArmType
<1> QED
  BY <1>1, <1>2

LEMMA NoArmFit ==
  ASSUME NEW w \in Weapons
  PROVE  Fit(w, NoArm)
BY WeaponFacts DEF Fit, Bounds, ArmRecord, NoArm

LEMMA RefilledFit ==
  ASSUME NEW w \in Weapons, NEW a, Fit(w, a), NEW double \in BOOLEAN, NEW init \in BOOLEAN
  PROVE  Fit(w, Refilled(a, w, double, init))
<1> DEFINE i == WeapInfo[w]
           loose == i.reload # 0 \/ i.rld < 0
           load == IF i.reload # 0 THEN i.reload ELSE 1
           loads == init \/ (IF i.reload # 0 THEN i.rld ELSE i.pmp) < 0
           b == [cham |-> IF loads THEN load ELSE a.cham,
                 left |-> (IF double /\ loose THEN 2 * i.shots ELSE i.shots)
                            - (IF loads THEN load ELSE 0),
                 mag |-> IF double /\ ~loose THEN i.shots ELSE a.mag,
                 mags |-> IF double /\ ~loose THEN 1 ELSE a.mags,
                 auto |-> i.full]
<1>1. Refilled(a, w, double, init) = b
  BY DEF Refilled
<1>2. load \in Int /\ i.shots \in Int /\ i.reload \in Int /\ i.full \in BOOLEAN
  BY WeaponFacts DEF WeaponType
<1>3. a.cham \in Int /\ a.left \in Int /\ a.mag \in Int /\ a.mags \in {0, 1}
  BY DEF Fit, ArmRecord
<1>4. b \in ArmRecord
  <2>1. b.cham \in Int /\ b.mag \in Int
    BY <1>2, <1>3
  <2>2. b.left \in Int
    BY <1>2
  <2>3. b.mags \in {0, 1} /\ b.auto \in BOOLEAN
    BY <1>2, <1>3
  <2> QED
    BY <2>1, <2>2, <2>3 DEF ArmRecord
<1>5. ~loose <=> i.reload = 0 /\ i.rld > 0
  BY WeaponFacts
<1>6. b.mags = 1 => i.reload = 0 /\ i.rld > 0
  BY <1>5 DEF Fit
<1>7. i.reload = 0 => b.cham \in {0, 1}
  BY DEF Fit
<1>8. ASSUME Stocked(w) PROVE Bounds(w, b)
  <2>1. load >= 1 /\ load <= i.shots
    BY <1>2, <1>8, WeaponFacts
  <2>2. b.cham >= 0 /\ b.cham <= 2 * i.shots
    BY <1>2, <1>3, <1>8, <2>1 DEF Fit, Bounds
  <2>3. b.left >= 0 /\ b.left <= 2 * i.shots /\ (~loose => b.left <= i.shots)
    BY <1>2, <1>8, <2>1
  <2>4. b.mag >= 0 /\ b.mag <= i.shots /\ (b.mags = 1 => b.mag > 0)
    BY <1>2, <1>3, <1>8, <2>1 DEF Fit, Bounds
  <2> HIDE DEF b, loose
  <2> QED
    BY <1>5, <2>2, <2>3, <2>4 DEF Bounds
<1> HIDE DEF b
<1> QED
  BY <1>1, <1>4, <1>6, <1>7, <1>8 DEF Fit

(* The bag in a weapon with a chamber of several rounds, and a second      *)
(* magazine.                                                               *)
LEMMA RefilledByBag ==
  ASSUME NEW w \in Weapons, NEW a, Fit(w, a), NEW double \in BOOLEAN, NEW init \in BOOLEAN, ~init,
         NEW q \in Int,
         IF WeapInfo[w].reload # 0
           THEN Stocked(w) => /\ q >= 0 /\ q <= WeapInfo[w].reload
                              /\ a.cham + q <= 2 * WeapInfo[w].reload
           ELSE a.mags = 1,
         NEW c, c = Refilled(a, w, double, init)
  PROVE  IF WeapInfo[w].reload # 0
           THEN Stocked(w) => /\ q >= 0 /\ q <= c.left /\ q <= WeapInfo[w].reload
                              /\ c.cham + q <= 2 * WeapInfo[w].reload
           ELSE c.mags = 1
<1> DEFINE i == WeapInfo[w]
           loose == i.reload # 0 \/ i.rld < 0
           load == IF i.reload # 0 THEN i.reload ELSE 1
           loads == init \/ (IF i.reload # 0 THEN i.rld ELSE i.pmp) < 0
           b == [cham |-> IF loads THEN load ELSE a.cham,
                 left |-> (IF double /\ loose THEN 2 * i.shots ELSE i.shots)
                            - (IF loads THEN load ELSE 0),
                 mag |-> IF double /\ ~loose THEN i.shots ELSE a.mag,
                 mags |-> IF double /\ ~loose THEN 1 ELSE a.mags,
                 auto |-> i.full]
<1>1. Refilled(a, w, double, init) = b
  BY DEF Refilled
<1>2. a.mags = 1 => b.mags = 1
  OBVIOUS
<1>3. ASSUME ~init, i.reload # 0, Stocked(w) PROVE ~loads
  BY <1>3, WeaponFacts
<1>4. ASSUME Stocked(w), ~loads PROVE b.cham = a.cham /\ b.left >= i.shots
  <2>1. b.cham = a.cham
    BY <1>4
  <2>2. b.left = (IF double /\ loose THEN 2 * i.shots ELSE i.shots) - 0
    BY <1>4
  <2> HIDE DEF b, loose
  <2>3. (IF double /\ loose THEN 2 * i.shots ELSE i.shots) - 0 >= i.shots
    BY <1>4, WeaponFacts
  <2> QED
    BY <2>1, <2>2, <2>3
<1>5. c = b
  BY <1>1
<1> HIDE DEF b, loads
<1>6. CASE i.reload # 0
  <2> SUFFICES ASSUME Stocked(w)
               PROVE  /\ q >= 0 /\ q <= c.left /\ q <= i.reload
                      /\ c.cham + q <= 2 * i.reload
    BY <1>6
  <2>1. c.cham = a.cham /\ c.left >= i.shots
    BY <1>3, <1>4, <1>5, <1>6
  <2>2. i.shots \in Int /\ i.reload \in Int /\ i.shots >= i.reload
    BY WeaponFacts
  <2>3. c.left \in Int
    BY <1>5, RefilledFit, <1>1 DEF Fit, ArmRecord
  <2> QED
    BY <1>6, <2>1, <2>2, <2>3
<1>7. CASE ~(i.reload # 0)
  BY <1>2, <1>5, <1>7
<1> QED
  BY <1>6, <1>7

(* A shot, a round thrown out, the next round chambered, the other firing  *)
(* mode, the magazines changed, rounds put into the chamber.               *)
LEMMA ShotFit ==
  ASSUME NEW w \in Weapons, NEW a, Fit(w, a), a.cham # 0
  PROVE  Fit(w, [a EXCEPT !.cham = @ - 1]) /\ Rounds([a EXCEPT !.cham = @ - 1]) <= Rounds(a)
<1> DEFINE b == [a EXCEPT !.cham = a.cham - 1]
<1>1. b \in ArmRecord
  BY DEF Fit, ArmRecord
<1>2. b.cham = a.cham - 1 /\ b.left = a.left /\ b.mag = a.mag /\ b.mags = a.mags
  BY DEF Fit, ArmRecord
<1> QED
  BY <1>1, <1>2, WeaponFacts DEF Fit, Bounds, ArmRecord, Rounds

LEMMA ThrownOutFit ==
  ASSUME NEW w \in Weapons, NEW a, Fit(w, a), WeapInfo[w].reload = 0
  PROVE  Fit(w, [a EXCEPT !.cham = 0]) /\ Rounds([a EXCEPT !.cham = 0]) <= Rounds(a)
<1> DEFINE b == [a EXCEPT !.cham = 0]
<1>1. b \in ArmRecord
  BY DEF Fit, ArmRecord
<1>2. b.cham = 0 /\ b.left = a.left /\ b.mag = a.mag /\ b.mags = a.mags
  BY DEF Fit, ArmRecord
<1> QED
  BY <1>1, <1>2, WeaponFacts DEF Fit, Bounds, ArmRecord, Rounds

(* A round is taken from those that are left.                              *)
LEMMA NextRound ==
  ASSUME NEW w \in Weapons, NEW a, Fit(w, a), WeapInfo[w].reload = 0,
         Stocked(w) => a.left > 0,
         NEW b, b = [a EXCEPT !.cham = 1, !.left = @ - 1]
  PROVE  Fit(w, b) /\ Rounds(b) <= Rounds(a)
<1>0. a \in ArmRecord /\ a.cham \in Int /\ a.left \in Int /\ a.mag \in Int
  BY DEF Fit, ArmRecord
<1>1. PICK l \in Int, c \in Int : l = a.left - 1 /\ c = 1
  BY <1>0
<1>2. b = [a EXCEPT !.cham = c, !.left = l]
  BY <1>1
<1>3. /\ b \in ArmRecord
      /\ b.cham = 1 /\ b.left = a.left - 1 /\ b.mag = a.mag /\ b.mags = a.mags
  BY <1>0, <1>1, <1>2 DEF ArmRecord
<1>4. Rounds(b) <= Rounds(a)
  BY <1>0, <1>3 DEF Rounds, Fit
<1>5. ASSUME Stocked(w) PROVE Bounds(w, b)
  BY <1>0, <1>3, <1>5, WeaponFacts DEF Fit, Bounds
<1>6. Fit(w, b)
  BY <1>3, <1>5 DEF Fit
<1> QED
  BY <1>4, <1>6

LEMMA ChamberFit ==
  ASSUME NEW w \in Weapons, NEW a, Fit(w, a), WeapInfo[w].reload = 0
  PROVE  Fit(w, Chamber(a)) /\ Rounds(Chamber(a)) <= Rounds(a)
<1>1. CASE a.left # 0
  <2>1. PICK b : b = [a EXCEPT !.cham = 1, !.left = @ - 1]
    OBVIOUS
  <2>2. Stocked(w) => a.left > 0
    BY <1>1 DEF Fit, Bounds, ArmRecord
  <2>3. Fit(w, b) /\ Rounds(b) <= Rounds(a)
    BY <2>1, <2>2, NextRound
  <2>4. Chamber(a) = b
    BY <1>1, <2>1 DEF Chamber
  <2> QED
    BY <2>3, <2>4
<1>2. CASE ~(a.left # 0)
  BY <1>2 DEF Chamber, Fit, ArmRecord, Rounds
<1> QED
  BY <1>1, <1>2

LEMMA ModeFit ==
  ASSUME NEW w \in Weapons, NEW a, Fit(w, a)
  PROVE  Fit(w, [a EXCEPT !.auto = ~@]) /\ Rounds([a EXCEPT !.auto = ~@]) <= Rounds(a)
<1>1. PICK m \in BOOLEAN : m = ~a.auto
  OBVIOUS
<1> DEFINE b == [a EXCEPT !.auto = m]
<1>2. b \in ArmRecord
  BY DEF Fit, ArmRecord
<1>3. b.cham = a.cham /\ b.left = a.left /\ b.mag = a.mag /\ b.mags = a.mags
  BY DEF Fit, ArmRecord
<1>4. [a EXCEPT !.auto = ~@] = b
  BY <1>1
<1> QED
  BY <1>2, <1>3, <1>4 DEF Fit, Bounds, ArmRecord, Rounds

LEMMA SwapMagazineFit ==
  ASSUME NEW w \in Weapons, NEW a, Fit(w, a), a.mags = 1
  PROVE  /\ Fit(w, SwapMagazine(a)) /\ Rounds(SwapMagazine(a)) <= Rounds(a)
         /\ Stocked(w) => SwapMagazine(a).left > 0
<1>1. PICK m \in {0, 1} : m = IF a.left = 0 THEN 0 ELSE 1
  OBVIOUS
<1> DEFINE b == [a EXCEPT !.left = a.mag, !.mag = a.left, !.mags = m]
<1>2. SwapMagazine(a) = b
  BY <1>1 DEF SwapMagazine
<1>3. b \in ArmRecord
  BY DEF Fit, ArmRecord
<1>4. b.cham = a.cham /\ b.left = a.mag /\ b.mag = a.left /\ b.mags = m
  BY DEF Fit, ArmRecord
<1>5. Rounds(b) <= Rounds(a)
  BY <1>4 DEF Fit, ArmRecord, Rounds
<1>6. ASSUME Stocked(w) PROVE Bounds(w, b) /\ b.left > 0
  BY <1>1, <1>4, <1>6, WeaponFacts DEF Fit, Bounds, ArmRecord
<1>7. Fit(w, b)
  BY <1>3, <1>4, <1>6 DEF Fit
<1> QED
  BY <1>2, <1>5, <1>6, <1>7

LEMMA LoadFit ==
  ASSUME NEW w \in Weapons, NEW a, Fit(w, a), NEW n \in Int, WeapInfo[w].reload # 0,
         Stocked(w) => n >= 0 /\ n <= a.left /\ a.cham + n <= 2 * WeapInfo[w].reload,
         NEW b, b = [a EXCEPT !.left = @ - n, !.cham = @ + n]
  PROVE  Fit(w, b) /\ Rounds(b) <= Rounds(a)
<1>0. a \in ArmRecord /\ a.left \in Int /\ a.cham \in Int /\ a.mag \in Int
  BY DEF Fit, ArmRecord
<1>1. PICK l \in Int, c \in Int : l = a.left - n /\ c = a.cham + n
  BY <1>0
<1>2. /\ b = [a EXCEPT !.left = l, !.cham = c]
      /\ b \in ArmRecord
      /\ b.cham = a.cham + n /\ b.left = a.left - n /\ b.mag = a.mag /\ b.mags = a.mags
  BY <1>0, <1>1 DEF ArmRecord
<1>3. Rounds(b) <= Rounds(a)
  BY <1>0, <1>2 DEF Rounds
<1>4. ASSUME Stocked(w) PROVE Bounds(w, b)
  BY <1>0, <1>2, <1>4, WeaponFacts DEF Fit, Bounds
<1>5. Fit(w, b)
  BY <1>2, <1>4 DEF Fit
<1> QED
  BY <1>3, <1>5

-----------------------------------------------------------------------------
(* The hunter.                                                             *)

LEMMA Parts ==
  ASSUME NEW taken, NEW h \in Hunters(taken)
  PROVE  /\ h \in HunterType
         /\ h.mode \in Modes /\ h.saved \in Modes /\ h.state \in 0..7
         /\ h.cur \in Weapons /\ h.target \in Weapons /\ h.ammoIn \in Int
         /\ h.arms \in [Weapons -> ArmRecord]
         /\ h.busy \in BOOLEAN /\ h.fired \in BOOLEAN /\ h.water \in BOOLEAN
         /\ h.exit \in BOOLEAN /\ h.alive \in BOOLEAN
         /\ h.cur \in taken /\ h.target \in taken
         /\ \A w \in Weapons : Fit(w, h.arms[w])
         /\ Fit(h.cur, Arm(h)) /\ LoadsIn(h, Arm(h)) /\ Scoped(h)
BY DEF Hunters, HunterType, Arm

LEMMA NoMoreRefl ==
  ASSUME NEW taken, NEW h \in Hunters(taken), NEW k, k.arms = h.arms
  PROVE  NoMore(h, k)
<1>1. \A w \in Weapons : Rounds(h.arms[w]) \in Int
  BY Parts DEF Rounds, ArmRecord
<1> QED
  BY <1>1 DEF NoMore

LEMMA NoMoreTrans ==
  ASSUME NEW taken, NEW h \in Hunters(taken), NEW k \in Hunters(taken), NEW l \in Hunters(taken),
         NoMore(h, k), NoMore(k, l)
  PROVE  NoMore(h, l)
<1>1. \A w \in Weapons : Rounds(h.arms[w]) \in Int /\ Rounds(k.arms[w]) \in Int /\ Rounds(l.arms[w]) \in Int
  BY Parts DEF Rounds, ArmRecord
<1> QED
  BY <1>1 DEF NoMore

LEMMA SteadyTrans ==
  ASSUME NEW taken, NEW h \in Hunters(taken), NEW k \in Hunters(taken), NEW l \in Hunters(taken),
         Steady(h, k), Steady(k, l)
  PROVE  Steady(h, l)
BY NoMoreTrans DEF Steady

(* The hunter with other arms or not: the mode, the state and the view.    *)
LEMMA Moved ==
  ASSUME NEW taken, NEW h \in Hunters(taken), NEW k \in HunterType,
         k.arms = h.arms, k.cur \in taken, k.target \in taken,
         Scoped(k), k.state \in {4, 5, 6} => LoadsIn(k, Arm(k))
  PROVE  k \in Hunters(taken) /\ NoMore(h, k) /\ (k.alive = h.alive => Steady(h, k))
<1>1. LoadsIn(k, Arm(k))
  BY DEF LoadsIn
<1> QED
  BY <1>1, NoMoreRefl, Parts DEF Hunters, Steady

(* One weapon's rounds change.                                             *)
LEMMA Rearmed ==
  ASSUME NEW taken, NEW h \in Hunters(taken), NEW b, Fit(h.cur, b), LoadsIn(h, b)
  PROVE  /\ Armed(h, b) \in Hunters(taken)
         /\ Arm(Armed(h, b)) = b
         /\ Rounds(b) <= Rounds(Arm(h)) => Steady(h, Armed(h, b))
         /\ Armed(h, b).state = h.state /\ Armed(h, b).cur = h.cur /\ Armed(h, b).busy = h.busy
<1> DEFINE r == [h.arms EXCEPT ![h.cur] = b]
           k == [h EXCEPT !.arms = r]
<1>1. Armed(h, b) = k
  BY DEF Armed
<1>2. r \in [Weapons -> ArmRecord]
  BY Parts DEF Fit
<1>3. \A w \in Weapons : r[w] = IF w = h.cur THEN b ELSE h.arms[w]
  BY Parts
<1> HIDE DEF r
<1>4. k \in HunterType
  BY <1>2, Parts DEF HunterType
<1>5. /\ k.mode = h.mode /\ k.saved = h.saved /\ k.state = h.state /\ k.cur = h.cur
      /\ k.target = h.target /\ k.ammoIn = h.ammoIn /\ k.arms = r /\ k.alive = h.alive
      /\ k.busy = h.busy
  BY Parts DEF HunterType
<1> HIDE DEF k
<1>6. Arm(k) = b
  BY <1>3, <1>5, Parts DEF Arm
<1>7. \A w \in Weapons : Fit(w, k.arms[w])
  BY <1>3, <1>5, Parts
<1>8. \A w \in Weapons \ taken : k.arms[w] = NoArm
  BY <1>3, <1>5, Parts DEF Hunters
<1>9. LoadsIn(k, Arm(k))
  BY <1>5, <1>6 DEF LoadsIn, Info
<1>10. Scoped(k)
  BY <1>5, Parts DEF Scoped, IsScopeView, Info
<1>11. k \in Hunters(taken)
  BY <1>4, <1>5, <1>7, <1>8, <1>9, <1>10, Parts DEF Hunters
<1>12. ASSUME Rounds(b) <= Rounds(Arm(h)) PROVE Steady(h, k)
  <2>1. \A w \in Weapons : Rounds(h.arms[w]) \in Int
    BY Parts DEF Rounds, ArmRecord
  <2> QED
    BY <1>3, <1>5, <1>12, <2>1 DEF NoMore, Arm, Steady
<1> QED
  BY <1>1, <1>5, <1>6, <1>11, <1>12

(* The view: it stays as it is, or the slot holds none that is magnified.  *)
LEMMA ScopeKept ==
  ASSUME NEW h, NEW k, Scoped(h), k.mode = h.mode, k.saved = h.saved, k.cur = h.cur,
         k.state \notin {0, 3}
  PROVE  Scoped(k)
BY DEF Scoped, IsScopeView, Info

LEMMA ScopeLeft ==
  ASSUME NEW k, k.mode \in {"Normal", "Swimming", "Underwater", "Binocular", "MapMode"}
                \/ (k.mode # "OpticScope" /\ k.saved # "OpticScope")
  PROVE  Scoped(k)
BY DEF Scoped, IsScopeView, IsMenu

(* The mode slot alone changes.                                            *)
LEMMA ModeChanged ==
  ASSUME NEW taken, NEW h \in Hunters(taken), NEW m \in Modes, NEW s \in Modes, NEW x \in BOOLEAN,
         NEW k, k = [h EXCEPT !.mode = m, !.saved = s, !.exit = x], Scoped(k)
  PROVE  k \in Hunters(taken) /\ Steady(h, k)
<1>0. h \in HunterType
  BY Parts
<1>1. k \in HunterType
  BY <1>0 DEF HunterType
<1>2. /\ k.arms = h.arms /\ k.cur = h.cur /\ k.target = h.target /\ k.state = h.state
      /\ k.ammoIn = h.ammoIn /\ k.alive = h.alive
  BY <1>0 DEF HunterType
<1>3. LoadsIn(k, Arm(k))
  BY <1>2, Parts DEF LoadsIn, Arm, Info
<1>4. k.cur \in taken /\ k.target \in taken
  BY <1>2, Parts
<1> QED
  BY <1>1, <1>2, <1>3, <1>4, Moved

LEMMA DismissMenuRestoreSound ==
  ASSUME NEW taken, NEW h \in Hunters(taken), IsMenu(h.mode)
  PROVE  DismissMenuRestore(h) \in Hunters(taken) /\ Steady(h, DismissMenuRestore(h))
<1>1. PICK m \in Modes : m = IF IsOverlayMode(h.saved) THEN h.saved ELSE "Normal"
  BY Parts DEF Modes
<1>2. PICK k : k = [h EXCEPT !.mode = m, !.saved = "Normal", !.exit = h.exit]
  OBVIOUS
<1>3. k.mode = m /\ k.state = h.state /\ k.cur = h.cur /\ k.saved = "Normal"
  BY <1>2, Parts DEF HunterType
<1>4. Scoped(k)
  BY <1>1, <1>3, Parts DEF Scoped, IsScopeView, IsOverlayMode, Info, IsMenu
<1>5. DismissMenuRestore(h) = k
  BY <1>1, <1>2, Parts DEF DismissMenuRestore, HunterType
<1>6. PICK n \in Modes : n = "Normal"
  BY DEF Modes
<1>7. PICK x \in BOOLEAN : x = h.exit
  BY Parts
<1>8. k = [h EXCEPT !.mode = m, !.saved = n, !.exit = x]
  BY <1>2, <1>6, <1>7
<1>9. k \in Hunters(taken) /\ Steady(h, k)
  BY <1>4, <1>8, ModeChanged
<1> QED
  BY <1>5, <1>9

LEMMA EnterMenuModeSound ==
  ASSUME NEW taken, NEW h \in Hunters(taken), ~IsMenu(h.mode)
  PROVE  EnterMenuMode(h) \in Hunters(taken) /\ Steady(h, EnterMenuMode(h))
<1>1. PICK k : k = [h EXCEPT !.mode = "ExitCountdown", !.saved = h.mode, !.exit = h.exit]
  OBVIOUS
<1>2. k.mode = "ExitCountdown" /\ k.state = h.state /\ k.cur = h.cur /\ k.saved = h.mode
  BY <1>1, Parts DEF HunterType
<1>3. Scoped(k)
  BY <1>2, Parts DEF Scoped, IsScopeView, Info
<1>4. EnterMenuMode(h) = IF h.exit THEN h ELSE k
  BY <1>1, Parts DEF EnterMenuMode, HunterType
<1>5. "ExitCountdown" \in Modes /\ h.mode \in Modes /\ h.exit \in BOOLEAN
  BY Parts DEF Modes
<1>6. k \in Hunters(taken) /\ Steady(h, k)
  BY <1>1, <1>3, <1>5, ModeChanged
<1>7. Steady(h, h)
  BY NoMoreRefl DEF Steady
<1> QED
  BY <1>4, <1>6, <1>7

LEMMA EnterPauseModeSound ==
  ASSUME NEW taken, NEW h \in Hunters(taken), h.mode # "Paused"
  PROVE  EnterPauseMode(h) \in Hunters(taken) /\ Steady(h, EnterPauseMode(h))
<1>1. PICK k : k = [h EXCEPT !.mode = "Paused", !.saved = h.mode, !.exit = h.exit]
  OBVIOUS
<1>2. k.mode = "Paused" /\ k.state = h.state /\ k.cur = h.cur /\ k.saved = h.mode
  BY <1>1, Parts DEF HunterType
<1>3. Scoped(k)
  BY <1>2, Parts DEF Scoped, IsScopeView, Info
<1>4. EnterPauseMode(h) = k
  BY <1>1, Parts DEF EnterPauseMode, HunterType
<1>5. "Paused" \in Modes /\ h.mode \in Modes /\ h.exit \in BOOLEAN
  BY Parts DEF Modes
<1> QED
  BY <1>1, <1>3, <1>4, <1>5, ModeChanged

LEMMA ConfirmExitMenuSound ==
  ASSUME NEW taken, NEW h \in Hunters(taken), IsMenu(h.mode)
  PROVE  ConfirmExitMenu(h) \in Hunters(taken) /\ Steady(h, ConfirmExitMenu(h))
<1>1. PICK k : k = [h EXCEPT !.mode = h.mode, !.saved = h.saved, !.exit = TRUE]
  OBVIOUS
<1>2. k.mode = h.mode /\ k.state = h.state /\ k.cur = h.cur /\ k.saved = h.saved
  BY <1>1, Parts DEF HunterType
<1>3. Scoped(k)
  BY <1>2, Parts DEF Scoped, IsScopeView, Info
<1>4. k = [h EXCEPT !.exit = TRUE]
  BY <1>1, Parts DEF HunterType
<1>5. k \in Hunters(taken) /\ Steady(h, k)
  BY <1>1, <1>3, Parts, ModeChanged
<1>6. DismissMenuRestore(k) \in Hunters(taken) /\ Steady(k, DismissMenuRestore(k))
  BY <1>2, <1>5, DismissMenuRestoreSound
<1> QED
  BY <1>4, <1>5, <1>6, SteadyTrans DEF ConfirmExitMenu

LEMMA EnterExitCountdownNoStashSound ==
  ASSUME NEW taken, NEW h \in Hunters(taken)
  PROVE  /\ EnterExitCountdownNoStash(h) \in Hunters(taken)
         /\ Steady(h, EnterExitCountdownNoStash(h))
<1>1. PICK k : k = [h EXCEPT !.mode = "ExitCountdown", !.saved = "Normal", !.exit = h.exit]
  OBVIOUS
<1>2. k.mode = "ExitCountdown" /\ k.saved = "Normal"
  BY <1>1, Parts DEF HunterType
<1>3. Scoped(k)
  BY <1>2, ScopeLeft
<1>4. EnterExitCountdownNoStash(h) = k
  BY <1>1, Parts DEF EnterExitCountdownNoStash, HunterType
<1>5. "ExitCountdown" \in Modes /\ "Normal" \in Modes /\ h.exit \in BOOLEAN
  BY Parts DEF Modes
<1> QED
  BY <1>1, <1>3, <1>4, <1>5, ModeChanged

(* The slot alone takes a mode that magnifies nothing.                     *)
LEMMA PlainMode ==
  ASSUME NEW taken, NEW h \in Hunters(taken),
         NEW m \in {"Normal", "Swimming", "Underwater", "Binocular", "MapMode"}
  PROVE  [h EXCEPT !.mode = m] \in Hunters(taken) /\ Steady(h, [h EXCEPT !.mode = m])
<1>0. h \in HunterType /\ m \in Modes
  BY Parts DEF Modes
<1>1. PICK k : k = [h EXCEPT !.mode = m]
  OBVIOUS
<1>2. k = [h EXCEPT !.mode = m, !.saved = h.saved, !.exit = h.exit]
  BY <1>0, <1>1 DEF HunterType
<1>3. k.mode = m
  BY <1>0, <1>1 DEF HunterType
<1>4. Scoped(k)
  BY <1>3, ScopeLeft
<1>5. PICK s \in Modes, x \in BOOLEAN : s = h.saved /\ x = h.exit
  BY Parts
<1>6. k = [h EXCEPT !.mode = m, !.saved = s, !.exit = x]
  BY <1>2, <1>5
<1>7. k \in Hunters(taken) /\ Steady(h, k)
  BY <1>0, <1>4, <1>6, ModeChanged
<1> QED
  BY <1>1, <1>7

LEMMA ToggleSound ==
  ASSUME NEW taken, NEW h \in Hunters(taken)
  PROVE  /\ ToggleBinocular(h) \in Hunters(taken) /\ Steady(h, ToggleBinocular(h))
         /\ ToggleMapMode(h) \in Hunters(taken) /\ Steady(h, ToggleMapMode(h))
<1>1. Steady(h, h)
  BY NoMoreRefl DEF Steady
<1>2. PICK m \in {"Normal", "Binocular"} : m = IF h.mode = "Binocular" THEN "Normal" ELSE "Binocular"
  OBVIOUS
<1>3. PICK n \in {"Normal", "MapMode"} : n = IF h.mode = "MapMode" THEN "Normal" ELSE "MapMode"
  OBVIOUS
<1>4. ToggleBinocular(h) = h \/ ToggleBinocular(h) = [h EXCEPT !.mode = m]
  BY <1>2 DEF ToggleBinocular
<1>5. ToggleMapMode(h) = h \/ ToggleMapMode(h) = [h EXCEPT !.mode = n]
  BY <1>3 DEF ToggleMapMode
<1>6. \A b \in {"Normal", "Binocular", "MapMode"} :
        [h EXCEPT !.mode = b] \in Hunters(taken) /\ Steady(h, [h EXCEPT !.mode = b])
  BY PlainMode
<1>7. ToggleBinocular(h) \in Hunters(taken) /\ Steady(h, ToggleBinocular(h))
  BY <1>1, <1>4, <1>6
<1>8. ToggleMapMode(h) \in Hunters(taken) /\ Steady(h, ToggleMapMode(h))
  BY <1>1, <1>5, <1>6
<1> QED
  BY <1>7, <1>8

-----------------------------------------------------------------------------
(* The weapon keys.                                                        *)

(* The states a weapon may begin anywhere, and those held up by hand.      *)
States == 0..7
Handling == {2, 6, 7}

(* The state, the clock and the slot change.                               *)
LEMMA StateChanged ==
  ASSUME NEW taken, NEW h \in Hunters(taken), NEW n \in States, NEW f \in BOOLEAN, NEW m \in Modes,
         NEW k, k = [h EXCEPT !.state = n, !.busy = f, !.mode = m],
         Scoped(k), n \notin {4, 5, 6} \/ LoadsIn(k, Arm(k))
  PROVE  k \in Hunters(taken) /\ Steady(h, k)
<1>0. h \in HunterType
  BY Parts
<1>1. k \in HunterType
  BY <1>0 DEF HunterType, States
<1>2. /\ k.arms = h.arms /\ k.cur = h.cur /\ k.target = h.target /\ k.alive = h.alive
      /\ k.state = n /\ k.busy = f /\ k.mode = m
  BY <1>0 DEF HunterType
<1>3. k.cur \in taken /\ k.target \in taken
  BY <1>2, Parts
<1> QED
  BY <1>1, <1>2, <1>3, Moved

LEMMA HideWeaponSound ==
  ASSUME NEW taken, NEW h \in Hunters(taken)
  PROVE  HideWeapon(h) \in Hunters(taken) /\ Steady(h, HideWeapon(h))
<1>0. h \in HunterType /\ h.mode \in Modes /\ Scoped(h)
  BY Parts
<1>1. CASE h.state = 0 /\ ~(h.water /\ ~Info(h).harpoon)
  <2>1. PICK m \in Modes : m = IF Info(h).optic THEN "OpticScope"
                               ELSE IF h.mode = "Binocular" THEN "Normal" ELSE h.mode
    BY <1>0 DEF Modes
  <2>a. PICK n \in States : n = 1
    BY DEF States
  <2>b. PICK f \in BOOLEAN : f = FALSE
    OBVIOUS
  <2>2. n = 1 /\ f = FALSE
    BY <2>a, <2>b
  <2>3. PICK k : k = [h EXCEPT !.state = n, !.busy = f, !.mode = m]
    OBVIOUS
  <2>4. k.state = 1 /\ k.mode = m /\ k.saved = h.saved /\ k.cur = h.cur
    BY <1>0, <2>2, <2>3 DEF HunterType
  <2>5. Scoped(k)
    BY <1>0, <1>1, <2>1, <2>4 DEF Scoped, IsScopeView, IsMenu, Info
  <2>6. HideWeapon(h) = k
    BY <1>1, <2>1, <2>2, <2>3 DEF HideWeapon
  <2>7. n \notin {4, 5, 6} \/ LoadsIn(k, Arm(k))
    BY <2>a
  <2>8. k \in Hunters(taken) /\ Steady(h, k)
    BY <2>3, <2>5, <2>7, StateChanged
  <2> QED
    BY <2>6, <2>8
<1>2. CASE h.state # 0 /\ Ready(h)
  <2>1. PICK n \in States : n = 3
    BY DEF States
  <2>0. PICK f \in BOOLEAN : f = h.busy
    BY Parts
  <2>a. PICK m \in Modes : m = "Normal"
    BY DEF Modes
  <2>2. PICK k : k = [h EXCEPT !.state = n, !.busy = f, !.mode = m]
    OBVIOUS
  <2>3. k.mode = "Normal" /\ k = [h EXCEPT !.state = 3, !.mode = "Normal"]
    BY <1>0, <2>0, <2>1, <2>2, <2>a DEF HunterType
  <2>4. Scoped(k)
    BY <2>3, ScopeLeft
  <2>5. HideWeapon(h) = k
    BY <1>2, <2>3 DEF HideWeapon
  <2>6. n \notin {4, 5, 6} \/ LoadsIn(k, Arm(k))
    BY <2>1
  <2>7. k \in Hunters(taken) /\ Steady(h, k)
    BY <2>2, <2>4, <2>6, StateChanged
  <2> QED
    BY <2>5, <2>7
<1>3. HideWeapon(h) = h \/ (h.state = 0 /\ ~(h.water /\ ~Info(h).harpoon)) \/ (h.state # 0 /\ Ready(h))
  BY DEF HideWeapon
<1>4. Steady(h, h)
  BY NoMoreRefl DEF Steady
<1> QED
  BY <1>1, <1>2, <1>3, <1>4

(* Another weapon becomes the target, and the one in hand if none is up.   *)
LEMMA Retargeted ==
  ASSUME NEW taken, NEW h \in Hunters(taken), NEW w \in Weapons, w \in taken,
         NEW c, c = h.cur \/ (c = w /\ h.state = 0),
         NEW k, k = [h EXCEPT !.target = w, !.cur = c]
  PROVE  k \in Hunters(taken) /\ Steady(h, k)
<1>0. h \in HunterType /\ Scoped(h) /\ c \in Weapons /\ c \in taken
  BY Parts
<1>1. k \in HunterType
  BY <1>0 DEF HunterType
<1>2. /\ k.arms = h.arms /\ k.cur = c /\ k.target = w /\ k.alive = h.alive /\ k.state = h.state
      /\ k.mode = h.mode /\ k.saved = h.saved /\ k.ammoIn = h.ammoIn
  BY <1>0 DEF HunterType
<1>3. Scoped(k)
  BY <1>0, <1>2 DEF Scoped, IsScopeView, Info
<1>4. k.state \in {4, 5, 6} => LoadsIn(k, Arm(k))
  BY <1>2, Parts DEF LoadsIn, Arm, Info
<1>5. k.cur \in taken /\ k.target \in taken /\ k.arms = h.arms /\ k.alive = h.alive
  BY <1>0, <1>2
<1> QED
  BY <1>1, <1>3, <1>4, <1>5, Moved

LEMMA SelectWeaponSound ==
  ASSUME NEW taken, NEW h \in Hunters(taken), NEW w \in Weapons
  PROVE  SelectWeapon(h, w) \in Hunters(taken) /\ Steady(h, SelectWeapon(h, w))
<1>0. h \in HunterType
  BY Parts
<1>1. CASE w \in taken
  <2>1. PICK c : c = IF h.state = 0 THEN w ELSE h.cur
    OBVIOUS
  <2>2. PICK k : k = [h EXCEPT !.target = w, !.cur = c]
    OBVIOUS
  <2>3. k \in Hunters(taken) /\ Steady(h, k)
    BY <1>1, <2>1, <2>2, Retargeted
  <2>4. PICK l : l = [h EXCEPT !.target = w, !.cur = h.cur]
    OBVIOUS
  <2>5. l \in Hunters(taken) /\ Steady(h, l)
    BY <1>1, <2>4, Retargeted
  <2>6. l = [h EXCEPT !.target = w]
    BY <1>0, <2>4 DEF HunterType
  <2>7. HideWeapon(k) \in Hunters(taken) /\ Steady(k, HideWeapon(k))
    BY <2>3, HideWeaponSound
  <2>8. Steady(h, HideWeapon(k)) /\ Steady(h, h)
    BY <2>3, <2>7, SteadyTrans, NoMoreRefl DEF Steady
  <2>9. SelectWeapon(h, w) \in {h, l, HideWeapon(k)}
    BY <2>1, <2>2, <2>6 DEF SelectWeapon
  <2> QED
    BY <2>5, <2>7, <2>8, <2>9
<1>2. CASE w \notin taken
  <2>1. h.arms[w] = NoArm
    BY <1>2 DEF Hunters
  <2>2. SelectWeapon(h, w) = h
    BY <2>1 DEF SelectWeapon, NoArm
  <2> QED
    BY <2>2, NoMoreRefl DEF Steady
<1> QED
  BY <1>1, <1>2

(* A weapon that is held begins something: in any state that is neither    *)
(* away nor lowered the view may stay.                                     *)
LEMMA Begins ==
  ASSUME NEW taken, NEW h \in Hunters(taken), NEW n \in Handling, NEW f \in BOOLEAN,
         h.state # 0, h.state # 3, n = 6 => Info(h).reload = 0,
         NEW k, k = [h EXCEPT !.state = n, !.busy = f]
  PROVE  k \in Hunters(taken) /\ Steady(h, k)
<1>0. h \in HunterType /\ Scoped(h)
  BY Parts
<1>1. PICK m \in Modes : m = h.mode
  BY Parts
<1>2. k = [h EXCEPT !.state = n, !.busy = f, !.mode = m]
  BY <1>0, <1>1 DEF HunterType
<1>3. /\ k.mode = h.mode /\ k.state = n /\ k.saved = h.saved /\ k.cur = h.cur /\ k.arms = h.arms
      /\ k.busy = f
  BY <1>0, <1>1, <1>2 DEF HunterType
<1>4. n \in States /\ n \notin {0, 3}
  BY DEF States, Handling
<1>b. n \notin {4, 5, 6} \/ LoadsIn(k, Arm(k))
  BY <1>3 DEF Handling, LoadsIn, Info
<1>a. k.state \notin {0, 3}
  BY <1>3, <1>4
<1>5. Scoped(k)
  BY <1>0, <1>3, <1>a, ScopeKept
<1>6. k \in Hunters(taken) /\ Steady(h, k)
  BY <1>2, <1>4, <1>5, <1>b, StateChanged
<1> QED
  BY <1>6

LEMMA ProcessFireModeSound ==
  ASSUME NEW taken, NEW h \in Hunters(taken)
  PROVE  ProcessFireMode(h) \in Hunters(taken) /\ Steady(h, ProcessFireMode(h))
<1>1. Steady(h, h)
  BY NoMoreRefl DEF Steady
<1>2. CASE Ready(h)
  <2>1. PICK n \in Handling : n = 7
    BY DEF Handling
  <2>a. PICK f \in BOOLEAN : f = TRUE
    OBVIOUS
  <2>2. h.state # 0 /\ h.state # 3
    BY <1>2 DEF Ready
  <2>3. PICK k : k = [h EXCEPT !.state = n, !.busy = f]
    OBVIOUS
  <2>b. n = 6 => Info(h).reload = 0
    BY <2>1
  <2>4. k \in Hunters(taken) /\ Steady(h, k)
    BY <2>2, <2>3, <2>b, Begins
  <2>5. ProcessFireMode(h) = h \/ ProcessFireMode(h) = k
    BY <2>1, <2>3, <2>a DEF ProcessFireMode
  <2> QED
    BY <1>1, <2>4, <2>5
<1>3. CASE ~Ready(h)
  BY <1>1, <1>3 DEF ProcessFireMode
<1> QED
  BY <1>2, <1>3

LEMMA ProcessPumpSound ==
  ASSUME NEW taken, NEW h \in Hunters(taken)
  PROVE  ProcessPump(h) \in Hunters(taken) /\ Steady(h, ProcessPump(h))
<1>1. Steady(h, h)
  BY NoMoreRefl DEF Steady
<1>2. CASE Info(h).pmp > 0 /\ Ready(h) /\ Info(h).reload = 0
  <2>0. PICK n \in Handling : n = 6
    BY DEF Handling
  <2>c. PICK f \in BOOLEAN : f = TRUE
    OBVIOUS
  <2>a. h.state # 0 /\ h.state # 3
    BY <1>2 DEF Ready
  <2>d. PICK k : k = [h EXCEPT !.state = n, !.busy = f]
    OBVIOUS
  <2>i. n = 6 => Info(h).reload = 0
    BY <1>2
  <2>g. k \in Hunters(taken) /\ Steady(h, k)
    BY <2>a, <2>d, <2>i, Begins
  <2>h. h \in HunterType
    BY Parts
  <2>b. k.state = n /\ k.cur = h.cur /\ Arm(k) = Arm(h)
    BY <2>d, <2>h DEF Arm, HunterType
  <2>1. k = [h EXCEPT !.state = 6, !.busy = TRUE] /\ k.state = 6
    BY <2>0, <2>b, <2>c, <2>d
  <2>2. PICK b : b = [Arm(h) EXCEPT !.cham = 0]
    OBVIOUS
  <2>j. WeapInfo[h.cur].reload = 0 /\ h.cur \in Weapons /\ Fit(h.cur, Arm(h))
    BY <1>2, Parts DEF Info
  <2>3. Fit(k.cur, b) /\ Rounds(b) <= Rounds(Arm(k))
    BY <2>b, <2>2, <2>j, ThrownOutFit
  <2>4. LoadsIn(k, b)
    BY <1>2, <2>1, <2>b DEF LoadsIn, Info
  <2>5. Armed(k, b) \in Hunters(taken) /\ Steady(k, Armed(k, b))
    BY <2>g, <2>3, <2>4, Rearmed
  <2>6. ProcessPump(h) = Armed(k, b)
    BY <1>2, <2>1, <2>2 DEF ProcessPump
  <2> QED
    BY <2>g, <2>5, <2>6, SteadyTrans
<1>3. CASE ~(Info(h).pmp > 0 /\ Ready(h) /\ Info(h).reload = 0)
  BY <1>1, <1>3 DEF ProcessPump
<1> QED
  BY <1>2, <1>3

LEMMA ProcessShootSound ==
  ASSUME NEW taken, NEW h \in Hunters(taken)
  PROVE  ProcessShoot(h) \in Hunters(taken) /\ Steady(h, ProcessShoot(h))
<1>1. Steady(h, h)
  BY NoMoreRefl DEF Steady
<1>2. CASE h.water /\ ~Info(h).harpoon
  BY <1>2, HideWeaponSound DEF ProcessShoot
<1>3. CASE ~(h.water /\ ~Info(h).harpoon) /\ Fires(h)
  <2>1. PICK n \in Handling : n = 2
    BY DEF Handling
  <2>b. PICK f \in BOOLEAN : f = TRUE
    OBVIOUS
  <2>a. h.state = 2 /\ h.state # 0 /\ h.state # 3 /\ Arm(h).cham # 0
    BY <1>3 DEF Fires, Ready
  <2>c. PICK k : k = [h EXCEPT !.state = n, !.busy = f]
    OBVIOUS
  <2>d. n = 6 => Info(h).reload = 0
    BY <2>1
  <2>g. k \in Hunters(taken) /\ Steady(h, k)
    BY <2>a, <2>c, <2>d, Begins
  <2>h. h \in HunterType
    BY Parts
  <2>2. k.state = n /\ k.cur = h.cur /\ Arm(k) = Arm(h)
    BY <2>c, <2>h DEF Arm, HunterType
  <2>3. h \in HunterType
    BY Parts
  <2>4. k = [h EXCEPT !.busy = TRUE]
    BY <2>1, <2>b, <2>c, <2>a, <2>3 DEF HunterType
  <2>5. PICK b : b = [Arm(h) EXCEPT !.cham = @ - 1]
    OBVIOUS
  <2>6. Fit(k.cur, b) /\ Rounds(b) <= Rounds(Arm(k))
    BY <2>a, <2>2, <2>5, Parts, ShotFit
  <2>7. LoadsIn(k, b)
    BY <2>1, <2>2 DEF LoadsIn
  <2>8. Armed(k, b) \in Hunters(taken) /\ Steady(k, Armed(k, b))
    BY <2>g, <2>6, <2>7, Rearmed
  <2>9. ProcessShoot(h) = Armed(k, b)
    BY <1>3, <2>4, <2>5 DEF ProcessShoot
  <2> QED
    BY <2>g, <2>8, <2>9, SteadyTrans
<1>4. CASE ~(h.water /\ ~Info(h).harpoon) /\ ~Fires(h)
  BY <1>1, <1>4 DEF ProcessShoot
<1> QED
  BY <1>2, <1>3, <1>4

(* A reload begins, with the rounds it will take.                          *)
LEMMA LoadingBegins ==
  ASSUME NEW taken, NEW h \in Hunters(taken), h.state = 2, NEW n \in {2, 4, 5}, NEW f \in BOOLEAN,
         NEW q \in Int, NEW k, k = [h EXCEPT !.state = n, !.busy = f, !.ammoIn = q],
         IF Info(h).reload # 0
           THEN Stocked(h.cur) =>
                  /\ q >= 0 /\ q <= Arm(h).left /\ q <= Info(h).reload
                  /\ Arm(h).cham + q <= 2 * Info(h).reload
           ELSE Arm(h).mags = 1
  PROVE  k \in Hunters(taken) /\ Steady(h, k)
<1>0. h \in HunterType /\ Scoped(h) /\ n \in 0..7
  BY Parts
<1>1. k \in HunterType
  BY <1>0 DEF HunterType
<1>2. /\ k.arms = h.arms /\ k.cur = h.cur /\ k.target = h.target /\ k.alive = h.alive
      /\ k.ammoIn = q /\ k.mode = h.mode /\ k.saved = h.saved /\ k.state = n
  BY <1>0 DEF HunterType
<1>3. LoadsIn(k, Arm(k))
  BY <1>2 DEF LoadsIn, Arm, Info
<1>4. k.state \notin {0, 3}
  BY <1>2
<1>5. Scoped(k)
  BY <1>0, <1>2, <1>4, ScopeKept, ZenonT(40)
<1>6. k.cur \in taken /\ k.target \in taken
  BY <1>2, Parts
<1> QED
  BY <1>1, <1>2, <1>3, <1>5, <1>6, Moved

LEMMA ProcessReloadSound ==
  ASSUME NEW taken, NEW h \in Hunters(taken)
  PROVE  ProcessReload(h) \in Hunters(taken) /\ Steady(h, ProcessReload(h))
<1> DEFINE a == Arm(h)
           i == Info(h)
           inPart == i.part /\ (a.cham # 0 \/ (i.reload # 0 /\ a.left < i.reload))
<1>0. h \in HunterType /\ Steady(h, h) /\ Fit(h.cur, a) /\ a.cham \in Int /\ a.left \in Int
      /\ a.mags \in {0, 1} /\ i.reload \in Int
  BY Parts, NoMoreRefl, WeaponFacts DEF Steady, Fit, ArmRecord, Info
<1>1. CASE ~Ready(h)
  BY <1>0, <1>1 DEF ProcessReload
<1>2. CASE Ready(h)
  <2>1. h.state = 2 /\ ~h.busy /\ h.busy \in BOOLEAN
    BY <1>2, Parts DEF Ready
  <2>2. PICK n \in {2, 4, 5} : n = IF inPart THEN 5 ELSE IF i.rld > 0 THEN 4 ELSE 2
    OBVIOUS
  <2>3. PICK f \in BOOLEAN : f <=> n # 2
    OBVIOUS
  <2>4. PICK started : started = IF inPart THEN [h EXCEPT !.state = 5, !.busy = TRUE]
                       ELSE IF i.rld > 0 THEN [h EXCEPT !.state = 4, !.busy = TRUE]
                       ELSE h
    OBVIOUS
  <2>5. started = [h EXCEPT !.state = n, !.busy = f]
    <3>1. CASE inPart
      <4>1. n = 5 /\ n # 2
        BY <2>2, <3>1
      <4>2. f = TRUE
        BY <2>3, <4>1
      <4> QED
        BY <2>4, <3>1, <4>1, <4>2
    <3>2. CASE ~inPart /\ i.rld > 0
      <4>1. n = 4 /\ n # 2
        BY <2>2, <3>2
      <4>2. f = TRUE
        BY <2>3, <4>1
      <4> QED
        BY <2>4, <3>2, <4>1, <4>2
    <3>3. CASE ~inPart /\ ~(i.rld > 0)
      <4>1. n = 2 /\ f = h.busy
        BY <2>1, <2>2, <2>3, <3>3
      <4> QED
        BY <1>0, <2>1, <2>4, <3>3, <4>1 DEF HunterType
    <3> QED
      BY <3>1, <3>2, <3>3
  <2>6. CASE i.reload # 0 /\ ~(a.cham >= i.reload \/ a.left = 0)
    <3>1. PICK q \in Int : q = IF a.left < i.reload THEN a.left ELSE i.reload - a.cham
      BY <1>0, <2>6
    <3>2. PICK k : k = [h EXCEPT !.state = n, !.busy = f, !.ammoIn = q]
      OBVIOUS
    <3>a. Stocked(h.cur) => i.reload >= 0 /\ a.cham >= 0 /\ a.left >= 0
      BY <1>0, Parts DEF Stocked, Fit, Bounds, Info
    <3>3. Stocked(h.cur) => q >= 0 /\ q <= a.left /\ q <= i.reload /\ a.cham + q <= 2 * i.reload
      BY <1>0, <2>6, <3>1, <3>a
    <3>4. k \in Hunters(taken) /\ Steady(h, k)
      BY <2>1, <2>6, <3>2, <3>3, LoadingBegins
    <3>5. k = [started EXCEPT !.ammoIn = q]
      BY <1>0, <2>5, <3>2 DEF HunterType
    <3>6. ProcessReload(h) = k
      BY <1>2, <2>4, <2>6, <3>1, <3>5 DEF ProcessReload
    <3> QED
      BY <3>4, <3>6
  <2>7. CASE i.reload = 0 /\ a.mags > 0
    <3>1. PICK q \in Int : q = h.ammoIn
      BY Parts
    <3>2. PICK k : k = [h EXCEPT !.state = n, !.busy = f, !.ammoIn = q]
      OBVIOUS
    <3>3. a.mags = 1 /\ ~(i.reload # 0)
      BY <1>0, <2>7
    <3>4. k \in Hunters(taken) /\ Steady(h, k)
      BY <2>1, <3>2, <3>3, LoadingBegins
    <3>5. k = started
      BY <1>0, <2>5, <3>1, <3>2 DEF HunterType
    <3>6. ProcessReload(h) = started
      BY <1>2, <2>4, <2>7, <3>3 DEF ProcessReload
    <3> QED
      BY <3>4, <3>5, <3>6
  <2>8. CASE IF i.reload # 0 THEN a.cham >= i.reload \/ a.left = 0 ELSE ~(a.mags > 0)
    <3>1. ProcessReload(h) = h
      BY <2>8 DEF ProcessReload
    <3> QED
      BY <1>0, <3>1
  <2> QED
    BY <1>0, <2>6, <2>7, <2>8
<1> QED
  BY <1>1, <1>2

-----------------------------------------------------------------------------
(* One frame of the weapon.                                                *)

(* The end of a reload, the weapon being held again.                       *)
LEMMA LoadedSound ==
  ASSUME NEW taken, NEW h \in Hunters(taken), h.state \in {4, 5},
         NEW k \in Hunters(taken), k.state = 2, k.cur = h.cur, k.ammoIn = h.ammoIn,
         Arm(k) = Arm(h)
  PROVE  /\ Loaded(k) \in Hunters(taken) /\ Steady(k, Loaded(k))
         /\ Loaded(k).cur = h.cur
         /\ Info(h).reload = 0 /\ Stocked(h.cur) => Arm(Loaded(k)).left > 0
<1>0. /\ Info(k) = Info(h) /\ LoadsIn(h, Arm(h)) /\ Fit(k.cur, Arm(k)) /\ k.cur \in Weapons
      /\ k.ammoIn \in Int /\ Info(h).reload \in Int
  BY Parts, WeaponFacts DEF Info
<1>1. \A b : LoadsIn(k, b)
  BY DEF LoadsIn
<1>2. CASE Info(h).reload # 0
  <2>1. PICK b : b = [Arm(k) EXCEPT !.left = @ - k.ammoIn, !.cham = @ + k.ammoIn]
    OBVIOUS
  <2>2. Stocked(k.cur) => /\ k.ammoIn >= 0 /\ k.ammoIn <= Arm(k).left
                          /\ Arm(k).cham + k.ammoIn <= 2 * Info(k).reload
    BY <1>0, <1>2 DEF LoadsIn
  <2>3. Fit(k.cur, b) /\ Rounds(b) <= Rounds(Arm(k))
    BY <1>0, <1>2, <2>1, <2>2, LoadFit DEF Info
  <2>4. Loaded(k) = Armed(k, b)
    BY <1>0, <1>2, <2>1 DEF Loaded
  <2> QED
    BY <1>0, <1>1, <1>2, <2>3, <2>4, Rearmed
<1>3. CASE Info(h).reload = 0
  <2>1. PICK b : b = SwapMagazine(Arm(k))
    OBVIOUS
  <2>2. Arm(k).mags = 1
    BY <1>0, <1>3 DEF LoadsIn
  <2>3. Fit(k.cur, b) /\ Rounds(b) <= Rounds(Arm(k)) /\ (Stocked(k.cur) => b.left > 0)
    BY <1>0, <2>1, <2>2, SwapMagazineFit
  <2>4. Loaded(k) = Armed(k, b)
    BY <1>0, <1>3, <2>1 DEF Loaded
  <2>5. /\ Armed(k, b) \in Hunters(taken) /\ Arm(Armed(k, b)) = b /\ Steady(k, Armed(k, b))
        /\ Armed(k, b).cur = k.cur
    BY <1>1, <2>3, Rearmed
  <2> QED
    BY <2>3, <2>4, <2>5
<1> QED
  BY <1>0, <1>2, <1>3

(* The weapon is held again, or still.                                     *)
LEMMA HeldAgain ==
  ASSUME NEW taken, NEW h \in Hunters(taken), h.state # 0, h.state # 3,
         NEW k, k = [h EXCEPT !.state = 2, !.busy = FALSE]
  PROVE  k \in Hunters(taken) /\ Steady(h, k)
<1>1. PICK n \in Handling : n = 2
  BY DEF Handling
<1>2. PICK f \in BOOLEAN : f = FALSE
  OBVIOUS
<1>3. k = [h EXCEPT !.state = n, !.busy = f]
  BY <1>1, <1>2
<1>4. n = 6 => Info(h).reload = 0
  BY <1>1
<1> QED
  BY <1>3, <1>4, Begins

LEMMA HeldParts ==
  ASSUME NEW taken, NEW h \in Hunters(taken), NEW k, k = [h EXCEPT !.state = 2, !.busy = FALSE]
  PROVE  /\ k.state = 2 /\ k.cur = h.cur /\ k.ammoIn = h.ammoIn /\ k.arms = h.arms
         /\ Arm(k) = Arm(h) /\ Info(k) = Info(h)
<1>1. h \in HunterType
  BY Parts
<1> QED
  BY <1>1 DEF HunterType, Arm, Info

LEMMA ReloadedSound ==
  ASSUME NEW taken, NEW h \in Hunters(taken), h.state \in {4, 5}
  PROVE  Reloaded(h) \in Hunters(taken) /\ Steady(h, Reloaded(h))
<1>1. PICK k : k = [h EXCEPT !.state = 2, !.busy = FALSE]
  OBVIOUS
<1>a. h.state # 0 /\ h.state # 3
  OBVIOUS
<1>2. k \in Hunters(taken) /\ Steady(h, k)
  BY <1>1, <1>a, HeldAgain
<1>3. k.state = 2 /\ k.cur = h.cur /\ k.ammoIn = h.ammoIn /\ Arm(k) = Arm(h)
  BY <1>1, HeldParts
<1>4. PICK l : l = Loaded(k)
  OBVIOUS
<1>5. /\ l \in Hunters(taken) /\ Steady(k, l) /\ l.cur = h.cur
      /\ Info(h).reload = 0 /\ Stocked(h.cur) => Arm(l).left > 0
  BY <1>2, <1>3, <1>4, LoadedSound
<1>6. Steady(h, l)
  BY <1>2, <1>5, SteadyTrans
<1>7. CASE Info(h).reload = 0 /\ ~(Arm(l).cham # 0) /\ Info(h).pmp <= 0
  <2>1. PICK b : b = [Arm(l) EXCEPT !.cham = 1, !.left = @ - 1]
    OBVIOUS
  <2>2. /\ l.cur \in Weapons /\ Fit(l.cur, Arm(l)) /\ WeapInfo[l.cur].reload = 0
        /\ Stocked(l.cur) => Arm(l).left > 0
    BY <1>5, <1>7, Parts DEF Info
  <2>3. Fit(l.cur, b) /\ Rounds(b) <= Rounds(Arm(l))
    BY <2>1, <2>2, NextRound
  <2>5. LoadsIn(l, b)
    <3>1. l.state = 2
      BY <1>3, <1>4, <1>2 DEF Loaded, Armed, Hunters, HunterType
    <3> QED
      BY <3>1 DEF LoadsIn
  <2>6. Armed(l, b) \in Hunters(taken) /\ Steady(l, Armed(l, b))
    BY <1>5, <2>3, <2>5, Rearmed
  <2>7. Reloaded(h) = Armed(l, b)
    BY <1>1, <1>4, <1>7, <2>1 DEF Reloaded
  <2> QED
    BY <1>5, <1>6, <2>6, <2>7, SteadyTrans
<1>8. CASE ~(Info(h).reload = 0 /\ ~(Arm(l).cham # 0) /\ Info(h).pmp <= 0)
  <2>1. ProcessPump(l) \in Hunters(taken) /\ Steady(l, ProcessPump(l))
    BY <1>5, ProcessPumpSound
  <2>2. Steady(h, ProcessPump(l))
    BY <1>5, <1>6, <2>1, SteadyTrans
  <2>3. Info(h).reload \in Int
    BY Parts, WeaponFacts DEF Info
  <2>4. Reloaded(h) = l \/ Reloaded(h) = ProcessPump(l)
    BY <1>1, <1>4, <1>8, <2>3 DEF Reloaded
  <2> QED
    BY <1>5, <1>6, <2>1, <2>2, <2>4
<1> QED
  BY <1>7, <1>8

LEMMA ShotOverSound ==
  ASSUME NEW taken, NEW h \in Hunters(taken), h.state = 2
  PROVE  ShotOver(h) \in Hunters(taken) /\ Steady(h, ShotOver(h))
<1>0. h \in HunterType /\ h.state # 0 /\ h.state # 3 /\ Fit(h.cur, Arm(h))
  BY Parts
<1>1. PICK held : held = [h EXCEPT !.busy = FALSE]
  OBVIOUS
<1>2. held = [h EXCEPT !.state = 2, !.busy = FALSE]
  BY <1>0, <1>1 DEF HunterType
<1>3. held \in Hunters(taken) /\ Steady(h, held)
  BY <1>0, <1>2, HeldAgain
<1>4. held.state = 2 /\ held.cur = h.cur /\ Arm(held) = Arm(h)
  BY <1>2, HeldParts
<1>5. PICK b : b = Chamber(Arm(h))
  OBVIOUS
<1>a. h.cur \in Weapons
  BY Parts
<1>6. ASSUME Info(h).reload = 0
      PROVE  Fit(held.cur, b) /\ Rounds(b) <= Rounds(Arm(held))
  BY <1>0, <1>4, <1>5, <1>6, <1>a, ChamberFit DEF Info
<1>7. LoadsIn(held, b)
  BY <1>4 DEF LoadsIn
<1>8. PICK loaded : loaded = Armed(held, b)
  OBVIOUS
<1>9. ASSUME Info(h).reload = 0
      PROVE  loaded \in Hunters(taken) /\ Steady(held, loaded)
  BY <1>3, <1>6, <1>7, <1>8, <1>9, Rearmed
<1>10. PICK fed : fed = IF Info(h).reload = 0 /\ ~Info(h).mustPump THEN loaded ELSE held
  OBVIOUS
<1>11. Info(h).reload = 0 => Steady(h, loaded)
  BY <1>3, <1>9, SteadyTrans
<1>12. fed \in Hunters(taken) /\ Steady(h, fed)
  BY <1>3, <1>9, <1>10, <1>11
<1>13. PICK pumped : pumped = IF Info(h).mustPump /\ Info(h).autoPump /\ Arm(fed).left # 0
                             THEN ProcessPump(fed) ELSE fed
  OBVIOUS
<1>14. ProcessPump(fed) \in Hunters(taken) /\ Steady(fed, ProcessPump(fed))
  BY <1>12, ProcessPumpSound
<1>15. Steady(h, ProcessPump(fed))
  BY <1>12, <1>14, SteadyTrans
<1>16. pumped \in Hunters(taken) /\ Steady(h, pumped)
  BY <1>12, <1>13, <1>14, <1>15
<1>17. ProcessReload(pumped) \in Hunters(taken) /\ Steady(pumped, ProcessReload(pumped))
  BY <1>16, ProcessReloadSound
<1>18. Steady(h, ProcessReload(pumped))
  BY <1>16, <1>17, SteadyTrans
<1>19. ShotOver(h) \in {pumped, ProcessReload(pumped)}
  BY <1>1, <1>5, <1>8, <1>10, <1>13 DEF ShotOver
<1> QED
  BY <1>16, <1>17, <1>18, <1>19

(* The weapon is away, and the one chosen meanwhile in hand.               *)
LEMMA AwaySound ==
  ASSUME NEW taken, NEW h \in Hunters(taken), h.state = 3,
         NEW k, k = [h EXCEPT !.state = 0, !.busy = FALSE, !.cur = h.target]
  PROVE  k \in Hunters(taken) /\ Steady(h, k)
<1>0. h \in HunterType /\ Scoped(h)
  BY Parts
<1>a. h.target \in Weapons /\ 0 \in 0..7 /\ FALSE \in BOOLEAN
  BY Parts
<1>1. k \in HunterType
  BY <1>0, <1>a DEF HunterType
<1>2. /\ k.arms = h.arms /\ k.cur = h.target /\ k.target = h.target /\ k.alive = h.alive
      /\ k.mode = h.mode /\ k.saved = h.saved /\ k.state = 0
  BY <1>0 DEF HunterType
<1>3. ~IsScopeView(h)
  BY <1>0 DEF Scoped
<1>4. Scoped(k)
  BY <1>2, <1>3 DEF Scoped, IsScopeView
<1>5. k.cur \in taken /\ k.target \in taken
  BY <1>2, Parts
<1>6. k.state \in {4, 5, 6} => LoadsIn(k, Arm(k))
  BY <1>2
<1> QED
  BY <1>1, <1>2, <1>4, <1>5, <1>6, Moved, ZenonT(40)

LEMMA AnimationOverSound ==
  ASSUME NEW taken, NEW h \in Hunters(taken), h.state # 0
  PROVE  AnimationOver(h) \in Hunters(taken) /\ Steady(h, AnimationOver(h))
<1>0. h \in HunterType /\ h.state \in 0..7 /\ Steady(h, h) /\ h.cur \in Weapons
  BY Parts, NoMoreRefl DEF Steady
<1>1. PICK held : held = [h EXCEPT !.state = 2, !.busy = FALSE]
  OBVIOUS
<1>2. ASSUME h.state # 3 PROVE held \in Hunters(taken) /\ Steady(h, held)
  BY <1>1, <1>2, HeldAgain
<1>3. /\ held.state = 2 /\ held.cur = h.cur /\ held.ammoIn = h.ammoIn /\ Arm(held) = Arm(h)
  BY <1>1, HeldParts
<1>4. \A b : LoadsIn(held, b)
  BY <1>3 DEF LoadsIn
<1>5. CASE h.state = 1
  <2>1. AnimationOver(h) = held
    BY <1>1, <1>5 DEF AnimationOver
  <2> QED
    BY <1>2, <1>5, <2>1
<1>6. CASE h.state = 2
  <2>1. AnimationOver(h) = h \/ AnimationOver(h) = ShotOver(h)
    BY <1>6 DEF AnimationOver
  <2> QED
    BY <1>0, <1>6, <2>1, ShotOverSound
<1>7. CASE h.state = 3
  <2>1. PICK away : away = [h EXCEPT !.state = 0, !.busy = FALSE, !.cur = h.target]
    OBVIOUS
  <2>2. away \in Hunters(taken) /\ Steady(h, away)
    BY <1>7, <2>1, AwaySound
  <2>3. HideWeapon(away) \in Hunters(taken) /\ Steady(away, HideWeapon(away))
    BY <2>2, HideWeaponSound
  <2>4. Steady(h, HideWeapon(away))
    BY <2>2, <2>3, SteadyTrans
  <2>5. AnimationOver(h) = away \/ AnimationOver(h) = HideWeapon(away)
    BY <1>7, <2>1 DEF AnimationOver
  <2> QED
    BY <2>2, <2>3, <2>4, <2>5
<1>8. CASE h.state = 4
  <2>1. AnimationOver(h) = Reloaded(h)
    BY <1>8 DEF AnimationOver
  <2> QED
    BY <1>8, <2>1, ReloadedSound
<1>9. CASE h.state = 5
  <2>0. h.state # 3 /\ h.state \in {4, 5}
    BY <1>9
  <2>1. AnimationOver(h) = Loaded(held)
    BY <1>1, <1>9 DEF AnimationOver
  <2>2. Loaded(held) \in Hunters(taken) /\ Steady(held, Loaded(held))
    BY <1>2, <1>3, <2>0, LoadedSound
  <2> QED
    BY <1>2, <2>0, <2>1, <2>2, SteadyTrans
<1>10. CASE h.state \in {6, 7}
  <2>0. h.state # 3
    BY <1>10
  <2>1. PICK b : b = IF h.state = 6 THEN Chamber(Arm(h)) ELSE [Arm(h) EXCEPT !.auto = ~@]
    OBVIOUS
  <2>2. Fit(h.cur, Arm(h)) /\ (h.state = 6 => WeapInfo[h.cur].reload = 0)
    BY Parts DEF LoadsIn, Info
  <2>3. Fit(held.cur, b) /\ Rounds(b) <= Rounds(Arm(held))
    BY <1>0, <1>3, <2>1, <2>2, ChamberFit, ModeFit
  <2>4. LoadsIn(held, b)
    BY <1>4
  <2>5. Armed(held, b) \in Hunters(taken) /\ Steady(held, Armed(held, b))
    BY <1>2, <2>0, <2>3, <2>4, Rearmed
  <2>6. AnimationOver(h) = Armed(held, b)
    BY <1>1, <1>10, <2>1 DEF AnimationOver
  <2> QED
    BY <1>2, <2>0, <2>5, <2>6, SteadyTrans
<1>11. h.state = 1 \/ h.state = 2 \/ h.state = 3 \/ h.state = 4 \/ h.state = 5 \/ h.state \in {6, 7}
  <2>1. \A n \in 0..7 : n # 0 => n = 1 \/ n = 2 \/ n = 3 \/ n = 4 \/ n = 5 \/ n \in {6, 7}
    OBVIOUS
  <2> QED
    BY <1>0, <2>1
<1> QED
  BY <1>5, <1>6, <1>7, <1>8, <1>9, <1>10, <1>11

(* The animation goes on.                                                  *)
LEMMA BusyChanged ==
  ASSUME NEW taken, NEW h \in Hunters(taken), NEW f \in BOOLEAN,
         NEW k, k = [h EXCEPT !.busy = f]
  PROVE  k \in Hunters(taken) /\ Steady(h, k)
<1>0. h \in HunterType /\ Scoped(h)
  BY Parts
<1>1. k \in HunterType
  BY <1>0 DEF HunterType
<1>2. /\ k.arms = h.arms /\ k.cur = h.cur /\ k.target = h.target /\ k.alive = h.alive
      /\ k.mode = h.mode /\ k.saved = h.saved /\ k.state = h.state /\ k.ammoIn = h.ammoIn
  BY <1>0 DEF HunterType
<1>3. Scoped(k)
  BY <1>0, <1>2 DEF Scoped, IsScopeView, Info
<1>4. k.cur \in taken /\ k.target \in taken
  BY <1>2, Parts
<1>5. k.state \in {4, 5, 6} => LoadsIn(k, Arm(k))
  BY <1>2, Parts DEF LoadsIn, Arm, Info
<1> QED
  BY <1>1, <1>2, <1>3, <1>4, <1>5, Moved, ZenonT(40)

(* A frame leaves the hunter sound and adds no round.                      *)
LEMMA AnimateWeaponSound ==
  ASSUME NEW taken, NEW h \in Hunters(taken), NEW over \in BOOLEAN, NEW pumpOver \in BOOLEAN
  PROVE  /\ AnimateWeapon(h, over, pumpOver) \in Hunters(taken)
         /\ Steady(h, AnimateWeapon(h, over, pumpOver))
<1>0. Steady(h, h) /\ h \in HunterType
  BY Parts, NoMoreRefl DEF Steady
<1>1. CASE h.state = 0
  BY <1>0, <1>1 DEF AnimateWeapon
<1>2. CASE h.state # 0
  <2>1. PICK m : m = IF h.mode = "MapMode" THEN "Normal" ELSE h.mode
    OBVIOUS
  <2>2. PICK shown : shown = [h EXCEPT !.mode = m]
    OBVIOUS
  <2>3. shown \in Hunters(taken) /\ Steady(h, shown)
    <3>1. CASE h.mode = "MapMode"
      <4>1. m = "Normal" /\ m \in {"Normal", "Swimming", "Underwater", "Binocular", "MapMode"}
        BY <2>1, <3>1
      <4> QED
        BY <2>2, <4>1, PlainMode
    <3>2. CASE h.mode # "MapMode"
      <4>1. shown = h
        BY <1>0, <2>1, <2>2, <3>2 DEF HunterType
      <4> QED
        BY <1>0, <4>1
    <3> QED
      BY <3>1, <3>2
  <2>4. shown.state = h.state /\ shown.state # 0
    BY <1>0, <1>2, <2>2 DEF HunterType
  <2>5. PICK f \in BOOLEAN : f = (shown.busy \/ h.state \in {1, 3})
    BY <2>3, Parts
  <2>6. PICK waits : waits = [shown EXCEPT !.busy = f]
    OBVIOUS
  <2>7. waits \in Hunters(taken) /\ Steady(shown, waits)
    BY <2>3, <2>6, BusyChanged
  <2>8. AnimationOver(shown) \in Hunters(taken) /\ Steady(shown, AnimationOver(shown))
    BY <2>3, <2>4, AnimationOverSound
  <2>9. PICK next : next = IF over THEN AnimationOver(shown) ELSE waits
    OBVIOUS
  <2>10. next \in Hunters(taken) /\ Steady(shown, next)
    BY <2>7, <2>8, <2>9
  <2>11. Steady(h, next)
    BY <2>3, <2>10, SteadyTrans
  <2>12. PICK last : last = IF over /\ pumpOver /\ h.state # 6 /\ next.state = 6
                            THEN AnimationOver(next) ELSE next
    OBVIOUS
  <2>13. CASE next.state = 6
    <3>1. AnimationOver(next) \in Hunters(taken) /\ Steady(next, AnimationOver(next))
      BY <2>10, <2>13, AnimationOverSound
    <3>2. Steady(h, AnimationOver(next))
      BY <2>10, <2>11, <3>1, SteadyTrans
    <3>3. AnimateWeapon(h, over, pumpOver) = last
      BY <1>2, <2>1, <2>2, <2>5, <2>6, <2>9, <2>12 DEF AnimateWeapon
    <3> QED
      BY <2>10, <2>11, <2>12, <3>1, <3>2, <3>3
  <2>14. CASE next.state # 6
    <3>1. AnimateWeapon(h, over, pumpOver) = next
      BY <1>2, <2>1, <2>2, <2>5, <2>6, <2>9, <2>14 DEF AnimateWeapon
    <3> QED
      BY <2>10, <2>11, <3>1
  <2> QED
    BY <2>13, <2>14
<1> QED
  BY <1>1, <1>2

-----------------------------------------------------------------------------
(* The bag, a bolt and a new round.                                        *)

LEMMA RefillFit ==
  ASSUME NEW taken, NEW h, NEW double \in BOOLEAN, NEW init \in BOOLEAN,
         \A w \in Weapons : Fit(w, h.arms[w]),
         \A w \in Weapons \ taken : h.arms[w] = NoArm,
         NEW k, k = refillWeapons(h, taken, double, init)
  PROVE  \E r \in [Weapons -> ArmRecord] :
           /\ k = [h EXCEPT !.arms = r]
           /\ r = [w \in Weapons |-> IF w \in taken THEN Refilled(h.arms[w], w, double, init)
                                     ELSE h.arms[w]]
           /\ \A w \in Weapons : Fit(w, r[w])
           /\ \A w \in Weapons \ taken : r[w] = NoArm
<1> DEFINE r == [w \in Weapons |-> IF w \in taken THEN Refilled(h.arms[w], w, double, init)
                                   ELSE h.arms[w]]
<1>1. k = [h EXCEPT !.arms = r]
  BY DEF refillWeapons
<1>2. \A w \in Weapons : Fit(w, Refilled(h.arms[w], w, double, init))
  BY RefilledFit
<1>3. \A w \in Weapons : Fit(w, r[w])
  BY <1>2
<1>4. \A w \in Weapons \ taken : r[w] = NoArm
  OBVIOUS
<1>5. r \in [Weapons -> ArmRecord]
  BY <1>3 DEF Fit
<1> QED
  BY <1>1, <1>3, <1>4, <1>5

(* The bag may be taken in the middle of a reload: it never fills the      *)
(* chamber that the reload is about to fill.                               *)
LEMMA RefillSound ==
  ASSUME NEW taken, NEW h \in Hunters(taken), NEW double \in BOOLEAN
  PROVE  /\ refillWeapons(h, taken, double, FALSE) \in Hunters(taken)
         /\ refillWeapons(h, taken, double, FALSE).alive = h.alive
<1>1. PICK k : k = refillWeapons(h, taken, double, FALSE)
  OBVIOUS
<1>2. PICK init \in BOOLEAN : init = FALSE
  OBVIOUS
<1>3. k = refillWeapons(h, taken, double, init)
  BY <1>1, <1>2
<1>4. h \in HunterType
  BY Parts
<1>c. \A w \in Weapons : Fit(w, h.arms[w])
  BY Parts
<1>d. \A w \in Weapons \ taken : h.arms[w] = NoArm
  BY DEF Hunters
<1>a. PICK r \in [Weapons -> ArmRecord] :
        /\ k = [h EXCEPT !.arms = r]
        /\ r = [w \in Weapons |-> IF w \in taken THEN Refilled(h.arms[w], w, double, init)
                                  ELSE h.arms[w]]
        /\ \A w \in Weapons : Fit(w, r[w])
        /\ \A w \in Weapons \ taken : r[w] = NoArm
  BY <1>3, <1>c, <1>d, RefillFit
<1>b. k \in HunterType /\ k.arms = r
  BY <1>4, <1>a DEF HunterType
<1>5. /\ k \in HunterType
      /\ k.arms = [w \in Weapons |-> IF w \in taken THEN Refilled(h.arms[w], w, double, init)
                                     ELSE h.arms[w]]
      /\ \A w \in Weapons : Fit(w, k.arms[w])
      /\ \A w \in Weapons \ taken : k.arms[w] = NoArm
  BY <1>a, <1>b
<1>6. /\ k.mode = h.mode /\ k.saved = h.saved /\ k.state = h.state /\ k.cur = h.cur
      /\ k.target = h.target /\ k.ammoIn = h.ammoIn /\ k.alive = h.alive
  BY <1>1, <1>4 DEF refillWeapons, HunterType
<1>7. k.cur \in taken /\ k.target \in taken /\ h.cur \in Weapons /\ h.cur \in taken
  BY <1>6, Parts
<1>8. Scoped(k)
  <2>1. Scoped(h)
    BY Parts
  <2> QED
    BY <1>6, <2>1 DEF Scoped, IsScopeView, Info
<1>9. LoadsIn(k, Arm(k))
  <2>0. k.state = 6 => Info(k).reload = 0
    BY <1>6, Parts DEF LoadsIn, Info
  <2> SUFFICES ASSUME h.state \in {4, 5} PROVE LoadsIn(k, Arm(k))
    BY <1>6, <2>0 DEF LoadsIn
  <2>1. PICK a, c : a = Arm(h) /\ c = Arm(k)
    OBVIOUS
  <2>2. c = Refilled(a, h.cur, double, init)
    BY <1>5, <1>6, <1>7, <2>1 DEF Arm
  <2>3. Fit(h.cur, a) /\ LoadsIn(h, a)
    BY <2>1, Parts
  <2>4. PICK q \in Int : q = h.ammoIn
    BY Parts
  <2>5. IF WeapInfo[h.cur].reload # 0
          THEN Stocked(h.cur) => /\ q >= 0 /\ q <= WeapInfo[h.cur].reload
                                 /\ a.cham + q <= 2 * WeapInfo[h.cur].reload
          ELSE a.mags = 1
    BY <2>3, <2>4 DEF LoadsIn, Info
  <2>6. ~init
    BY <1>2
  <2>7. IF WeapInfo[h.cur].reload # 0
          THEN Stocked(h.cur) => /\ q >= 0 /\ q <= c.left /\ q <= WeapInfo[h.cur].reload
                                 /\ c.cham + q <= 2 * WeapInfo[h.cur].reload
          ELSE c.mags = 1
    BY <1>7, <2>2, <2>3, <2>5, <2>6, RefilledByBag
  <2> QED
    BY <1>6, <2>0, <2>1, <2>4, <2>7 DEF LoadsIn, Info
<1>10. k \in Hunters(taken)
  BY <1>5, <1>7, <1>8, <1>9 DEF Hunters
<1> QED
  BY <1>1, <1>6, <1>10
=============================================================================
