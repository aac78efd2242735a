----------------------------- MODULE Hunt_proofs -----------------------------
(***************************************************************************)
(* The safety of an ordinary hunt, for every set of weapons, every size of *)
(* the arrays and every outing: the inductive invariant, and with it the   *)
(* types, the magnified view, the ship's list, the count on the disk and   *)
(* the rounds that are never made.                                         *)
(***************************************************************************)
EXTENDS Hunt, HuntWeapon_proofs, WellFoundedInduction

-----------------------------------------------------------------------------
(* The inductive invariant.                                                *)

AnimalType ==
  [id : Nat, kind : Kinds, alive : BOOLEAN, claimed : BOOLEAN, aboard : BOOLEAN]

FieldType(taken) ==
  [slots : [1..Slots -> AnimalType], count : 0..Slots, born : Nat,
   ship : [state : -1..3, body : 0..Slots, carried : Nat],
   tasks : Seq(1..Slots), due : Seq(Nat),
   shown : [on : BOOLEAN, body : 0..Slots, id : Nat],
   scoreUp : BOOLEAN, demo : [time : 0..4, body : 0..Slots, id : Nat],
   shots : Seq([weapon : taken, stuck : BOOLEAN]),
   supply : {"ready", "coming", "leaving", "gone"}, bag : {"none", "out", "taken"}]

(* The animals of a round are told apart by their ids, and no id is new    *)
(* to the round that the counter has not reached.                          *)
Distinct(f) ==
  /\ f.count <= f.born
  /\ \A i \in 1..f.count : f.slots[i].id <= f.born
  /\ \A i, j \in 1..f.count : f.slots[i].id = f.slots[j].id => i = j

(* What is on display is prey, wherever its record is now.                 *)
ShownPrey(f) ==
  f.shown.on =>
    /\ f.shown.body # 0 /\ f.shown.id <= f.born
    /\ \A i \in 1..f.count : f.slots[i].id = f.shown.id => f.slots[i].kind = "prey"

Grounds(taken) ==
  { f \in FieldType(taken) :
      /\ Len(f.tasks) = Len(f.due)
      /\ f.ship.state # -1 => f.ship.body # 0
      /\ Distinct(f) /\ ShownPrey(f)
      /\ f.supply \in {"ready", "coming"} => f.bag = "none" }

(* An index stands for the claimed prey it was noted for.                  *)
Stands(f, index, id) ==
  /\ index \in 1..f.count /\ f.slots[index].id = id
  /\ f.slots[index].kind = "prey" /\ f.slots[index].claimed

(* The ship's list and the ship name different bodies, all of them claimed *)
(* prey, and the scene the hunter's: removing one leaves the others.       *)
Followed(f) ==
  /\ \A k \in 1..Len(f.tasks) : Stands(f, f.tasks[k], f.due[k])
  /\ \A k, l \in 1..Len(f.tasks) : f.tasks[k] = f.tasks[l] => k = l
  /\ f.ship.state # -1 =>
       /\ Stands(f, f.ship.body, f.ship.carried)
       /\ \A k \in 1..Len(f.tasks) : f.tasks[k] # f.ship.body
  /\ f.demo.time > 0 =>
       /\ f.demo.body \in 1..f.count /\ f.slots[f.demo.body].id = f.demo.id
       /\ f.slots[f.demo.body].kind = "hunter"

(* There is a place for the hunter's body while he lives.                  *)
Room(h, f) == h.alive => f.born < Slots

ProfileType ==
  [score : Nat, total : Nat, last : Nat, mounts : SUBSET Nat, seen : BOOLEAN]
RoundType == [kills : Nat, mounts : SUBSET Nat, astray : BOOLEAN]
DiskType == [score : Nat, total : Nat, seen : BOOLEAN, mounts : SUBSET Nat]

(* Memory counts the round under way; a profile read anew, none.           *)
Tallied(p, r, fresh) ==
  p.score = r.kills /\ p.last = r.kills /\ (~fresh => p.mounts = r.mounts)

Emptied(p, fresh) == p.score = 0 /\ p.last = 0 /\ (~fresh => p.mounts = {})

(* What a shot may change: the state of AnimateBullets.                    *)
Shoots(taken, fresh) ==
  { g \in [hunter : Hunters(taken), field : Grounds(taken), profile : ProfileType,
           round : RoundType] :
      /\ Room(g.hunter, g.field)
      /\ ~g.round.astray => Followed(g.field)
      /\ g.profile.total = 0
      /\ Tallied(g.profile, g.round, fresh) }

Phases == {"keys", "controls", "animals", "bullets", "processes", "draw"}

OutingInv == outing \in Outings /\ restart \in BOOLEAN /\ phase \in Phases
HunterInv == hunter \in Hunters(outing.weapons)
FieldInv ==
  /\ field \in Grounds(outing.weapons) /\ Room(hunter, field)
  /\ round \in RoundType /\ (~round.astray => Followed(field))
ProfileInv ==
  /\ profile \in ProfileType /\ disk \in DiskType
  /\ over # "left" =>
       /\ disk.score = 0 /\ disk.total = 0 /\ disk.mounts = {}
       /\ disk.seen = ~outing.fresh /\ profile.total = 0
       /\ ~restart => Tallied(profile, round, outing.fresh)
       /\ restart => phase = "keys" /\ Emptied(profile, outing.fresh)
OverInv ==
  /\ over \in {"no", "quit", "left"}
  /\ over = "quit" => phase = "keys" \/ (phase = "controls" /\ field.demo.time = 4)
  /\ over = "left" => phase = "draw" /\ RoundCounted

IInv == OutingInv /\ HunterInv /\ FieldInv /\ ProfileInv /\ OverInv

-----------------------------------------------------------------------------
(* Induction, and the functions it defines.                                *)

LEMMA LeastElement ==
  ASSUME NEW T \in SUBSET Nat, T # {}
  PROVE  \E x \in T : \A y \in T : x <= y
<1>1. PICK R : R = OpToRel(<, Nat)
  OBVIOUS
<1>2. IsWellFoundedOn(R, Nat)
  BY <1>1, NatLessThanWellFounded
<1>3. PICK x \in T : \A y \in T : ~(<<y, x>> \in R)
  BY <1>2, WFMin
<1>4. R = {ss \in Nat \X Nat : ss[1] < ss[2]}
  BY <1>1 DEF OpToRel
<1>5. ASSUME NEW y \in T PROVE x <= y
  <2>1. ~(y < x)
    BY <1>3, <1>4
  <2> QED
    BY <2>1
<1> QED
  BY <1>5

LEMMA SetInduction ==
  ASSUME NEW S, 0 \in S, \A n \in Nat : n \in S => n + 1 \in S
  PROVE  Nat \subseteq S
<1> SUFFICES ASSUME Nat \ S # {} PROVE FALSE
  OBVIOUS
<1>1. PICK x \in Nat \ S : \A y \in Nat \ S : x <= y
  BY LeastElement
<1>2. x # 0 /\ x - 1 \in Nat
  BY <1>1
<1>3. x - 1 \in S
  BY <1>1, <1>2
<1> QED
  BY <1>1, <1>2, <1>3

(* A function that starts somewhere in G and never steps out of it exists. *)
Walks(G, start, n, step) ==
  {f \in [0..n -> G] : f[0] = start /\ \A b \in 1..n : f[b] = step[b][f[b - 1]]}

LEMMA StepsExist ==
  ASSUME NEW G, NEW start \in G, NEW n \in Nat, NEW step \in [1..n -> [G -> G]]
  PROVE  Walks(G, start, n, step) # {}
<1> DEFINE S == {m \in Nat : m <= n =>
                  \E f \in [0..m -> G] :
                    f[0] = start /\ \A b \in 1..m : f[b] = step[b][f[b - 1]]}
<1>1. 0 \in S
  <2>1. PICK f : f = [b \in 0..0 |-> start]
    OBVIOUS
  <2>2. f \in [0..0 -> G] /\ f[0] = start /\ \A b \in 1..0 : f[b] = step[b][f[b - 1]]
    BY <2>1
  <2> QED
    BY <2>2
<1>2. ASSUME NEW m \in Nat, m \in S PROVE m + 1 \in S
  <2> SUFFICES ASSUME m + 1 <= n
               PROVE  \E f \in [0..m + 1 -> G] :
                        f[0] = start /\ \A b \in 1..m + 1 : f[b] = step[b][f[b - 1]]
    OBVIOUS
  <2>1. PICK f \in [0..m -> G] : f[0] = start /\ \A b \in 1..m : f[b] = step[b][f[b - 1]]
    BY <1>2
  <2>2. PICK l \in G : l = step[m + 1][f[m]]
    <3>1. m + 1 \in 1..n /\ m \in 0..m
      OBVIOUS
    <3>2. step[m + 1] \in [G -> G] /\ f[m] \in G
      BY <2>1, <3>1
    <3> QED
      BY <3>2
  <2>3. PICK g : g = [b \in 0..m + 1 |-> IF b = m + 1 THEN l ELSE f[b]]
    OBVIOUS
  <2>4. g \in [0..m + 1 -> G]
    BY <2>1, <2>3
  <2>5. g[0] = start
    BY <2>1, <2>3
  <2>6. ASSUME NEW b \in 1..m + 1 PROVE g[b] = step[b][g[b - 1]]
    <3>1. b - 1 \in 0..m /\ b - 1 # m + 1 /\ b - 1 \in 0..m + 1 /\ b \in 0..m + 1
      OBVIOUS
    <3>2. g[b - 1] = f[b - 1]
      BY <2>3, <3>1
    <3>3. CASE b = m + 1
      BY <2>2, <2>3, <3>1, <3>2, <3>3
    <3>4. CASE b # m + 1
      <4>1. b \in 1..m
        BY <3>4
      <4> QED
        BY <2>1, <2>3, <3>1, <3>2, <3>4, <4>1
    <3> QED
      BY <3>3, <3>4
  <2> QED
    BY <2>4, <2>5, <2>6
<1>3. n \in S
  <2> HIDE DEF S
  <2> QED
    BY <1>1, <1>2, SetInduction
<1> QED
  BY <1>3 DEF Walks

-----------------------------------------------------------------------------
(* The hunter's part of a frame.                                           *)

LEMMA OutingFacts ==
  ASSUME NEW o \in Outings
  PROVE  /\ o \in OutingType /\ o.weapons \in SUBSET Weapons /\ o.weapons # {}
         /\ o.double \in BOOLEAN /\ o.herd \in Seq(Kinds) /\ Len(o.herd) < Slots
         /\ o.fresh \in BOOLEAN
BY OutingAssumption DEF OutingType

(* Before the first round no weapon is in hand.                            *)
LooseType ==
  [mode : Modes, saved : Modes, state : 0..7, busy : BOOLEAN,
   cur : Nat, target : Nat, ammoIn : Int, arms : [Weapons -> ArmRecord],
   fired : BOOLEAN, water : BOOLEAN, exit : BOOLEAN, alive : BOOLEAN]

(* The first weapon taken along is in hand, nothing magnified.             *)
LEMMA NewHunterSound ==
  ASSUME NEW o \in Outings, NEW h \in LooseType,
         \A w \in Weapons : Fit(w, h.arms[w]),
         \A w \in Weapons \ o.weapons : h.arms[w] = NoArm
  PROVE  NewHunter(o, h) \in Hunters(o.weapons) /\ NewHunter(o, h).alive = TRUE
<1>1. PICK first : first = CHOOSE w \in o.weapons : \A v \in o.weapons : w <= v
  OBVIOUS
<1>2. first \in o.weapons /\ first \in Weapons
  <2>1. o.weapons \in SUBSET Nat /\ o.weapons # {}
    BY OutingFacts, WeaponAssumption
  <2>2. \E w \in o.weapons : \A v \in o.weapons : w <= v
    BY <2>1, LeastElement
  <2> QED
    BY <1>1, <2>2, OutingFacts
<1>3. PICK init \in BOOLEAN : init = TRUE
  OBVIOUS
<1>a. PICK taken, double : taken = o.weapons /\ double = o.double
  OBVIOUS
<1>4. PICK k : k = refillWeapons(h, taken, double, init)
  OBVIOUS
<1>5. double \in BOOLEAN /\ \A w \in Weapons \ taken : h.arms[w] = NoArm
  BY <1>a, OutingFacts
<1>b. PICK r \in [Weapons -> ArmRecord] :
        /\ k = [h EXCEPT !.arms = r]
        /\ r = [w \in Weapons |-> IF w \in taken THEN Refilled(h.arms[w], w, double, init)
                                  ELSE h.arms[w]]
        /\ \A w \in Weapons : Fit(w, r[w])
        /\ \A w \in Weapons \ taken : r[w] = NoArm
  BY <1>4, <1>5, RefillFit
<1>d. k \in LooseType /\ k.arms = r
  BY <1>b DEF LooseType
<1>6. /\ \A w \in Weapons : Fit(w, k.arms[w])
      /\ \A w \in Weapons \ o.weapons : k.arms[w] = NoArm
  BY <1>a, <1>b, <1>d
<1>7. PICK l : l = [k EXCEPT !.mode = "Normal", !.state = 0, !.busy = FALSE, !.cur = first,
                             !.target = first, !.exit = FALSE, !.alive = TRUE]
  OBVIOUS
<1>c. "Normal" \in Modes /\ 0 \in 0..7 /\ FALSE \in BOOLEAN /\ TRUE \in BOOLEAN
  BY DEF Modes
<1>8. l \in HunterType
  BY <1>2, <1>7, <1>c, <1>d DEF HunterType, LooseType
<1>9. /\ l.arms = k.arms /\ l.mode = "Normal" /\ l.state = 0 /\ l.cur = first
      /\ l.target = first
  BY <1>7, <1>d DEF LooseType
<1>10. l.alive = TRUE
  BY <1>7, <1>d DEF LooseType
<1>11. Scoped(l)
  BY <1>9, ScopeLeft
<1>12. LoadsIn(l, Arm(l))
  BY <1>9 DEF LoadsIn
<1>13. l \in Hunters(o.weapons)
  BY <1>2, <1>6, <1>8, <1>9, <1>11, <1>12 DEF Hunters
<1>14. NewHunter(o, h) = l
  BY <1>1, <1>3, <1>4, <1>7, <1>a DEF NewHunter
<1> QED
  BY <1>10, <1>13, <1>14

LEMMA FirstHunterSound ==
  ASSUME NEW o \in Outings
  PROVE  /\ NewHunter(o, Nobody(o)) \in Hunters(o.weapons)
         /\ NewHunter(o, Nobody(o)).alive = TRUE
<1>1. PICK r, h : r = [v \in Weapons |-> NoArm] /\ h = Nobody(o)
  OBVIOUS
<1>2. \A v \in Weapons : Fit(v, r[v]) /\ r[v] = NoArm
  BY <1>1, NoArmFit
<1>3. r \in [Weapons -> ArmRecord]
  BY <1>1, <1>2 DEF Fit
<1>4. "Normal" \in Modes /\ 0 \in 0..7 /\ FALSE \in BOOLEAN /\ TRUE \in BOOLEAN /\ 0 \in Nat
  BY DEF Modes
<1>5. h = [mode |-> "Normal", saved |-> "Normal", state |-> 0, busy |-> FALSE,
           cur |-> 0, target |-> 0, ammoIn |-> 0, arms |-> r,
           fired |-> FALSE, water |-> FALSE, exit |-> FALSE, alive |-> TRUE]
  BY <1>1 DEF Nobody
<1>6. h \in LooseType /\ h.arms = r
  BY <1>3, <1>4, <1>5 DEF LooseType
<1>7. NewHunter(o, h) \in Hunters(o.weapons) /\ NewHunter(o, h).alive = TRUE
  BY <1>2, <1>6, NewHunterSound
<1> QED
  BY <1>1, <1>7

LEMMA KilledSound ==
  ASSUME NEW taken, NEW h \in Hunters(taken)
  PROVE  Killed(h) \in Hunters(taken) /\ NoMore(h, Killed(h)) /\ Killed(h).alive = FALSE
<1>0. h \in HunterType
  BY Parts
<1>1. PICK k : k = [h EXCEPT !.exit = FALSE, !.mode = "Normal", !.alive = FALSE]
  OBVIOUS
<1>2. k \in HunterType
  BY <1>0, <1>1 DEF HunterType, Modes
<1>3. /\ k.arms = h.arms /\ k.cur = h.cur /\ k.target = h.target /\ k.mode = "Normal"
      /\ k.state = h.state /\ k.ammoIn = h.ammoIn
  BY <1>0, <1>1 DEF HunterType
<1>4. k.alive = FALSE
  BY <1>0, <1>1 DEF HunterType
<1>5. Scoped(k)
  BY <1>3, ScopeLeft
<1>6. k.cur \in taken /\ k.target \in taken
  BY <1>3, Parts
<1>7. k.state \in {4, 5, 6} => LoadsIn(k, Arm(k))
  BY <1>3, Parts DEF LoadsIn, Arm, Info
<1>8. k \in Hunters(taken) /\ NoMore(h, k)
  BY <1>2, <1>3, <1>5, <1>6, <1>7, Moved
<1> QED
  BY <1>1, <1>4, <1>8 DEF Killed

LEMMA SteadyRefl ==
  ASSUME NEW taken, NEW h \in Hunters(taken)
  PROVE  Steady(h, h)
BY NoMoreRefl DEF Steady

(* The trigger is noted, the water is entered or left.                     *)
LEMMA Noted ==
  ASSUME NEW taken, NEW h \in Hunters(taken), NEW x \in BOOLEAN, NEW y \in BOOLEAN, NEW m \in Modes,
         NEW k, k = [h EXCEPT !.fired = x, !.water = y, !.mode = m],
         m = h.mode \/ m \in {"Normal", "Swimming", "Underwater"}
  PROVE  k \in Hunters(taken) /\ Steady(h, k)
<1>0. h \in HunterType /\ Scoped(h)
  BY Parts
<1>1. k \in HunterType
  BY <1>0 DEF HunterType
<1>2. /\ k.arms = h.arms /\ k.cur = h.cur /\ k.target = h.target /\ k.alive = h.alive
      /\ k.state = h.state /\ k.ammoIn = h.ammoIn /\ k.saved = h.saved /\ k.mode = m
  BY <1>0 DEF HunterType
<1>3. Scoped(k)
  BY <1>0, <1>2 DEF Scoped, IsScopeView, IsMenu, Info
<1>4. k.cur \in taken /\ k.target \in taken
  BY <1>2, Parts
<1>5. k.state \in {4, 5, 6} => LoadsIn(k, Arm(k))
  BY <1>2, Parts DEF LoadsIn, Arm, Info
<1> QED
  BY <1>1, <1>2, <1>3, <1>4, <1>5, Moved, ZenonT(40)

LEMMA TriggerNoted ==
  ASSUME NEW taken, NEW h \in Hunters(taken), NEW x \in BOOLEAN,
         NEW k, k = [h EXCEPT !.fired = x]
  PROVE  k \in Hunters(taken) /\ Steady(h, k)
<1>0. h \in HunterType
  BY Parts
<1>1. PICK y \in BOOLEAN : y = h.water
  BY Parts
<1>2. PICK m \in Modes : m = h.mode
  BY Parts
<1>3. k = [h EXCEPT !.fired = x, !.water = y, !.mode = m]
  BY <1>0, <1>1, <1>2 DEF HunterType
<1> QED
  BY <1>2, <1>3, Noted

LEMMA UsedSound ==
  ASSUME NEW taken, NEW h \in Hunters(taken), NEW held
  PROVE  Used(h, held) \in Hunters(taken) /\ Steady(h, Used(h, held))
<1>1. PICK x \in BOOLEAN : x = TRUE
  OBVIOUS
<1>2. PICK y \in BOOLEAN : y = FALSE
  OBVIOUS
<1>3. ProcessShoot(h) \in Hunters(taken) /\ Steady(h, ProcessShoot(h))
  BY ProcessShootSound
<1>4. PICK k, l : k = [ProcessShoot(h) EXCEPT !.fired = x] /\ l = [h EXCEPT !.fired = y]
  OBVIOUS
<1>5. k \in Hunters(taken) /\ Steady(ProcessShoot(h), k)
  BY <1>3, <1>4, TriggerNoted
<1>6. l \in Hunters(taken) /\ Steady(h, l)
  BY <1>4, TriggerNoted
<1>7. Steady(h, k)
  BY <1>3, <1>5, SteadyTrans
<1>8. PICK shot : shot = IF "fire" \in held THEN k ELSE l
  OBVIOUS
<1>9. shot \in Hunters(taken) /\ Steady(h, shot)
  BY <1>5, <1>6, <1>7, <1>8
<1>10. ProcessPump(shot) \in Hunters(taken) /\ Steady(shot, ProcessPump(shot))
  BY <1>9, ProcessPumpSound
<1>11. Steady(h, ProcessPump(shot))
  BY <1>9, <1>10, SteadyTrans
<1>12. PICK pumped : pumped = IF "pump" \in held THEN ProcessPump(shot) ELSE shot
  OBVIOUS
<1>13. pumped \in Hunters(taken) /\ Steady(h, pumped)
  BY <1>9, <1>10, <1>11, <1>12
<1>14. ProcessFireMode(pumped) \in Hunters(taken) /\ Steady(pumped, ProcessFireMode(pumped))
  BY <1>13, ProcessFireModeSound
<1>15. Steady(h, ProcessFireMode(pumped))
  BY <1>13, <1>14, SteadyTrans
<1>16. PICK set : set = IF "switch" \in held THEN ProcessFireMode(pumped) ELSE pumped
  OBVIOUS
<1>17. set \in Hunters(taken) /\ Steady(h, set)
  BY <1>13, <1>14, <1>15, <1>16
<1>18. ProcessReload(set) \in Hunters(taken) /\ Steady(set, ProcessReload(set))
  BY <1>17, ProcessReloadSound
<1>19. Steady(h, ProcessReload(set))
  BY <1>17, <1>18, SteadyTrans
<1>20. PICK loaded : loaded = IF "reload" \in held THEN ProcessReload(set) ELSE set
  OBVIOUS
<1>21. loaded \in Hunters(taken) /\ Steady(h, loaded)
  BY <1>17, <1>18, <1>19, <1>20
<1>22. HideWeapon(loaded) \in Hunters(taken) /\ Steady(loaded, HideWeapon(loaded))
  BY <1>21, HideWeaponSound
<1>23. Steady(h, HideWeapon(loaded))
  BY <1>21, <1>22, SteadyTrans
<1>24. Used(h, held) = IF "show" \in held THEN HideWeapon(loaded) ELSE loaded
  BY <1>1, <1>2, <1>4, <1>8, <1>12, <1>16, <1>20 DEF Used
<1> QED
  BY <1>21, <1>22, <1>23, <1>24

LEMMA SwumSound ==
  ASSUME NEW taken, NEW h \in Hunters(taken), NEW jumps, NEW afloat, NEW deep \in BOOLEAN
  PROVE  Swum(h, jumps, afloat, deep) \in Hunters(taken) /\ Steady(h, Swum(h, jumps, afloat, deep))
<1>0. h \in HunterType /\ h.mode \in Modes /\ h.water \in BOOLEAN
  BY Parts
<1>1. PICK landed : landed = IF h.mode = "Swimming" /\ ~h.water /\ ~jumps
                             THEN [h EXCEPT !.mode = "Normal"] ELSE h
  OBVIOUS
<1>2. PICK n \in {"Normal", "Swimming", "Underwater", "Binocular", "MapMode"},
           s \in {"Normal", "Swimming", "Underwater", "Binocular", "MapMode"} :
        n = "Normal" /\ s = "Swimming"
  OBVIOUS
<1>3. landed \in Hunters(taken) /\ Steady(h, landed)
  BY <1>1, <1>2, PlainMode, SteadyRefl
<1>4. PICK swims : swims = IF ~h.water /\ jumps /\ afloat
                           THEN [landed EXCEPT !.mode = "Swimming"] ELSE landed
  OBVIOUS
<1>5. swims \in Hunters(taken) /\ Steady(landed, swims)
  BY <1>2, <1>3, <1>4, PlainMode, SteadyRefl
<1>6. Steady(h, swims)
  BY <1>3, <1>5, SteadyTrans
<1>7. swims \in HunterType /\ swims.mode \in Modes /\ swims.fired \in BOOLEAN
  BY <1>5, Parts
<1>8. PICK m \in Modes : m = IF deep
                             THEN IF IsInWorldMovementMode(swims.mode) THEN "Underwater"
                                  ELSE swims.mode
                             ELSE IF swims.mode \in {"Underwater", "Swimming"} THEN "Normal"
                                  ELSE swims.mode
  BY <1>7 DEF Modes
<1>9. PICK k : k = [swims EXCEPT !.fired = swims.fired, !.water = deep, !.mode = m]
  OBVIOUS
<1>10. m = swims.mode \/ m \in {"Normal", "Swimming", "Underwater"}
  BY <1>8
<1>11. PICK x \in BOOLEAN : x = swims.fired
  BY <1>7
<1>12. k \in Hunters(taken) /\ Steady(swims, k)
  <2>1. k = [swims EXCEPT !.fired = x, !.water = deep, !.mode = m]
    BY <1>9, <1>11
  <2> QED
    BY <1>5, <1>10, <2>1, Noted
<1>13. Steady(h, k)
  BY <1>5, <1>6, <1>12, SteadyTrans
<1>14. Swum(h, jumps, afloat, deep) = swims \/ Swum(h, jumps, afloat, deep) = k
  <2>1. k = [swims EXCEPT !.water = deep, !.mode = m]
    BY <1>7, <1>9 DEF HunterType
  <2>2. CASE deep
    <3>1. k = [swims EXCEPT !.water = TRUE,
             !.mode = IF IsInWorldMovementMode(@) THEN "Underwater" ELSE @]
      <4>1. deep = TRUE
        BY <2>2
      <4> QED
        BY <1>8, <2>1, <4>1
    <3> QED
      BY <1>1, <1>4, <2>2, <3>1 DEF Swum
  <2>3. CASE ~deep
    <3>1. k = [swims EXCEPT !.water = FALSE,
             !.mode = IF @ \in {"Underwater", "Swimming"} THEN "Normal" ELSE @]
      <4>1. deep = FALSE
        BY <2>3
      <4> QED
        BY <1>8, <2>1, <4>1
    <3> QED
      BY <1>1, <1>4, <2>3, <3>1 DEF Swum
  <2> QED
    BY <2>2, <2>3
<1> QED
  BY <1>5, <1>6, <1>12, <1>13, <1>14

LEMMA StowedSound ==
  ASSUME NEW taken, NEW h \in Hunters(taken)
  PROVE  Stowed(h) \in Hunters(taken) /\ Steady(h, Stowed(h))
BY HideWeaponSound, SteadyRefl DEF Stowed

LEMMA BreathesSound ==
  ASSUME NEW taken, NEW h \in Hunters(taken), NEW breath \in {"enough", "spent", "out"}
  PROVE  /\ Breathes(h, breath) \in Hunters(taken) /\ NoMore(h, Breathes(h, breath))
         /\ breath = "enough" => Breathes(h, breath).alive = h.alive
         /\ breath # "enough" => Breathes(h, breath).alive = FALSE
<1>0. h \in HunterType
  BY Parts
<1>1. CASE breath = "enough"
  BY <1>1, NoMoreRefl DEF Breathes
<1>2. CASE breath = "out"
  BY <1>2, KilledSound DEF Breathes
<1>3. CASE breath = "spent"
  <2>1. PICK k : k = [h EXCEPT !.alive = FALSE]
    OBVIOUS
  <2>2. k \in HunterType
    BY <1>0, <2>1 DEF HunterType
  <2>3. /\ k.arms = h.arms /\ k.cur = h.cur /\ k.target = h.target /\ k.mode = h.mode
        /\ k.state = h.state /\ k.ammoIn = h.ammoIn /\ k.saved = h.saved
    BY <1>0, <2>1 DEF HunterType
  <2>4. k.alive = FALSE
    BY <1>0, <2>1 DEF HunterType
  <2>5. Scoped(k)
    BY <2>3, Parts DEF Scoped, IsScopeView, Info
  <2>6. k.cur \in taken /\ k.target \in taken
    BY <2>3, Parts
  <2>7. k.state \in {4, 5, 6} => LoadsIn(k, Arm(k))
    BY <2>3, Parts DEF LoadsIn, Arm, Info
  <2>8. k \in Hunters(taken) /\ NoMore(h, k)
    BY <2>2, <2>3, <2>5, <2>6, <2>7, Moved
  <2> QED
    BY <1>3, <2>1, <2>4, <2>8 DEF Breathes
<1> QED
  BY <1>1, <1>2, <1>3

(* A bolt picked up finds its place.                                       *)
LEMMA BoltFit ==
  ASSUME NEW taken, NEW h \in Hunters(taken), NEW w \in Weapons, NEW double \in BOOLEAN,
         TakesBolt(h, w, double), NEW a, a = h.arms[w], NEW b, b = BoltTaken(a, w)
  PROVE  Fit(w, b) /\ (LoadsIn(h, a) /\ h.cur = w => LoadsIn(h, b))
<1>1. Fit(w, a) /\ a \in ArmRecord
  BY Parts DEF Fit
<1>2. a.cham \in Int /\ a.left \in Int /\ a.mag \in Int
  BY <1>1 DEF ArmRecord
<1>3. /\ WeapInfo[w].shots \in Int /\ WeapInfo[w].reload \in Int
      /\ WeapInfo[w].rld \in {-1, 1}
      /\ WeapInfo[w].reload > 0 => WeapInfo[w].rld > 0
      /\ Stocked(w) => WeapInfo[w].shots >= 1 /\ WeapInfo[w].reload >= 0
  BY WeaponFacts
<1>4. PICK spent : spent <=> (a.cham = 0 /\ (IF WeapInfo[w].reload = 0 THEN WeapInfo[w].pmp
                                             ELSE WeapInfo[w].rld) < 0)
  OBVIOUS
<1>5. CASE spent
  <2>1. b = [a EXCEPT !.cham = 1]
    BY <1>2, <1>4, <1>5 DEF BoltTaken
  <2>2. b \in ArmRecord /\ b.cham = 1 /\ b.left = a.left /\ b.mag = a.mag /\ b.mags = a.mags
    BY <1>1, <2>1 DEF ArmRecord
  <2>3. Stocked(w) => WeapInfo[w].reload = 0
    BY <1>3, <1>4, <1>5
  <2>a. ASSUME Stocked(w) PROVE Bounds(w, b)
    BY <1>1, <1>2, <1>3, <2>2, <2>a DEF Fit, Bounds
  <2>4. Fit(w, b)
    BY <1>1, <2>2, <2>a DEF Fit
  <2>5. ASSUME LoadsIn(h, a), h.cur = w PROVE LoadsIn(h, b)
    BY <2>2, <2>3, <2>5 DEF LoadsIn, Info
  <2> QED
    BY <2>4, <2>5
<1>6. CASE ~spent
  <2>0. PICK l \in Int : l = a.left + 1
    BY <1>2
  <2>1. b = [a EXCEPT !.left = l]
    BY <1>4, <1>6, <2>0 DEF BoltTaken
  <2>2. b \in ArmRecord /\ b.cham = a.cham /\ b.left = a.left + 1 /\ b.mag = a.mag /\ b.mags = a.mags
    BY <1>1, <2>0, <2>1 DEF ArmRecord
  <2>3. /\ Stocked(w) => a.left < 2 * WeapInfo[w].shots
        /\ WeapInfo[w].reload = 0 /\ WeapInfo[w].rld > 0 => a.left < WeapInfo[w].shots
    <3>1. PICK two : two <=> (double /\ (WeapInfo[w].reload # 0 \/ WeapInfo[w].rld < 0))
      OBVIOUS
    <3>2. a.left < (IF two THEN 2 ELSE 1) * WeapInfo[w].shots
      BY <3>1 DEF TakesBolt
    <3>3. WeapInfo[w].reload = 0 /\ WeapInfo[w].rld > 0 => ~two
      BY <1>3, <3>1
    <3> QED
      BY <1>2, <1>3, <3>2, <3>3
  <2>a. ASSUME Stocked(w) PROVE Bounds(w, b)
    BY <1>1, <1>2, <1>3, <2>2, <2>3, <2>a DEF Fit, Bounds
  <2>4. Fit(w, b)
    BY <1>1, <2>2, <2>a DEF Fit
  <2>5. ASSUME LoadsIn(h, a), h.cur = w PROVE LoadsIn(h, b)
    <3>1. h.ammoIn \in Int
      BY Parts
    <3> QED
      BY <1>2, <2>2, <2>5, <3>1 DEF LoadsIn, Info
  <2> QED
    BY <2>4, <2>5
<1> QED
  BY <1>5, <1>6

LEMMA BoltSound ==
  ASSUME NEW taken, NEW h \in Hunters(taken), NEW w \in Weapons, w \in taken,
         NEW double \in BOOLEAN, TakesBolt(h, w, double),
         NEW k, k = [h EXCEPT !.arms[w] = BoltTaken(@, w)]
  PROVE  k \in Hunters(taken) /\ k.alive = h.alive
<1>0. h \in HunterType /\ Scoped(h) /\ h.arms \in [Weapons -> ArmRecord] /\ h.cur \in Weapons
  BY Parts
<1>1. PICK a, b : a = h.arms[w] /\ b = BoltTaken(a, w)
  OBVIOUS
<1>2. Fit(w, b) /\ (LoadsIn(h, a) /\ h.cur = w => LoadsIn(h, b))
  BY <1>1, BoltFit
<1>3. PICK r : r = [h.arms EXCEPT ![w] = b]
  OBVIOUS
<1>4. k = [h EXCEPT !.arms = r]
  BY <1>1, <1>3
<1>5. r \in [Weapons -> ArmRecord]
  BY <1>0, <1>2, <1>3 DEF Fit
<1>6. \A v \in Weapons : r[v] = IF v = w THEN b ELSE h.arms[v]
  BY <1>0, <1>3
<1>7. k \in HunterType
  BY <1>0, <1>4, <1>5 DEF HunterType
<1>8. /\ k.arms = r /\ k.cur = h.cur /\ k.target = h.target /\ k.mode = h.mode
      /\ k.state = h.state /\ k.ammoIn = h.ammoIn /\ k.saved = h.saved /\ k.alive = h.alive
  BY <1>0, <1>4 DEF HunterType
<1>9. Scoped(k)
  BY <1>0, <1>8 DEF Scoped, IsScopeView, Info
<1>10. LoadsIn(k, Arm(k))
  <2>1. LoadsIn(h, Arm(k))
    <3>1. LoadsIn(h, Arm(h))
      BY Parts
    <3>2. Arm(k) = IF h.cur = w THEN b ELSE Arm(h)
      BY <1>0, <1>6, <1>8 DEF Arm
    <3>3. h.cur = w => Arm(h) = a
      BY <1>1 DEF Arm
    <3> QED
      BY <1>2, <3>1, <3>2, <3>3
  <2> QED
    BY <1>8, <2>1 DEF LoadsIn, Info
<1>11. \A v \in Weapons : Fit(v, k.arms[v])
  BY <1>2, <1>6, <1>8, Parts
<1>12. \A v \in Weapons \ taken : k.arms[v] = NoArm
  BY <1>6, <1>8 DEF Hunters
<1>13. k.cur \in taken /\ k.target \in taken
  BY <1>8, Parts
<1> QED
  BY <1>7, <1>8, <1>9, <1>10, <1>11, <1>12, <1>13 DEF Hunters

-----------------------------------------------------------------------------
(* The field.                                                              *)

LEMMA FieldParts ==
  ASSUME NEW taken, NEW f \in Grounds(taken)
  PROVE  /\ f \in FieldType(taken)
         /\ f.slots \in [1..Slots -> AnimalType] /\ f.count \in 0..Slots /\ f.born \in Nat
         /\ f.ship \in [state : -1..3, body : 0..Slots, carried : Nat]
         /\ f.tasks \in Seq(1..Slots) /\ f.due \in Seq(Nat) /\ Len(f.tasks) = Len(f.due)
         /\ f.shown \in [on : BOOLEAN, body : 0..Slots, id : Nat]
         /\ f.demo \in [time : 0..4, body : 0..Slots, id : Nat]
         /\ f.shots \in Seq([weapon : taken, stuck : BOOLEAN])
         /\ f.supply \in {"ready", "coming", "leaving", "gone"}
         /\ f.bag \in {"none", "out", "taken"} /\ f.scoreUp \in BOOLEAN
         /\ f.ship.state # -1 => f.ship.body # 0
         /\ Distinct(f) /\ ShownPrey(f)
         /\ f.supply \in {"ready", "coming"} => f.bag = "none"
BY DEF Grounds, FieldType

LEMMA SlotsNat == Slots \in Nat /\ Slots > 0 /\ MaxIds \in Nat /\ MaxIds < Slots /\ MaxShots \in Nat
BY FieldAssumption

(* The records stay what they are, and where they are.                     *)
SameRecords(f, g) ==
  /\ g.count = f.count /\ g.born = f.born
  /\ \A i \in 1..f.count : g.slots[i].id = f.slots[i].id /\ g.slots[i].kind = f.slots[i].kind
                           /\ (f.slots[i].claimed => g.slots[i].claimed)

SameShip(f, g) ==
  g.ship.state # -1 =>
    f.ship.state # -1 /\ g.ship.body = f.ship.body /\ g.ship.carried = f.ship.carried

LEMMA GroundsKept ==
  ASSUME NEW taken, NEW f \in Grounds(taken), NEW g \in FieldType(taken), SameRecords(f, g),
         g.shown = f.shown \/ ~g.shown.on, g.tasks = f.tasks, g.due = f.due, SameShip(f, g),
         g.supply \in {"ready", "coming"} => g.bag = "none"
  PROVE  g \in Grounds(taken)
<1>0. Distinct(f) /\ ShownPrey(f)
  BY FieldParts
<1>1. Distinct(g)
  BY <1>0 DEF Distinct, SameRecords
<1>2. ShownPrey(g)
  BY <1>0 DEF ShownPrey, SameRecords
<1> QED
  BY <1>1, <1>2, FieldParts DEF Grounds, SameShip

LEMMA FollowedKept ==
  ASSUME NEW f, NEW g, SameRecords(f, g), g.tasks = f.tasks, g.due = f.due, SameShip(f, g),
         g.demo.time > 0 => f.demo.time > 0 /\ g.demo.body = f.demo.body /\ g.demo.id = f.demo.id,
         Followed(f)
  PROVE  Followed(g)
<1>1. ASSUME NEW i, NEW d, Stands(f, i, d) PROVE Stands(g, i, d)
  BY <1>1 DEF Stands, SameRecords
<1>2. \A k \in 1..Len(g.tasks) : Stands(g, g.tasks[k], g.due[k])
  BY <1>1 DEF Followed
<1>3. \A k, l \in 1..Len(g.tasks) : g.tasks[k] = g.tasks[l] => k = l
  BY DEF Followed
<1>4. g.ship.state # -1 =>
       /\ Stands(g, g.ship.body, g.ship.carried)
       /\ \A k \in 1..Len(g.tasks) : g.tasks[k] # g.ship.body
  BY <1>1 DEF Followed, SameShip
<1>5. g.demo.time > 0 =>
       /\ g.demo.body \in 1..g.count /\ g.slots[g.demo.body].id = g.demo.id
       /\ g.slots[g.demo.body].kind = "hunter"
  BY DEF Followed, SameRecords
<1> QED
  BY <1>2, <1>3, <1>4, <1>5 DEF Followed

(* A record goes behind the last one.                                      *)
LEMMA AppendedSound ==
  ASSUME NEW taken, NEW f \in Grounds(taken), f.count < Slots, NEW kind \in Kinds,
         NEW alive \in BOOLEAN, NEW g, g = Appended(f, kind, alive)
  PROVE  /\ g \in Grounds(taken) /\ g.count = f.count + 1 /\ g.born = f.born + 1
         /\ g.slots[f.count + 1].id = f.born + 1 /\ g.slots[f.count + 1].kind = kind
         /\ Followed(f) => Followed(g)
<1>a. f.count \in 0..Slots
  BY FieldParts
<1>b. f \in FieldType(taken) /\ f.born \in Nat /\ f.slots \in [1..Slots -> AnimalType]
  BY FieldParts
<1>0. f \in FieldType(taken) /\ f.count \in Nat /\ f.born \in Nat /\ f.slots \in [1..Slots -> AnimalType]
  BY <1>a, <1>b
<1>1. PICK c \in 1..Slots : c = f.count + 1
  BY <1>0, SlotsNat, FieldParts
<1>2. PICK n \in Nat : n = f.born + 1
  BY <1>0
<1>3. PICK a : a = Animal(n, kind, alive)
  OBVIOUS
<1>4. a \in AnimalType /\ a.id = n /\ a.kind = kind
  BY <1>3 DEF Animal, AnimalType
<1>5. PICK s : s = [f.slots EXCEPT ![c] = a]
  OBVIOUS
<1>6. s \in [1..Slots -> AnimalType] /\ s[c] = a /\ \A i \in 1..Slots : i # c => s[i] = f.slots[i]
  BY <1>0, <1>4, <1>5
<1>7. g = [f EXCEPT !.slots = s, !.count = c, !.born = n]
  BY <1>0, <1>1, <1>2, <1>3, <1>5 DEF Appended
<1>8. c \in 0..Slots
  BY SlotsNat
<1>9. g \in FieldType(taken)
  BY <1>0, <1>2, <1>6, <1>7, <1>8, ZenonT(40) DEF FieldType
<1>10. /\ g.slots = s /\ g.count = c /\ g.born = n /\ g.ship = f.ship /\ g.tasks = f.tasks
       /\ g.due = f.due /\ g.shown = f.shown /\ g.demo = f.demo /\ g.supply = f.supply
       /\ g.bag = f.bag
  BY <1>0, <1>7 DEF FieldType
<1>11. \A i \in 1..f.count : i \in 1..Slots /\ i # c /\ s[i] = f.slots[i] /\ s[i].id \in Nat
  BY <1>0, <1>1, <1>6, SlotsNat, SMTT(30) DEF AnimalType
<1>12. \A i \in 1..c : i \in 1..f.count \/ i = c
  BY <1>0, <1>1
<1>13. Distinct(g)
  <2>1. f.count <= f.born /\ (\A i \in 1..f.count : f.slots[i].id <= f.born)
        /\ (\A i, j \in 1..f.count : f.slots[i].id = f.slots[j].id => i = j)
    BY FieldParts DEF Distinct
  <2>2. g.count <= g.born
    BY <1>0, <1>1, <1>2, <1>10, <2>1
  <2>3. \A i \in 1..f.count : s[i].id <= f.born /\ s[i].id < n
    BY <1>0, <1>2, <1>11, <2>1
  <2>4. \A i \in 1..g.count : g.slots[i].id <= g.born
    BY <1>2, <1>4, <1>6, <1>10, <1>11, <1>12, <2>3
  <2>5. \A i, j \in 1..g.count : g.slots[i].id = g.slots[j].id => i = j
    BY <1>2, <1>4, <1>6, <1>10, <1>11, <1>12, <2>1, <2>3
  <2> QED
    BY <2>2, <2>4, <2>5 DEF Distinct
<1>14. ShownPrey(g)
  <2> SUFFICES ASSUME f.shown.on
               PROVE  /\ f.shown.body # 0 /\ f.shown.id <= n
                      /\ \A i \in 1..c : s[i].id = f.shown.id => s[i].kind = "prey"
    BY <1>10 DEF ShownPrey
  <2>1. /\ f.shown.body # 0 /\ f.shown.id <= f.born /\ f.shown.id \in Nat
        /\ \A i \in 1..f.count : f.slots[i].id = f.shown.id => f.slots[i].kind = "prey"
    BY FieldParts DEF ShownPrey
  <2>2. f.shown.id <= n /\ f.shown.id # n
    BY <1>0, <1>2, <2>1
  <2> QED
    BY <1>4, <1>6, <1>11, <1>12, <2>1, <2>2
<1>15. g \in Grounds(taken)
  BY <1>9, <1>10, <1>13, <1>14, FieldParts DEF Grounds
<1>16. ASSUME Followed(f) PROVE Followed(g)
  <2>1. ASSUME NEW i, NEW d, Stands(f, i, d) PROVE Stands(g, i, d)
    <3>1. i \in 1..c
      BY <1>0, <1>1, <2>1 DEF Stands
    <3> QED
      BY <1>10, <1>11, <2>1, <3>1 DEF Stands
  <2>2. \A k \in 1..Len(g.tasks) : Stands(g, g.tasks[k], g.due[k])
    BY <1>10, <1>16, <2>1 DEF Followed
  <2>3. \A k, l \in 1..Len(g.tasks) : g.tasks[k] = g.tasks[l] => k = l
    BY <1>10, <1>16 DEF Followed
  <2>4. g.ship.state # -1 =>
         /\ Stands(g, g.ship.body, g.ship.carried)
         /\ \A k \in 1..Len(g.tasks) : g.tasks[k] # g.ship.body
    BY <1>10, <1>16, <2>1 DEF Followed
  <2>5. ASSUME g.demo.time > 0
        PROVE  /\ g.demo.body \in 1..g.count /\ g.slots[g.demo.body].id = g.demo.id
               /\ g.slots[g.demo.body].kind = "hunter"
    <3>1. /\ f.demo.body \in 1..f.count /\ f.slots[f.demo.body].id = f.demo.id
          /\ f.slots[f.demo.body].kind = "hunter"
      BY <1>10, <1>16, <2>5 DEF Followed
    <3>2. f.demo.body \in 1..c
      BY <1>0, <1>1, <3>1
    <3> QED
      BY <1>10, <1>11, <3>1, <3>2
  <2> QED
    BY <2>2, <2>3, <2>4, <2>5 DEF Followed
<1> QED
  BY <1>1, <1>2, <1>4, <1>6, <1>10, <1>15, <1>16

LEMMA AddSecondaryOneSound ==
  ASSUME NEW taken, NEW f \in Grounds(taken), NEW g, g = AddSecondaryOne(f)
  PROVE  /\ g \in Grounds(taken) /\ (f.born < Slots => g.born < Slots)
         /\ Followed(f) => Followed(g)
<1>1. CASE f.count < Slots /\ f.born < MaxIds
  <2>1. PICK kind \in Kinds : kind = "flock"
    BY DEF Kinds
  <2>2. PICK alive \in BOOLEAN : alive = TRUE
    OBVIOUS
  <2>3. g = Appended(f, kind, alive)
    BY <1>1, <2>1, <2>2 DEF AddSecondaryOne
  <2>4. g \in Grounds(taken) /\ g.born = f.born + 1 /\ (Followed(f) => Followed(g))
    BY <1>1, <2>3, AppendedSound
  <2>5. f.born \in Nat
    BY FieldParts
  <2>6. g.born < Slots
    BY <1>1, <2>4, <2>5, SlotsNat
  <2> QED
    BY <2>4, <2>6
<1>2. CASE ~(f.count < Slots /\ f.born < MaxIds)
  BY <1>2 DEF AddSecondaryOne
<1> QED
  BY <1>1, <1>2

(* The hunter's body has a place, and the closing scene looks at it.       *)
LEMMA AddDeadBodySound ==
  ASSUME NEW taken, NEW f \in Grounds(taken), f.born < Slots, NEW g, g = AddDeadBody(f)
  PROVE  g \in Grounds(taken) /\ (Followed(f) => Followed(g)) /\ g.demo.time = 1 /\ g.bag = f.bag
         /\ g.shots = f.shots
<1>a. f.count \in 0..Slots /\ Distinct(f)
  BY FieldParts
<1>b. f.born \in Nat
  BY FieldParts
<1>0. f.count \in Nat /\ f.count < Slots /\ f.born \in Nat
  BY <1>a, <1>b, SlotsNat DEF Distinct
<1>1. PICK kind \in Kinds : kind = "hunter"
  BY DEF Kinds
<1>2. PICK alive \in BOOLEAN : alive = FALSE
  OBVIOUS
<1>3. PICK e : e = Appended(f, kind, alive)
  OBVIOUS
<1>4. /\ e \in Grounds(taken) /\ e.count = f.count + 1 /\ e.born = f.born + 1
      /\ e.slots[f.count + 1].id = f.born + 1 /\ e.slots[f.count + 1].kind = kind
      /\ Followed(f) => Followed(e)
  BY <1>0, <1>3, AppendedSound
<1>5. PICK d : d = [time |-> 1, body |-> f.count + 1, id |-> f.born + 1]
  OBVIOUS
<1>6. /\ d \in [time : 0..4, body : 0..Slots, id : Nat]
      /\ d.time = 1 /\ d.body = f.count + 1 /\ d.id = f.born + 1
  BY <1>0, <1>5, SlotsNat
<1>7. g = [e EXCEPT !.demo = d]
  BY <1>1, <1>2, <1>3, <1>5 DEF AddDeadBody
<1>8. e \in FieldType(taken)
  BY <1>4, FieldParts
<1>9. g \in FieldType(taken)
  BY <1>6, <1>7, <1>8 DEF FieldType
<1>10. /\ g.slots = e.slots /\ g.count = e.count /\ g.born = e.born /\ g.ship = e.ship
       /\ g.tasks = e.tasks /\ g.due = e.due /\ g.shown = e.shown /\ g.demo = d
       /\ g.supply = e.supply /\ g.bag = e.bag /\ g.shots = e.shots
  BY <1>7, <1>8 DEF FieldType
<1>11. e.bag = f.bag /\ e.shots = f.shots
  <2>1. f \in FieldType(taken)
    BY FieldParts
  <2> QED
    BY <1>3, <2>1 DEF Appended, FieldType
<1>12. g \in Grounds(taken)
  <2>1. SameRecords(e, g) /\ SameShip(e, g)
    BY <1>10 DEF SameRecords, SameShip
  <2> QED
    BY <1>4, <1>9, <1>10, <2>1, FieldParts, GroundsKept
<1>13. ASSUME Followed(f) PROVE Followed(g)
  <2>1. Followed(e)
    BY <1>4, <1>13
  <2>2. ASSUME NEW i, NEW j, Stands(e, i, j) PROVE Stands(g, i, j)
    BY <1>10, <2>2 DEF Stands
  <2>3. \A k \in 1..Len(g.tasks) : Stands(g, g.tasks[k], g.due[k])
    BY <1>10, <2>1, <2>2 DEF Followed
  <2>4. \A k, l \in 1..Len(g.tasks) : g.tasks[k] = g.tasks[l] => k = l
    BY <1>10, <2>1 DEF Followed
  <2>5. g.ship.state # -1 =>
         /\ Stands(g, g.ship.body, g.ship.carried)
         /\ \A k \in 1..Len(g.tasks) : g.tasks[k] # g.ship.body
    BY <1>10, <2>1, <2>2 DEF Followed
  <2>6. g.demo.body \in 1..g.count
    BY <1>0, <1>4, <1>6, <1>10
  <2>7. g.slots[g.demo.body].id = g.demo.id /\ g.slots[g.demo.body].kind = "hunter"
    BY <1>1, <1>4, <1>6, <1>10
  <2> QED
    BY <2>3, <2>4, <2>5, <2>6, <2>7 DEF Followed
<1> QED
  BY <1>6, <1>10, <1>11, <1>12, <1>13

LEMMA SeqMade ==
  ASSUME NEW T, NEW n \in Nat, NEW q \in [1..n -> T]
  PROVE  q \in Seq(T) /\ Len(q) = n
OBVIOUS

LEMMA SeqParts ==
  ASSUME NEW T, NEW q \in Seq(T)
  PROVE  Len(q) \in Nat /\ \A k \in 1..Len(q) : q[k] \in T
OBVIOUS

(* A removal: every other record keeps what it is, at the index that the   *)
(* ship's list and the scene are given for it.                             *)
MovedUp(index, i) == IF i > index THEN i - 1 ELSE i

LEMMA MovesUp ==
  ASSUME NEW n \in Nat, NEW index \in 1..n, NEW s, NEW t, NEW i \in 1..n, i # index,
         n <= Slots,
         \A j \in 1..Slots : t[j] = IF j < index \/ j = Slots THEN s[j] ELSE s[j + 1]
  PROVE  MovedUp(index, i) \in 1..(n - 1) /\ t[MovedUp(index, i)] = s[i]
<1>1. CASE i > index
  <2>1. i - 1 \in 1..Slots /\ i - 1 \in 1..(n - 1) /\ ~(i - 1 < index) /\ i - 1 # Slots
        /\ (i - 1) + 1 = i
    BY <1>1, SlotsNat
  <2> QED
    BY <1>1, <2>1 DEF MovedUp
<1>2. CASE ~(i > index)
  <2>1. i \in 1..Slots /\ i < index /\ i \in 1..(n - 1)
    BY <1>2, SlotsNat
  <2> QED
    BY <1>2, <2>1 DEF MovedUp
<1> QED
  BY <1>1, <1>2

LEMMA RemoveCharacterSound ==
  ASSUME NEW taken, NEW f \in Grounds(taken), NEW index \in 1..Slots, f.count > 0,
         NEW g, g = RemoveCharacter(f, index)
  PROVE  /\ g \in Grounds(taken) /\ g.born = f.born
         /\ g.bag = f.bag /\ g.supply = f.supply /\ g.demo.time = f.demo.time
         /\ /\ Followed(f) /\ f.ship.state = -1
            /\ index \in 1..f.count /\ f.slots[index].kind = "prey"
            /\ \A k \in 1..Len(f.tasks) : f.tasks[k] # index
            => Followed(g)
<1>a. f.count \in 0..Slots /\ f.tasks \in Seq(1..Slots) /\ f.demo \in [time : 0..4, body : 0..Slots, id : Nat]
  BY FieldParts
<1>b. f \in FieldType(taken) /\ f.slots \in [1..Slots -> AnimalType] /\ Distinct(f) /\ ShownPrey(f)
  BY FieldParts
<1>1. PICK n \in 0..Slots : n = f.count - 1
  BY <1>a, SlotsNat
<1>2. PICK s : s = [i \in 1..Slots |->
                      IF i < index \/ i = Slots THEN f.slots[i] ELSE f.slots[i + 1]]
  OBVIOUS
<1>3. s \in [1..Slots -> AnimalType]
  <2>1. \A i \in 1..Slots : i = Slots \/ i + 1 \in 1..Slots
    BY SlotsNat
  <2> QED
    BY <1>2, <1>b, <2>1
<1>4. PICK d \in 0..Slots : d = MovedUp(index, f.demo.body)
  BY <1>a, SlotsNat DEF MovedUp
<1>5. PICK e : e = [f.demo EXCEPT !.body = d]
  OBVIOUS
<1>6. /\ e \in [time : 0..4, body : 0..Slots, id : Nat]
      /\ e.time = f.demo.time /\ e.body = d /\ e.id = f.demo.id
  BY <1>a, <1>5
<1>7. PICK q : q = [k \in 1..Len(f.tasks) |-> MovedUp(index, f.tasks[k])]
  OBVIOUS
<1>8. q \in Seq(1..Slots) /\ Len(q) = Len(f.tasks)
  <2>1. \A i \in 1..Slots : MovedUp(index, i) \in 1..Slots
    BY SlotsNat DEF MovedUp
  <2>2. Len(f.tasks) \in Nat /\ \A k \in 1..Len(f.tasks) : f.tasks[k] \in 1..Slots
    BY <1>a, SeqParts
  <2>3. q \in [1..Len(f.tasks) -> 1..Slots]
    BY <1>7, <2>1, <2>2
  <2> QED
    BY <2>2, <2>3, SeqMade
<1>9. g = [f EXCEPT !.slots = s, !.count = n, !.demo = e, !.tasks = q]
  BY <1>1, <1>2, <1>4, <1>5, <1>7 DEF RemoveCharacter, MovedUp
<1>10. g \in FieldType(taken)
  BY <1>3, <1>6, <1>8, <1>9, <1>b, ZenonT(40) DEF FieldType
<1>11. /\ g.slots = s /\ g.count = n /\ g.born = f.born /\ g.ship = f.ship /\ g.tasks = q
       /\ g.due = f.due /\ g.shown = f.shown /\ g.demo = e /\ g.supply = f.supply
       /\ g.bag = f.bag
  BY <1>9, <1>b DEF FieldType
(* Each record that is left was one of those before, each at most once.    *)
<1>12. \A i \in 1..n : s[i] = f.slots[IF i < index THEN i ELSE i + 1]
                       /\ (IF i < index THEN i ELSE i + 1) \in 1..f.count
  BY <1>1, <1>2, <1>a, SlotsNat
<1>13. Distinct(g)
  <2>1. /\ f.count <= f.born
        /\ \A i \in 1..f.count : f.slots[i].id <= f.born
        /\ \A i, j \in 1..f.count : f.slots[i].id = f.slots[j].id => i = j
    BY <1>b DEF Distinct
  <2>2. f.born \in Nat
    BY FieldParts
  <2>3. n <= f.born
    BY <1>1, <1>a, <2>1, <2>2
  <2>4. \A i \in 1..n : s[i].id <= f.born
    BY <1>12, <2>1
  <2>5. ASSUME NEW i \in 1..n, NEW j \in 1..n, s[i].id = s[j].id PROVE i = j
    <3>1. PICK k, l : /\ k = (IF i < index THEN i ELSE i + 1)
                      /\ l = (IF j < index THEN j ELSE j + 1)
      OBVIOUS
    <3>2. k \in 1..f.count /\ l \in 1..f.count /\ s[i] = f.slots[k] /\ s[j] = f.slots[l]
      BY <1>12, <3>1
    <3>3. k = l
      BY <2>1, <2>5, <3>2
    <3>4. i \in Nat /\ j \in Nat /\ index \in Nat
      BY <1>1, SlotsNat
    <3> QED
      BY <3>1, <3>3, <3>4
  <2> QED
    BY <1>11, <2>3, <2>4, <2>5 DEF Distinct
<1>14. ShownPrey(g)
  BY <1>11, <1>12, <1>b DEF ShownPrey
<1>15. g \in Grounds(taken)
  BY <1>8, <1>10, <1>11, <1>13, <1>14, FieldParts DEF Grounds
<1>16. ASSUME Followed(f), f.ship.state = -1, index \in 1..f.count, f.slots[index].kind = "prey",
              \A k \in 1..Len(f.tasks) : f.tasks[k] # index
       PROVE  Followed(g)
  <2>1. f.count \in Nat /\ f.count <= Slots
    BY <1>a, SlotsNat
  <2>2. \A i \in 1..f.count : i # index =>
          MovedUp(index, i) \in 1..n /\ s[MovedUp(index, i)] = f.slots[i]
    <3>1. PICK m \in Nat : m = f.count
      BY <2>1
    <3>2. index \in 1..m /\ m <= Slots
      BY <1>16, <2>1, <3>1
    <3>4. PICK r : r = f.slots
      OBVIOUS
    <3>5. \A j \in 1..Slots : s[j] = IF j < index \/ j = Slots THEN r[j] ELSE r[j + 1]
      BY <1>2, <3>4
    <3>6. ASSUME NEW i \in 1..m, i # index
          PROVE  MovedUp(index, i) \in 1..(m - 1) /\ s[MovedUp(index, i)] = r[i]
      BY <3>2, <3>5, <3>6, MovesUp
    <3>3. \A i \in 1..m : i # index =>
            MovedUp(index, i) \in 1..(m - 1) /\ s[MovedUp(index, i)] = f.slots[i]
      BY <3>4, <3>6
    <3> QED
      BY <1>1, <3>1, <3>3
  <2>3. \A k \in 1..Len(f.tasks) : Stands(f, f.tasks[k], f.due[k])
    BY <1>16 DEF Followed
  <2>4. ASSUME NEW k \in 1..Len(g.tasks) PROVE Stands(g, g.tasks[k], g.due[k])
    <3>1. k \in 1..Len(f.tasks) /\ g.tasks[k] = MovedUp(index, f.tasks[k])
      BY <1>7, <1>8, <1>11
    <3>2. f.tasks[k] \in 1..f.count /\ f.tasks[k] # index
      BY <1>16, <2>3, <3>1 DEF Stands
    <3> QED
      BY <1>11, <2>2, <2>3, <3>1, <3>2, SMTT(30) DEF Stands
  <2>5. ASSUME NEW k \in 1..Len(g.tasks), NEW l \in 1..Len(g.tasks), g.tasks[k] = g.tasks[l]
        PROVE  k = l
    <3>1. k \in 1..Len(f.tasks) /\ l \in 1..Len(f.tasks)
      BY <1>8, <1>11
    <3>2. MovedUp(index, f.tasks[k]) = MovedUp(index, f.tasks[l])
      BY <1>7, <1>11, <2>5, <3>1
    <3>3. f.tasks[k] \in 1..Slots /\ f.tasks[l] \in 1..Slots
      BY <1>a, <3>1, SeqParts
    <3>5. f.tasks[k] # index /\ f.tasks[l] # index
      BY <1>16, <3>1
    <3>4. f.tasks[k] = f.tasks[l]
      BY <3>2, <3>3, <3>5, SlotsNat, SMTT(30) DEF MovedUp
    <3> QED
      BY <1>16, <3>1, <3>4 DEF Followed
  <2>6. ASSUME g.demo.time > 0
        PROVE  /\ g.demo.body \in 1..g.count /\ g.slots[g.demo.body].id = g.demo.id
               /\ g.slots[g.demo.body].kind = "hunter"
    <3>1. /\ f.demo.body \in 1..f.count /\ f.slots[f.demo.body].id = f.demo.id
          /\ f.slots[f.demo.body].kind = "hunter"
      BY <1>6, <1>11, <1>16, <2>6 DEF Followed
    <3>2. f.demo.body # index
      BY <1>16, <3>1
    <3> QED
      BY <1>4, <1>6, <1>11, <2>2, <3>1, <3>2
  <2>7. g.ship.state = -1
    BY <1>11, <1>16
  <2> QED
    BY <2>4, <2>5, <2>6, <2>7 DEF Followed
<1> QED
  BY <1>6, <1>11, <1>15, <1>16

LEMMA SeqGrown ==
  ASSUME NEW T, NEW q \in Seq(T), NEW x \in T, NEW r, r = Append(q, x)
  PROVE  /\ r \in Seq(T) /\ Len(r) = Len(q) + 1 /\ r[Len(q) + 1] = x
         /\ \A k \in 1..Len(q) : r[k] = q[k]
OBVIOUS

LEMMA SeqTail ==
  ASSUME NEW T, NEW q \in Seq(T), q # <<>>
  PROVE  /\ Head(q) \in T /\ Head(q) = q[1] /\ 1 \in 1..Len(q)
         /\ Tail(q) \in Seq(T) /\ Len(Tail(q)) = Len(q) - 1
         /\ \A k \in 1..(Len(q) - 1) : Tail(q)[k] = q[k + 1] /\ k + 1 \in 1..Len(q)
OBVIOUS

(* A claim: the body on display is new to the list, having not been        *)
(* claimed, and is the one that was seen.                                  *)
LEMMA AddShipTaskSound ==
  ASSUME NEW taken, NEW f \in Grounds(taken), NEW shallow, Claims(f),
         NEW g, g = AddShipTask(f, shallow)
  PROVE  /\ g \in Grounds(taken) /\ g.born = f.born /\ g.demo = f.demo /\ g.bag = f.bag
         /\ Followed(f) /\ ShownTrue(f) => Followed(g)
<1>a. f.tasks \in Seq(1..Slots) /\ f.due \in Seq(Nat) /\ Len(f.tasks) = Len(f.due)
  BY FieldParts
<1>b. f.shown \in [on : BOOLEAN, body : 0..Slots, id : Nat] /\ f.count \in 0..Slots
  BY FieldParts
<1>c. f \in FieldType(taken) /\ f.slots \in [1..Slots -> AnimalType] /\ Distinct(f) /\ ShownPrey(f)
  BY FieldParts
<1>d. f.shown.on /\ f.shown.body # 0 /\ ~f.slots[f.shown.body].claimed
  BY <1>c DEF Claims, ShownPrey
<1>1. PICK c \in 1..Slots : c = f.shown.body
  BY <1>b, <1>d, SlotsNat
<1>2. PICK a : a = [f.slots[c] EXCEPT !.claimed = TRUE]
  OBVIOUS
<1>3. /\ a \in AnimalType /\ a.id = f.slots[c].id /\ a.kind = f.slots[c].kind /\ a.claimed
  BY <1>2, <1>c DEF AnimalType
<1>4. PICK s : s = [f.slots EXCEPT ![c] = a]
  OBVIOUS
<1>5. s \in [1..Slots -> AnimalType] /\ s[c] = a /\ \A i \in 1..Slots : i # c => s[i] = f.slots[i]
  BY <1>3, <1>4, <1>c
<1>6. PICK m : m = [f EXCEPT !.slots = s]
  OBVIOUS
<1>7. m = [f EXCEPT !.slots[c].claimed = TRUE]
  BY <1>2, <1>4, <1>6
<1>8. m \in FieldType(taken)
  BY <1>5, <1>6, <1>c DEF FieldType
<1>9. /\ m.slots = s /\ m.count = f.count /\ m.born = f.born /\ m.ship = f.ship
      /\ m.tasks = f.tasks /\ m.due = f.due /\ m.shown = f.shown /\ m.demo = f.demo
      /\ m.supply = f.supply /\ m.bag = f.bag
  BY <1>6, <1>c DEF FieldType
<1>10. \A i \in 1..f.count : i \in 1..Slots
  BY <1>b, SlotsNat
<1>e. SameShip(f, m)
  BY <1>9 DEF SameShip
<1>11. SameRecords(f, m)
  BY <1>3, <1>5, <1>9, <1>10 DEF SameRecords
<1>12. m \in Grounds(taken)
  BY <1>8, <1>9, <1>11, <1>e, FieldParts, GroundsKept
<1>13. ASSUME Followed(f) PROVE Followed(m)
  BY <1>9, <1>11, <1>13, <1>e, FollowedKept
<1>14. CASE ~shallow
  <2>1. g = m
    BY <1>1, <1>7, <1>14 DEF AddShipTask
  <2> QED
    BY <1>9, <1>12, <1>13, <2>1
<1>15. CASE shallow
  <2>1. PICK d \in Nat : d = f.shown.id
    BY <1>b
  <2>2. PICK q, r : q = Append(f.tasks, c) /\ r = Append(f.due, d)
    OBVIOUS
  <2>3. /\ q \in Seq(1..Slots) /\ Len(q) = Len(f.tasks) + 1 /\ q[Len(f.tasks) + 1] = c
        /\ \A k \in 1..Len(f.tasks) : q[k] = f.tasks[k]
    BY <1>a, <2>2, SeqGrown
  <2>4. /\ r \in Seq(Nat) /\ Len(r) = Len(f.due) + 1 /\ r[Len(f.due) + 1] = d
        /\ \A k \in 1..Len(f.due) : r[k] = f.due[k]
    BY <1>a, <2>2, SeqGrown
  <2>5. g = [m EXCEPT !.tasks = q, !.due = r]
    BY <1>1, <1>7, <1>9, <1>15, <2>1, <2>2 DEF AddShipTask
  <2>6. g \in FieldType(taken)
    BY <1>8, <2>3, <2>4, <2>5 DEF FieldType
  <2>7. /\ g.slots = s /\ g.count = f.count /\ g.born = f.born /\ g.ship = f.ship
        /\ g.tasks = q /\ g.due = r /\ g.shown = f.shown /\ g.demo = f.demo
        /\ g.supply = f.supply /\ g.bag = f.bag
    BY <1>8, <1>9, <2>5 DEF FieldType
  <2>8. Distinct(g)
    <3>1. Distinct(m)
      BY <1>12, FieldParts
    <3> QED
      BY <1>9, <2>7, <3>1 DEF Distinct
  <2>9. ShownPrey(g)
    <3>1. ShownPrey(m)
      BY <1>12, FieldParts
    <3> QED
      BY <1>9, <2>7, <3>1 DEF ShownPrey
  <2>10. Len(g.tasks) = Len(g.due)
    BY <1>a, <2>3, <2>4, <2>7
  <2>11. g \in Grounds(taken)
    BY <2>6, <2>7, <2>8, <2>9, <2>10, FieldParts DEF Grounds
  <2>12. ASSUME Followed(f), ShownTrue(f) PROVE Followed(g)
    <3>0. Followed(m)
      BY <1>13, <2>12
    <3>1. c \in 1..f.count /\ f.slots[c].id = d /\ f.slots[c].kind = "prey"
      <4>1. c \in 1..f.count /\ f.slots[c].id = d
        BY <1>1, <1>b, <2>1, <2>12, SlotsNat DEF ShownTrue
      <4> QED
        BY <1>c, <1>d, <2>1, <4>1 DEF ShownPrey
    <3>2. Stands(g, c, d)
      BY <1>3, <1>5, <2>7, <3>1 DEF Stands
    <3>3. ASSUME NEW i, NEW e, Stands(m, i, e) PROVE Stands(g, i, e)
      BY <1>9, <2>7, <3>3 DEF Stands
    <3>4. Len(f.tasks) \in Nat
      BY <1>a
    <3>5. \A k \in 1..Len(q) : k \in 1..Len(f.tasks) \/ k = Len(f.tasks) + 1
      BY <2>3, <3>4
    <3>6. \A k \in 1..Len(f.tasks) : Stands(f, f.tasks[k], f.due[k]) /\ f.tasks[k] # c
      BY <1>1, <1>d, <2>12 DEF Followed, Stands
    <3>7. \A k \in 1..Len(f.tasks) : Stands(g, q[k], r[k])
      BY <1>9, <1>a, <2>3, <2>4, <3>0, <3>3 DEF Followed
    <3>8. \A k \in 1..Len(g.tasks) : Stands(g, g.tasks[k], g.due[k])
      BY <1>a, <2>3, <2>4, <2>7, <3>2, <3>5, <3>7
    <3>9. ASSUME NEW k \in 1..Len(q), NEW l \in 1..Len(q), q[k] = q[l] PROVE k = l
      BY <2>3, <2>12, <3>5, <3>6, <3>9 DEF Followed
    <3>10. f.ship.state # -1 => f.ship.body # c /\ Stands(m, f.ship.body, f.ship.carried)
                                /\ \A k \in 1..Len(f.tasks) : f.tasks[k] # f.ship.body
      BY <1>1, <1>9, <1>d, <2>12, <3>0 DEF Followed, Stands
    <3>11. g.ship.state # -1 =>
             /\ Stands(g, g.ship.body, g.ship.carried)
             /\ \A k \in 1..Len(g.tasks) : g.tasks[k] # g.ship.body
      BY <2>3, <2>7, <3>3, <3>5, <3>10
    <3>12. g.demo.time > 0 =>
             /\ g.demo.body \in 1..g.count /\ g.slots[g.demo.body].id = g.demo.id
             /\ g.slots[g.demo.body].kind = "hunter"
      BY <1>9, <2>7, <3>0 DEF Followed
    <3> QED
      BY <2>7, <3>8, <3>9, <3>11, <3>12 DEF Followed
  <2> QED
    BY <2>7, <2>11, <2>12
<1> QED
  BY <1>14, <1>15

(* What changes neither a record nor an index.                             *)
LEMMA FieldKept ==
  ASSUME NEW taken, NEW f \in Grounds(taken), NEW g \in FieldType(taken),
         g.slots = f.slots, g.count = f.count, g.born = f.born, g.tasks = f.tasks,
         g.due = f.due, g.ship = f.ship, g.shown = f.shown \/ ~g.shown.on,
         g.demo.time > 0 => f.demo.time > 0 /\ g.demo.body = f.demo.body /\ g.demo.id = f.demo.id,
         g.supply \in {"ready", "coming"} => g.bag = "none"
  PROVE  g \in Grounds(taken) /\ (Followed(f) => Followed(g))
<1>1. SameRecords(f, g) /\ SameShip(f, g)
  BY DEF SameRecords, SameShip
<1> QED
  BY <1>1, GroundsKept, FollowedKept

LEMMA AddShipSupplySound ==
  ASSUME NEW taken, NEW f \in Grounds(taken), NEW g, g = AddShipSupply(f)
  PROVE  /\ g \in Grounds(taken) /\ g.born = f.born /\ g.demo = f.demo
         /\ g.shown = f.shown /\ g.slots = f.slots /\ g.count = f.count /\ g.scoreUp = f.scoreUp
         /\ Followed(f) => Followed(g)
<1>0. f \in FieldType(taken) /\ (f.supply \in {"ready", "coming"} => f.bag = "none")
  BY FieldParts
<1>1. CASE f.supply = "ready"
  <2>1. g = [f EXCEPT !.supply = "coming"]
    BY <1>1 DEF AddShipSupply
  <2>2. g \in FieldType(taken)
    BY <1>0, <2>1 DEF FieldType
  <2>3. /\ g.slots = f.slots /\ g.count = f.count /\ g.born = f.born /\ g.ship = f.ship
        /\ g.tasks = f.tasks /\ g.due = f.due /\ g.shown = f.shown /\ g.demo = f.demo
        /\ g.scoreUp = f.scoreUp
    BY <1>0, <2>1 DEF FieldType
  <2>4. g.supply = "coming" /\ g.bag = f.bag
    BY <1>0, <2>1 DEF FieldType
  <2> QED
    BY <1>0, <1>1, <2>2, <2>3, <2>4, FieldKept
<1>2. CASE f.supply # "ready"
  BY <1>2 DEF AddShipSupply
<1> QED
  BY <1>1, <1>2

(* The shots alone change.                                                 *)
LEMMA ShotsChanged ==
  ASSUME NEW taken, NEW f \in Grounds(taken), NEW q \in Seq([weapon : taken, stuck : BOOLEAN]),
         NEW g, g = [f EXCEPT !.shots = q]
  PROVE  /\ g \in Grounds(taken) /\ g.born = f.born /\ g.demo = f.demo /\ g.shots = q
         /\ g.shown = f.shown /\ g.slots = f.slots /\ g.count = f.count /\ g.scoreUp = f.scoreUp
         /\ Followed(f) => Followed(g)
<1>0. f \in FieldType(taken) /\ (f.supply \in {"ready", "coming"} => f.bag = "none")
  BY FieldParts
<1>1. g \in FieldType(taken)
  BY <1>0 DEF FieldType
<1>2. /\ g.slots = f.slots /\ g.count = f.count /\ g.born = f.born /\ g.ship = f.ship
      /\ g.tasks = f.tasks /\ g.due = f.due /\ g.shown = f.shown /\ g.demo = f.demo
      /\ g.scoreUp = f.scoreUp /\ g.supply = f.supply /\ g.bag = f.bag /\ g.shots = q
  BY <1>0 DEF FieldType
<1>3. g \in Grounds(taken) /\ (Followed(f) => Followed(g))
  BY <1>0, <1>1, <1>2, FieldKept
<1> QED
  BY <1>2, <1>3

LEMMA AddBulletSound ==
  ASSUME NEW taken, NEW f \in Grounds(taken), NEW w \in taken, NEW g, g = AddBullet(f, w)
  PROVE  /\ g \in Grounds(taken) /\ g.born = f.born /\ g.demo = f.demo
         /\ g.shown = f.shown /\ g.slots = f.slots /\ g.count = f.count /\ g.scoreUp = f.scoreUp
         /\ Followed(f) => Followed(g)
<1>1. CASE Len(f.shots) < MaxShots
  <2>0. PICK x \in [weapon : taken, stuck : BOOLEAN] : x = [weapon |-> w, stuck |-> FALSE]
    OBVIOUS
  <2>1. PICK q : q = Append(f.shots, x)
    OBVIOUS
  <2>2. f.shots \in Seq([weapon : taken, stuck : BOOLEAN])
    BY FieldParts
  <2>3. q \in Seq([weapon : taken, stuck : BOOLEAN])
    BY <2>1, <2>2, SeqGrown
  <2>4. g = [f EXCEPT !.shots = q]
    BY <1>1, <2>0, <2>1 DEF AddBullet
  <2> QED
    BY <2>3, <2>4, ShotsChanged
<1>2. CASE ~(Len(f.shots) < MaxShots)
  BY <1>2 DEF AddBullet
<1> QED
  BY <1>1, <1>2

LEMMA AnimateSShipSound ==
  ASSUME NEW taken, NEW f \in Grounds(taken), NEW there \in BOOLEAN,
         there => f.supply \in {"coming", "leaving"}, NEW g, g = AnimateSShip(f, there)
  PROVE  /\ g \in Grounds(taken) /\ g.born = f.born /\ g.demo = f.demo
         /\ g.bag = "out" => f.bag # "taken"
         /\ g.bag = "out" => g.supply \in {"leaving", "gone"}
         /\ Followed(f) => Followed(g)
<1>0. /\ f \in FieldType(taken) /\ (f.supply \in {"ready", "coming"} => f.bag = "none")
      /\ f.supply \in {"ready", "coming", "leaving", "gone"}
  BY FieldParts
<1>1. CASE there /\ f.supply = "coming"
  <2>1. g = [f EXCEPT !.supply = "leaving", !.bag = "out"]
    BY <1>1 DEF AnimateSShip
  <2>2. g \in FieldType(taken)
    BY <1>0, <2>1 DEF FieldType
  <2>3. /\ g.slots = f.slots /\ g.count = f.count /\ g.born = f.born /\ g.ship = f.ship
        /\ g.tasks = f.tasks /\ g.due = f.due /\ g.shown = f.shown /\ g.demo = f.demo
    BY <1>0, <2>1 DEF FieldType
  <2>4. g.supply = "leaving" /\ g.bag = "out"
    BY <1>0, <2>1 DEF FieldType
  <2> QED
    BY <1>0, <1>1, <2>2, <2>3, <2>4, FieldKept
<1>2. CASE there /\ f.supply = "leaving"
  <2>1. g = [f EXCEPT !.supply = "gone"]
    BY <1>2 DEF AnimateSShip
  <2>2. g \in FieldType(taken)
    BY <1>0, <2>1 DEF FieldType
  <2>3. /\ g.slots = f.slots /\ g.count = f.count /\ g.born = f.born /\ g.ship = f.ship
        /\ g.tasks = f.tasks /\ g.due = f.due /\ g.shown = f.shown /\ g.demo = f.demo
    BY <1>0, <2>1 DEF FieldType
  <2>4. g.supply = "gone" /\ g.bag = f.bag
    BY <1>0, <2>1 DEF FieldType
  <2> QED
    BY <1>0, <1>2, <2>2, <2>3, <2>4, FieldKept
<1>3. CASE ~there
  <2>1. g = f
    BY <1>3 DEF AnimateSShip
  <2> QED
    BY <1>0, <2>1
<1> QED
  BY <1>1, <1>2, <1>3

LEMMA DemoMovesSound ==
  ASSUME NEW taken, NEW f \in Grounds(taken), NEW further, f.demo.time > 0, f.demo.time # 4,
         NEW g, g = DemoMoves(f, further)
  PROVE  g \in Grounds(taken) /\ g.born = f.born /\ (Followed(f) => Followed(g)) /\ g.demo.time > 0
<1>a. f.demo \in [time : 0..4, body : 0..Slots, id : Nat]
  BY FieldParts
<1>b. f \in FieldType(taken) /\ (f.supply \in {"ready", "coming"} => f.bag = "none")
  BY FieldParts
<1>1. CASE further
  <2>1. PICK t \in 0..4 : t = f.demo.time + 1
    <3>1. f.demo.time \in 0..4
      BY <1>a
    <3>2. f.demo.time + 1 \in 0..4
      BY <3>1
    <3> QED
      BY <3>2
  <2>2. PICK d : d = [f.demo EXCEPT !.time = t]
    OBVIOUS
  <2>3. /\ d \in [time : 0..4, body : 0..Slots, id : Nat]
        /\ d.time = t /\ d.body = f.demo.body /\ d.id = f.demo.id
    BY <1>a, <2>2
  <2>4. g = [f EXCEPT !.demo = d]
    BY <1>1, <2>1, <2>2 DEF DemoMoves
  <2>5. g \in FieldType(taken)
    BY <1>b, <2>3, <2>4 DEF FieldType
  <2>6. /\ g.slots = f.slots /\ g.count = f.count /\ g.born = f.born /\ g.ship = f.ship
        /\ g.tasks = f.tasks /\ g.due = f.due /\ g.shown = f.shown /\ g.demo = d
        /\ g.supply = f.supply /\ g.bag = f.bag
    BY <1>b, <2>4 DEF FieldType
  <2>7. g \in Grounds(taken) /\ (Followed(f) => Followed(g))
    BY <1>b, <2>3, <2>5, <2>6, FieldKept
  <2>8. f.demo.time \in Nat
    BY <1>a
  <2>9. t > 0
    BY <2>1, <2>8
  <2> QED
    BY <2>3, <2>6, <2>7, <2>9
<1>2. CASE ~further
  BY <1>2 DEF DemoMoves
<1> QED
  BY <1>1, <1>2

(* The ship takes the next body of its list, moves on, or is gone with     *)
(* the body it carried.                                                    *)
LEMMA AnimateShipSound ==
  ASSUME NEW taken, NEW f \in Grounds(taken), NEW there \in BOOLEAN,
         there => f.ship.state # -1, there /\ f.ship.state = 1 => f.count > 0,
         NEW g, g = AnimateShip(f, there)
  PROVE  /\ g \in Grounds(taken) /\ g.born = f.born /\ g.demo.time = f.demo.time
         /\ g.bag = f.bag /\ g.supply = f.supply
         /\ Followed(f) => Followed(g)
<1>a. f.tasks \in Seq(1..Slots) /\ f.due \in Seq(Nat) /\ Len(f.tasks) = Len(f.due)
  BY FieldParts
<1>b. f.ship \in [state : -1..3, body : 0..Slots, carried : Nat]
  BY FieldParts
<1>c. /\ f \in FieldType(taken) /\ (f.supply \in {"ready", "coming"} => f.bag = "none")
      /\ f.slots \in [1..Slots -> AnimalType] /\ (f.ship.state # -1 => f.ship.body # 0)
  BY FieldParts
<1>d. Distinct(f) /\ ShownPrey(f)
  BY FieldParts
<1>1. CASE f.ship.state = -1 /\ f.tasks # <<>>
  <2>0. f.due # <<>>
    BY <1>1, <1>a
  <2>1. PICK t, e : t = Tail(f.tasks) /\ e = Tail(f.due)
    OBVIOUS
  <2>2. PICK c, d : c = Head(f.tasks) /\ d = Head(f.due)
    OBVIOUS
  <2>3. /\ c \in 1..Slots /\ c = f.tasks[1] /\ 1 \in 1..Len(f.tasks)
        /\ t \in Seq(1..Slots) /\ Len(t) = Len(f.tasks) - 1
        /\ \A k \in 1..(Len(f.tasks) - 1) : t[k] = f.tasks[k + 1] /\ k + 1 \in 1..Len(f.tasks)
    BY <1>1, <1>a, <2>1, <2>2, SeqTail
  <2>4. /\ d \in Nat /\ d = f.due[1]
        /\ e \in Seq(Nat) /\ Len(e) = Len(f.due) - 1
        /\ \A k \in 1..(Len(f.due) - 1) : e[k] = f.due[k + 1]
    BY <1>a, <2>0, <2>1, <2>2, SeqTail
  <2>5. PICK s : s = [state |-> 0, body |-> c, carried |-> d]
    OBVIOUS
  <2>6. /\ s \in [state : -1..3, body : 0..Slots, carried : Nat]
        /\ s.state = 0 /\ s.body = c /\ s.carried = d /\ c # 0
    BY <2>3, <2>4, <2>5, SlotsNat
  <2>7. g = [f EXCEPT !.ship = s, !.tasks = t, !.due = e]
    BY <1>1, <2>1, <2>2, <2>5 DEF AnimateShip
  <2>c. t \in Seq(1..Slots) /\ e \in Seq(Nat)
    BY <2>3, <2>4
  <2>d. f \in FieldType(taken) /\ s \in [state : -1..3, body : 0..Slots, carried : Nat]
    BY <1>c, <2>6
  <2>8. g \in FieldType(taken)
    BY <2>7, <2>c, <2>d DEF FieldType
  <2>9. /\ g.slots = f.slots /\ g.count = f.count /\ g.born = f.born /\ g.ship = s
        /\ g.tasks = t /\ g.due = e /\ g.shown = f.shown /\ g.demo = f.demo
        /\ g.supply = f.supply /\ g.bag = f.bag
    BY <1>c, <2>7 DEF FieldType
  <2>10. Distinct(g) /\ ShownPrey(g)
    BY <1>d, <2>9 DEF Distinct, ShownPrey
  <2>11. Len(g.tasks) = Len(g.due)
    BY <1>a, <2>3, <2>4, <2>9
  <2>a. g.ship.state # -1 => g.ship.body # 0
    BY <2>6, <2>9
  <2>b. g.supply \in {"ready", "coming"} => g.bag = "none"
    BY <1>c, <2>9
  <2>12. g \in Grounds(taken)
    BY <2>8, <2>10, <2>11, <2>a, <2>b DEF Grounds
  <2>13. ASSUME Followed(f) PROVE Followed(g)
    <3>1. ASSUME NEW i, NEW x, Stands(f, i, x) PROVE Stands(g, i, x)
      BY <2>9, <3>1 DEF Stands
    <3>2. /\ \A k \in 1..Len(f.tasks) : Stands(f, f.tasks[k], f.due[k])
          /\ \A k, l \in 1..Len(f.tasks) : f.tasks[k] = f.tasks[l] => k = l
      BY <2>13 DEF Followed
    <3>3. Stands(g, s.body, s.carried)
      BY <2>3, <2>4, <2>6, <3>1, <3>2
    <3>4. ASSUME NEW k \in 1..Len(t)
          PROVE  /\ k + 1 \in 1..Len(f.tasks) /\ k + 1 # 1
                 /\ t[k] = f.tasks[k + 1] /\ e[k] = f.due[k + 1]
      BY <1>a, <2>3, <2>4
    <3>5. \A k \in 1..Len(t) : Stands(g, t[k], e[k])
      BY <3>1, <3>2, <3>4
    <3>6. \A k \in 1..Len(t) : t[k] # s.body
      BY <2>3, <2>6, <3>2, <3>4
    <3>7. ASSUME NEW k \in 1..Len(t), NEW l \in 1..Len(t), t[k] = t[l] PROVE k = l
      <4>1. k + 1 = l + 1
        BY <3>2, <3>4, <3>7
      <4>2. k \in Int /\ l \in Int
        OBVIOUS
      <4> QED
        BY <4>1, <4>2
    <3>8. g.demo.time > 0 =>
           /\ g.demo.body \in 1..g.count /\ g.slots[g.demo.body].id = g.demo.id
           /\ g.slots[g.demo.body].kind = "hunter"
      BY <2>9, <2>13 DEF Followed
    <3> QED
      BY <2>9, <3>3, <3>5, <3>6, <3>7, <3>8 DEF Followed
  <2> QED
    BY <2>9, <2>12, <2>13
<1>2. CASE there /\ f.ship.state = 0
  <2>1. PICK b \in 1..Slots : b = f.ship.body
    BY <1>2, <1>b, <1>c, SlotsNat
  <2>2. PICK a : a = [f.slots[b] EXCEPT !.aboard = TRUE]
    OBVIOUS
  <2>3. /\ a \in AnimalType /\ a.id = f.slots[b].id /\ a.kind = f.slots[b].kind
        /\ a.claimed = f.slots[b].claimed
    BY <1>c, <2>2 DEF AnimalType
  <2>4. PICK s : s = [f.slots EXCEPT ![b] = a]
    OBVIOUS
  <2>5. s \in [1..Slots -> AnimalType] /\ \A i \in 1..Slots : s[i] = IF i = b THEN a ELSE f.slots[i]
    BY <1>c, <2>3, <2>4
  <2>6. PICK p : p = [f.ship EXCEPT !.state = 3]
    OBVIOUS
  <2>7. /\ p \in [state : -1..3, body : 0..Slots, carried : Nat]
        /\ p.body = f.ship.body /\ p.carried = f.ship.carried
    BY <1>b, <2>6
  <2>8. g = [f EXCEPT !.ship = p, !.slots = s]
    BY <1>2, <2>1, <2>2, <2>4, <2>6 DEF AnimateShip
  <2>9. g \in FieldType(taken)
    BY <1>c, <2>5, <2>7, <2>8 DEF FieldType
  <2>10. /\ g.slots = s /\ g.count = f.count /\ g.born = f.born /\ g.ship = p
         /\ g.tasks = f.tasks /\ g.due = f.due /\ g.shown = f.shown /\ g.demo = f.demo
         /\ g.supply = f.supply /\ g.bag = f.bag
    BY <1>c, <2>8 DEF FieldType
  <2>11. f.count \in 0..Slots
    BY FieldParts
  <2>12. \A i \in 1..f.count : i \in 1..Slots
    BY <2>11, SlotsNat
  <2>13. SameRecords(f, g)
    BY <2>3, <2>5, <2>10, <2>12 DEF SameRecords
  <2>14. SameShip(f, g)
    BY <1>2, <2>7, <2>10 DEF SameShip
  <2>15. g \in Grounds(taken)
    BY <1>c, <2>9, <2>10, <2>13, <2>14, GroundsKept
  <2>16. ASSUME Followed(f) PROVE Followed(g)
    BY <2>10, <2>13, <2>14, <2>16, FollowedKept
  <2> QED
    BY <2>10, <2>15, <2>16
<1>3. CASE there /\ f.ship.state \in {2, 3}
  <2>1. PICK n \in -1..3 : n = IF f.ship.state = 3 THEN 2 ELSE 1
    OBVIOUS
  <2>2. PICK p : p = [f.ship EXCEPT !.state = n]
    OBVIOUS
  <2>3. /\ p \in [state : -1..3, body : 0..Slots, carried : Nat]
        /\ p.body = f.ship.body /\ p.carried = f.ship.carried
    BY <1>b, <2>2
  <2>4. g = [f EXCEPT !.ship = p]
    <3>1. CASE f.ship.state = 3
      <4>1. n = 2
        BY <2>1, <3>1
      <4> QED
        BY <1>3, <2>2, <3>1, <4>1 DEF AnimateShip
    <3>2. CASE f.ship.state = 2
      <4>1. n = 1
        BY <2>1, <3>2
      <4> QED
        BY <1>3, <2>2, <3>2, <4>1 DEF AnimateShip
    <3> QED
      BY <1>3, <3>1, <3>2
  <2>5. g \in FieldType(taken)
    BY <1>c, <2>3, <2>4 DEF FieldType
  <2>6. /\ g.slots = f.slots /\ g.count = f.count /\ g.born = f.born /\ g.ship = p
        /\ g.tasks = f.tasks /\ g.due = f.due /\ g.shown = f.shown /\ g.demo = f.demo
        /\ g.supply = f.supply /\ g.bag = f.bag
    BY <1>c, <2>4 DEF FieldType
  <2>7. SameRecords(f, g)
    BY <2>6 DEF SameRecords
  <2>8. SameShip(f, g)
    BY <1>3, <2>3, <2>6 DEF SameShip
  <2>9. g \in Grounds(taken)
    BY <1>c, <2>5, <2>6, <2>7, <2>8, GroundsKept
  <2>10. ASSUME Followed(f) PROVE Followed(g)
    BY <2>6, <2>7, <2>8, <2>10, FollowedKept
  <2> QED
    BY <2>6, <2>9, <2>10
<1>4. CASE there /\ f.ship.state = 1
  <2>1. PICK b \in 1..Slots : b = f.ship.body
    BY <1>4, <1>b, <1>c, SlotsNat
  <2>2. PICK e : e = [f EXCEPT !.ship = NoShip]
    OBVIOUS
  <2>3. NoShip \in [state : -1..3, body : 0..Slots, carried : Nat] /\ NoShip.state = -1
    BY SlotsNat DEF NoShip
  <2>4. e \in FieldType(taken)
    BY <1>c, <2>2, <2>3 DEF FieldType
  <2>5. /\ e.slots = f.slots /\ e.count = f.count /\ e.born = f.born /\ e.ship.state = -1
        /\ e.tasks = f.tasks /\ e.due = f.due /\ e.shown = f.shown /\ e.demo = f.demo
        /\ e.supply = f.supply /\ e.bag = f.bag
    BY <1>c, <2>2, <2>3 DEF FieldType
  <2>6. SameRecords(f, e)
    BY <2>5 DEF SameRecords
  <2>7. SameShip(f, e)
    BY <2>5 DEF SameShip
  <2>8. e \in Grounds(taken)
    BY <1>c, <2>4, <2>5, <2>6, <2>7, GroundsKept
  <2>9. g = RemoveCharacter(e, b)
    BY <1>4, <2>1, <2>2 DEF AnimateShip
  <2>10. e.count > 0
    BY <1>4, <2>5
  <2>11. /\ g \in Grounds(taken) /\ g.born = e.born
         /\ g.bag = e.bag /\ g.supply = e.supply /\ g.demo.time = e.demo.time
         /\ /\ Followed(e) /\ e.ship.state = -1
            /\ b \in 1..e.count /\ e.slots[b].kind = "prey"
            /\ \A k \in 1..Len(e.tasks) : e.tasks[k] # b
            => Followed(g)
    BY <2>8, <2>9, <2>10, RemoveCharacterSound
  <2>12. ASSUME Followed(f) PROVE Followed(g)
    <3>1. Followed(e)
      BY <2>5, <2>6, <2>7, <2>12, FollowedKept
    <3>2. /\ b \in 1..f.count /\ f.slots[b].kind = "prey"
          /\ \A k \in 1..Len(f.tasks) : f.tasks[k] # b
      <4>1. f.ship.state # -1
        BY <1>4
      <4> QED
        BY <2>1, <2>12, <4>1 DEF Followed, Stands
    <3> QED
      BY <2>5, <2>11, <3>1, <3>2
  <2> QED
    BY <2>5, <2>11, <2>12
<1>5. CASE f.ship.state = -1 /\ f.tasks = <<>>
  BY <1>5 DEF AnimateShip
<1>6. CASE f.ship.state # -1 /\ ~there
  BY <1>6 DEF AnimateShip
<1>7. \/ f.ship.state = -1 \/ f.ship.state = 0 \/ f.ship.state \in {2, 3} \/ f.ship.state = 1
  BY <1>b
<1> QED
  BY <1>1, <1>2, <1>3, <1>4, <1>5, <1>6, <1>7

(* What the hunter stands at is prey, under an id that no other record has.*)
LEMMA ShownSound ==
  ASSUME NEW taken, NEW f \in Grounds(taken), NEW c \in Trophies(f) \cup {0}, NEW g,
         g = [f EXCEPT !.shown =
                   IF c = 0 THEN NotShown
                   ELSE [on |-> TRUE, body |-> c, id |-> f.slots[c].id]]
  PROVE  /\ g \in Grounds(taken) /\ g.born = f.born /\ g.demo = f.demo /\ g.bag = f.bag
         /\ g.shots = f.shots
         /\ Followed(f) => Followed(g)
<1>a. f.count \in 0..Slots /\ f.slots \in [1..Slots -> AnimalType]
  BY FieldParts
<1>b. f \in FieldType(taken) /\ (f.supply \in {"ready", "coming"} => f.bag = "none")
  BY FieldParts
<1>1. PICK h : h = IF c = 0 THEN NotShown ELSE [on |-> TRUE, body |-> c, id |-> f.slots[c].id]
  OBVIOUS
<1>2. g = [f EXCEPT !.shown = h]
  BY <1>1
<1>3. CASE c = 0
  <2>1. h \in [on : BOOLEAN, body : 0..Slots, id : Nat] /\ ~h.on
    BY <1>1, <1>3, SlotsNat DEF NotShown
  <2>2. g \in FieldType(taken)
    BY <1>2, <1>b, <2>1 DEF FieldType
  <2>3. /\ g.slots = f.slots /\ g.count = f.count /\ g.born = f.born /\ g.ship = f.ship
        /\ g.tasks = f.tasks /\ g.due = f.due /\ ~g.shown.on /\ g.demo = f.demo
        /\ g.supply = f.supply /\ g.bag = f.bag /\ g.shots = f.shots
    BY <1>2, <1>b, <2>1 DEF FieldType
  <2>4. g.demo.time > 0 => f.demo.time > 0 /\ g.demo.body = f.demo.body /\ g.demo.id = f.demo.id
    BY <2>3
  <2>5. g.supply \in {"ready", "coming"} => g.bag = "none"
    BY <1>b, <2>3
  <2>6. g \in Grounds(taken) /\ (Followed(f) => Followed(g))
    BY <2>2, <2>3, <2>4, <2>5, FieldKept, ZenonT(40)
  <2> QED
    BY <2>3, <2>6
<1>4. CASE c # 0
  <2>1. c \in 1..f.count /\ f.slots[c].kind = "prey"
    BY <1>4 DEF Trophies
  <2>2. c \in 1..Slots /\ f.slots[c] \in AnimalType
    BY <1>a, <2>1, SlotsNat
  <2>3. PICK d \in Nat : d = f.slots[c].id
    BY <2>2 DEF AnimalType
  <2>4. /\ h \in [on : BOOLEAN, body : 0..Slots, id : Nat]
        /\ h.on /\ h.body = c /\ h.id = d /\ c # 0
    BY <1>1, <1>4, <2>2, <2>3, SlotsNat
  <2>5. g \in FieldType(taken)
    BY <1>2, <1>b, <2>4 DEF FieldType
  <2>6. /\ g.slots = f.slots /\ g.count = f.count /\ g.born = f.born /\ g.ship = f.ship
        /\ g.tasks = f.tasks /\ g.due = f.due /\ g.shown = h /\ g.demo = f.demo
        /\ g.supply = f.supply /\ g.bag = f.bag /\ g.shots = f.shots
    BY <1>2, <1>b DEF FieldType
  <2>7. Distinct(f)
    BY FieldParts
  <2>8. Distinct(g)
    BY <2>6, <2>7 DEF Distinct
  <2>9. ShownPrey(g)
    BY <2>1, <2>3, <2>4, <2>6, <2>7 DEF Distinct, ShownPrey
  <2>10. g \in Grounds(taken)
    BY <1>b, <2>5, <2>6, <2>8, <2>9, FieldParts DEF Grounds
  <2>11. SameRecords(f, g) /\ SameShip(f, g)
    BY <2>6 DEF SameRecords, SameShip
  <2>12. g.demo.time > 0 => f.demo.time > 0 /\ g.demo.body = f.demo.body /\ g.demo.id = f.demo.id
    BY <2>6
  <2>13. g.tasks = f.tasks /\ g.due = f.due
    BY <2>6
  <2>14. Followed(f) => Followed(g)
    BY <2>11, <2>12, <2>13, FollowedKept
  <2> QED
    BY <2>6, <2>10, <2>14
<1> QED
  BY <1>3, <1>4

(* An animal's record changes in what no index depends on.                 *)
LEMMA KillSound ==
  ASSUME NEW taken, NEW f \in Grounds(taken), NEW i \in 1..Slots, NEW a \in AnimalType,
         a.id = f.slots[i].id, a.kind = f.slots[i].kind, f.slots[i].claimed => a.claimed,
         NEW s \in [1..Slots -> AnimalType],
         s[i] = a, \A j \in 1..Slots : j # i => s[j] = f.slots[j],
         NEW g, g = [f EXCEPT !.slots = s]
  PROVE  g \in Grounds(taken) /\ (Followed(f) => Followed(g))
<1>a. f.count \in 0..Slots /\ f.slots \in [1..Slots -> AnimalType]
  BY FieldParts
<1>b. f \in FieldType(taken) /\ (f.supply \in {"ready", "coming"} => f.bag = "none")
  BY FieldParts
<1>6. g \in FieldType(taken)
  BY <1>b DEF FieldType
<1>7. /\ g.slots = s /\ g.count = f.count /\ g.born = f.born /\ g.ship = f.ship
      /\ g.tasks = f.tasks /\ g.due = f.due /\ g.shown = f.shown /\ g.demo = f.demo
      /\ g.supply = f.supply /\ g.bag = f.bag /\ g.shots = f.shots
  BY <1>b DEF FieldType
<1>8. \A j \in 1..f.count : j \in 1..Slots
  BY <1>a, SlotsNat
<1>9. SameRecords(f, g)
  BY <1>7, <1>8 DEF SameRecords
<1>10. SameShip(f, g)
  BY <1>7 DEF SameShip
<1>11. g \in Grounds(taken)
  BY <1>6, <1>7, <1>9, <1>10, <1>b, GroundsKept
<1>12. ASSUME Followed(f) PROVE Followed(g)
  BY <1>7, <1>9, <1>10, <1>12, FollowedKept
<1> QED
  BY <1>11, <1>12

(* What is shown of the score, and the bag, alone change.                  *)
LEMMA ScoreShown ==
  ASSUME NEW taken, NEW f \in Grounds(taken), NEW x \in BOOLEAN, NEW g, g = [f EXCEPT !.scoreUp = x]
  PROVE  /\ g \in Grounds(taken) /\ g.born = f.born /\ g.demo = f.demo
         /\ Followed(f) => Followed(g)
<1>b. f \in FieldType(taken) /\ (f.supply \in {"ready", "coming"} => f.bag = "none")
  BY FieldParts
<1>1. g \in FieldType(taken)
  BY <1>b DEF FieldType
<1>2. /\ g.slots = f.slots /\ g.count = f.count /\ g.born = f.born /\ g.ship = f.ship
      /\ g.tasks = f.tasks /\ g.due = f.due /\ g.shown = f.shown /\ g.demo = f.demo
      /\ g.supply = f.supply /\ g.bag = f.bag
  BY <1>b DEF FieldType
<1>3. g \in Grounds(taken) /\ (Followed(f) => Followed(g))
  BY <1>1, <1>2, <1>b, FieldKept
<1> QED
  BY <1>2, <1>3

LEMMA BagTaken ==
  ASSUME NEW taken, NEW f \in Grounds(taken), f.bag = "out", NEW g, g = [f EXCEPT !.bag = "taken"]
  PROVE  /\ g \in Grounds(taken) /\ g.born = f.born /\ g.demo = f.demo
         /\ Followed(f) => Followed(g)
<1>b. f \in FieldType(taken) /\ (f.supply \in {"ready", "coming"} => f.bag = "none")
  BY FieldParts
<1>1. g \in FieldType(taken)
  BY <1>b DEF FieldType
<1>2. /\ g.slots = f.slots /\ g.count = f.count /\ g.born = f.born /\ g.ship = f.ship
      /\ g.tasks = f.tasks /\ g.due = f.due /\ g.shown = f.shown /\ g.demo = f.demo
      /\ g.supply = f.supply
  BY <1>b DEF FieldType
<1>3. ~(g.supply \in {"ready", "coming"})
  BY <1>2, <1>b
<1>4. g \in Grounds(taken) /\ (Followed(f) => Followed(g))
  BY <1>1, <1>2, <1>3, FieldKept
<1> QED
  BY <1>2, <1>4

(* A new round.                                                            *)
LEMMA PlacedSound ==
  ASSUME NEW taken, NEW slots \in [1..Slots -> AnimalType], NEW herd \in Seq(Kinds),
         Len(herd) < Slots, NEW g, g = Placed(slots, herd)
  PROVE  g \in Grounds(taken) /\ g.born = Len(herd) /\ Followed(g) /\ g.demo.time = 0
<1>1. PICK n \in 0..Slots : n = Len(herd)
  BY SlotsNat
<1>2. PICK s : s = [i \in 1..Slots |->
                      IF i <= Len(herd) THEN Animal(i, herd[i], TRUE) ELSE slots[i]]
  OBVIOUS
<1>3. s \in [1..Slots -> AnimalType] /\ \A i \in 1..n : s[i].id = i
  <2>1. ASSUME NEW i \in 1..Slots, i <= n PROVE Animal(i, herd[i], TRUE) \in AnimalType
    <3>1. herd[i] \in Kinds
      BY <1>1, <2>1
    <3> QED
      BY <3>1 DEF Animal, AnimalType
  <2>2. s \in [1..Slots -> AnimalType]
    BY <1>1, <1>2, <2>1
  <2>3. ASSUME NEW i \in 1..n PROVE s[i].id = i
    <3>1. i \in 1..Slots /\ i <= Len(herd)
      BY <1>1, SlotsNat
    <3> QED
      BY <1>2, <3>1 DEF Animal
  <2> QED
    BY <2>2, <2>3
<1>4. PICK d : d = [time |-> 0, body |-> 0, id |-> 0]
  OBVIOUS
<1>5. d \in [time : 0..4, body : 0..Slots, id : Nat] /\ d.time = 0
  BY <1>4, SlotsNat
<1>6. g = [slots |-> s, count |-> n, born |-> n,
           ship |-> NoShip, tasks |-> <<>>, due |-> <<>>,
           shown |-> NotShown, scoreUp |-> FALSE, demo |-> d,
           shots |-> <<>>, supply |-> "ready", bag |-> "none"]
  BY <1>1, <1>2, <1>4 DEF Placed
<1>7. NoShip \in [state : -1..3, body : 0..Slots, carried : Nat] /\ NoShip.state = -1
  BY SlotsNat DEF NoShip
<1>8. NotShown \in [on : BOOLEAN, body : 0..Slots, id : Nat] /\ ~NotShown.on
  BY SlotsNat DEF NotShown
<1>9. <<>> \in Seq(1..Slots) /\ <<>> \in Seq(Nat) /\ <<>> \in Seq([weapon : taken, stuck : BOOLEAN])
  OBVIOUS
<1>a. n \in Nat /\ "ready" \in {"ready", "coming", "leaving", "gone"}
      /\ "none" \in {"none", "out", "taken"}
  BY <1>1, SlotsNat
<1>b. PICK no, us, hs, sh, du : no = NoShip /\ us = <<>> /\ hs = NotShown /\ sh = <<>> /\ du = <<>>
  OBVIOUS
<1>c. /\ no \in [state : -1..3, body : 0..Slots, carried : Nat]
      /\ hs \in [on : BOOLEAN, body : 0..Slots, id : Nat]
      /\ us \in Seq(1..Slots) /\ du \in Seq(Nat) /\ sh \in Seq([weapon : taken, stuck : BOOLEAN])
  BY <1>7, <1>8, <1>9, <1>b
<1>d. g = [slots |-> s, count |-> n, born |-> n,
           ship |-> no, tasks |-> us, due |-> du,
           shown |-> hs, scoreUp |-> FALSE, demo |-> d,
           shots |-> sh, supply |-> "ready", bag |-> "none"]
  BY <1>6, <1>b
<1>e. n \in 0..Slots /\ s \in [1..Slots -> AnimalType] /\ d \in [time : 0..4, body : 0..Slots, id : Nat]
  BY <1>3, <1>5
<1>10. g \in FieldType(taken)
  BY <1>a, <1>c, <1>d, <1>e DEF FieldType
<1>11. /\ g.slots = s /\ g.count = n /\ g.born = n /\ g.ship = NoShip /\ g.tasks = <<>>
       /\ g.due = <<>> /\ g.shown = NotShown /\ g.demo = d /\ g.supply = "ready" /\ g.bag = "none"
  BY <1>6
<1>12. Distinct(g) /\ ShownPrey(g)
  <2>1. Distinct(g)
    <3>1. g.count = n /\ g.born = n /\ g.slots = s
      BY <1>11
    <3>2. \A i \in 1..n : s[i].id = i /\ i <= n
      BY <1>3, <1>a
    <3>3. \A i, j \in 1..n : s[i].id = s[j].id => i = j
      BY <3>2
    <3>4. n <= n
      BY <1>a
    <3>5. \A i \in 1..n : s[i].id <= n
      BY <3>2
    <3> QED
      BY <3>1, <3>3, <3>4, <3>5 DEF Distinct
  <2>2. ~g.shown.on
    BY <1>8, <1>11
  <2> QED
    BY <2>1, <2>2 DEF ShownPrey
<1>13. g \in Grounds(taken)
  BY <1>7, <1>10, <1>11, <1>12 DEF Grounds
<1>14. Followed(g)
  BY <1>5, <1>7, <1>11 DEF Followed
<1> QED
  BY <1>1, <1>5, <1>11, <1>13, <1>14

-----------------------------------------------------------------------------
(* The shots of a frame.                                                   *)

LEMMA ShootsParts ==
  ASSUME NEW taken, NEW fresh, NEW g \in Shoots(taken, fresh)
  PROVE  /\ g \in [hunter : Hunters(taken), field : Grounds(taken), profile : ProfileType,
                   round : RoundType]
         /\ g.hunter \in Hunters(taken) /\ g.field \in Grounds(taken)
         /\ g.profile \in ProfileType /\ g.round \in RoundType
         /\ Room(g.hunter, g.field) /\ (~g.round.astray => Followed(g.field))
         /\ g.profile.total = 0 /\ Tallied(g.profile, g.round, fresh)
BY DEF Shoots

LEMMA ShootsMade ==
  ASSUME NEW taken, NEW fresh, NEW g \in Shoots(taken, fresh),
         NEW h \in Hunters(taken), NEW f \in Grounds(taken), NEW p \in ProfileType,
         NEW r \in RoundType, Room(h, f), r.astray = g.round.astray,
         Followed(g.field) => Followed(f), p.total = 0, Tallied(p, r, fresh),
         NEW k, k = [g EXCEPT !.hunter = h, !.field = f, !.profile = p, !.round = r]
  PROVE  k \in Shoots(taken, fresh)
<1>1. /\ g \in [hunter : Hunters(taken), field : Grounds(taken), profile : ProfileType,
                round : RoundType]
      /\ (~g.round.astray => Followed(g.field))
  BY ShootsParts
<1>2. k \in [hunter : Hunters(taken), field : Grounds(taken), profile : ProfileType,
             round : RoundType]
  BY <1>1
<1>3. k.hunter = h /\ k.field = f /\ k.profile = p /\ k.round = r
  BY <1>1
<1>4. ~r.astray => Followed(f)
  BY <1>1
<1> QED
  BY <1>2, <1>3, <1>4 DEF Shoots

LEMMA ShootsKept ==
  ASSUME NEW taken, NEW fresh, NEW g \in Shoots(taken, fresh),
         NEW k \in [hunter : Hunters(taken), field : Grounds(taken), profile : ProfileType,
                    round : RoundType],
         Room(k.hunter, k.field), k.profile = g.profile, k.round = g.round,
         Followed(g.field) => Followed(k.field)
  PROVE  k \in Shoots(taken, fresh)
<1>1. /\ (~g.round.astray => Followed(g.field))
      /\ g.profile.total = 0 /\ Tallied(g.profile, g.round, fresh)
  BY ShootsParts
<1>2. Tallied(k.profile, k.round, fresh) /\ k.profile.total = 0
  BY <1>1
<1>3. ~k.round.astray => Followed(k.field)
  BY <1>1
<1> QED
  BY <1>2, <1>3 DEF Shoots

(* How many shots are left, and whether that took a round.                 *)
Shooting(g, k) ==
  /\ Len(k.field.shots) <= Len(g.field.shots) + 1
  /\ Len(k.field.shots) = Len(g.field.shots) + 1 => NoMore(g.hunter, k.hunter)

LEMMA AddSecondaryOneShots ==
  ASSUME NEW taken, NEW f \in Grounds(taken)
  PROVE  AddSecondaryOne(f).shots = f.shots
<1>1. f \in FieldType(taken)
  BY FieldParts
<1>2. PICK s, c, b : /\ s = [f.slots EXCEPT ![f.count + 1] = Animal(f.born + 1, "flock", TRUE)]
                     /\ c = f.count + 1 /\ b = f.born + 1
  OBVIOUS
<1>3. Appended(f, "flock", TRUE) = [f EXCEPT !.slots = s, !.count = c, !.born = b]
  BY <1>2 DEF Appended
<1>4. [f EXCEPT !.slots = s, !.count = c, !.born = b].shots = f.shots
  BY <1>1 DEF FieldType
<1> QED
  BY <1>3, <1>4 DEF AddSecondaryOne

LEMMA DeadSound ==
  ASSUME NEW taken, NEW e \in Grounds(taken), NEW i \in 1..Slots, NEW f,
         f = [e EXCEPT !.slots[i].alive = FALSE]
  PROVE  /\ f \in Grounds(taken) /\ f.born = e.born /\ f.shots = e.shots
         /\ Followed(e) => Followed(f)
<1>1. e \in FieldType(taken) /\ e.slots \in [1..Slots -> AnimalType]
  BY FieldParts
<1>2. PICK a : a = [e.slots[i] EXCEPT !.alive = FALSE]
  OBVIOUS
<1>3. /\ a \in AnimalType /\ a.id = e.slots[i].id /\ a.kind = e.slots[i].kind
      /\ a.claimed = e.slots[i].claimed
  BY <1>1, <1>2 DEF AnimalType
<1>4. PICK t : t = [e.slots EXCEPT ![i] = a]
  OBVIOUS
<1>5. f = [e EXCEPT !.slots = t]
  BY <1>2, <1>4
<1>a. t \in [1..Slots -> AnimalType]
  BY <1>1, <1>3, <1>4
<1>b. t[i] = a /\ \A j \in 1..Slots : j # i => t[j] = e.slots[j]
  BY <1>1, <1>4
<1>c. a \in AnimalType
  BY <1>3
<1>d. a.id = e.slots[i].id /\ a.kind = e.slots[i].kind /\ (e.slots[i].claimed => a.claimed)
  BY <1>3
<1>6. f \in Grounds(taken) /\ (Followed(e) => Followed(f))
  BY <1>5, <1>a, <1>b, <1>c, <1>d, KillSound, ZenonT(40)
<1>7. f.born = e.born /\ f.shots = e.shots
  BY <1>1, <1>5 DEF FieldType
<1> QED
  BY <1>6, <1>7

(* An animal is shot dead: prey scores, and where there is place another   *)
(* animal may join for one of a flock.                                     *)
LEMMA ShotSound ==
  ASSUME NEW taken, NEW fresh, NEW g \in Shoots(taken, fresh), NEW i \in 1..Slots,
         NEW joined, NEW k, k = Shot(g, i, joined)
  PROVE  /\ k \in Shoots(taken, fresh)
         /\ k.hunter = g.hunter /\ k.field.shots = g.field.shots
<1>1. PICK h, e, p, r : h = g.hunter /\ e = g.field /\ p = g.profile /\ r = g.round
  OBVIOUS
<1>2. /\ h \in Hunters(taken) /\ e \in Grounds(taken) /\ p \in ProfileType /\ r \in RoundType
      /\ Room(h, e) /\ p.total = 0 /\ Tallied(p, r, fresh)
  BY <1>1, ShootsParts
<1>3. g \in [hunter : Hunters(taken), field : Grounds(taken), profile : ProfileType,
             round : RoundType]
  BY ShootsParts
<1>4. PICK d : d = [e EXCEPT !.slots[i].alive = FALSE]
  OBVIOUS
<1>5. /\ d \in Grounds(taken) /\ d.born = e.born /\ d.shots = e.shots
      /\ Followed(e) => Followed(d)
  BY <1>2, <1>4, DeadSound
<1>6. d \in FieldType(taken)
  BY <1>5, FieldParts
<1>7. CASE g.field.slots[i].kind = "prey"
  <2>1. PICK x \in BOOLEAN : x = TRUE
    OBVIOUS
  <2>2. PICK f : f = [d EXCEPT !.scoreUp = x]
    OBVIOUS
  <2>a. f \in Grounds(taken) /\ f.born = d.born /\ (Followed(d) => Followed(f))
    BY <1>5, <2>2, ScoreShown
  <2>b. f.shots = d.shots
    BY <1>6, <2>2 DEF FieldType
  <2>3. /\ f \in Grounds(taken) /\ f.born = e.born /\ f.shots = e.shots
        /\ Followed(e) => Followed(f)
    BY <1>5, <2>a, <2>b
  <2>4. PICK q : q = [p EXCEPT !.score = @ + 1, !.last = @ + 1]
    OBVIOUS
  <2>5. PICK s : s = [r EXCEPT !.kills = @ + 1]
    OBVIOUS
  <2>c. PICK m \in Nat, n \in Nat : m = p.score + 1 /\ n = p.last + 1
    BY <1>2 DEF ProfileType
  <2>d. q = [p EXCEPT !.score = m, !.last = n]
    BY <2>4, <2>c
  <2>e. q \in ProfileType
    BY <1>2, <2>d DEF ProfileType
  <2>6. /\ q.total = p.total /\ q.score = p.score + 1
        /\ q.last = p.last + 1 /\ q.mounts = p.mounts
    BY <1>2, <2>c, <2>d DEF ProfileType
  <2>7. s \in RoundType /\ s.kills = r.kills + 1 /\ s.mounts = r.mounts /\ s.astray = r.astray
    BY <1>2, <2>5 DEF RoundType
  <2>8. Tallied(q, s, fresh)
    BY <1>2, <2>6, <2>7 DEF Tallied
  <2>9. Room(h, f)
    BY <1>2, <2>3 DEF Room
  <2>10. k = [g EXCEPT !.hunter = h, !.field = f, !.profile = q, !.round = s]
    <3>1. k = [g EXCEPT !.field = f, !.profile = q, !.round = s]
      BY <1>1, <1>4, <1>7, <2>1, <2>2, <2>4, <2>5 DEF Shot
    <3> QED
      BY <1>1, <1>3, <3>1
  <2>11. q.total = 0 /\ s.astray = g.round.astray /\ (Followed(g.field) => Followed(f))
    BY <1>1, <1>2, <2>3, <2>6, <2>7
  <2>12. k \in Shoots(taken, fresh)
    BY <1>2, <2>3, <2>e, <2>7, <2>8, <2>9, <2>10, <2>11, ShootsMade
  <2>13. k.hunter = h /\ k.field = f
    BY <1>3, <2>10
  <2> QED
    BY <1>1, <2>3, <2>12, <2>13
<1>8. CASE g.field.slots[i].kind # "prey"
  <2>5. PICK j : j = IF joined THEN AddSecondaryOne(d) ELSE d
    OBVIOUS
  <2>6. /\ AddSecondaryOne(d) \in Grounds(taken)
        /\ (d.born < Slots => AddSecondaryOne(d).born < Slots)
        /\ (Followed(d) => Followed(AddSecondaryOne(d)))
        /\ AddSecondaryOne(d).shots = d.shots
    BY <1>5, AddSecondaryOneSound, AddSecondaryOneShots
  <2>7. /\ j \in Grounds(taken) /\ (e.born < Slots => j.born < Slots)
        /\ (Followed(e) => Followed(j)) /\ j.shots = e.shots
    BY <1>5, <2>5, <2>6
  <2>8. Room(h, j)
    BY <1>2, <2>7 DEF Room
  <2>9. k = [g EXCEPT !.hunter = h, !.field = j, !.profile = p, !.round = r]
    <3>1. k = [g EXCEPT !.field = j]
      BY <1>1, <1>4, <1>8, <2>5 DEF Shot
    <3> QED
      BY <1>1, <1>3, <3>1
  <2>10. r.astray = g.round.astray /\ (Followed(g.field) => Followed(j))
    BY <1>1, <2>7
  <2>11. k \in Shoots(taken, fresh)
    BY <1>2, <2>7, <2>8, <2>9, <2>10, ShootsMade
  <2>12. k.hunter = h /\ k.field = j
    BY <1>3, <2>9
  <2> QED
    BY <1>1, <2>7, <2>11, <2>12
<1> QED
  BY <1>7, <1>8

(* The shot stays in the array.                                            *)
LEMMA KeptSound ==
  ASSUME NEW taken, NEW fresh, NEW g \in Shoots(taken, fresh),
         NEW b \in [weapon : taken, stuck : BOOLEAN],
         NEW k, k = [g EXCEPT !.field.shots = Append(@, b)]
  PROVE  k \in Shoots(taken, fresh) /\ Shooting(g, k)
<1>1. PICK h, e, p, r : h = g.hunter /\ e = g.field /\ p = g.profile /\ r = g.round
  OBVIOUS
<1>2. /\ h \in Hunters(taken) /\ e \in Grounds(taken) /\ p \in ProfileType /\ r \in RoundType
      /\ Room(h, e) /\ p.total = 0 /\ Tallied(p, r, fresh)
  BY <1>1, ShootsParts
<1>3. g \in [hunter : Hunters(taken), field : Grounds(taken), profile : ProfileType,
             round : RoundType]
  BY ShootsParts
<1>4. e.shots \in Seq([weapon : taken, stuck : BOOLEAN])
  BY <1>2, FieldParts
<1>5. PICK q : q = Append(e.shots, b)
  OBVIOUS
<1>6. q \in Seq([weapon : taken, stuck : BOOLEAN]) /\ Len(q) = Len(e.shots) + 1
  BY <1>4, <1>5, SeqGrown
<1>7. PICK f : f = [e EXCEPT !.shots = q]
  OBVIOUS
<1>8. /\ f \in Grounds(taken) /\ f.born = e.born /\ f.shots = q
      /\ Followed(e) => Followed(f)
  BY <1>2, <1>6, <1>7, ShotsChanged
<1>9. k = [g EXCEPT !.field = f]
  BY <1>1, <1>5, <1>7
<1>10. k \in [hunter : Hunters(taken), field : Grounds(taken), profile : ProfileType,
              round : RoundType]
  BY <1>3, <1>8, <1>9
<1>13. k.hunter = h /\ k.field = f /\ k.profile = g.profile /\ k.round = g.round
  BY <1>1, <1>3, <1>9
<1>11. Room(k.hunter, k.field) /\ (Followed(g.field) => Followed(k.field))
  BY <1>1, <1>2, <1>8, <1>13 DEF Room
<1>12. k \in Shoots(taken, fresh)
  BY <1>10, <1>11, <1>13, ShootsKept
<1>14. NoMore(h, h)
  BY <1>2, NoMoreRefl
<1>15. Len(k.field.shots) = Len(g.field.shots) + 1 /\ Len(e.shots) \in Nat
  BY <1>1, <1>4, <1>6, <1>8, <1>13, SeqParts
<1>16. NoMore(g.hunter, k.hunter)
  BY <1>1, <1>13, <1>14
<1> QED
  BY <1>1, <1>12, <1>15, <1>16 DEF Shooting

(* The shot is gone.                                                       *)
LEMMA GoneShooting ==
  ASSUME NEW taken, NEW fresh, NEW g \in Shoots(taken, fresh), NEW k,
         k.field.shots = g.field.shots
  PROVE  Shooting(g, k)
<1>1. g.field \in Grounds(taken)
  BY ShootsParts
<1>2. Len(g.field.shots) \in Nat
  BY <1>1, FieldParts, SeqParts
<1> QED
  BY <1>2 DEF Shooting

LEMMA AnimateBulletSound ==
  ASSUME outing \in Outings, NEW taken, NEW fresh, taken = outing.weapons,
         NEW g \in Shoots(taken, fresh),
         NEW shot \in [weapon : taken, stuck : BOOLEAN], NEW fate \in Fates,
         NEW target \in Nat, fate = "animal" => target # 0, NEW joined,
         NEW k, k = AnimateBullet(g, shot, fate, target, joined)
  PROVE  k \in Shoots(taken, fresh) /\ Shooting(g, k)
<1>1. PICK h, e, p, r : h = g.hunter /\ e = g.field /\ p = g.profile /\ r = g.round
  OBVIOUS
<1>2. /\ h \in Hunters(taken) /\ e \in Grounds(taken) /\ p \in ProfileType /\ r \in RoundType
      /\ Room(h, e) /\ p.total = 0 /\ Tallied(p, r, fresh)
  BY <1>1, ShootsParts
<1>3. g \in [hunter : Hunters(taken), field : Grounds(taken), profile : ProfileType,
             round : RoundType]
  BY ShootsParts
<1>4. PICK b : b = [shot EXCEPT !.stuck = @ \/ fate = "sticks"]
  OBVIOUS
<1>5. b \in [weapon : taken, stuck : BOOLEAN]
  BY <1>4
<1>6. PICK l : l = [g EXCEPT !.field.shots = Append(@, b)]
  OBVIOUS
<1>7. l \in Shoots(taken, fresh) /\ Shooting(g, l)
  BY <1>5, <1>6, KeptSound
<1>8. Shooting(g, g)
  BY GoneShooting
<1>9. CASE fate \in {"flies", "sticks"}
  <2>1. k = l
    BY <1>4, <1>6, <1>9 DEF AnimateBullet
  <2> QED
    BY <1>7, <2>1
<1>10. CASE fate = "lost"
  <2>1. k = g
    BY <1>10 DEF AnimateBullet
  <2> QED
    BY <1>8, <2>1
<1>11. CASE fate = "hunter"
  <2>1. CASE ~g.hunter.alive
    <3>1. k = g
      BY <1>11, <2>1 DEF AnimateBullet
    <3> QED
      BY <1>8, <3>1
  <2>2. CASE g.hunter.alive
    <3>1. PICK d, f : d = Killed(h) /\ f = AddDeadBody(e)
      OBVIOUS
    <3>2. d \in Hunters(taken) /\ d.alive = FALSE
      BY <1>2, <3>1, KilledSound
    <3>3. e.born < Slots
      BY <1>1, <1>2, <2>2 DEF Room
    <3>4. f \in Grounds(taken) /\ (Followed(e) => Followed(f)) /\ f.shots = e.shots
      BY <1>2, <3>1, <3>3, AddDeadBodySound
    <3>5. Room(d, f)
      BY <3>2 DEF Room
    <3>6. k = [g EXCEPT !.hunter = d, !.field = f]
      BY <1>1, <1>11, <2>2, <3>1 DEF AnimateBullet
    <3>7. k \in [hunter : Hunters(taken), field : Grounds(taken), profile : ProfileType,
                 round : RoundType]
      BY <1>3, <3>2, <3>4, <3>6
    <3>9. k.hunter = d /\ k.field = f /\ k.profile = g.profile /\ k.round = g.round
      BY <1>3, <3>6
    <3>a. Room(k.hunter, k.field) /\ (Followed(g.field) => Followed(k.field))
      BY <1>1, <3>4, <3>5, <3>9
    <3>8. k \in Shoots(taken, fresh)
      BY <3>7, <3>9, <3>a, ShootsKept
    <3>10. Shooting(g, k)
      BY <1>1, <3>4, <3>9, GoneShooting
    <3> QED
      BY <3>8, <3>10
  <2> QED
    BY <2>1, <2>2
<1>12. CASE fate = "animal"
  <2>1. CASE target <= g.field.count /\ g.field.slots[target].alive
    <3>1. target \in 1..Slots
      <4>1. e.count \in 0..Slots
        BY <1>2, FieldParts
      <4> QED
        BY <1>1, <1>12, <2>1, <4>1, SlotsNat
    <3>2. k = Shot(g, target, joined)
      BY <1>12, <2>1 DEF AnimateBullet
    <3>3. k \in Shoots(taken, fresh) /\ k.field.shots = g.field.shots
      BY <3>1, <3>2, ShotSound
    <3> QED
      BY <3>3, GoneShooting
  <2>2. CASE ~(target <= g.field.count /\ g.field.slots[target].alive)
    <3>1. k = g
      BY <1>12, <2>2 DEF AnimateBullet
    <3> QED
      BY <1>8, <3>1
  <2> QED
    BY <2>1, <2>2
<1>13. CASE fate = "picked"
  <2>1. PICK w, double : w = shot.weapon /\ double = outing.double
    OBVIOUS
  <2>2. w \in taken /\ w \in Weapons /\ double \in BOOLEAN
    BY <2>1, OutingFacts
  <2>3. CASE ~TakesBolt(h, w, double)
    <3>1. k = l
      BY <1>1, <1>4, <1>6, <1>13, <2>1, <2>3 DEF AnimateBullet
    <3> QED
      BY <1>7, <3>1
  <2>4. CASE TakesBolt(h, w, double)
    <3>1. PICK d : d = [h EXCEPT !.arms[w] = BoltTaken(@, w)]
      OBVIOUS
    <3>2. d \in Hunters(taken) /\ d.alive = h.alive
      BY <1>2, <2>2, <2>4, <3>1, BoltSound
    <3>3. Room(d, e)
      BY <1>2, <3>2 DEF Room
    <3>4. k = [g EXCEPT !.hunter = d]
      BY <1>1, <1>13, <2>1, <2>4, <3>1 DEF AnimateBullet
    <3>5. k \in [hunter : Hunters(taken), field : Grounds(taken), profile : ProfileType,
                 round : RoundType]
      BY <1>3, <3>2, <3>4
    <3>7. k.hunter = d /\ k.field = e /\ k.profile = g.profile /\ k.round = g.round
      BY <1>1, <1>3, <3>4
    <3>a. Room(k.hunter, k.field) /\ (Followed(g.field) => Followed(k.field))
      BY <1>1, <3>3, <3>7
    <3>6. k \in Shoots(taken, fresh)
      BY <3>5, <3>7, <3>a, ShootsKept
    <3>8. Shooting(g, k)
      BY <1>1, <3>7, GoneShooting
    <3> QED
      BY <3>6, <3>8
  <2> QED
    BY <2>3, <2>4
<1> QED
  BY <1>9, <1>10, <1>11, <1>12, <1>13 DEF Fates

(* All the shots, one after another: as many are left at most, and if none *)
(* is gone no bolt was picked up.                                          *)
LEMMA AnimateBulletsSound ==
  ASSUME outing \in Outings, NEW taken, NEW fresh, taken = outing.weapons,
         NEW start \in Shoots(taken, fresh), start.field.shots = <<>>,
         NEW shots \in Seq([weapon : taken, stuck : BOOLEAN]),
         NEW fate \in [1..Len(shots) -> Fates], NEW target \in [1..Len(shots) -> Nat],
         \A b \in 1..Len(shots) : fate[b] = "animal" => target[b] # 0, NEW joined,
         NEW k, k = AnimateBullets(start, shots, fate, target, joined)
  PROVE  /\ k \in Shoots(taken, fresh)
         /\ Len(k.field.shots) <= Len(shots)
         /\ Len(k.field.shots) = Len(shots) => NoMore(start.hunter, k.hunter)
<1> DEFINE G == Shoots(taken, fresh)
           Fired(x, b) == AnimateBullet(x, shots[b], fate[b], target[b], joined)
<1>1. PICK n \in Nat : n = Len(shots)
  BY SeqParts
<1>2. ASSUME NEW b \in 1..n, NEW x \in G PROVE Fired(x, b) \in G /\ Shooting(x, Fired(x, b))
  <2>1. /\ shots[b] \in [weapon : taken, stuck : BOOLEAN] /\ fate[b] \in Fates
        /\ target[b] \in Nat /\ (fate[b] = "animal" => target[b] # 0)
    BY <1>1, SeqParts
  <2>2. PICK s, d, t : s = shots[b] /\ d = fate[b] /\ t = target[b]
    OBVIOUS
  <2>3. PICK y : y = AnimateBullet(x, s, d, t, joined)
    OBVIOUS
  <2>4. y \in Shoots(taken, fresh) /\ Shooting(x, y)
    BY <2>1, <2>2, <2>3, AnimateBulletSound
  <2> QED
    BY <2>2, <2>3, <2>4
<1>3. PICK step : step = [b \in 1..n |-> [x \in G |-> Fired(x, b)]]
  OBVIOUS
<1>4. step \in [1..n -> [G -> G]]
  <2>1. ASSUME NEW b \in 1..n PROVE step[b] \in [G -> G]
    <3>1. step[b] = [x \in G |-> Fired(x, b)]
      BY <1>3
    <3>2. \A x \in G : Fired(x, b) \in G
      BY <1>2
    <3> HIDE DEF G, Fired
    <3> QED
      BY <3>1, <3>2
  <2> HIDE DEF G, Fired
  <2> QED
    BY <1>3, <2>1
<1>5. PICK f \in [0..n -> G] : f[0] = start /\ \A b \in 1..n : f[b] = step[b][f[b - 1]]
  <2>1. start \in G
    OBVIOUS
  <2> HIDE DEF G, Fired
  <2>2. Walks(G, start, n, step) # {}
    BY <1>4, <2>1, StepsExist
  <2> QED
    BY <2>2 DEF Walks
<1> DEFINE Whole(a) == [b \in 0..n |-> IF b = 0 THEN start ELSE Fired(a[b - 1], b)]
<1>6. f = Whole(f)
  <2>1. ASSUME NEW b \in 0..n PROVE f[b] = IF b = 0 THEN start ELSE Fired(f[b - 1], b)
    <3>1. CASE b = 0
      BY <1>5, <3>1
    <3>2. CASE b # 0
      <4>1. b \in 1..n /\ b - 1 \in 0..n
        BY <3>2
      <4>2. f[b - 1] \in G
        BY <1>5, <4>1
      <4> HIDE DEF G, Fired
      <4>3. step[b][f[b - 1]] = Fired(f[b - 1], b)
        BY <1>3, <4>1, <4>2
      <4> QED
        BY <1>5, <3>2, <4>1, <4>3
    <3> QED
      BY <3>1, <3>2
  <2> HIDE DEF G, Fired
  <2> QED
    BY <1>5, <2>1
<1>7. PICK after : after = CHOOSE a : a = Whole(a)
  OBVIOUS
<1>8. after = Whole(after)
  <2> HIDE DEF Whole
  <2> QED
    BY <1>6, <1>7
<1>9. k = after[n]
  BY <1>1, <1>7 DEF AnimateBullets
<1>10. after[0] = start
  BY <1>1, <1>8
<1>11. \A b \in 1..n : after[b] = Fired(after[b - 1], b)
  <2> HIDE DEF Fired
  <2> QED
    BY <1>1, <1>8
<1> HIDE DEF Whole, Fired, G
<1> DEFINE S == {m \in Nat : m <= n =>
                  /\ after[m] \in G /\ Len(after[m].field.shots) <= m
                  /\ Len(after[m].field.shots) = m => NoMore(start.hunter, after[m].hunter)}
<1>12. 0 \in S
  <2>1. start.hunter \in Hunters(taken)
    BY ShootsParts
  <2>2. NoMore(start.hunter, start.hunter)
    BY <2>1, NoMoreRefl
  <2> QED
    BY <1>10, <2>2 DEF G
<1>13. ASSUME NEW m \in Nat, m \in S PROVE m + 1 \in S
  <2> SUFFICES ASSUME m + 1 <= n
               PROVE  /\ after[m + 1] \in G /\ Len(after[m + 1].field.shots) <= m + 1
                      /\ Len(after[m + 1].field.shots) = m + 1
                           => NoMore(start.hunter, after[m + 1].hunter)
    OBVIOUS
  <2>1. PICK x, y : x = after[m] /\ y = after[m + 1]
    OBVIOUS
  <2>2. /\ x \in G /\ Len(x.field.shots) <= m
        /\ Len(x.field.shots) = m => NoMore(start.hunter, x.hunter)
    BY <1>13, <2>1
  <2>3. m + 1 \in 1..n /\ (m + 1) - 1 = m
    BY <1>1
  <2>4. y = Fired(x, m + 1)
    BY <1>11, <2>1, <2>3
  <2>5. y \in G /\ Shooting(x, y)
    BY <1>2, <2>2, <2>3, <2>4
  <2>6. Len(x.field.shots) \in Nat /\ Len(y.field.shots) \in Nat
    <3>1. x.field \in Grounds(taken) /\ y.field \in Grounds(taken)
      BY <2>2, <2>5, ShootsParts DEF G
    <3> QED
      BY <3>1, FieldParts, SeqParts
  <2>7. start.hunter \in Hunters(taken) /\ x.hunter \in Hunters(taken) /\ y.hunter \in Hunters(taken)
    BY <2>2, <2>5, ShootsParts DEF G
  <2>8. Len(y.field.shots) <= m + 1
    BY <2>2, <2>5, <2>6 DEF Shooting
  <2>9. ASSUME Len(y.field.shots) = m + 1 PROVE NoMore(start.hunter, y.hunter)
    <3>1. Len(x.field.shots) = m
      BY <2>2, <2>5, <2>6, <2>9 DEF Shooting
    <3>2. NoMore(start.hunter, x.hunter) /\ NoMore(x.hunter, y.hunter)
      BY <2>2, <2>5, <2>9, <3>1 DEF Shooting
    <3> QED
      BY <2>7, <3>2, NoMoreTrans
  <2> QED
    BY <2>1, <2>5, <2>8, <2>9
<1>14. n \in S
  <2> HIDE DEF S
  <2> QED
    BY <1>12, <1>13, SetInduction
<1> QED
  BY <1>1, <1>9, <1>14 DEF G

-----------------------------------------------------------------------------
(* The first state.                                                        *)

LEMMA InitSound ==
  ASSUME Init
  PROVE  IInv
<1>1. outing \in Outings
  BY DEF Init
<1>2. PICK taken, herd, fresh : taken = outing.weapons /\ herd = outing.herd /\ fresh = outing.fresh
  OBVIOUS
<1>3. herd \in Seq(Kinds) /\ Len(herd) < Slots /\ fresh \in BOOLEAN
  BY <1>1, <1>2, OutingFacts
<1>4. OutingInv
  BY <1>1 DEF Init, OutingInv, Phases
<1>5. HunterInv
  BY <1>1, FirstHunterSound DEF Init, HunterInv
<1>6. FieldInv
  <2>1. PICK s : s = [i \in 1..Slots |-> Blank]
    OBVIOUS
  <2>2. Blank \in AnimalType
    BY DEF Blank, Animal, AnimalType, Kinds
  <2>3. s \in [1..Slots -> AnimalType]
    BY <2>1, <2>2
  <2>4. field = Placed(s, herd)
    BY <1>2, <2>1 DEF Init
  <2>5. field \in Grounds(taken) /\ field.born = Len(herd) /\ Followed(field)
    BY <1>3, <2>3, <2>4, PlacedSound
  <2>6. Room(hunter, field)
    BY <1>3, <2>5 DEF Room
  <2>7. round \in RoundType
    BY DEF Init, NewRound, RoundType
  <2> QED
    BY <1>2, <2>5, <2>6, <2>7 DEF FieldInv
<1>7. ProfileInv
  <2>1. disk = [score |-> 0, total |-> 0, seen |-> ~outing.fresh, mounts |-> {}]
    BY DEF Init
  <2>2. profile = [score |-> 0, total |-> 0, last |-> 0, mounts |-> {}, seen |-> TRUE]
    BY DEF Init
  <2>3. round.kills = 0 /\ round.mounts = {} /\ restart = FALSE
    BY DEF Init, NewRound
  <2>4. PICK seen \in BOOLEAN : seen = ~outing.fresh
    BY <1>2, <1>3
  <2>5. disk = [score |-> 0, total |-> 0, seen |-> seen, mounts |-> {}]
    BY <2>1, <2>4
  <2>6. disk \in DiskType
    BY <2>5 DEF DiskType
  <2>7. profile \in ProfileType
    BY <2>2 DEF ProfileType
  <2>8. disk.score = 0 /\ disk.total = 0 /\ disk.mounts = {}
    BY <2>1
  <2>9. disk.seen = ~outing.fresh
    BY <2>1
  <2>10. Tallied(profile, round, outing.fresh) /\ profile.total = 0
    BY <2>2, <2>3 DEF Tallied
  <2> QED
    BY <2>3, <2>6, <2>7, <2>8, <2>9, <2>10 DEF ProfileInv
<1>8. OverInv
  BY DEF Init, OverInv
<1> QED
  BY <1>4, <1>5, <1>6, <1>7, <1>8 DEF IInv

-----------------------------------------------------------------------------
(* The keys.                                                               *)

(* No weapon holds more than before, or one of the three reasons is there. *)
Accounted ==
  \/ NoMore(hunter, hunter')
  \/ restart /\ ~restart'
  \/ field.bag # "taken" /\ field'.bag = "taken"
  \/ Len(field'.shots) < Len(field.shots)

LEMMA KeyStep ==
  ASSUME IInv, over = "no", NEW h \in Hunters(outing.weapons), Steady(hunter, h), ToHunter(h)
  PROVE  IInv' /\ Accounted
<1>1. /\ hunter' = h /\ outing' = outing /\ field' = field /\ profile' = profile
      /\ disk' = disk /\ phase' = phase /\ restart' = restart /\ over' = over /\ round' = round
  BY DEF ToHunter
<1>2. OutingInv'
  BY <1>1 DEF IInv, OutingInv
<1>3. HunterInv'
  BY <1>1 DEF HunterInv
<1>4. FieldInv'
  <2>1. Room(h, field)
    BY DEF IInv, FieldInv, Room, Steady
  <2> QED
    BY <1>1, <2>1 DEF IInv, FieldInv
<1>5. ProfileInv'
  BY <1>1 DEF IInv, ProfileInv
<1>6. OverInv'
  BY <1>1 DEF OverInv
<1> QED
  BY <1>1, <1>2, <1>3, <1>4, <1>5, <1>6 DEF IInv, Accounted, Steady

LEMMA HunterFact ==
  ASSUME IInv
  PROVE  hunter \in Hunters(outing.weapons)
BY DEF IInv, HunterInv

LEMMA KeyActions ==
  ASSUME IInv, \/ KeyWeapon \/ KeyBinocular \/ KeyMap \/ KeyPause \/ KeyEscape \/ KeyNo \/ KeyYes
  PROVE  IInv' /\ Accounted
<1>1. hunter \in Hunters(outing.weapons)
  BY HunterFact
<1>2. CASE KeyWeapon
  <2>1. PICK w \in Weapons : ToHunter(SelectWeapon(hunter, w)) /\ over = "no"
    BY <1>2 DEF KeyWeapon, Keys
  <2>2. SelectWeapon(hunter, w) \in Hunters(outing.weapons) /\ Steady(hunter, SelectWeapon(hunter, w))
    BY <1>1, SelectWeaponSound
  <2> QED
    BY <2>1, <2>2, KeyStep
<1>3. CASE KeyBinocular
  <2>1. /\ ToggleBinocular(hunter) \in Hunters(outing.weapons)
        /\ Steady(hunter, ToggleBinocular(hunter))
    BY <1>1, ToggleSound
  <2> QED
    BY <1>3, <2>1, KeyStep DEF KeyBinocular, Keys
<1>4. CASE KeyMap
  <2>1. /\ ToggleMapMode(hunter) \in Hunters(outing.weapons)
        /\ Steady(hunter, ToggleMapMode(hunter))
    BY <1>1, ToggleSound
  <2> QED
    BY <1>4, <2>1, KeyStep DEF KeyMap, Keys
<1>5. ASSUME IsMenu(hunter.mode)
      PROVE  /\ DismissMenuRestore(hunter) \in Hunters(outing.weapons)
             /\ Steady(hunter, DismissMenuRestore(hunter))
  BY <1>1, <1>5, DismissMenuRestoreSound
<1>6. CASE KeyPause
  <2>1. CASE hunter.mode = "Paused"
    <3>1. IsMenu(hunter.mode)
      BY <2>1 DEF IsMenu
    <3>2. ToHunter(DismissMenuRestore(hunter)) /\ over = "no"
      BY <1>6, <2>1 DEF KeyPause, Keys
    <3> QED
      BY <1>5, <3>1, <3>2, KeyStep
  <2>2. CASE hunter.mode # "Paused"
    <3>1. /\ EnterPauseMode(hunter) \in Hunters(outing.weapons)
          /\ Steady(hunter, EnterPauseMode(hunter))
      BY <1>1, <2>2, EnterPauseModeSound
    <3>2. ToHunter(EnterPauseMode(hunter)) /\ over = "no"
      BY <1>6, <2>2 DEF KeyPause, Keys
    <3> QED
      BY <3>1, <3>2, KeyStep
  <2> QED
    BY <2>1, <2>2
<1>7. CASE KeyEscape
  <2>1. CASE IsMenu(hunter.mode)
    <3>2. ToHunter(DismissMenuRestore(hunter)) /\ over = "no"
      BY <1>7, <2>1 DEF KeyEscape, Keys
    <3> QED
      BY <1>5, <2>1, <3>2, KeyStep
  <2>2. CASE ~IsMenu(hunter.mode)
    <3>1. EnterMenuMode(hunter) \in Hunters(outing.weapons) /\ Steady(hunter, EnterMenuMode(hunter))
      BY <1>1, <2>2, EnterMenuModeSound
    <3>2. ToHunter(EnterMenuMode(hunter)) /\ over = "no"
      BY <1>7, <2>2 DEF KeyEscape, Keys
    <3> QED
      BY <3>1, <3>2, KeyStep
  <2> QED
    BY <2>1, <2>2
<1>8. ASSUME hunter.mode = "ExitCountdown" PROVE IsMenu(hunter.mode)
  BY <1>8 DEF IsMenu
<1>9. CASE KeyNo
  <2>1. ToHunter(DismissMenuRestore(hunter)) /\ over = "no" /\ hunter.mode = "ExitCountdown"
    BY <1>9 DEF KeyNo, Keys
  <2> QED
    BY <1>5, <1>8, <2>1, KeyStep
<1>10. CASE KeyYes
  <2>1. ToHunter(ConfirmExitMenu(hunter)) /\ over = "no" /\ hunter.mode = "ExitCountdown"
    BY <1>10 DEF KeyYes, Keys
  <2>2. /\ ConfirmExitMenu(hunter) \in Hunters(outing.weapons)
        /\ Steady(hunter, ConfirmExitMenu(hunter))
    BY <1>1, <1>8, <2>1, ConfirmExitMenuSound
  <2> QED
    BY <2>1, <2>2, KeyStep
<1> QED
  BY <1>2, <1>3, <1>4, <1>6, <1>7, <1>9, <1>10

(* A restart throws what memory counted away: it is read from the disk,    *)
(* which has nothing of this round.                                        *)
LEMMA KeyRestartSound ==
  ASSUME IInv, KeyRestart
  PROVE  IInv' /\ Accounted
<1>1. /\ hunter' = hunter /\ outing' = outing /\ field' = field
      /\ disk' = disk /\ phase' = phase /\ over' = over /\ round' = round
      /\ phase = "keys" /\ over = "no"
  BY DEF KeyRestart, Keys
<1>2. profile' = LoadTrophy(profile, disk) /\ restart' = TRUE
  BY DEF KeyRestart
<1>3. OutingInv'
  BY <1>1, <1>2 DEF IInv, OutingInv
<1>4. HunterInv'
  BY <1>1 DEF IInv, HunterInv
<1>5. FieldInv'
  BY <1>1 DEF IInv, FieldInv
<1>6. ProfileInv'
  <2>1. /\ profile \in ProfileType /\ disk \in DiskType
        /\ disk.score = 0 /\ disk.total = 0 /\ disk.mounts = {}
    BY <1>1 DEF IInv, ProfileInv
  <2>2. disk.seen = ~outing.fresh
    BY <1>1 DEF IInv, ProfileInv
  <2>3. PICK m \in SUBSET Nat : m = IF disk.seen THEN disk.mounts ELSE profile.mounts
    BY <2>1 DEF ProfileType, DiskType
  <2>4. profile' = [score |-> disk.score, total |-> disk.total, last |-> 0, mounts |-> m, seen |-> TRUE]
    BY <1>2, <2>3 DEF LoadTrophy
  <2>5. profile' \in ProfileType
    BY <2>1, <2>4 DEF ProfileType
  <2>6. profile'.score = 0 /\ profile'.total = 0 /\ profile'.last = 0 /\ profile'.mounts = m
    BY <2>1, <2>4
  <2>7. ~outing.fresh => profile'.mounts = {}
    BY <2>1, <2>2, <2>3, <2>6
  <2>8. Emptied(profile', outing.fresh)
    BY <2>6, <2>7 DEF Emptied
  <2> QED
    BY <1>1, <1>2, <2>1, <2>2, <2>5, <2>6, <2>8 DEF ProfileInv
<1>7. OverInv'
  BY <1>1 DEF OverInv
<1>8. NoMore(hunter, hunter')
  BY <1>1, HunterFact, NoMoreRefl
<1> QED
  BY <1>3, <1>4, <1>5, <1>6, <1>7, <1>8 DEF IInv, Accounted

LEMMA KeyQuitSound ==
  ASSUME IInv, KeyQuit
  PROVE  IInv' /\ Accounted
<1>1. /\ hunter' = hunter /\ outing' = outing /\ field' = field /\ profile' = profile
      /\ disk' = disk /\ phase' = phase /\ restart' = restart /\ round' = round
      /\ phase = "keys" /\ over = "no" /\ over' = "quit"
  BY DEF KeyQuit, Keys
<1>2. OutingInv'
  BY <1>1 DEF IInv, OutingInv
<1>3. HunterInv'
  BY <1>1 DEF IInv, HunterInv
<1>4. FieldInv'
  BY <1>1 DEF IInv, FieldInv
<1>5. ProfileInv'
  BY <1>1 DEF IInv, ProfileInv
<1>6. OverInv'
  BY <1>1 DEF OverInv
<1>7. NoMore(hunter, hunter')
  BY <1>1, HunterFact, NoMoreRefl
<1> QED
  BY <1>2, <1>3, <1>4, <1>5, <1>6, <1>7 DEF IInv, Accounted

-----------------------------------------------------------------------------
(* The frame: what its steps have in common.                               *)

LEMMA Running ==
  ASSUME IInv
  PROVE  /\ phase \in {"animals", "bullets", "processes"} => over = "no"
         /\ phase = "controls" => over = "no" \/ (over = "quit" /\ field.demo.time = 4)
         /\ phase # "keys" /\ over # "left" => ~restart
<1>1. over = "quit" => phase = "keys" \/ (phase = "controls" /\ field.demo.time = 4)
  BY DEF IInv, OverInv
<1>2. over = "left" => phase = "draw"
  BY DEF IInv, OverInv
<1>3. over \in {"no", "quit", "left"}
  BY DEF IInv, OverInv
<1>4. over # "left" => (restart => phase = "keys")
  BY DEF IInv, ProfileInv
<1> QED
  BY <1>1, <1>2, <1>3, <1>4

(* A step that leaves profile, disk and round alone, within a frame.       *)
LEMMA Carried ==
  ASSUME IInv, over = "no", phase # "keys", phase' \in Phases, over' \in {"no", "quit"},
         over' = "quit" => phase' = "keys" \/ (phase' = "controls" /\ field'.demo.time = 4),
         outing' = outing, hunter' \in Hunters(outing.weapons), field' \in Grounds(outing.weapons),
         Room(hunter', field'), Followed(field) => Followed(field'),
         profile' = profile, disk' = disk, restart' = restart, round' = round
  PROVE  IInv'
<1>1. OutingInv'
  BY DEF IInv, OutingInv
<1>2. HunterInv'
  BY DEF HunterInv
<1>3. FieldInv'
  BY DEF IInv, FieldInv
<1>4. ~restart
  BY Running
<1>5. ProfileInv'
  BY <1>4 DEF IInv, ProfileInv
<1>6. OverInv'
  BY DEF OverInv
<1> QED
  BY <1>1, <1>2, <1>3, <1>5, <1>6 DEF IInv

LEMMA FieldFact ==
  ASSUME IInv
  PROVE  /\ outing \in Outings /\ field \in Grounds(outing.weapons) /\ Room(hunter, field)
         /\ round \in RoundType /\ (~round.astray => Followed(field))
         /\ hunter \in Hunters(outing.weapons)
BY DEF IInv, FieldInv, OutingInv, HunterInv

LEMMA DrawSound ==
  ASSUME IInv, Draw
  PROVE  IInv' /\ Accounted
<1>1. PICK done \in BOOLEAN, pumpDone \in BOOLEAN, gone \in BOOLEAN :
        /\ hunter' = IF field.demo.time > 0 THEN hunter
                     ELSE AnimateWeapon(hunter, done, pumpDone)
        /\ field' = IF gone THEN [field EXCEPT !.scoreUp = FALSE] ELSE field
  BY DEF Draw
<1>2. /\ phase = "draw" /\ over = "no" /\ phase' = "keys" /\ outing' = outing
      /\ profile' = profile /\ disk' = disk /\ restart' = restart /\ over' = over /\ round' = round
  BY DEF Draw
<1>3. /\ field \in Grounds(outing.weapons) /\ Room(hunter, field)
      /\ hunter \in Hunters(outing.weapons)
  BY FieldFact
<1>4. /\ AnimateWeapon(hunter, done, pumpDone) \in Hunters(outing.weapons)
      /\ Steady(hunter, AnimateWeapon(hunter, done, pumpDone))
  BY <1>3, AnimateWeaponSound
<1>5. Steady(hunter, hunter)
  BY <1>3, SteadyRefl
<1>6. hunter' \in Hunters(outing.weapons) /\ Steady(hunter, hunter')
  BY <1>1, <1>3, <1>4, <1>5
<1>7. field' \in Grounds(outing.weapons) /\ field'.born = field.born /\ (Followed(field) => Followed(field'))
  <2>1. PICK x \in BOOLEAN : x = FALSE
    OBVIOUS
  <2>2. PICK g : g = [field EXCEPT !.scoreUp = x]
    OBVIOUS
  <2>3. g \in Grounds(outing.weapons) /\ g.born = field.born /\ (Followed(field) => Followed(g))
    BY <1>3, <2>2, ScoreShown
  <2>4. field' = IF gone THEN g ELSE field
    BY <1>1, <2>1, <2>2
  <2> QED
    BY <1>3, <2>3, <2>4
<1>8. Room(hunter', field')
  BY <1>3, <1>6, <1>7 DEF Room, Steady
<1>9. phase' \in Phases /\ over' = "no" /\ phase # "keys"
  BY <1>2 DEF Phases
<1>10. IInv'
  BY <1>2, <1>6, <1>7, <1>8, <1>9, Carried
<1> QED
  BY <1>6, <1>10 DEF Accounted, Steady

LEMMA AnimalsSound ==
  ASSUME IInv, Animals
  PROVE  IInv' /\ Accounted
<1>a. PICK c \in Trophies(field) \cup {0}, caught \in BOOLEAN :
        LET f == [field EXCEPT !.shown =
                   IF c = 0 THEN NotShown
                   ELSE [on |-> TRUE, body |-> c, id |-> field.slots[c].id]]
        IN /\ caught => outing.wild /\ hunter.alive /\ Live(field) # {}
           /\ hunter' = IF caught THEN Killed(hunter) ELSE hunter
           /\ field' = IF caught THEN AddDeadBody(f) ELSE f
  BY Zenon DEF Animals
<1>b. PICK f : f = [field EXCEPT !.shown =
                     IF c = 0 THEN NotShown
                     ELSE [on |-> TRUE, body |-> c, id |-> field.slots[c].id]]
  OBVIOUS
<1>1. /\ caught => hunter.alive
      /\ hunter' = IF caught THEN Killed(hunter) ELSE hunter
      /\ field' = IF caught THEN AddDeadBody(f) ELSE f
  BY <1>a, <1>b
<1>2. /\ phase = "animals" /\ phase' = "bullets" /\ outing' = outing
      /\ profile' = profile /\ disk' = disk /\ restart' = restart /\ over' = over /\ round' = round
  BY DEF Animals
<1>3. /\ field \in Grounds(outing.weapons) /\ Room(hunter, field)
      /\ hunter \in Hunters(outing.weapons)
  BY FieldFact
<1>4. over = "no"
  BY <1>2, Running
<1>5. /\ f \in Grounds(outing.weapons) /\ f.born = field.born
      /\ Followed(field) => Followed(f)
  BY <1>b, <1>3, ShownSound
<1>6. phase' \in Phases /\ over' = "no" /\ phase # "keys"
  BY <1>2, <1>4 DEF Phases
<1>7. CASE ~caught
  <2>1. hunter' = hunter /\ field' = f
    BY <1>1, <1>7
  <2>2. hunter' \in Hunters(outing.weapons) /\ field' \in Grounds(outing.weapons)
    BY <1>3, <1>5, <2>1
  <2>3. Room(hunter', field') /\ (Followed(field) => Followed(field'))
    BY <1>3, <1>5, <2>1 DEF Room
  <2>4. IInv'
    BY <1>2, <1>4, <1>6, <2>2, <2>3, Carried
  <2>5. NoMore(hunter, hunter')
    BY <1>3, <2>1, NoMoreRefl
  <2> QED
    BY <2>4, <2>5 DEF Accounted
<1>8. CASE caught
  <2>1. hunter' = Killed(hunter) /\ field' = AddDeadBody(f)
    BY <1>1, <1>8
  <2>2. f.born < Slots
    BY <1>1, <1>3, <1>5, <1>8 DEF Room
  <2>3. /\ Killed(hunter) \in Hunters(outing.weapons) /\ NoMore(hunter, Killed(hunter))
        /\ Killed(hunter).alive = FALSE
    BY <1>3, KilledSound
  <2>4. AddDeadBody(f) \in Grounds(outing.weapons) /\ (Followed(f) => Followed(AddDeadBody(f)))
    BY <1>5, <2>2, AddDeadBodySound
  <2>5. hunter' \in Hunters(outing.weapons) /\ field' \in Grounds(outing.weapons)
    BY <2>1, <2>3, <2>4
  <2>6. Room(hunter', field') /\ (Followed(field) => Followed(field'))
    BY <1>5, <2>1, <2>3, <2>4 DEF Room
  <2>7. IInv'
    BY <1>2, <1>4, <1>6, <2>5, <2>6, Carried
  <2> QED
    BY <2>1, <2>3, <2>7 DEF Accounted
<1> QED
  BY <1>7, <1>8

LEMMA BulletsSound ==
  ASSUME IInv, Bullets
  PROVE  IInv' /\ Accounted
<1>1. PICK n \in Nat : n = Len(field.shots)
  <2>1. field \in Grounds(outing.weapons)
    BY FieldFact
  <2>2. field.shots \in Seq([weapon : outing.weapons, stuck : BOOLEAN])
    BY <2>1, FieldParts
  <2>3. Len(field.shots) \in Nat
    BY <2>2, SeqParts
  <2> QED
    BY <2>3
<1>2. PICK fate \in [1..n -> Fates], target \in [1..n -> 0..field.count], joined \in BOOLEAN :
        /\ \A b \in 1..n : (fate[b] = "animal") = (target[b] # 0)
        /\ LET none == [hunter |-> hunter, field |-> [field EXCEPT !.shots = <<>>],
                        profile |-> profile, round |-> round]
               all == AnimateBullets(none, field.shots, fate, target, joined)
           IN /\ hunter' = all.hunter
              /\ field' = all.field
              /\ profile' = all.profile
              /\ round' = all.round
  BY <1>1 DEF Bullets
<1>3. /\ phase = "bullets" /\ phase' = "processes" /\ outing' = outing /\ disk' = disk
      /\ restart' = restart /\ over' = over
  BY DEF Bullets
<1>4. over = "no" /\ ~restart
  BY <1>3, Running
<1>5. PICK taken, fresh : taken = outing.weapons /\ fresh = outing.fresh
  OBVIOUS
<1>6. /\ outing \in Outings /\ field \in Grounds(taken) /\ Room(hunter, field)
      /\ round \in RoundType /\ (~round.astray => Followed(field))
      /\ hunter \in Hunters(taken)
  BY <1>5, FieldFact
<1>7. profile \in ProfileType /\ profile.total = 0 /\ Tallied(profile, round, fresh)
  BY <1>4, <1>5 DEF IInv, ProfileInv
<1>8. field.shots \in Seq([weapon : taken, stuck : BOOLEAN]) /\ field.count \in 0..Slots
  BY <1>6, FieldParts
<1>9. PICK f : f = [field EXCEPT !.shots = <<>>]
  OBVIOUS
<1>10. PICK q \in Seq([weapon : taken, stuck : BOOLEAN]) : q = <<>>
  <2>1. <<>> \in Seq([weapon : taken, stuck : BOOLEAN])
    OBVIOUS
  <2> QED
    BY <2>1
<1>11. f = [field EXCEPT !.shots = q]
  BY <1>9, <1>10
<1>12. f \in Grounds(taken) /\ f.born = field.born /\ f.shots = q /\ (Followed(field) => Followed(f))
  BY <1>6, <1>11, ShotsChanged, SMTT(30)
<1>13. PICK none : none = [hunter |-> hunter, field |-> f, profile |-> profile, round |-> round]
  OBVIOUS
<1>14. none.hunter = hunter /\ none.field = f /\ none.profile = profile /\ none.round = round
  BY <1>13
<1>15. none \in [hunter : Hunters(taken), field : Grounds(taken), profile : ProfileType,
                 round : RoundType]
  BY <1>6, <1>7, <1>12, <1>13
<1>16. none \in Shoots(taken, fresh)
  <2>1. Room(none.hunter, none.field)
    BY <1>6, <1>12, <1>14 DEF Room
  <2>2. ~none.round.astray => Followed(none.field)
    BY <1>6, <1>12, <1>14
  <2>3. none.profile.total = 0 /\ Tallied(none.profile, none.round, fresh)
    BY <1>7, <1>14
  <2> QED
    BY <1>15, <2>1, <2>2, <2>3 DEF Shoots
<1>17. PICK all : all = AnimateBullets(none, field.shots, fate, target, joined)
  OBVIOUS
<1>18. /\ hunter' = all.hunter /\ field' = all.field
       /\ profile' = all.profile /\ round' = all.round
  BY <1>2, <1>9, <1>13, <1>17
<1>19. /\ all \in Shoots(taken, fresh)
       /\ Len(all.field.shots) <= Len(field.shots)
       /\ Len(all.field.shots) = Len(field.shots) => NoMore(none.hunter, all.hunter)
  <2>1. fate \in [1..Len(field.shots) -> Fates]
    BY <1>1, <1>2
  <2>2. target \in [1..Len(field.shots) -> Nat]
    BY <1>1, <1>2, <1>8
  <2>3. \A b \in 1..Len(field.shots) : fate[b] = "animal" => target[b] # 0
    BY <1>1, <1>2
  <2>4. none.field.shots = <<>>
    BY <1>10, <1>12, <1>14
  <2> QED
    BY <1>5, <1>6, <1>8, <1>16, <1>17, <2>1, <2>2, <2>3, <2>4, AnimateBulletsSound
<1>20. /\ hunter' \in Hunters(taken) /\ field' \in Grounds(taken)
       /\ profile' \in ProfileType /\ round' \in RoundType
       /\ Room(hunter', field') /\ (~round'.astray => Followed(field'))
       /\ profile'.total = 0 /\ Tallied(profile', round', fresh)
  BY <1>18, <1>19, ShootsParts
<1>21. OutingInv'
  BY <1>3 DEF IInv, OutingInv, Phases
<1>22. HunterInv'
  BY <1>3, <1>5, <1>20 DEF HunterInv
<1>23. FieldInv'
  BY <1>3, <1>5, <1>20 DEF FieldInv
<1>24. ProfileInv'
  <2>1. disk \in DiskType /\ disk.score = 0 /\ disk.total = 0 /\ disk.mounts = {}
    BY <1>4 DEF IInv, ProfileInv
  <2>2. disk.seen = ~outing.fresh
    BY <1>4 DEF IInv, ProfileInv
  <2> QED
    BY <1>3, <1>4, <1>5, <1>20, <2>1, <2>2 DEF ProfileInv
<1>25. OverInv'
  BY <1>3, <1>4 DEF OverInv
<1>26. Accounted
  <2>1. Len(all.field.shots) \in Nat /\ Len(field.shots) \in Nat
    <3>1. all.field \in Grounds(taken)
      BY <1>19, ShootsParts
    <3> QED
      BY <1>6, <3>1, FieldParts, SeqParts
  <2>2. CASE Len(all.field.shots) = Len(field.shots)
    BY <1>14, <1>18, <1>19, <2>2 DEF Accounted
  <2>3. CASE Len(all.field.shots) < Len(field.shots)
    BY <1>18, <2>3 DEF Accounted
  <2> QED
    BY <1>19, <2>1, <2>2, <2>3
<1> QED
  BY <1>21, <1>22, <1>23, <1>24, <1>25, <1>26 DEF IInv

LEMMA FrameBeginsSound ==
  ASSUME IInv, FrameBegins
  PROVE  IInv' /\ Accounted
<1>1. /\ phase = "keys" /\ over = "no" /\ outing' = outing /\ disk' = disk /\ over' = over
      /\ restart' = FALSE
  BY DEF FrameBegins
<1>2. phase' \in Phases
  BY DEF FrameBegins, Phases
<1>3. PICK taken, herd, fresh : taken = outing.weapons /\ herd = outing.herd /\ fresh = outing.fresh
  OBVIOUS
<1>4. /\ outing \in Outings /\ field \in Grounds(taken) /\ Room(hunter, field)
      /\ round \in RoundType /\ (~round.astray => Followed(field))
      /\ hunter \in Hunters(taken)
  BY <1>3, FieldFact
<1>5. /\ profile \in ProfileType /\ profile.total = 0 /\ disk \in DiskType
      /\ disk.score = 0 /\ disk.total = 0 /\ disk.mounts = {}
  BY <1>1 DEF IInv, ProfileInv
<1>6. disk.seen = ~outing.fresh
  BY <1>1 DEF IInv, ProfileInv
<1>7. OutingInv'
  BY <1>1, <1>2, <1>4 DEF OutingInv
<1>8. OverInv'
  BY <1>1 DEF OverInv
<1>9. CASE restart
  <2>1. /\ hunter' = NewHunter(outing, hunter)
        /\ field' = [Placed(field.slots, herd) EXCEPT !.scoreUp = field.scoreUp]
        /\ profile' = [profile EXCEPT !.last = 0]
        /\ round' = NewRound
    BY <1>3, <1>9 DEF FrameBegins
  <2>2. hunter' \in Hunters(taken)
    <3>1. hunter \in LooseType
      <4>1. hunter \in HunterType
        BY <1>4, Parts
      <4>2. Weapons \subseteq Nat
        BY WeaponAssumption
      <4> QED
        BY <4>1, <4>2 DEF HunterType, LooseType
    <3>2. \A w \in Weapons : Fit(w, hunter.arms[w])
      BY <1>4, Parts
    <3>3. \A w \in Weapons \ outing.weapons : hunter.arms[w] = NoArm
      BY <1>3, <1>4 DEF Hunters
    <3>4. NewHunter(outing, hunter) \in Hunters(outing.weapons)
      BY <1>4, <3>1, <3>2, <3>3, NewHunterSound
    <3> QED
      BY <1>3, <2>1, <3>4
  <2>3. herd \in Seq(Kinds) /\ Len(herd) < Slots
    BY <1>3, <1>4, OutingFacts
  <2>4. field.slots \in [1..Slots -> AnimalType] /\ field.scoreUp \in BOOLEAN
    BY <1>4, FieldParts
  <2>5. PICK s, x, g : s = field.slots /\ x = field.scoreUp /\ g = field'
    OBVIOUS
  <2>6. g = [Placed(s, herd) EXCEPT !.scoreUp = x]
    BY <2>1, <2>5
  <2>a. s \in [1..Slots -> AnimalType] /\ x \in BOOLEAN
    BY <2>4, <2>5
  <2>b. PICK f : f = Placed(s, herd)
    OBVIOUS
  <2>c. f \in Grounds(taken) /\ f.born = Len(herd) /\ Followed(f)
    BY <2>3, <2>a, <2>b, PlacedSound
  <2>d. g = [f EXCEPT !.scoreUp = x]
    BY <2>6, <2>b
  <2>e. g \in Grounds(taken) /\ g.born = f.born /\ (Followed(f) => Followed(g))
    BY <2>a, <2>c, <2>d, ScoreShown
  <2>7. g \in Grounds(taken) /\ g.born = Len(herd) /\ Followed(g)
    BY <2>c, <2>e
  <2>8. field' \in Grounds(taken) /\ Followed(field')
    BY <2>5, <2>7
  <2>9. Room(hunter', field')
    BY <2>3, <2>5, <2>7 DEF Room
  <2>10. round' \in RoundType /\ round'.kills = 0 /\ round'.mounts = {}
    BY <2>1 DEF NewRound, RoundType
  <2>11. Emptied(profile, fresh)
    BY <1>1, <1>3, <1>9 DEF IInv, ProfileInv
  <2>12. profile' \in ProfileType
    BY <1>5, <2>1 DEF ProfileType
  <2>13. /\ profile'.score = profile.score /\ profile'.total = 0 /\ profile'.last = 0
         /\ profile'.mounts = profile.mounts
    BY <1>5, <2>1 DEF ProfileType
  <2>14. Tallied(profile', round', fresh)
    BY <2>10, <2>11, <2>13 DEF Tallied, Emptied
  <2>15. HunterInv'
    BY <1>1, <1>3, <2>2 DEF HunterInv
  <2>16. FieldInv'
    BY <1>1, <1>3, <2>8, <2>9, <2>10 DEF FieldInv
  <2>f. profile'.total = 0
    BY <2>13
  <2>17. ProfileInv'
    BY <1>1, <1>3, <1>5, <1>6, <2>12, <2>14, <2>f DEF ProfileInv
  <2>18. Accounted
    BY <1>1, <1>9 DEF Accounted
  <2> QED
    BY <1>7, <1>8, <2>15, <2>16, <2>17, <2>18 DEF IInv
<1>10. CASE ~restart
  <2>1. hunter' = hunter /\ field' = field /\ profile' = profile /\ round' = round
    BY <1>10 DEF FrameBegins
  <2>2. HunterInv'
    BY <1>1, <1>3, <1>4, <2>1 DEF HunterInv
  <2>3. FieldInv'
    BY <1>1, <1>3, <1>4, <2>1 DEF FieldInv
  <2>4. Tallied(profile, round, fresh)
    BY <1>1, <1>3, <1>10 DEF IInv, ProfileInv
  <2>5. ProfileInv'
    BY <1>1, <1>3, <1>5, <1>6, <2>1, <2>4 DEF ProfileInv
  <2>6. NoMore(hunter, hunter')
    BY <1>4, <2>1, NoMoreRefl
  <2> QED
    BY <1>7, <1>8, <2>2, <2>3, <2>5, <2>6 DEF IInv, Accounted
<1> QED
  BY <1>9, <1>10

(* The closing scene: the hunter is dead or gone, and only the scene and   *)
(* the mode slot move on.                                                  *)
LEMMA ClosingSceneSound ==
  ASSUME IInv, ClosingScene
  PROVE  IInv' /\ Accounted
<1>1. /\ phase = "controls" /\ field.demo.time > 0 /\ outing' = outing /\ profile' = profile
      /\ disk' = disk /\ restart' = restart /\ round' = round
  BY DEF ClosingScene
<1>2. PICK further \in BOOLEAN, jumps \in BOOLEAN, afloat \in BOOLEAN, deep \in BOOLEAN :
       LET t == field.demo.time
           plain == IF hunter.mode \in {"Binocular", "OpticScope"}
                    THEN [hunter EXCEPT !.mode = "Normal"] ELSE hunter
           asked == IF t >= 3 /\ plain.mode # "Paused"
                    THEN EnterExitCountdownNoStash(plain) ELSE plain
       IN IF t = 4
          THEN /\ ~further
               /\ hunter' = asked
               /\ over' = "quit"
               /\ UNCHANGED <<field, phase>>
          ELSE /\ hunter' = Stowed(Swum(asked, jumps, afloat, deep))
               /\ field' = DemoMoves(field, further)
               /\ over' = over
               /\ phase' = "animals"
  BY DEF ClosingScene
<1>a. PICK t, plain :
        /\ t = field.demo.time
        /\ plain = IF hunter.mode \in {"Binocular", "OpticScope"}
                   THEN [hunter EXCEPT !.mode = "Normal"] ELSE hunter
  OBVIOUS
<1>b. PICK asked : asked = IF t >= 3 /\ plain.mode # "Paused"
                           THEN EnterExitCountdownNoStash(plain) ELSE plain
  OBVIOUS
<1>c. IF t = 4
      THEN hunter' = asked /\ over' = "quit" /\ UNCHANGED <<field, phase>>
      ELSE /\ hunter' = Stowed(Swum(asked, jumps, afloat, deep))
           /\ field' = DemoMoves(field, further)
           /\ over' = over
           /\ phase' = "animals"
  BY <1>2, <1>a, <1>b
<1>3. PICK taken : taken = outing.weapons
  OBVIOUS
<1>4. /\ field \in Grounds(taken) /\ Room(hunter, field) /\ hunter \in Hunters(taken)
      /\ round \in RoundType /\ (~round.astray => Followed(field))
  BY <1>3, FieldFact
<1>5. ~restart /\ (over = "no" \/ (over = "quit" /\ field.demo.time = 4))
  BY <1>1, Running
<1>6. plain \in Hunters(taken) /\ Steady(hunter, plain)
  <2>1. Steady(hunter, hunter)
    BY <1>4, SteadyRefl
  <2>2. PICK m \in {"Normal", "Swimming", "Underwater", "Binocular", "MapMode"} : m = "Normal"
    OBVIOUS
  <2>3. [hunter EXCEPT !.mode = m] \in Hunters(taken) /\ Steady(hunter, [hunter EXCEPT !.mode = m])
    BY <1>4, PlainMode
  <2>4. plain = hunter \/ plain = [hunter EXCEPT !.mode = m]
    BY <1>a, <2>2
  <2> QED
    BY <1>4, <2>1, <2>3, <2>4
<1>7. asked \in Hunters(taken) /\ Steady(hunter, asked)
  <2>1. /\ EnterExitCountdownNoStash(plain) \in Hunters(taken)
        /\ Steady(plain, EnterExitCountdownNoStash(plain))
    BY <1>6, EnterExitCountdownNoStashSound
  <2>2. Steady(hunter, EnterExitCountdownNoStash(plain))
    BY <1>4, <1>6, <2>1, SteadyTrans
  <2>3. asked = plain \/ asked = EnterExitCountdownNoStash(plain)
    BY <1>b
  <2> QED
    BY <1>6, <2>1, <2>2, <2>3
<1>8. CASE t = 4
  <2>1. /\ hunter' = asked /\ over' = "quit" /\ field' = field /\ phase' = phase
    BY <1>8, <1>c
  <2>2. OutingInv'
    BY <1>1, <2>1 DEF IInv, OutingInv
  <2>3. HunterInv'
    BY <1>1, <1>3, <1>7, <2>1 DEF HunterInv
  <2>4. Room(asked, field)
    BY <1>4, <1>7 DEF Room, Steady
  <2>5. FieldInv'
    BY <1>1, <1>3, <1>4, <2>1, <2>4 DEF FieldInv
  <2>6. ProfileInv'
    BY <1>1, <1>5, <2>1 DEF IInv, ProfileInv
  <2>7. OverInv'
    BY <1>1, <1>8, <1>a, <2>1 DEF OverInv
  <2>8. NoMore(hunter, hunter')
    BY <1>7, <2>1 DEF Steady
  <2> QED
    BY <2>2, <2>3, <2>5, <2>6, <2>7, <2>8 DEF IInv, Accounted
<1>9. CASE t # 4
  <2>1. /\ hunter' = Stowed(Swum(asked, jumps, afloat, deep)) /\ over' = over
        /\ field' = DemoMoves(field, further) /\ phase' = "animals"
    BY <1>9, <1>c
  <2>2. PICK k, l : k = Swum(asked, jumps, afloat, deep) /\ l = Stowed(k)
    OBVIOUS
  <2>3. k \in Hunters(taken) /\ Steady(asked, k)
    BY <1>7, <2>2, SwumSound
  <2>4. l \in Hunters(taken) /\ Steady(k, l)
    BY <2>2, <2>3, StowedSound
  <2>5. Steady(hunter, k)
    BY <1>4, <1>7, <2>3, SteadyTrans
  <2>6. Steady(hunter, l)
    BY <1>4, <2>3, <2>4, <2>5, SteadyTrans
  <2>7. PICK g : g = DemoMoves(field, further)
    OBVIOUS
  <2>8. field.demo.time # 4
    BY <1>9, <1>a
  <2>9. g \in Grounds(taken) /\ g.born = field.born /\ (Followed(field) => Followed(g))
    BY <1>1, <1>4, <2>7, <2>8, DemoMovesSound
  <2>10. Room(l, g)
    BY <1>4, <2>6, <2>9 DEF Room, Steady
  <2>11. hunter' = l /\ field' = g /\ over = "no" /\ over' = "no" /\ phase' \in Phases
    BY <1>5, <2>1, <2>2, <2>7, <2>8 DEF Phases
  <2>12. hunter' \in Hunters(outing.weapons) /\ field' \in Grounds(outing.weapons)
    BY <1>3, <2>4, <2>9, <2>11
  <2>13. Room(hunter', field') /\ (Followed(field) => Followed(field')) /\ phase # "keys"
    BY <1>1, <2>9, <2>10, <2>11
  <2>14. IInv'
    BY <1>1, <2>11, <2>12, <2>13, Carried
  <2>15. NoMore(hunter, hunter')
    BY <2>6, <2>11 DEF Steady
  <2> QED
    BY <2>14, <2>15 DEF Accounted
<1> QED
  BY <1>8, <1>9

(* The end of the countdown: what is counted is written once, with the     *)
(* room only after the profile, and only of a hunter who lives.            *)
LEMMA LeaveSound ==
  ASSUME NEW p \in ProfileType, NEW d \in DiskType, NEW r \in RoundType, NEW fresh,
         NEW alive \in BOOLEAN, NEW parts \in SavedParts,
         Tallied(p, r, fresh), p.total = p.score,
         d.score = 0, d.total = 0, d.mounts = {}, NEW e, e = Leave(p, d, alive, parts)
  PROVE  /\ e \in DiskType
         /\ e.score # 0 \/ e.total # 0 \/ e.mounts # {} => alive
         /\ e.score \in {0, r.kills} /\ e.total = e.score
         /\ ~fresh => e.mounts \in {{}, r.mounts}
         /\ e.mounts # {} => e.score = r.kills
<1>1. CASE ~alive
  <2>1. e = d
    BY <1>1 DEF Leave
  <2> QED
    BY <1>1, <2>1
<1>2. CASE alive
  <2>1. PICK score \in Nat, total \in Nat, mounts \in SUBSET Nat :
          /\ score = IF "profile" \in parts THEN p.score ELSE d.score
          /\ total = IF "profile" \in parts THEN p.total ELSE d.total
          /\ mounts = IF "room" \in parts THEN p.mounts ELSE d.mounts
    BY DEF ProfileType, DiskType
  <2>2. PICK seen \in BOOLEAN : seen = ("profile" \in parts \/ d.seen)
    BY DEF DiskType
  <2>3. e = [score |-> score, total |-> total, seen |-> seen, mounts |-> mounts]
    BY <1>2, <2>1, <2>2 DEF Leave, SaveTrophy
  <2>4. e \in DiskType
    BY <2>3 DEF DiskType
  <2>5. e.score = score /\ e.total = total /\ e.mounts = mounts
    BY <2>3
  <2>6. p.score = r.kills /\ (~fresh => p.mounts = r.mounts)
    BY DEF Tallied
  <2>7. CASE "profile" \in parts
    <3>1. score = r.kills /\ total = score
      BY <2>1, <2>6, <2>7
    <3>2. ~fresh => mounts \in {{}, r.mounts}
      BY <2>1, <2>6
    <3> QED
      BY <1>2, <2>4, <2>5, <3>1, <3>2
  <2>8. CASE "profile" \notin parts
    <3>1. "room" \notin parts
      BY <2>8 DEF SavedParts
    <3>2. score = 0 /\ total = 0 /\ mounts = {}
      BY <2>1, <2>8, <3>1
    <3> QED
      BY <1>2, <2>4, <2>5, <3>2
  <2> QED
    BY <2>7, <2>8
<1> QED
  BY <1>1, <1>2

LEMMA ProcessesSound ==
  ASSUME IInv, Processes
  PROVE  IInv' /\ Accounted
<1>1. /\ phase = "processes" /\ phase' = "draw" /\ outing' = outing /\ restart' = restart
      /\ round' = round
  BY DEF Processes
<1>2. PICK ship \in BOOLEAN, supply \in BOOLEAN, atBag \in BOOLEAN, ends \in BOOLEAN,
           parts \in SavedParts :
        /\ ship => field.ship.state # -1
        /\ ship /\ field.ship.state = 1 => field.count > 0
        /\ supply => field.supply \in {"coming", "leaving"}
        /\ ends => hunter.exit
        /\ parts # {} => ends
        /\ LET f == AnimateSShip(AnimateShip(field, ship), supply)
               final == [profile EXCEPT !.total = @ + profile.last]
           IN /\ atBag => f.bag = "out"
              /\ field' = IF atBag THEN [f EXCEPT !.bag = "taken"] ELSE f
              /\ hunter' = IF atBag
                           THEN refillWeapons(hunter, outing.weapons, outing.double, FALSE)
                           ELSE hunter
              /\ IF ends
                 THEN /\ disk' = Leave(final, disk, hunter.alive, parts)
                      /\ profile' = IF hunter.alive THEN final ELSE LoadTrophy(final, disk)
                      /\ over' = "left"
                 ELSE UNCHANGED <<disk, profile, over>>
  BY Zenon DEF Processes
<1>a. PICK a : a = AnimateShip(field, ship)
  OBVIOUS
<1>b. PICK f : f = AnimateSShip(a, supply)
  OBVIOUS
<1>c. PICK taken, double, fresh : taken = outing.weapons /\ double = outing.double /\ fresh = outing.fresh
  OBVIOUS
<1>d. PICK final : final = [profile EXCEPT !.total = @ + profile.last]
  OBVIOUS
<1>3. /\ atBag => f.bag = "out"
      /\ field' = IF atBag THEN [f EXCEPT !.bag = "taken"] ELSE f
      /\ hunter' = IF atBag THEN refillWeapons(hunter, taken, double, FALSE) ELSE hunter
  BY <1>2, <1>a, <1>b, <1>c
<1>4. IF ends
      THEN /\ disk' = Leave(final, disk, hunter.alive, parts)
           /\ profile' = IF hunter.alive THEN final ELSE LoadTrophy(final, disk)
           /\ over' = "left"
      ELSE UNCHANGED <<disk, profile, over>>
  BY <1>2, <1>d
<1>5. over = "no" /\ ~restart
  BY <1>1, Running
<1>6. /\ outing \in Outings /\ field \in Grounds(taken) /\ Room(hunter, field)
      /\ round \in RoundType /\ (~round.astray => Followed(field))
      /\ hunter \in Hunters(taken) /\ double \in BOOLEAN
  BY <1>c, FieldFact, OutingFacts
<1>7. /\ a \in Grounds(taken) /\ a.born = field.born
      /\ a.bag = field.bag /\ a.supply = field.supply
      /\ Followed(field) => Followed(a)
  BY <1>2, <1>6, <1>a, AnimateShipSound
<1>8. supply => a.supply \in {"coming", "leaving"}
  BY <1>2, <1>7
<1>9. /\ f \in Grounds(taken) /\ f.born = a.born
      /\ f.bag = "out" => a.bag # "taken"
      /\ Followed(a) => Followed(f)
  BY <1>7, <1>8, <1>b, AnimateSShipSound
<1>10. /\ field' \in Grounds(taken) /\ field'.born = field.born
       /\ Followed(field) => Followed(field')
  <2>1. CASE ~atBag
    BY <1>3, <1>7, <1>9, <2>1
  <2>2. CASE atBag
    <3>1. PICK g : g = [f EXCEPT !.bag = "taken"]
      OBVIOUS
    <3>2. g \in Grounds(taken) /\ g.born = f.born /\ (Followed(f) => Followed(g))
      BY <1>3, <1>9, <2>2, <3>1, BagTaken
    <3> QED
      BY <1>3, <1>7, <1>9, <2>2, <3>1, <3>2
  <2> QED
    BY <2>1, <2>2
<1>11. hunter' \in Hunters(taken) /\ hunter'.alive = hunter.alive
  BY <1>3, <1>6, RefillSound
<1>12. Room(hunter', field')
  BY <1>6, <1>10, <1>11 DEF Room
<1>13. Accounted
  <2>1. CASE ~atBag
    <3>1. NoMore(hunter, hunter')
      BY <1>3, <1>6, <2>1, NoMoreRefl
    <3> QED
      BY <3>1 DEF Accounted
  <2>2. CASE atBag
    <3>1. field.bag # "taken"
      BY <1>3, <1>7, <1>9, <2>2
    <3>2. f \in FieldType(taken)
      BY <1>9, FieldParts
    <3>3. field'.bag = "taken"
      BY <1>3, <2>2, <3>2 DEF FieldType
    <3> QED
      BY <3>1, <3>3 DEF Accounted
  <2> QED
    BY <2>1, <2>2
<1>14. HunterInv'
  BY <1>1, <1>11, <1>c DEF HunterInv
<1>15. FieldInv'
  BY <1>1, <1>6, <1>10, <1>12, <1>c DEF FieldInv
<1>16. OutingInv'
  BY <1>1, <1>6 DEF IInv, OutingInv, Phases
<1>17. /\ profile \in ProfileType /\ disk \in DiskType /\ profile.total = 0
       /\ disk.score = 0 /\ disk.total = 0 /\ disk.mounts = {}
       /\ Tallied(profile, round, fresh)
  BY <1>5, <1>c DEF IInv, ProfileInv
<1>18. CASE ~ends
  <2>1. disk' = disk /\ profile' = profile /\ over' = over
    BY <1>4, <1>18
  <2>2. ProfileInv'
    BY <1>1, <1>5, <2>1 DEF IInv, ProfileInv
  <2>3. OverInv'
    BY <1>5, <2>1 DEF OverInv
  <2> QED
    BY <1>13, <1>14, <1>15, <1>16, <2>2, <2>3 DEF IInv
<1>19. CASE ends
  <2>1. /\ disk' = Leave(final, disk, hunter.alive, parts) /\ over' = "left"
        /\ profile' = IF hunter.alive THEN final ELSE LoadTrophy(final, disk)
    BY <1>4, <1>19
  <2>2. PICK n \in Nat : n = profile.last
    BY <1>17 DEF ProfileType
  <2>3. final = [profile EXCEPT !.total = n]
    BY <1>17, <1>d, <2>2 DEF ProfileType
  <2>4. final \in ProfileType
    BY <1>17, <2>3 DEF ProfileType
  <2>5. /\ final.total = n /\ final.score = profile.score /\ final.last = profile.last
        /\ final.mounts = profile.mounts
    BY <1>17, <2>3 DEF ProfileType
  <2>6. Tallied(final, round, fresh) /\ final.total = final.score
    BY <1>17, <2>2, <2>5 DEF Tallied
  <2>7. PICK alive \in BOOLEAN : alive = hunter.alive
    BY <1>6, Parts
  <2>8. PICK e : e = Leave(final, disk, alive, parts)
    OBVIOUS
  <2>9. /\ e \in DiskType
        /\ e.score # 0 \/ e.total # 0 \/ e.mounts # {} => alive
        /\ e.score \in {0, round.kills} /\ e.total = e.score
        /\ ~fresh => e.mounts \in {{}, round.mounts}
        /\ e.mounts # {} => e.score = round.kills
    BY <1>6, <1>17, <2>4, <2>6, <2>8, LeaveSound
  <2>10. disk' = e
    BY <2>1, <2>7, <2>8
  <2>11. RoundCounted'
    BY <1>1, <1>11, <1>c, <2>1, <2>7, <2>9, <2>10 DEF RoundCounted
  <2>12. OverInv'
    BY <1>1, <2>1, <2>11 DEF OverInv
  <2>13. profile' \in ProfileType
    <3>1. PICK m \in SUBSET Nat : m = IF disk.seen THEN disk.mounts ELSE final.mounts
      BY <1>17, <2>4 DEF ProfileType, DiskType
    <3>2. LoadTrophy(final, disk)
            = [score |-> disk.score, total |-> disk.total, last |-> 0, mounts |-> m, seen |-> TRUE]
      BY <3>1 DEF LoadTrophy
    <3>3. LoadTrophy(final, disk) \in ProfileType
      BY <1>17, <3>2 DEF ProfileType
    <3> QED
      BY <2>1, <2>4, <3>3
  <2>14. ProfileInv'
    BY <2>1, <2>9, <2>10, <2>13 DEF ProfileInv
  <2> QED
    BY <1>13, <1>14, <1>15, <1>16, <2>12, <2>14 DEF IInv
<1> QED
  BY <1>18, <1>19

(* The shot that is fired and the ship with ammunition that is called.     *)
LEMMA ServedSound ==
  ASSUME NEW taken, NEW f \in Grounds(taken), NEW w \in taken, NEW x \in BOOLEAN, NEW y \in BOOLEAN,
         NEW e, e = (IF x THEN AddBullet(f, w) ELSE f),
         NEW g, g = (IF y THEN AddShipSupply(e) ELSE e)
  PROVE  /\ g \in Grounds(taken) /\ g.born = f.born /\ g.demo = f.demo
         /\ g.shown = f.shown /\ g.slots = f.slots /\ g.count = f.count /\ g.scoreUp = f.scoreUp
         /\ Followed(f) => Followed(g)
<1>1. PICK b : b = AddBullet(f, w)
  OBVIOUS
<1>2. /\ b \in Grounds(taken) /\ b.born = f.born /\ b.demo = f.demo
      /\ b.shown = f.shown /\ b.slots = f.slots /\ b.count = f.count /\ b.scoreUp = f.scoreUp
      /\ Followed(f) => Followed(b)
  BY <1>1, AddBulletSound
<1>3. /\ e \in Grounds(taken) /\ e.born = f.born /\ e.demo = f.demo
      /\ e.shown = f.shown /\ e.slots = f.slots /\ e.count = f.count /\ e.scoreUp = f.scoreUp
      /\ Followed(f) => Followed(e)
  BY <1>1, <1>2
<1>4. PICK s : s = AddShipSupply(e)
  OBVIOUS
<1>5. /\ s \in Grounds(taken) /\ s.born = e.born /\ s.demo = e.demo
      /\ s.shown = e.shown /\ s.slots = e.slots /\ s.count = e.count /\ s.scoreUp = e.scoreUp
      /\ Followed(e) => Followed(s)
  BY <1>3, <1>4, AddShipSupplySound
<1> QED
  BY <1>3, <1>4, <1>5

(* The hunter at the end of ProcessControls.                               *)
LEMMA KeysUsed ==
  ASSUME NEW taken, NEW h \in Hunters(taken), NEW held, NEW jumps, NEW afloat, NEW deep \in BOOLEAN,
         NEW m, m = Swum(Used(h, held), jumps, afloat, deep)
  PROVE  m \in Hunters(taken) /\ Steady(h, m)
<1>1. PICK u : u = Used(h, held)
  OBVIOUS
<1>2. u \in Hunters(taken) /\ Steady(h, u)
  BY <1>1, UsedSound
<1>3. m = Swum(u, jumps, afloat, deep)
  BY <1>1
<1>4. m \in Hunters(taken) /\ Steady(u, m)
  BY <1>2, <1>3, SwumSound
<1> QED
  BY <1>2, <1>4, SteadyTrans

LEMMA ControlsSound ==
  ASSUME IInv, Controls
  PROVE  IInv' /\ Accounted
<1>1. /\ phase = "controls" /\ field.demo.time = 0 /\ phase' = "animals" /\ outing' = outing
      /\ disk' = disk /\ restart' = restart /\ over' = over
  BY DEF Controls
<1>2. PICK held \in outing.held, afloat \in BOOLEAN, deep \in BOOLEAN,
        shallow \in BOOLEAN, mounted \in BOOLEAN,
        breath \in {"enough", "spent", "out"} :
       /\ outing.water \/ (~afloat /\ ~deep)
       /\ breath # "enough" => hunter.alive /\ outing.water
       /\ LET claims == "claim" \in held /\ Claims(field)
              id == field.slots[field.shown.body].id
              fired == IF "fire" \in held /\ Fires(hunter)
                       THEN AddBullet(field, hunter.cur) ELSE field
              served == IF "resupply" \in held /\ ~outing.water
                        THEN AddShipSupply(fired) ELSE fired
              claimed == IF claims THEN AddShipTask(served, shallow) ELSE served
              moved == Swum(Used(hunter, held), "jump" \in held, afloat, deep)
          IN /\ (~claims => ~shallow /\ ~mounted)
             /\ hunter' = Stowed(Breathes(moved, breath))
             /\ field' = IF breath = "out" THEN AddDeadBody(claimed) ELSE claimed
             /\ profile' = IF claims /\ mounted
                           THEN [profile EXCEPT !.mounts = @ \cup {id}] ELSE profile
             /\ round' = IF claims
                         THEN [round EXCEPT !.mounts = IF mounted THEN @ \cup {id} ELSE @,
                                            !.astray = @ \/ ~ShownTrue(field)]
                         ELSE round
  BY Zenon DEF Controls
<1>h. PICK claims \in BOOLEAN : claims <=> "claim" \in held /\ Claims(field)
  BY Zenon
<1>i. PICK x \in BOOLEAN : x <=> "fire" \in held /\ Fires(hunter)
  BY Zenon
<1>j. PICK y \in BOOLEAN : y <=> "resupply" \in held /\ ~outing.water
  BY Zenon
<1>k. PICK jumps : jumps = ("jump" \in held)
  OBVIOUS
<1>b. PICK id, w : id = field.slots[field.shown.body].id /\ w = hunter.cur
  OBVIOUS
<1>c. PICK fired : fired = IF x THEN AddBullet(field, w) ELSE field
  OBVIOUS
<1>d. PICK served : served = IF y THEN AddShipSupply(fired) ELSE fired
  OBVIOUS
<1>e. PICK claimed : claimed = IF claims THEN AddShipTask(served, shallow) ELSE served
  OBVIOUS
<1>f. PICK moved : moved = Swum(Used(hunter, held), jumps, afloat, deep)
  OBVIOUS
<1>3. hunter' = Stowed(Breathes(moved, breath))
  BY <1>2, <1>f, <1>k
<1>4. field' = IF breath = "out" THEN AddDeadBody(claimed) ELSE claimed
  BY <1>2, <1>b, <1>c, <1>d, <1>e, <1>h, <1>i, <1>j
<1>5. /\ profile' = IF claims /\ mounted
                    THEN [profile EXCEPT !.mounts = @ \cup {id}] ELSE profile
      /\ round' = IF claims
                  THEN [round EXCEPT !.mounts = IF mounted THEN @ \cup {id} ELSE @,
                                     !.astray = @ \/ ~ShownTrue(field)]
                  ELSE round
  BY <1>2, <1>b, <1>h
<1>6. over = "no" /\ ~restart
  BY <1>1, Running
<1>g. PICK taken, fresh : taken = outing.weapons /\ fresh = outing.fresh
  OBVIOUS
<1>7. /\ outing \in Outings /\ field \in Grounds(taken) /\ Room(hunter, field)
      /\ round \in RoundType /\ (~round.astray => Followed(field))
      /\ hunter \in Hunters(taken)
  BY <1>g, FieldFact
<1>8. w \in taken
  BY <1>7, <1>b, Parts
<1>9. /\ served \in Grounds(taken) /\ served.born = field.born
      /\ served.shown = field.shown /\ served.slots = field.slots /\ served.count = field.count
      /\ served.scoreUp = field.scoreUp
      /\ Followed(field) => Followed(served)
  BY <1>7, <1>8, <1>c, <1>d, ServedSound
<1>10. /\ claimed \in Grounds(taken) /\ claimed.born = field.born
       /\ Followed(field) /\ (claims => ShownTrue(field)) => Followed(claimed)
  <2>1. CASE ~claims
    BY <1>9, <1>e, <2>1
  <2>2. CASE claims
    <3>1. Claims(served)
      BY <1>9, <1>h, <2>2 DEF Claims
    <3>2. claimed = AddShipTask(served, shallow)
      BY <1>e, <2>2
    <3>3. /\ claimed \in Grounds(taken) /\ claimed.born = served.born
          /\ Followed(served) /\ ShownTrue(served) => Followed(claimed)
      BY <1>9, <3>1, <3>2, AddShipTaskSound
    <3>4. ShownTrue(field) => ShownTrue(served)
      BY <1>9 DEF ShownTrue
    <3> QED
      BY <1>9, <2>2, <3>3, <3>4
  <2> QED
    BY <2>1, <2>2
<1>11. /\ hunter' \in Hunters(taken) /\ NoMore(hunter, hunter')
       /\ breath = "enough" => hunter'.alive = hunter.alive
       /\ breath # "enough" => hunter'.alive = FALSE
  <2>0. moved \in Hunters(taken) /\ Steady(hunter, moved)
    BY <1>7, <1>f, KeysUsed
  <2>a. PICK h : h = hunter
    OBVIOUS
  <2>b. h \in Hunters(taken) /\ Steady(h, moved)
    BY <1>7, <2>0, <2>a
  <2>c. breath \in {"enough", "spent", "out"}
    BY <1>2
  <2>1. PICK b : b = Breathes(moved, breath)
    OBVIOUS
  <2>2. /\ b \in Hunters(taken) /\ NoMore(moved, b)
        /\ breath = "enough" => b.alive = moved.alive
        /\ breath # "enough" => b.alive = FALSE
    BY <2>0, <2>1, <2>c, BreathesSound
  <2>3. PICK k : k = Stowed(b)
    OBVIOUS
  <2>4. k \in Hunters(taken) /\ Steady(b, k)
    BY <2>2, <2>3, StowedSound
  <2>5. NoMore(h, moved) /\ moved.alive = h.alive /\ NoMore(b, k) /\ k.alive = b.alive
    BY <2>b, <2>4 DEF Steady
  <2>6. NoMore(h, b)
    BY <2>b, <2>0, <2>2, <2>5, NoMoreTrans
  <2>7. NoMore(h, k)
    BY <2>b, <2>2, <2>4, <2>5, <2>6, NoMoreTrans
  <2>8. hunter' = k
    BY <1>3, <2>1, <2>3
  <2> QED
    BY <2>2, <2>4, <2>5, <2>7, <2>8, <2>a
<1>12. /\ field' \in Grounds(taken) /\ Room(hunter', field')
       /\ Followed(claimed) => Followed(field')
  <2>1. CASE breath = "out"
    <3>1. claimed.born < Slots
      BY <1>2, <1>7, <1>10, <2>1 DEF Room
    <3>2. PICK g : g = AddDeadBody(claimed)
      OBVIOUS
    <3>3. g \in Grounds(taken) /\ (Followed(claimed) => Followed(g))
      BY <1>10, <3>1, <3>2, AddDeadBodySound
    <3> QED
      BY <1>4, <1>11, <2>1, <3>2, <3>3 DEF Room
  <2>2. CASE breath # "out"
    <3>1. field' = claimed
      BY <1>4, <2>2
    <3>2. Room(hunter', claimed)
      BY <1>7, <1>10, <1>11 DEF Room
    <3> QED
      BY <1>10, <3>1, <3>2
  <2> QED
    BY <2>1, <2>2
<1>13. claims => id \in Nat
  <2>1. /\ ShownPrey(field) /\ field.slots \in [1..Slots -> AnimalType]
        /\ field.shown \in [on : BOOLEAN, body : 0..Slots, id : Nat]
    BY <1>7, FieldParts
  <2>2. ASSUME claims PROVE id \in Nat
    <3>1. field.shown.on
      BY <1>h, <2>2 DEF Claims
    <3>2. field.shown.body \in 1..Slots
      BY <2>1, <3>1, SlotsNat DEF ShownPrey
    <3>3. field.slots[field.shown.body] \in AnimalType
      BY <2>1, <3>2
    <3> QED
      BY <1>b, <3>3 DEF AnimalType
  <2> QED
    BY <2>2
<1>14. profile \in ProfileType /\ profile.total = 0 /\ Tallied(profile, round, fresh)
  BY <1>6, <1>g DEF IInv, ProfileInv
<1>15. PICK p \in SUBSET Nat, q \in SUBSET Nat :
         /\ p = IF claims /\ mounted THEN profile.mounts \cup {id} ELSE profile.mounts
         /\ q = IF claims /\ mounted THEN round.mounts \cup {id} ELSE round.mounts
  BY <1>7, <1>13, <1>14 DEF ProfileType, RoundType
<1>16. PICK z \in BOOLEAN : z = IF claims THEN round.astray \/ ~ShownTrue(field) ELSE round.astray
  BY <1>7 DEF RoundType
<1>17. profile' = [profile EXCEPT !.mounts = p]
  BY <1>5, <1>14, <1>15 DEF ProfileType
<1>18. round' = [round EXCEPT !.mounts = q, !.astray = z]
  BY <1>5, <1>7, <1>15, <1>16 DEF RoundType
<1>19. profile' \in ProfileType
  BY <1>14, <1>17 DEF ProfileType
<1>20. round' \in RoundType
  BY <1>7, <1>18 DEF RoundType
<1>21. /\ profile'.score = profile.score /\ profile'.last = profile.last
       /\ profile'.total = profile.total /\ profile'.mounts = p
  BY <1>14, <1>17 DEF ProfileType
<1>22. round'.kills = round.kills /\ round'.mounts = q
  BY <1>7, <1>18 DEF RoundType
<1>23. round'.astray = z
  BY <1>7, <1>18 DEF RoundType
<1>24. Tallied(profile', round', fresh)
  BY <1>14, <1>15, <1>21, <1>22 DEF Tallied
<1>25. ~round'.astray => Followed(field')
  BY <1>7, <1>10, <1>12, <1>16, <1>23
<1>26. OutingInv'
  BY <1>1, <1>7 DEF IInv, OutingInv, Phases
<1>27. HunterInv'
  BY <1>1, <1>11, <1>g DEF HunterInv
<1>28. FieldInv'
  BY <1>1, <1>12, <1>20, <1>25, <1>g DEF FieldInv
<1>29. ProfileInv'
  <2>1. disk \in DiskType /\ disk.score = 0 /\ disk.total = 0 /\ disk.mounts = {}
    BY <1>6 DEF IInv, ProfileInv
  <2>2. disk.seen = ~outing.fresh
    BY <1>6 DEF IInv, ProfileInv
  <2>3. profile'.total = 0
    BY <1>14, <1>21
  <2> QED
    BY <1>1, <1>6, <1>19, <1>24, <1>g, <2>1, <2>2, <2>3 DEF ProfileInv
<1>30. OverInv'
  BY <1>1, <1>6 DEF OverInv
<1> QED
  BY <1>11, <1>26, <1>27, <1>28, <1>29, <1>30 DEF IInv, Accounted

-----------------------------------------------------------------------------
(* Every step, and the theorems.                                           *)

LEMMA NextSound ==
  ASSUME IInv, [Next]_vars
  PROVE  IInv' /\ Accounted
<1>1. CASE \/ KeyWeapon \/ KeyBinocular \/ KeyMap \/ KeyPause \/ KeyEscape \/ KeyNo \/ KeyYes
  BY <1>1, KeyActions
<1>2. CASE KeyRestart
  BY <1>2, KeyRestartSound
<1>3. CASE KeyQuit
  BY <1>3, KeyQuitSound
<1>4. CASE FrameBegins
  BY <1>4, FrameBeginsSound
<1>5. CASE Controls
  BY <1>5, ControlsSound
<1>6. CASE ClosingScene
  BY <1>6, ClosingSceneSound
<1>7. CASE Animals
  BY <1>7, AnimalsSound
<1>8. CASE Bullets
  BY <1>8, BulletsSound
<1>9. CASE Processes
  BY <1>9, ProcessesSound
<1>10. CASE Draw
  BY <1>10, DrawSound
<1>11. CASE UNCHANGED vars
  <2>1. /\ outing' = outing /\ hunter' = hunter /\ field' = field /\ profile' = profile
        /\ disk' = disk /\ phase' = phase /\ restart' = restart /\ over' = over /\ round' = round
    BY <1>11 DEF vars
  <2>2. OutingInv' /\ HunterInv' /\ FieldInv'
    BY <2>1 DEF IInv, OutingInv, HunterInv, FieldInv
  <2>3. ProfileInv'
    BY <2>1 DEF IInv, ProfileInv
  <2>4. RoundCounted => RoundCounted'
    BY <2>1 DEF RoundCounted
  <2>5. OverInv'
    BY <2>1, <2>4 DEF IInv, OverInv
  <2>6. NoMore(hunter, hunter')
    BY <2>1, HunterFact, NoMoreRefl
  <2> QED
    BY <2>2, <2>3, <2>5, <2>6 DEF IInv, Accounted
<1> QED
  BY <1>1, <1>2, <1>3, <1>4, <1>5, <1>6, <1>7, <1>8, <1>9, <1>10, <1>11 DEF Next

(* The inductive invariant holds of every hunt: with any weapons taken,    *)
(* whatever the keys, the animals, the shots and the ship do.              *)
THEOREM SpecIInv == Spec => []IInv
<1>1. Init => IInv
  BY InitSound
<1>2. IInv /\ [Next]_vars => IInv'
  BY NextSound
<1> QED
  BY <1>1, <1>2, PTL DEF Spec

(* The program's own ranges, whatever the table says of the weapons; of a  *)
(* weapon it stocks, no count of rounds is negative or above what twice    *)
(* its shots can be.                                                       *)
THEOREM SpecTypeOK == Spec => []TypeOK
<1>1. IInv => TypeOK
  <2> SUFFICES ASSUME IInv PROVE TypeOK
    OBVIOUS
  <2>0. hunter \in Hunters(outing.weapons) /\ field \in Grounds(outing.weapons)
    BY FieldFact
  <2>1. /\ hunter.mode \in Modes /\ hunter.saved \in Modes
        /\ hunter.state \in 0..7 /\ hunter.busy \in BOOLEAN
        /\ hunter.cur \in outing.weapons /\ hunter.target \in outing.weapons
    BY <2>0, Parts
  <2>2. ASSUME NEW w \in Weapons PROVE hunter.arms[w] \in ArmType(w)
    <3>1. Fit(w, hunter.arms[w])
      BY <2>0, Parts
    <3> QED
      BY <3>1, FitType
  <2>3. /\ field.count \in 0..Slots /\ Len(field.tasks) = Len(field.due)
        /\ field.ship \in [state : -1..3, body : 0..Slots, carried : Nat]
    BY <2>0, FieldParts
  <2>4. field.ship.state \in -1..3
    BY <2>3
  <2>5. over \in {"no", "quit", "left"}
    BY DEF IInv, OverInv
  <2> QED
    BY <2>1, <2>2, <2>3, <2>4, <2>5 DEF TypeOK
<1> QED
  BY <1>1, SpecIInv, PTL

(* The magnified view, also when it waits behind the menu or a pause, is   *)
(* only ever there with a weapon raised that has a scope: HideWeapon,      *)
(* the stash of GameMode.h and the weapon keys keep the two together.      *)
THEOREM SpecScopeBacked == Spec => []ScopeBacked
<1>1. IInv => ScopeBacked
  BY HunterFact, Parts DEF Scoped, ScopeBacked
<1> QED
  BY <1>1, SpecIInv, PTL

(* Whatever is removed in between, an entry of the ship's list, the ship's *)
(* own index and the closing scene name the animal, or the hunter, they    *)
(* were set to; unless a claim was made through an index that was stale.   *)
THEOREM SpecClaimsFollow == Spec => []ClaimsFollow
<1>1. IInv => ClaimsFollow
  <2> SUFFICES ASSUME IInv, ~round.astray
               PROVE  /\ \A k \in 1..Len(field.tasks) : Names(field.tasks[k], field.due[k])
                      /\ field.ship.state # -1 => Names(field.ship.body, field.ship.carried)
                      /\ field.demo.time > 0 => Names(field.demo.body, field.demo.id)
    BY DEF ClaimsFollow
  <2>1. Followed(field) /\ field.count \in 0..Slots
    BY FieldFact, FieldParts
  <2>2. \A k \in 1..Len(field.tasks) : Stands(field, field.tasks[k], field.due[k])
    BY <2>1 DEF Followed
  <2>3. field.ship.state # -1 => Stands(field, field.ship.body, field.ship.carried)
    BY <2>1 DEF Followed
  <2>4. field.demo.time > 0 =>
          field.demo.body \in 1..field.count /\ field.slots[field.demo.body].id = field.demo.id
    BY <2>1 DEF Followed
  <2> QED
    BY <2>1, <2>2, <2>3, <2>4, SlotsNat DEF Stands, Names
<1> QED
  BY <1>1, SpecIInv, PTL

(* The disk counts a round once, and only one the hunter came back from    *)
(* through the exit: no kill of a round that was given up, lost or cut     *)
(* short is in it, nor a mount, and the room is not written without the    *)
(* profile.                                                                *)
THEOREM SpecRoundCounted == Spec => []RoundCounted
<1>1. IInv => RoundCounted
  <2> SUFFICES ASSUME IInv PROVE RoundCounted
    OBVIOUS
  <2>1. CASE over = "left"
    BY <2>1 DEF IInv, OverInv
  <2>2. CASE over # "left"
    <3>1. disk.score = 0 /\ disk.total = 0 /\ disk.mounts = {}
      BY <2>2 DEF IInv, ProfileInv
    <3> QED
      BY <3>1 DEF RoundCounted
  <2> QED
    BY <2>1, <2>2
<1> QED
  BY <1>1, SpecIInv, PTL

(* Rounds are never made: what a weapon holds grows only by the bag, by a  *)
(* bolt picked up or by a new round of the hunt.                           *)
THEOREM SpecAmmoKept == Spec => AmmoKept
<1>1. ASSUME IInv, [Next]_vars, NEW w \in Weapons, Held(w)' > Held(w)
      PROVE  \/ restart /\ ~restart'
             \/ field.bag # "taken" /\ field'.bag = "taken"
             \/ Len(field'.shots) < Len(field.shots)
  <2>1. IInv' /\ Accounted
    BY <1>1, NextSound
  <2>2. hunter \in Hunters(outing.weapons) /\ hunter' \in Hunters(outing'.weapons)
    BY <1>1, <2>1 DEF IInv, HunterInv
  <2>3. hunter.arms[w] \in ArmRecord /\ hunter'.arms[w] \in ArmRecord
    BY <2>2, Parts
  <2>4. Rounds(hunter.arms[w]) \in Int /\ Rounds(hunter'.arms[w]) \in Int
    BY <2>3 DEF Rounds, ArmRecord
  <2>5. Held(w) = Rounds(hunter.arms[w]) /\ Held(w)' = Rounds(hunter'.arms[w])
    BY DEF Held, Rounds
  <2>6. ~NoMore(hunter, hunter')
    BY <1>1, <2>4, <2>5 DEF NoMore
  <2> QED
    BY <2>1, <2>6 DEF Accounted
<1>2. IInv /\ [Next]_vars =>
        [\A w \in Weapons : Held(w)' > Held(w) =>
            \/ restart /\ ~restart'
            \/ field.bag # "taken" /\ field'.bag = "taken"
            \/ Len(field'.shots) < Len(field.shots)]_vars
  BY <1>1
<1> QED
  BY <1>2, SpecIInv, PTL DEF Spec, AmmoKept
=============================================================================
