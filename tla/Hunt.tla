-------------------------------- MODULE Hunt --------------------------------
(***************************************************************************)
(* One run of the game over an ordinary hunt, frame by frame: the keys the *)
(* window delivers between two frames, then ProcessGame's calls in order:  *)
(* ProcessControls, AnimateCharacters, AnimateBullets, AnimateProcesses    *)
(* and the weapon part of drawing; and the profile that LoadTrophy and     *)
(* SaveTrophy carry between memory and disk.                               *)
(*                                                                         *)
(* Positions, the terrain and time are the environment's choice.  Kills    *)
(* are counted, not weighed.  An outing fixes what a run is about: what is *)
(* hunted, with what and where.                                            *)
(***************************************************************************)
EXTENDS HuntWeapon, HuntField

CONSTANTS
  Outings     \* the outings: see OutingType

OutingType ==
  [weapons : SUBSET Weapons, double : BOOLEAN, herd : Seq(Kinds),
   keys : SUBSET {"weapon", "binocular", "map", "pause", "menu", "restart"},
   held : SUBSET SUBSET {"fire", "pump", "switch", "reload", "resupply",
                         "claim", "show", "jump"},
   water : BOOLEAN, fresh : BOOLEAN, wild : BOOLEAN]

ASSUME OutingAssumption ==
  /\ Outings \subseteq OutingType
  /\ \A o \in Outings : o.weapons # {} /\ Len(o.herd) < Slots

VARIABLES
  outing,   \* the outing
  hunter,   \* mode slot, weapon and life: see HuntWeapon
  field,    \* the animals, the ships, the shots: see HuntField
  profile,  \* TrophyRoom and TrophyRoom2 in memory
  disk,     \* trophy0N.sav and trophy0N.sab
  phase,    \* where in the frame the program is
  restart,  \* RestartMode: the next frame starts a new round
  over,     \* how the program ended, or "no"
  round     \* kills and mounts of this round; astray: a claim was made
            \* through an index that was stale (history)

vars == <<outing, hunter, field, profile, disk, phase, restart, over, round>>

-----------------------------------------------------------------------------
(* ReInitGame: a new round.                                                *)
NewHunter(o, old) ==
  LET first == CHOOSE w \in o.weapons : \A v \in o.weapons : w <= v
      h == refillWeapons(old, o.weapons, o.double, TRUE)
  IN [h EXCEPT !.mode = "Normal", !.state = 0, !.busy = FALSE,
               !.cur = first, !.target = first, !.exit = FALSE, !.alive = TRUE]

Nobody(o) ==
  [mode |-> "Normal", saved |-> "Normal", state |-> 0, busy |-> FALSE,
   cur |-> 0, target |-> 0, ammoIn |-> 0, arms |-> [w \in Weapons |-> NoArm],
   fired |-> FALSE, water |-> FALSE, exit |-> FALSE, alive |-> TRUE]

(* LoadTrophy: the trophy room is read only for a profile that was saved   *)
(* before (Body[0].ctype is set); otherwise memory keeps what it has.      *)
LoadTrophy(p, d) ==
  [score |-> d.score, total |-> d.total, last |-> 0,
   mounts |-> IF d.seen THEN d.mounts ELSE p.mounts, seen |-> TRUE]

(* SaveTrophy writes the profile and then, if that went well, the room.    *)
SavedParts == {{}, {"profile"}, {"profile", "room"}}
SaveTrophy(p, d, parts) ==
  [score |-> IF "profile" \in parts THEN p.score ELSE d.score,
   total |-> IF "profile" \in parts THEN p.total ELSE d.total,
   seen |-> "profile" \in parts \/ d.seen,
   mounts |-> IF "room" \in parts THEN p.mounts ELSE d.mounts]

NewRound == [kills |-> 0, mounts |-> {}, astray |-> FALSE]

Init ==
  /\ outing \in Outings
  /\ hunter = NewHunter(outing, Nobody(outing))
  /\ field = Placed([i \in 1..Slots |-> Blank], outing.herd)
  /\ disk = [score |-> 0, total |-> 0, seen |-> ~outing.fresh, mounts |-> {}]
  /\ profile = [score |-> 0, total |-> 0, last |-> 0, mounts |-> {}, seen |-> TRUE]
  /\ phase = "keys"
  /\ restart = FALSE
  /\ over = "no"
  /\ round = NewRound

-----------------------------------------------------------------------------
(* Keys, between two frames (HandleKeyEvent).                              *)

Keys(key) == phase = "keys" /\ over = "no" /\ key \in outing.keys

ToHunter(h) ==
  /\ hunter' = h
  /\ UNCHANGED <<outing, field, profile, disk, phase, restart, over, round>>

KeyWeapon == Keys("weapon") /\ \E w \in Weapons : ToHunter(SelectWeapon(hunter, w))
KeyBinocular == Keys("binocular") /\ ToHunter(ToggleBinocular(hunter))
KeyMap == Keys("map") /\ ToHunter(ToggleMapMode(hunter))

KeyPause ==
  /\ Keys("pause")
  /\ ToHunter(IF hunter.mode = "Paused" THEN DismissMenuRestore(hunter)
              ELSE EnterPauseMode(hunter))

KeyEscape ==
  /\ Keys("menu")
  /\ ToHunter(IF IsMenu(hunter.mode) THEN DismissMenuRestore(hunter)
              ELSE EnterMenuMode(hunter))

KeyNo == Keys("menu") /\ hunter.mode = "ExitCountdown" /\ ToHunter(DismissMenuRestore(hunter))
KeyYes == Keys("menu") /\ hunter.mode = "ExitCountdown" /\ ToHunter(ConfirmExitMenu(hunter))

(* Defect: a new round keeps the profile of the one that was given up.     *)
KeyRestartKept ==
  /\ Keys("restart") /\ hunter.mode = "ExitCountdown"
  /\ restart' = TRUE
  /\ UNCHANGED <<outing, hunter, field, profile, disk, phase, over, round>>

KeyRestart ==
  /\ Keys("restart") /\ hunter.mode = "ExitCountdown"
  /\ profile' = LoadTrophy(profile, disk)
  /\ restart' = TRUE
  /\ UNCHANGED <<outing, hunter, field, disk, phase, over, round>>

(* F9: out, without saving.                                                *)
KeyQuit ==
  /\ Keys("menu")
  /\ over' = "quit"
  /\ UNCHANGED <<outing, hunter, field, profile, disk, phase, restart, round>>

-----------------------------------------------------------------------------
(* The frame begins, with a new round if one was asked for; while a living *)
(* hunter pauses it only draws.                                            *)
FrameBegins ==
  /\ phase = "keys" /\ over = "no"
  /\ IF restart
     THEN /\ hunter' = NewHunter(outing, hunter)
          /\ field' = [Placed(field.slots, outing.herd) EXCEPT !.scoreUp = field.scoreUp]
          /\ profile' = [profile EXCEPT !.last = 0]
          /\ round' = NewRound
     ELSE UNCHANGED <<hunter, field, profile, round>>
  /\ restart' = FALSE
  /\ phase' = IF hunter'.mode = "Paused" /\ hunter'.alive THEN "draw" ELSE "controls"
  /\ UNCHANGED <<outing, disk, over>>

(* AddDeadBody, as far as it concerns the hunter; the field gets the body. *)
Killed(h) == [h EXCEPT !.exit = FALSE, !.mode = "Normal", !.alive = FALSE]

(* The keys held down, in the order ProcessPlayerMovement reads them.      *)
Used(h, held) ==
  LET shot == IF "fire" \in held THEN [ProcessShoot(h) EXCEPT !.fired = TRUE]
              ELSE [h EXCEPT !.fired = FALSE]
      pumped == IF "pump" \in held THEN ProcessPump(shot) ELSE shot
      set == IF "switch" \in held THEN ProcessFireMode(pumped) ELSE pumped
      loaded == IF "reload" \in held THEN ProcessReload(set) ELSE set
  IN IF "show" \in held THEN HideWeapon(loaded) ELSE loaded

(* The rest of ProcessControls: swimming, going under water (deep) and up. *)
Swum(h, jumps, afloat, deep) ==
  LET landed == IF h.mode = "Swimming" /\ ~h.water /\ ~jumps
                THEN [h EXCEPT !.mode = "Normal"] ELSE h
      swims == IF ~h.water /\ jumps /\ afloat
               THEN [landed EXCEPT !.mode = "Swimming"] ELSE landed
  IN IF h.water = deep THEN swims
     ELSE IF deep
     THEN [swims EXCEPT !.water = TRUE,
             !.mode = IF IsInWorldMovementMode(@) THEN "Underwater" ELSE @]
     ELSE [swims EXCEPT !.water = FALSE,
             !.mode = IF @ \in {"Underwater", "Swimming"} THEN "Normal" ELSE @]

(* Under water a weapon that does not work there is put away.              *)
Stowed(h) ==
  IF h.water /\ ~Info(h).harpoon /\ h.state # 0 THEN HideWeapon(h) ELSE h

(* Drowning, and fog that kills.  breath: "enough", "out" (health below    *)
(* nothing: the hunter dies) or "spent" (exactly nothing: AddDeadBody      *)
(* returns at once and no scene begins).                                   *)
Breathes(h, breath) ==
  CASE breath = "enough" -> h
    [] breath = "spent" -> [h EXCEPT !.alive = FALSE]
    [] breath = "out" -> Killed(h)

(* Controls of a hunter whose closing scene has not begun.                 *)
Controls ==
  /\ phase = "controls" /\ field.demo.time = 0
  /\ \E held \in outing.held, afloat \in BOOLEAN, deep \in BOOLEAN,
        shallow \in BOOLEAN, mounted \in BOOLEAN,
        breath \in {"enough", "spent", "out"} :
       /\ outing.water \/ (~afloat /\ ~deep)
       /\ breath # "enough" => hunter.alive /\ outing.water
       /\ LET claims == "claim" \in held /\ Claims(field)
              id == field.slots[field.shown.body].id
              fired == IF "fire" \in held /\ Fires(hunter)
                       THEN AddBullet(field, hunter.cur) ELSE field
              served == IF "resupply" \in held /\ ~outing.water
                        THEN AddShipSupply(fired) ELSE fired
              claimed == IF claims THEN AddShipTask(served, shallow) ELSE served
              moved == Swum(Used(hunter, held), "jump" \in held, afloat, deep)
          IN /\ (~claims => ~shallow /\ ~mounted)
             /\ hunter' = Stowed(Breathes(moved, breath))
             /\ field' = IF breath = "out" THEN AddDeadBody(claimed) ELSE claimed
             /\ profile' = IF claims /\ mounted
                           THEN [profile EXCEPT !.mounts = @ \cup {id}] ELSE profile
             /\ round' = IF claims
                         THEN [round EXCEPT !.mounts = IF mounted THEN @ \cup {id} ELSE @,
                                            !.astray = @ \/ ~ShownTrue(field)]
                         ELSE round
  /\ phase' = "animals"
  /\ UNCHANGED <<outing, disk, restart, over>>

(* ProcessDemoMovement and the rest of ProcessControls: after six seconds  *)
(* the exit menu, after twelve the program ends.                           *)
ClosingScene ==
  /\ phase = "controls" /\ field.demo.time > 0
  /\ \E further \in BOOLEAN, jumps \in BOOLEAN, afloat \in BOOLEAN, deep \in BOOLEAN :
       LET t == field.demo.time
           plain == IF hunter.mode \in {"Binocular", "OpticScope"}
                    THEN [hunter EXCEPT !.mode = "Normal"] ELSE hunter
           asked == IF t >= 3 /\ plain.mode # "Paused"
                    THEN EnterExitCountdownNoStash(plain) ELSE plain
       IN /\ outing.water \/ (~jumps /\ ~afloat /\ ~deep)
          /\ jumps = afloat
          /\ IF t = 4
             THEN /\ ~further
                  /\ hunter' = asked
                  /\ over' = "quit"
                  /\ UNCHANGED <<field, phase>>
             ELSE /\ hunter' = Stowed(Swum(asked, jumps, afloat, deep))
                  /\ field' = DemoMoves(field, further)
                  /\ over' = over
                  /\ phase' = "animals"
  /\ UNCHANGED <<outing, profile, disk, restart, round>>

(* AnimateCharacters: which body, if any, the hunter stands at, and        *)
(* whether some animal catches him.                                        *)
Animals ==
  /\ phase = "animals"
  /\ \E c \in Trophies(field) \cup {0}, caught \in BOOLEAN :
       LET f == [field EXCEPT !.shown =
                   IF c = 0 THEN NotShown
                   ELSE [on |-> TRUE, body |-> c, id |-> field.slots[c].id]]
       IN /\ caught => outing.wild /\ hunter.alive /\ Live(field) # {}
          /\ hunter' = IF caught THEN Killed(hunter) ELSE hunter
          /\ field' = IF caught THEN AddDeadBody(f) ELSE f
  /\ phase' = "bullets"
  /\ UNCHANGED <<outing, profile, disk, restart, over, round>>

-----------------------------------------------------------------------------
(* AnimateBullets.  What comes of a shot in this frame: it flies on, is    *)
(* lost, sticks where it hit the ground, hits the hunter or an animal, or, *)
(* stuck, is picked up.                                                    *)
Fates == {"flies", "lost", "sticks", "hunter", "animal", "picked"}

CanBe(shot, fate) ==
  CASE fate = "flies" -> TRUE
    [] fate = "picked" -> shot.stuck
    [] fate = "sticks" -> ~shot.stuck /\ WeapInfo[shot.weapon].retrieve
    [] OTHER -> ~shot.stuck

(* A bolt picked up goes into the chamber if the weapon has no animation   *)
(* that would load it; with all the rounds it came with it takes no more.  *)
TakesBolt(h, w, double) ==
  h.arms[w].left < (IF double /\ (WeapInfo[w].reload # 0 \/ WeapInfo[w].rld < 0)
                    THEN 2 ELSE 1) * WeapInfo[w].shots

BoltTaken(a, w) ==
  LET i == WeapInfo[w]
  IN IF a.cham = 0 /\ (IF i.reload = 0 THEN i.pmp ELSE i.rld) < 0
     THEN [a EXCEPT !.cham = @ + 1] ELSE [a EXCEPT !.left = @ + 1]

(* registerDamage and SubmitDinoScore for an animal shot dead.             *)
Shot(g, i, joined) ==
  LET f == [g.field EXCEPT !.slots[i].alive = FALSE]
      scores == g.field.slots[i].kind = "prey"
  IN IF scores
     THEN [g EXCEPT !.field = [f EXCEPT !.scoreUp = TRUE],
                    !.profile.score = @ + 1, !.profile.last = @ + 1,
                    !.round.kills = @ + 1]
     ELSE [g EXCEPT !.field = IF joined THEN AddSecondaryOne(f) ELSE f]

(* One shot of the array; a hit animal was alive or nothing changes.       *)
AnimateBullet(g, shot, fate, target, joined) ==
  LET kept == [g EXCEPT !.field.shots =
                 Append(@, [shot EXCEPT !.stuck = @ \/ fate = "sticks"])]
  IN CASE fate \in {"flies", "sticks"} -> kept
       [] fate = "lost" -> g
       [] fate = "hunter" ->
            IF g.hunter.alive
            THEN [g EXCEPT !.hunter = Killed(@), !.field = AddDeadBody(@)] ELSE g
       [] fate = "animal" -> IF target <= g.field.count /\ g.field.slots[target].alive
                             THEN Shot(g, target, joined) ELSE g
       [] fate = "picked" ->
            IF TakesBolt(g.hunter, shot.weapon, outing.double)
            THEN [g EXCEPT !.hunter.arms[shot.weapon] = BoltTaken(@, shot.weapon)]
            ELSE kept

(* All of them, one after another.                                         *)
AnimateBullets(start, shots, fate, target, joined) ==
  LET after[b \in 0..Len(shots)] ==
        IF b = 0 THEN start
        ELSE AnimateBullet(after[b - 1], shots[b], fate[b], target[b], joined)
  IN after[Len(shots)]

Bullets ==
  /\ phase = "bullets"
  /\ \E fate \in [1..Len(field.shots) -> Fates],
        target \in [1..Len(field.shots) -> 0..field.count], joined \in BOOLEAN :
       /\ \A b \in 1..Len(field.shots) :
            /\ CanBe(field.shots[b], fate[b])
            /\ (fate[b] = "animal") = (target[b] # 0)
       /\ LET none == [hunter |-> hunter, field |-> [field EXCEPT !.shots = <<>>],
                       profile |-> profile, round |-> round]
              all == AnimateBullets(none, field.shots, fate, target, joined)
          IN /\ hunter' = all.hunter
             /\ field' = all.field
             /\ profile' = all.profile
             /\ round' = all.round
  /\ phase' = "processes"
  /\ UNCHANGED <<outing, disk, restart, over>>

-----------------------------------------------------------------------------
(* The end of the countdown: what the disk holds then.                     *)
Leave(p, d, alive, parts) == IF alive THEN SaveTrophy(p, d, parts) ELSE d

(* AnimateProcesses: both ships, the bag, the countdown to the exit.  Only *)
(* after a claim gone astray could the ship remove a record from an empty  *)
(* array; what the program does after that is not followed.                *)
Processes ==
  /\ phase = "processes"
  /\ \E ship \in BOOLEAN, supply \in BOOLEAN, atBag \in BOOLEAN,
        ends \in BOOLEAN, parts \in SavedParts :
       /\ ship => field.ship.state # -1
       /\ ship /\ field.ship.state = 1 => field.count > 0
       /\ supply => field.supply \in {"coming", "leaving"}
       /\ ends => hunter.exit
       /\ parts # {} => ends
       /\ LET f == AnimateSShip(AnimateShip(field, ship), supply)
              final == [profile EXCEPT !.total = @ + profile.last]
          IN /\ atBag => f.bag = "out"
             /\ field' = IF atBag THEN [f EXCEPT !.bag = "taken"] ELSE f
             /\ hunter' = IF atBag
                          THEN refillWeapons(hunter, outing.weapons, outing.double, FALSE)
                          ELSE hunter
             /\ IF ends
                THEN /\ disk' = Leave(final, disk, hunter.alive, parts)
                     /\ profile' = IF hunter.alive THEN final ELSE LoadTrophy(final, disk)
                     /\ over' = "left"
                ELSE UNCHANGED <<disk, profile, over>>
  /\ phase' = "draw"
  /\ UNCHANGED <<outing, restart, round>>

(* DrawPostObjects: the weapon, but not in the closing scene, and the      *)
(* score of the last kill.                                                 *)
Draw ==
  /\ phase = "draw" /\ over = "no"
  /\ \E done \in BOOLEAN, pumpDone \in BOOLEAN, gone \in BOOLEAN :
       /\ pumpDone => done
       /\ gone => field.scoreUp
       /\ hunter' = IF field.demo.time > 0 THEN hunter
                    ELSE AnimateWeapon(hunter, done, pumpDone)
       /\ field' = IF gone THEN [field EXCEPT !.scoreUp = FALSE] ELSE field
  /\ phase' = "keys"
  /\ UNCHANGED <<outing, profile, disk, restart, over, round>>

Next ==
  \/ KeyWeapon \/ KeyBinocular \/ KeyMap \/ KeyPause \/ KeyEscape \/ KeyNo
  \/ KeyYes \/ KeyRestart \/ KeyQuit
  \/ FrameBegins \/ Controls \/ ClosingScene \/ Animals \/ Bullets
  \/ Processes \/ Draw

Spec == Init /\ [][Next]_vars

-----------------------------------------------------------------------------
(* The program's own ranges.  Of the weapons whose table gives them what   *)
(* their first load takes, no count of rounds is ever negative.            *)
TypeOK ==
  /\ hunter.mode \in Modes /\ hunter.saved \in Modes
  /\ hunter.state \in 0..7 /\ hunter.busy \in BOOLEAN
  /\ hunter.cur \in outing.weapons /\ hunter.target \in outing.weapons
  /\ \A w \in Weapons : hunter.arms[w] \in ArmType(w)
  /\ field.count \in 0..Slots
  /\ field.ship.state \in -1..3
  /\ Len(field.tasks) = Len(field.due)
  /\ over \in {"no", "quit", "left"}

(* The magnified view, also when it waits behind the menu or a pause, is   *)
(* only ever there with a weapon raised that has a scope: HideWeapon,      *)
(* the stash of GameMode.h and the weapon keys keep the two together.      *)
ScopeBacked ==
  IsScopeView(hunter) => hunter.state \notin {0, 3} /\ Info(hunter).optic

(* Whatever is removed in between, an entry of the ship's list, the ship's *)
(* own index and the closing scene name the animal, or the hunter, they    *)
(* were set to; unless a claim was made through an index that was stale.   *)
Names(index, id) == index <= field.count /\ field.slots[index].id = id

ClaimsFollow ==
  ~round.astray =>
    /\ \A k \in 1..Len(field.tasks) : Names(field.tasks[k], field.due[k])
    /\ field.ship.state # -1 => Names(field.ship.body, field.ship.carried)
    /\ field.demo.time > 0 => Names(field.demo.body, field.demo.id)

(* The disk counts a round once, and only one the hunter came back from    *)
(* through the exit: no kill of a round that was given up, lost or cut     *)
(* short is in it, nor a mount, and the room is not written without the    *)
(* profile.                                                                *)
RoundCounted ==
  LET written == disk.score # 0 \/ disk.total # 0 \/ disk.mounts # {}
  IN /\ written => over = "left" /\ hunter.alive
     /\ disk.score \in {0, round.kills} /\ disk.total = disk.score
     /\ ~outing.fresh => disk.mounts \in {{}, round.mounts}
     /\ disk.mounts # {} => disk.score = round.kills

(* Rounds are never made: what a weapon holds grows only by the bag, by a  *)
(* bolt picked up or by a new round of the hunt.                           *)
Held(w) == hunter.arms[w].cham + hunter.arms[w].left + hunter.arms[w].mag

AmmoKept ==
  [][\A w \in Weapons : Held(w)' > Held(w) =>
       \/ restart /\ ~restart'
       \/ field.bag # "taken" /\ field'.bag = "taken"
       \/ Len(field'.shots) < Len(field.shots)]_vars
=============================================================================
