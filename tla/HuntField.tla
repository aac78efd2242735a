------------------------------ MODULE HuntField -----------------------------
(***************************************************************************)
(* The hunting ground of an ordinary hunt: the Characters array, the bolts *)
(* and bullets in the air, the ship that fetches claimed trophies and the  *)
(* one that brings ammunition (Ship.cpp, Ships.cpp, Projectiles.cpp, and   *)
(* AddDeadBody of Characters.cpp).                                         *)
(*                                                                         *)
(* Animals are told apart by an id the program does not have: it names     *)
(* them by their index in the array, and every removal shifts the array.   *)
(* "due", "carried" and the id of the scene record whom an index stood for *)
(* when it was noted.                                                      *)
(***************************************************************************)
EXTENDS Integers, Sequences

CONSTANTS
  Slots,    \* the size of Characters (256 in the program)
  MaxShots, \* the size of bullet (256 in the program)
  MaxIds    \* animals, and the hunter's body, a round sees at most

(* The array is never full: nothing checks that there is a place for the   *)
(* hunter's body.                                                          *)
ASSUME FieldAssumption == Slots \in Nat \ {0} /\ MaxShots \in Nat /\ MaxIds \in Nat /\ MaxIds < Slots

(* "prey" scores and is a trophy; an animal of a "flock" is neither, but   *)
(* when it is shot another one joins (its spawn group moves forward).      *)
Kinds == {"none", "prey", "flock", "hunter"}

Animal(id, kind, alive) ==
  [id |-> id, kind |-> kind, alive |-> alive, claimed |-> FALSE, aboard |-> FALSE]

Blank == Animal(0, "none", FALSE)

NoShip == [state |-> -1, body |-> 0, carried |-> 0]
NotShown == [on |-> FALSE, body |-> 0, id |-> 0]

(* The field at the start of a round, the slots past the last animal as    *)
(* the round before left them.                                             *)
Placed(slots, herd) ==
  [slots |-> [i \in 1..Slots |->
                IF i <= Len(herd) THEN Animal(i, herd[i], TRUE) ELSE slots[i]],
   count |-> Len(herd), born |-> Len(herd),
   ship |-> NoShip, tasks |-> <<>>, due |-> <<>>,
   shown |-> NotShown, scoreUp |-> FALSE,
   demo |-> [time |-> 0, body |-> 0, id |-> 0],
   shots |-> <<>>, supply |-> "ready", bag |-> "none"]

Live(f) == {i \in 1..f.count : f.slots[i].alive /\ ~f.slots[i].aboard}

(* Bodies that can be claimed: dead prey not on board.                     *)
Trophies(f) ==
  {i \in 1..f.count : f.slots[i].kind = "prey" /\ ~f.slots[i].alive
                        /\ ~f.slots[i].aboard}

-----------------------------------------------------------------------------
(* A new record goes behind the last one.                                  *)
Appended(f, kind, alive) ==
  [f EXCEPT !.slots[f.count + 1] = Animal(f.born + 1, kind, alive),
            !.count = @ + 1, !.born = @ + 1]

(* Characters_AddSecondaryOne, when it finds a place for the animal.       *)
AddSecondaryOne(f) ==
  IF f.count < Slots /\ f.born < MaxIds THEN Appended(f, "flock", TRUE) ELSE f

(* The hunter's body, which the closing scene then looks at.               *)
AddDeadBody(f) ==
  [Appended(f, "hunter", FALSE) EXCEPT
     !.demo = [time |-> 1, body |-> f.count + 1, id |-> f.born + 1]]

(* Defect: the ship's list keeps its indices when a record is removed.     *)
RemoveCharacterUnlisted(f, index) ==
  [f EXCEPT
     !.slots = [i \in 1..Slots |->
                  IF i < index \/ i = Slots THEN f.slots[i] ELSE f.slots[i + 1]],
     !.count = @ - 1,
     !.demo.body = IF @ > index THEN @ - 1 ELSE @]

(* The records behind index move up by one; the ship's list and the scene  *)
(* follow, the body on display does not.                                   *)
RemoveCharacter(f, index) ==
  [f EXCEPT
     !.slots = [i \in 1..Slots |->
                  IF i < index \/ i = Slots THEN f.slots[i] ELSE f.slots[i + 1]],
     !.count = @ - 1,
     !.demo.body = IF @ > index THEN @ - 1 ELSE @,
     !.tasks = [k \in 1..Len(f.tasks) |->
                  IF f.tasks[k] > index THEN f.tasks[k] - 1 ELSE f.tasks[k]]]

(* AddShipTask for the body on display; on deep water the ship is not      *)
(* called.                                                                 *)
AddShipTask(f, shallow) ==
  LET c == f.shown.body
      marked == [f EXCEPT !.slots[c].claimed = TRUE]
  IN IF ~shallow THEN marked
     ELSE [marked EXCEPT
             !.tasks = Append(@, c),
             !.due = Append(@, f.shown.id)]

(* The RETURN key beside a body.                                           *)
Claims(f) ==
  f.shown.on /\ ~f.scoreUp /\ ~f.slots[f.shown.body].claimed

(* Whether the display still names the body that was seen.                 *)
ShownTrue(f) ==
  f.shown.body <= f.count /\ f.slots[f.shown.body].id = f.shown.id

AddShipSupply(f) ==
  IF f.supply = "ready" THEN [f EXCEPT !.supply = "coming"] ELSE f

AddBullet(f, w) ==
  IF Len(f.shots) < MaxShots
  THEN [f EXCEPT !.shots = Append(@, [weapon |-> w, stuck |-> FALSE])] ELSE f

-----------------------------------------------------------------------------
(* Ship.State: -1 away, 0 on its way, 3 landing, 2 loading, 1 leaving with *)
(* the body; there says that the state's goal is reached in this frame.    *)

AnimateShip(f, there) ==
  LET s == f.ship.state  b == f.ship.body
  IN IF s = -1
     THEN IF f.tasks = <<>> THEN f
          ELSE [f EXCEPT !.ship = [state |-> 0, body |-> Head(f.tasks),
                                   carried |-> Head(f.due)],
                         !.tasks = Tail(@), !.due = Tail(@)]
     ELSE IF ~there THEN f
     ELSE CASE s = 0 -> [f EXCEPT !.ship.state = 3, !.slots[b].aboard = TRUE]
            [] s = 3 -> [f EXCEPT !.ship.state = 2]
            [] s = 2 -> [f EXCEPT !.ship.state = 1]
            [] s = 1 -> RemoveCharacter([f EXCEPT !.ship = NoShip], b)

AnimateSShip(f, there) ==
  IF ~there THEN f
  ELSE CASE f.supply = "coming"  -> [f EXCEPT !.supply = "leaving", !.bag = "out"]
         [] f.supply = "leaving" -> [f EXCEPT !.supply = "gone"]
         [] OTHER -> f

(* What the closing scene has come to: 1 moving to the body, 2 turning     *)
(* about it, 3 for more than six seconds, 4 for more than twelve.          *)
DemoMoves(f, further) ==
  IF further THEN [f EXCEPT !.demo.time = @ + 1] ELSE f
=============================================================================
