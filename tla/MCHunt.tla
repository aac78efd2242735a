-------------------------------- MODULE MCHunt ------------------------------
EXTENDS Hunt

(* A scoped rifle that is pumped by hand, a shotgun loaded shell by shell, *)
(* a bow that works under water, a gun with magazines, a plain gun; and a  *)
(* gun with magazines that a table gave no round, and pumped by hand.      *)
Gun ==
  [optic |-> FALSE, harpoon |-> FALSE, reload |-> 0, shots |-> 3, part |-> FALSE,
   rld |-> 1, pmp |-> -1, mustPump |-> FALSE, autoPump |-> FALSE,
   autoReload |-> FALSE, full |-> FALSE, modes |-> FALSE, retrieve |-> FALSE]

MCWeapInfo ==
  <<[Gun EXCEPT !.optic = TRUE, !.shots = 2, !.pmp = 1, !.mustPump = TRUE],
    [Gun EXCEPT !.pmp = 0, !.reload = 3, !.shots = 5, !.part = TRUE, !.autoReload = TRUE],
    [Gun EXCEPT !.harpoon = TRUE, !.shots = 2, !.rld = -1, !.pmp = -1, !.retrieve = TRUE],
    [Gun EXCEPT !.shots = 2, !.part = TRUE, !.pmp = 1, !.autoPump = TRUE,
                !.full = TRUE, !.modes = TRUE, !.autoReload = TRUE],
    Gun,
    [Gun EXCEPT !.shots = 0, !.pmp = 1, !.mustPump = TRUE, !.autoReload = TRUE]>>

Plain ==
  [weapons |-> {5}, double |-> FALSE, herd |-> <<>>, keys |-> {}, held |-> {{}},
   water |-> FALSE, fresh |-> FALSE, wild |-> FALSE]

Single(ks) == {{k} : k \in ks} \cup {{}}

MCOutings ==
  { \* the mode slot: scope, binoculars, map, menus, water and death
    [Plain EXCEPT !.weapons = {1, 3}, !.water = TRUE,
       !.keys = {"weapon", "binocular", "map", "pause", "menu", "restart"},
       !.held = Single({"show", "jump"})],
    \* ammunition
    [Plain EXCEPT !.weapons = {1}, !.keys = {"weapon"},
       !.held = Single({"fire", "pump", "reload", "resupply"})],
    [Plain EXCEPT !.weapons = {2}, !.keys = {"weapon"},
       !.held = Single({"fire", "reload", "resupply"})],
    [Plain EXCEPT !.weapons = {4}, !.double = TRUE, !.keys = {"weapon"},
       !.held = Single({"fire", "pump", "switch", "reload", "resupply"})
                  \cup {{"fire", "pump"}, {"fire", "reload"}}],
    [Plain EXCEPT !.weapons = {3}, !.water = TRUE, !.keys = {"weapon"},
       !.held = Single({"fire", "reload", "resupply"})],
    \* without the pump it cannot owe rounds without end
    [Plain EXCEPT !.weapons = {6}, !.double = TRUE, !.keys = {"weapon"},
       !.held = Single({"fire", "reload", "resupply"})],
    \* the field
    [Plain EXCEPT !.herd = <<"prey", "prey">>, !.wild = TRUE,
       !.keys = {"weapon"}, !.held = Single({"fire", "claim"})],
    [Plain EXCEPT !.herd = <<"prey", "flock", "prey">>,
       !.keys = {"weapon"}, !.held = Single({"fire", "claim"})],
    \* rounds
    [Plain EXCEPT !.herd = <<"prey">>, !.wild = TRUE,
       !.keys = {"weapon", "menu", "restart"}, !.held = Single({"fire", "claim"})],
    [Plain EXCEPT !.herd = <<"prey">>, !.fresh = TRUE,
       !.keys = {"weapon", "menu", "restart"}, !.held = Single({"fire", "claim"})] }
=============================================================================
