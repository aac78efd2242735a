------------------------- MODULE MCHunterAwareness -------------------------
(* Model checking of HunterAwareness: the herds.                           *)
EXTENDS HunterAwareness

Herd(family, size, traits) == [family |-> family, size |-> size, traits |-> traits]

Predators == Herd("standard", 2, {"carnivore", "fearsInjury", "sniffs", "bites"})
Loner     == Herd("standard", 1, {"carnivore", "forgets", "defensive", "sniffs", "bites", "swaps"})
Grazers   == Herd("standard", 2, {"forgets", "fearsShots", "fearsCalls", "sniffs"})
Grazer    == Herd("standard", 1, {"forgets", "fearsShots", "fearsInjury", "sniffs", "bites"})
Deer      == Herd("standard", 1, {"forgets", "passive", "deer", "sniffs", "fearsCalls"})
TRexes    == Herd("trex", 2, {"carnivore", "sniffs", "bites"})
TRex      == Herd("trex", 1, {"carnivore", "sniffs", "bites", "fearsCalls", "swaps"})
Pigs      == Herd("ambient", 2, {"fearsCalls"})
Pig       == Herd("ambient", 1, {"defensive", "swaps"})
Brachs    == Herd("brahi", 2, {"defensive"})
Brach     == Herd("brahi", 1, {"bites", "fearsCalls", "swaps"})
Fishes    == Herd("fish", 2, {"dangerFish", "bites"})
Fish      == Herd("fish", 1, {"heedless", "fearsInjury", "fearsCalls", "swaps"})

AllHerds == {Predators, Loner, Grazers, Grazer, Deer, TRexes, TRex, Pigs, Pig,
             Brachs, Brach, Fishes, Fish}
DeerOnly == {Deer}
PigOnly  == {Pig}
=============================================================================
