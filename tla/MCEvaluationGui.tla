--------------------------- MODULE MCEvaluationGui ---------------------------
(***************************************************************************)
(* Model checking of EvaluationGui.  Padded is a folder text with blanks   *)
(* around Plain.                                                           *)
(***************************************************************************)
EXTENDS EvaluationGui

CONSTANTS Plain, Padded

MCFolders == {Plain, Padded, Blank}
MCFewFolders == {Plain, Blank}
MCTrimmed == [folder \in Folders |-> IF folder = Padded THEN Plain ELSE folder]

(* Bound: either the setup is used, with two requests, no load and an      *)
(* empty store that does not change, or loads overlap while the store      *)
(* changes and no folder is entered.                                       *)
OneStory ==
  \/ store.v = 0 /\ store.exps = {} /\ loading.id = 0
     /\ next + (IF dialog = 0 THEN 0 ELSE 1) <= 3
  \/ dialogs = 0 /\ draft.folder = Blank /\ next = loading.id + 1
=============================================================================
