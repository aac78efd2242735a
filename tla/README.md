# Carnivores 2: verification of the frontend and the engine

This directory holds TLA+ models of the program in this repository, the TLC configurations that check them on small
instances, and TLAPS proofs about them. The repository is a modernised Carnivores 2: a hunting game written around
2000 (`Hunt`, one thread, floating point), its old Windows menu (`Menu`), and a new frontend (`Frontend`) that keeps
hunters, installations and hunts in a *Lodge store*, launches the game in an isolated *session* and decides what of the
state the game leaves behind may become part of a hunter's history. The frontend holds what a player cannot lose, it is
where processes, crashes and files meet, and so it is what is modelled first.

Run everything from this directory: `tlc -config X.cfg M` for a run of PROJECT.json, `tlapm M.tla` for each of the eight
modules `*_proofs` (`Hunt_proofs`, the longest, takes several minutes; the others one or two). PROJECT.json lists the components, the runs, the hazards, the findings, the theorems, the source lines
of every definition, and for each property a defect of the code (an operator whose comment begins with "Defect") that
the property detects.

## 1. Inventory

| Part | State it keeps | Operations | Talks to |
| --- | --- | --- | --- |
| Store writing (`native/src/store_write.cpp`) | `lodge.lock`, `lodge.json`, `.bak` | exclusive lock, `atomic_write`, `transaction` | every writer below |
| Store operations (`store_ops.cpp`) | catalog in the manifest, snapshot directories | hunter, instance, settings and association edits, upgrade, restore | store writing |
| Store reading (`store.cpp`, `manifest_schema.cpp`) | none | `Store::read` | all commands, the GUI's worker |
| Managed state (`acceptance.cpp`) | generations, receipts, `acceptance.json` | accept, recover | sessions' journals, store |
| Session journal (`session_journal.cpp`) | `sessions/<id>/journal.json` | validate, transition, persist | session commands |
| Sessions (`sessions.cpp`, `session_runner.cpp`, `reconciliation.cpp`) | the session directory | prepare, run, recover, reconcile | journal, supervision, lock |
| Supervision (`session_process.cpp`, `process_impl.hpp`) | one child, its pipes, a waiter thread | spawn, wait, escalate, reap | the hunt process |
| Evaluation GUI (`gui/`) | presentation model, worker queues, folder dialog | load, route, select, preview, set up, close | store reading, the native dialog |
| Planning, pins (`planning*.cpp`) | none | evaluate a selection, refresh a fingerprint | store |
| Codec probes (`probe_process.cpp`) | one helper process | request and response over pipes | reconciliation, association |
| Content, catalog, profile codecs | none | read-only parsing | store operations |
| Engine session contract (`Hunt/Session`) | the authorised invocation | check arguments, work directory, exit code | supervision |
| Hunt rules (`Hunt/Game`) | mode slot, weapon, `Characters`, ships, shots, profile in memory | the keys and the calls of one frame | `.sav`/`.sab` files |
| Animal awareness (`CharacterAwareness.cpp`, `CharacterAI.cpp`, animators) | per animal: awareness, timer, State, target; per pack: alert and attack, latched | stimuli, tick, navigator, thinking, senses | hunt rules (shots, calls, death) |
| Engine, the rest (`Hunt/Network`, `Hunt/Audio`, ...) | the engine's globals | network threads; display recovery | SDL, sockets |
| Renderers, loaders, menu, math, vendored code | caches, start-up data | drawing, parsing | |

Hard behaviours and what makes each part correct:

- **One command, one process, one lock.** Commands run in processes of their own and hold `lodge.lock` from first read to
  last write. A killed command leaves the lock, its journal and a running child; the operator is told to remove the
  lock by hand. Correct: two live commands never interleave, and no update is lost.
- **Three ends of a write.** `atomic_write` writes a temporary file, renames it and syncs the directory. It succeeds,
  fails with the old file in place, or *throws with the new file already visible* because the last sync failed. A power
  cut may undo unsynced renames. Correct: what was reported as done stays done; what a journal says never goes back
  past a synced event.
- **A child nobody controls.** The hunt may hang, ignore signals, crash, damage its state files, or leave a descendant
  that goes on writing. Correct: it is launched at most once, nothing is taken from it before it is reaped, and a
  session is a *candidate* only with a complete, readable, unchanged capture and no finding.
- **Acceptance across crashes.** Staging, publishing, syncing, `.bak`, the manifest and the receipt are separate steps.
  Correct: the history is linear, generations are never reused, and heads always have their bytes.
- **Answers out of order in the GUI.** A worker thread, a foreign dialog thread and a user who does not wait. Correct:
  stale answers are ignored, a checked folder was really checked, a closed application ends.
- **Pipes both ways, and a pid that outlives its child.** A helper may fill its output while its input is still being written; an
  engine may leave a descendant that holds the pipes; a pid belongs to somebody else once it is reaped, by whichever thread.
  Correct: every run returns, only the child is ever signalled, nothing cut short passes for whole, and a child that is
  left is reaped by the waiter.
- **One slot, one array.** The game was ported from independent flags to a single mode and names animals by their index in an
  array that shifts. Keys, menus, water, death, a restart and the ships come in any order. Correct: what is on the
  screen has the weapon it needs, an index names whom it was set to, ammunition is not made, and a profile counts a round once.
- **Five writers of one animal.** Stimuli, the tick, the navigator, the animator and the senses write the awareness, timer, State and
  target of an animal in one frame, and packmates wake each other through a flag that is latched a frame later. Correct: a
  remembered place is not overwritten, the decision taken at an event agrees with those taken every frame, no lock feeds itself, a turn ends.
- **Not modelled yet**: a wrapping millisecond clock, network threads stopped while they wait.

PROJECT.json, "hazards", lists these at their source lines, with the properties that cover them.

## 2. Modules

| Module | Models | Depends on |
| --- | --- | --- |
| `SessionJournal` | states and edges of a journal, `validate`, `transition` as operators | |
| `LodgeSession` | prepare, run, recover, reconcile; lock, crashes, power, child | EXTENDS `SessionJournal` |
| `LodgeSession_proofs` | proofs: one writer, one launch | EXTENDS `LodgeSession`, TLAPS |
| `LodgeSessionEvidence_proofs` | proofs: reaping, candidates, history and evidence | EXTENDS `LodgeSession_proofs` |
| `AcceptedHistory` | abstract: what a managed history promises | |
| `LodgeStore` | lock, manifest, transactions, upgrade, acceptance, recovery, restore | INSTANCE `AcceptedHistory` |
| `LodgeStore_proofs` | proofs: the safety of `LodgeStore` and its refinement | EXTENDS `LodgeStore`, TLAPS |
| `GuiWorker` | the GUI's worker thread, mutex and condition variable | |
| `EvaluationGui` | presentation model, dialog thread, shutdown | EXTENDS `GuiWorker` |
| `EvaluationGui_proofs` | proofs: the safety of `EvaluationGui` | EXTENDS `EvaluationGui`, TLAPS |
| `OwnedChild` | `Child`, its waiter, the pipes, the kernel and the program | |
| `ProbeRun` | the supervisor of a codec helper | EXTENDS `OwnedChild` |
| `SessionRun` | the supervisor of an engine | EXTENDS `OwnedChild` |
| `ChildSupervisor` | one run of either | EXTENDS `ProbeRun`, `SessionRun` |
| `ChildSupervisor_proofs` | proofs: bystanders and evidence | EXTENDS `ChildSupervisor`, TLAPS |
| `HuntWeapon` | mode slot, weapon and ammunition, as operators | |
| `HuntField` | animals, shots and ships, as operators | |
| `Hunt` | keys, the frame, rounds and the profile | EXTENDS `HuntWeapon`, `HuntField` |
| `HuntWeapon_proofs` | lemmas: what each operator on the hunter preserves | EXTENDS `HuntWeapon`, TLAPS |
| `Hunt_proofs` | proofs: the safety of `Hunt` | EXTENDS `Hunt`, `HuntWeapon_proofs` |
| `HunterAwareness` | how animals notice, pursue, flee and forget the hunter | |
| `HunterAwareness_proofs` | proofs: the safety of `HunterAwareness` | EXTENDS `HunterAwareness`, TLAPS |
| `MCLodgeSession`, `MCLodgeStore`, `MCEvaluationGui`, `MCChildSupervisor`, `MCHunt`, `MCHunterAwareness` | values and symmetry for TLC | the module they name |

### LodgeSession

A process `p` executes a command on session `tgt[p]`; `pc[p]` is its next step, `mem[p]` the journal object it holds,
`found[p]` the local diagnostics of `reconcile_locked`, `shot[p]` the bytes it captured. `now[s]` is `journal.json`
as a reader finds it, `safe[s]` what is left after a power cut; `Replaced`, `NotReplaced` and `Unsynced` are the three
ends of `atomic_write`, and `Persist` chooses among them. An action is the code from one write of shared state to the
next: `RunIntent` persists `launching`, `RunSpawn` forks, `RunStarted` persists `running`, `RunWait` is the supervision
loop, `RunReturned` persists `returned`, `RunUnwind` is the path of the C++ exceptions. Reconciliation is `RecInspecting`
(persist), `RecEvidence` (logs, prior findings), `RecCapture` (read work/state), `RecFreeze` (persist the capture),
`RecCompare` and `RecCopy` (the retained copy, member by member), `RecInspect` (the codec), `RecFinal` (candidate or quarantined).
`Crash` kills a command at any step; `ManualUnlock` removes a stale lock; `PowerLoss`, on POSIX, ends every process and sets `now`
to `safe`; `ChildWrite`, `ChildFork`, `ChildExit`, `KinExit` are the hunt and its descendants.

Abstractions. What pins and preflight compare is a nondeterministic refusal. The capture of both members is one step;
since the child writes member by member before and after it, every torn pair is still captured somewhere. The
cancellation flag of the supervisor is the stop of `RunWait`. Unexpected or unsafe entries of a directory are the
`source-review-required` finding. On POSIX the supervisor sees only its direct child (the process group is signalled, but
a descendant that left it is not seen): `kin`. On Windows (`KillOnClose`) the job object ends the family with its owner. There the
code renames without writing through (`store_write.cpp:282`), its directory sync does nothing (`store_write.cpp:398`), and power-loss durability
is "not certified" (`docs/MANAGED_STATE.md:134`). So a Windows machine of the model has no power cut (`PowerLoss`) and no replacement left unsynced
(`Unsynced`), and what is said of it, by the runs and by the theorems, is about processes that are killed: `safe` equals `now`. The
read of the exec-status pipe failing, and losing the directory entry `sessions/<id>` itself in a power cut, are left out.

### LodgeStore and AcceptedHistory

All manifests are in one directory, so its crash semantics is one variable: `after` is the set of directories a power cut
may leave. An unsynced rename adds a state to `after`; a successful directory sync reduces it to `{now}`. Renames reach the
disk in the order they were made (journalled metadata); without that assumption an upgrade followed by a power cut could keep
the schema-2 manifest and lose its schema-1 backup. A manifest is a set of edits and the chain of accepted generations
of one managed association. `committed` is the last synced manifest's history and `told` records what commands reported
as done. `Transact` steps are `transaction`, with the snapshot publication of an import; `Up*` is `upgrade_store`, `Acc*`
`accept_candidate`, `Rec*` `recover_acceptance`, `Res*` `restore_backup`. `Damage` replaces the manifest by something
unreadable. `Candidate(s)` stands for a whole session of `LodgeSession`: it pins the generation it was started from.
`Import` is published under a fresh UUID; it is not made twice once a manifest on disk names it (`ImportNamed`).

`AcceptedHistory` knows no files: the store is upgraded at most once and its history grows linearly, each generation
from the one its session started from. `ImplementsHistory` is the refinement, with `committed` for the abstract state.

The model is of POSIX: the code cannot sync a directory on Windows. Whether there are power cuts is fixed at the start (`cuts`),
so that one run asks both questions.

### GuiWorker and EvaluationGui

An action of `GuiWorker` is a critical section under the worker's mutex. `submit` pushes in one (`Enqueue`) and notifies
after it (`SubmitNotify`), so the thread can look at the queue in between; a notification that finds nobody waiting is lost,
and wake-ups may be spurious. The destructor is `Stop`, `StopNotify`, `Join`. `EvaluationGui` adds the presentation model: every
user event is an action, and draining one completion is an action per kind (`DrainLoad`, `DrainCheck`, `DrainDialog`). `Turn`
keeps a thread from starting an event inside another. `DialogAnswer` and `DialogPost` are the two halves of the callback on the
foreign thread, between which it holds the sink's mutex; `Close` takes that mutex and forgets the application. `Trimmed` is
what `trimmed` makes of a folder text: the check probes the text as typed while `commit_draft` stores it trimmed. The model
records the text that was probed (`checked`) and the text on which Confirm was pressed (`pressed`) as history.

Left out: the viewed hunter and the demo loadout (local selections nothing depends on), and the wake callback (the event loop
wakes by itself within 250 ms). Another event may fall between two completions of one `drain`: the code drains all of
them in one call, so the model allows more. The production program asks for one load at start-up; the self-test reloads, and
the presentation model is written for overlapping loads, which is what the run `gui` exercises.

### OwnedChild, ProbeRun, SessionRun and ChildSupervisor

`LodgeSession` sees a supervisor that waits and returns; these modules open it. `OwnedChild` is what both supervisors own: the
child process (`proc`), whose pid it is (`owner`: nobody's, the child's, or, after it was reaped, another process's), the pipes
and the waiter thread that `Child` prestarts. Bytes are counted in units of which a pipe holds `Cap`. A signal or a wait that
hits a bystander is recorded in `trespass`. The program is one of five: it behaves (`well`), cannot be executed (`fails`), stops
for good (`hangs`), does so where no signal arrives (`wedged`), or leaves a process that holds its pipes (`forks`).
`ProbeRun` is `run` of `probe_process.cpp`: one poll loop over four pipes with a deadline and an output limit (`ServeIn`,
`ServeOut`, `ServeFail`), then the wait for the end, and `~Child` on every way out. `SessionRun` is `session_process::run`:
the exec handshake, the supervision loop with cancel and timeout, `stop_owned` (TERM, grace, KILL, reap), `finish` with its
two seconds for the pipes, and the bounded sinks. `Destroy` condemns the child and hands it to the waiter, which goes on after
the run has returned. `Expires` is the clock: any deadline may pass at any time.

Left out: the Windows flavour (a job object ends the family), descriptor isolation, and what is done with a helper's answer. A
`drain` reads all that is there in one step. The model assumes, as the code does, that SIGCHLD is not ignored: otherwise the kernel
would reap the child itself and free the pid between two calls.

### HuntWeapon, HuntField and Hunt

The game is one thread, and what can go wrong is the order of its calls. A frame has the phases of `ProcessGame`, each an
action: `FrameBegins` (a new round after R; a pausing hunter only draws), `Controls` or, once the hunter is dead,
`ClosingScene`, `Animals`, `Bullets`, `Processes`, `Draw`; between two frames any number of key events. Because a frame calls many
functions one after the other, these are operators from a record to a record (`HideWeapon(h)`, `RemoveCharacter(f, i)`) and the
action composes them in the code's order. `hunter` is the mode slot, the stash behind a menu (`saved`) and the weapon; `field` is the
`Characters` array with its count, the list of the trophy ship and both ships; `profile` and `disk` are the saved
game. Where the hunter and the animals stand, what a shot hits and when an animation ends are choices. Animals carry an id that the
program does not have, to tell whether an index still names the animal it was set to.

An *outing* fixes the weapons, the animals, the keys that are used and whether there is water; the state space is the sum of the
outings, not their product. The pool of shots is scaled from 256 to `MaxShots` and the array to `Slots`; a full pool drops the shot, as in
the code. `AddDeadBody` does not look for a place; the model assumes that the animals a round sees and the
hunter's body fit the array (`MaxIds < Slots`). In the code the placement of an area may fill the 256 records, the refill of the flocks
stops at 64; an area that fills the array is outside the model. Kills are counted, not weighed; the pellets of one shot are one bullet; a wound that does not kill changes nothing
here. Left out: survival, trophy room, observer, tranquilliser, multiplayer and debug sessions (their conditions are constantly
false in an ordinary hunt); a save that stops in the middle of a file.

### HunterAwareness

An animal is a record of the fields the five writers share; a pack is its two flags and their latched copies. A frame is `Controls` (a shot
or a call, then the latch), one `AnimalTurn` per animal, `Bullets` and `CheckAfraid`, in that order. A turn is the body of the loop of
`AnimateCharacters`: the timeout of a wanderer's target, contact, the tick, the navigator, then the animator of the family
(`AnimateHuntable`, `AnimateBrahi`, `AnimateTRex`, `AnimateFish`, `AnimateClassicAmbient`), each an operator from the turn's record to the next. `Encounters` is what the
geometry of the frame may be: how near the hunter is, whether he is out of range or on land, whether a
brachiosaur is in deep water, whether the target is reached, whether an attack lands. A target is represented by
the reason it was set for (`goal`): a remembered event, the search around it, the live hunter, away from him, the pack, its own.
One frame is one unit of time; every reaction starts with `MaxAfraid` units, so two stimuli in different frames give every difference of
timers, and `Stuck` is `kFleeLegStuckMs`. `unclosed` is history: how long a flee has kept the same leg. A *herd* is the species as
the traits its tables give it and one or two animals (two are one pack, with a leader, which is enough for an alarm to come back to where it started).
An animator that goes to `TBEGIN` for ever is the phase `looping`, in which time stands still.

Left out: the flying families (their thinking depends on the phases of flight) and the swimming `AnimateBrahiOld`; the killing
animation, during which the killer does not think; survival, multiplayer, observer and debug sessions; more than one hit in a frame; health above
`Health0` (`OptAgres` above 128); the animal that answers a call. `HuntField` and this module describe the same `Characters`
from two sides and are not composed: their only common variable is whether the hunter lives.

## 3. Runs

| Run | Instance | Shows |
| --- | --- | --- |
| `session_posix` | 2 commands, 1 session, 1 member with 3 contents | mutual exclusion, single launch, reaping, sound candidates, history and evidence only grow |
| `session_pair` | Windows, SAV and SAB, 2 contents; processes are killed, the power stays on | sound candidates for pairs that can be torn; the job object leaves nobody to write to what was captured |
| `session_live` | no symmetry, one content | a command that is not killed ends; the strengthening of the proofs |
| `store` | 2 commands, 2 edits, 2 sessions, 3 UUIDs, with and without power cuts | durability of what was reported, heads have their bytes, previous manifest retained, receipts, refinement with racing candidates and orphan generations |
| `gui` | 3 folder texts (one trims to another), 3 loads, 2 checks, 1 dialog, 1 expedition, 1 change of the store | checked folders, revoked confirmations, the dialog at shutdown, stale loads, preview under a changing observation |
| `gui_live` | 2 requests, 1 dialog | requests settle; closing ends |
| `child` | pipes of 1 unit, request of 2, up to 3 units of output, limit 2, both supervisors, 5 programs | no deadlock over pipes, only the child is signalled, evidence is whole or marked, the child is reaped |
| `hunt` | 10 outings, 6 weapons, up to 3 animals, 1 shot in the air | scope and weapon agree, claims follow the array, rounds counted once, ammunition kept |
| `awareness` | 13 herds of 5 families, reactions of 3 frames, stuck after 2 | events are remembered, event and frame agree, a blocked leg is left, everything calms down when the hunter is quiet |
| `awareness_legs` | one pig | violated: see Findings |
| `awareness_deer` | one deer | violated: see Findings |
| `gui_blank_name` | 1 check | violated: see Findings |

Why the bounds suffice. Two processes: a third live command would wait for the same lock; what matters is one live command and
what a dead one left, and a dead process can be reused. One session in the session runs: sessions share only the lock. Two
members are needed only for tearing. Three contents: original, changed, damaged. In `store` three UUIDs let one generation be
accepted, one be orphaned by a crash and one be accepted after it; two sessions let both start from the same generation.
Power cuts multiply the states with every unsynced rename, so `OneStory` (a CONSTRAINT of the run) follows one story at a time: without cuts imports only
and three generations; with cuts at most one kept edit and either imports with two generations in play, or one generation of one session.
In `gui` a CONSTRAINT of the same name keeps setup and overlapping loads apart. In the GUI three loads
let a stale answer come before and after the newest, and two checks let one be stale. Each counter is bounded by a constant of the module
(`Gens`, `MaxRequests`, `MaxDialogs`, `MaxVersion`, `MaxQueue`, `LastLoad`), in the guard of the user's action and never in
the program's (of the child's output too, `MaxMade`): `Reload`, `Confirm` and `Browse` are not offered at the limit, while a completion is always handled; Confirm keeps
one number for the dialog that is open. `CHECK_DEADLOCK FALSE` is set for the GUI, the supervised run and the game, which really stop.
In `child` a pipe holds less than either side has to write, so that each can block on the other, and the output can pass its limit by one.
In `hunt` the slices are: modes with a scoped rifle, a bow and water; each kind of weapon (pumped, loaded shell by shell, with
magazines that fire on, bow with bolts that are picked up) against the bag; a weapon whose table gives it no round; two trophies and an animal that kills; two trophies and
a flock that refills the array; rounds that are given up, lost or finished, with an old and a fresh profile.
In `awareness` the herds are chosen so that aggression and each authored fear occur, alone and in a pack where they differ, and three frames of fear let
a reaction be refreshed, replaced and expire while a packmate's still runs.

Fairness. `LodgeSession` assumes weak fairness of each command's own step: the operating system schedules the process and its
system calls return. Nothing is assumed of the child, its descendants, the operator or the machine, so `CommandsEnd` includes a
child that hangs for ever; it may be interrupted by `Crash`, after which the process is idle. `EvaluationGui` assumes that the
loop drains and leaves once exit was chosen, that the submitter notifies, that the destructor and a callback that holds the
mutex go on, and that the worker's jobs (a file read, a directory probe) return. The user owes nothing. `ChildSupervisor` assumes that the supervisor and the waiter run, that a
program goes on until it stops by itself and that SIGKILL arrives (except to the `wedged` one); the deadline is only
counted on when the program does not behave. `HunterAwareness` assumes that the game goes on
making frames; nothing is assumed of the hunter or the geometry, and `QuietCalms` speaks of a hunter who has gone away. `LodgeStore` and `Hunt` have no fairness: only safety is stated.

## 4. Findings and observations

Finding (`gui_blank_name`). Confirm on an unchecked folder starts a check and remembers to commit when it succeeds. Editing the
folder revokes that; editing the *name* does not (`presentation.cpp:233`), and the completion commits without looking at the name again
(`presentation.cpp:271`). A name blanked while the check is pending is confirmed, although "Hunter name must not be blank."
(`presentation.cpp:284`) and "Blank name is invalid and confirms nothing." (`model_tests.cpp:163`).

Finding (`awareness_legs`). "For fixed fleeing, only `UpdateHunterNavigation()` advances `tgtime` ... re-aiming occurs once per interval"
(`docs/TIBBEE_INTEGRATION.md:174`). The animator of Moschops, Gallimimus, Dimetrodon and pigs sets `tgtime = 0` in every frame of a timed reaction
(`AnimateClassicAmbient.cpp:122`), after the navigator advanced it, so a leg that is blocked is kept until the reaction expires. The other
families leave the clock alone: `HuntableLegsTurn` holds.

Finding (`awareness_deer`). Once the hunter is dead, `AnimateHuntable` puts State back to 0 (line 62); a deer within 1024 units is then scared
without a look at `MyHealth` (line 159), gets State 1 and goes to `TBEGIN`, where State is cleared again. The loop has no exit: the game hangs. The
comment there (line 161) expects the deer to flee.

Other observations, which no run checks:

- After a commit whose directory sync failed, a retry of accept finds the session accepted and reports success without syncing
  again. A power cut may still undo that acceptance; accepting again then makes a new generation. `told` counts only the process that
  committed with a successful sync.
- An upgrade of a store that has no manifest, interrupted after its backup, leaves a backup without a manifest, which `Store::read`
  refuses until someone reviews it. A different backup left by an earlier upgrade blocks the next one.
- `upgrade_store` does not write `.bak`: the previous manifest is in `lodge.schema-1.backup.json` (`PreviousRetained` counts it).
- A child that exits between the loop's check and `stop_owned` is still reported as timed out or cancelled.
- **The ship and a stale index.** `TrophyDisplayC` is computed by `AnimateCharacters`, used by the RETURN key in the next frame
  (`PlayerMovement.cpp:547`), and not among the indices `RemoveCharacter` shifts (`Projectiles.cpp:423`). If the ship leaves the map with an earlier
  animal in between, RETURN claims the next record: a living animal, which the ship then carries away, or a slot past the last one,
  after which a removal makes `ChCount` one too small, down to -1. TLC finds this when the condition `~round.astray` is
  taken out of `ClaimsFollow`; no document speaks of it. `killerDino` and the packs' leaders are pointers into the same array
  and are not shifted either.
- A profile that was never saved (`Body[0].ctype` is 0) keeps, after R, the mounts claimed in the round that was given up, because
  `LoadTrophy` reads the room only for a profile that has one; `RoundCounted` is stated about mounts for saved profiles.
- The total of a weapon that is loaded shell by shell may pass its chamber: with 2 of 3 chambered and 2 left, a reload adds 2.
- The parser takes any integer for `shots` and `reload` (`ScriptParser.cpp:1435`), and `refillWeapons` subtracts the first load from the shots
  all the same (`CharacterLoader.cpp:206`, 211): a weapon with fewer shots than that starts with a negative `ShotsLeft`. Since the
  code asks `if (ShotsLeft)`, a debt counts as rounds, and such a weapon fires for ever. `TypeOK` bounds the counts of the weapons that are
  `Stocked`, of which the table gives what the first load takes; the other properties hold of all.
- The mode slot: Pause over the exit menu loses the stashed overlay (against the intent stated at `GameMode.h:29`); the binocular
  and map keys leave a menu; a weapon key under a menu closes it; swimming is forgotten behind a menu.
- Health that falls to exactly zero leaves a hunter who is neither alive nor in the closing scene: `AddDeadBody` returns at once.
- `RemoveCharacter` and the ship's list copy overlapping memory with `memcpy`; the model takes the forward copy that is meant.
- A huntable animal without a pack whose exact tracking has just expired gets one more flee target from the live hunter in that frame
  (it is not aware, hence flees), although the comment at `CharacterAwareness.cpp:381` reserves live targets for exact tracking.
- After the hunter's death a carnivore that still remembers a shot is put into State 0 and its wandering overwrites the remembered target;
  `PursuitRemembers` is stated while the hunter lives.
- A brachiosaur in deep water takes a new place as its target whatever it is doing (`AnimateBrahi.cpp:71`), remembered targets included,
  against "Only awareness may replace those destinations" (`docs/TIBBEE_INTEGRATION.md:170`). It keeps it from standing there;
  `PursuitRemembers` is stated about the other families. While it stays there it does not calm down either; `QuietCalms` assumes that
  it comes out once the hunter is gone.
- The 50-second flight of `AI_ICTH` (`CharacterAnimation.cpp:198`) never starts: the 30-second timeout before it resets `tgtime`.
- With `OptAgres` above 128 an animal is born with more than `Health0` (`Characters.cpp:301`), so "defensive at full health" does not hold for
  it until it is hurt down to exactly `Health0`.
- `AnimateBullet` takes the damage from the weapon in hand, not from the one that fired (`Projectiles.cpp:237`).
- "TREX cannot return to state 0" (`AnimateTRex.cpp:74`) is no longer so: line 84 returns it there when its reaction is over.
- The GUI applies the result of a folder dialog to whatever draft is open: the user may have left setup and come back.

## 5. Proofs

Every type invariant, every other invariant and every action property of the passing runs is proved, for every value of the
constants that satisfies the named assumptions. A module of proofs has one inductive invariant, checked by TLC on the instances
above before it was proved; one lemma per action or per operator that says what it does to the invariant's parts; and a
theorem for each property. In every module it is the steps of *several* actors that need the strengthening.

**`LodgeSession_proofs`**: `TypeCorrect`, `OneWriter`, `OneLaunch`. The invariant is `IInv == TypeOK /\ WriterAlone /\ CommandSteps /\ LaunchedOnce`.

- `TypeOK` needs `CommandSteps`, which says what a command holds at each step: `RecCopy` writes `shot[p][m]`, which is a content
  only because a capture was taken before, and a capture is not a member of `Trees` at other steps.
- `CommandSteps` needs `WriterAlone`: what a command read of `now` stays true until it writes, because nobody else writes.
- `LaunchedOnce` needs `CommandSteps`: the command about to fork knows that the session has no child (`spawns = 0`) and that
  `launching` is on the disk *and* visible; `CommandSteps` needs `LaunchedOnce` to know that a journal read as `prepared` means no child was ever
  started, also after a power cut.

Effect lemmas for the operators shared by the actions (`PersistEffect`, `AdvanceEffect`, `AbandonEffect`, `StepFrame`) let a
step of an action cite what a write may do instead of expanding it.

**`LodgeSessionEvidence_proofs`**: `StepsHold` (`CommandSteps`), `ReturnedReaped`, `SoundCandidate`, and the action properties `GrowingHistory` and
`KeptEvidence`. To `IInv` it adds `Evidence`: `Behind` (the version that survives a power cut is a prefix of the visible one,
with the same capture and a part of its findings), `Waited`, `SoundFor`, and `Carries`, what a command carries from step to
step. `CandidateSound` follows only because `Carries` connects three places at `rec.final`: the shot in memory, the capture in the
journal and the retained copy, which agree member by member since `RecCompare`.

**`LodgeStore_proofs`**: `SpecTypeOK`, `SpecSnapshotsBacked`, `SpecToldDurable`, `SpecReceiptNotAhead`, the action property
`SpecPreviousRetained`, and the refinement `SpecImplementsHistory`. The invariant adds to the types and to `WriterAlone`

- `Visible` and `Disk`: *each* directory a power cut may leave is `Fit`: its manifests name durable snapshots, contain what was
  told and extend what was committed. A property of `now` alone is lost in the next power cut;
- `Ledger`: once synced, `committed` is the visible history; what was told or copied of a session is in it;
- `Commands`: the manifest a command is about to write is the visible one with its own edit or entry, its snapshot is durable
  by then, and its generation is nobody else's.

For the refinement, the initial states map to initial states, and each step of the store maps to an upgrade, to an acceptance, or
to a stutter; a step that makes a manifest durable is an acceptance because the new chain is the old one with one entry, whose session
had pinned the last generation. Extending and linear histories are reasoned about by position (`ExtendsByPosition`, `LinearAppend`).

**`ChildSupervisor_proofs`**: `SpecTypeOK`, `SpecBystandersLive`, `SpecEvidenceWhole`, for every size of pipe, request, output and limit and
for both supervisors. `PidKnown` says which steps of the supervisor know that the child was not waited for;
`HandedOver`, that the waiter gets a pid only at the end and only of such a child; `Accounted`, that every unit a stream made is in its
pipe or was taken, and that a log which claims the end has all of them; `Budget` bounds what is still made.

**`EvaluationGui_proofs`**: `SpecTypeOK`, `SpecShownIsFresh`, `SpecPreviewBacked`, `SpecFolderChecked`, `SpecPostsToLiveApp` and the action property
`ConfirmedCommits`. The queue, the job at hand and the completions are sequences over `Queued` and `Finished`: sets that depend on the numbers drawn so
far, on the text of the draft and on the newest load. Typing into the draft or asking for another load changes these sets, and the lemmas about
queues show that what is in flight stays in them because its number is no longer the one awaited.

**`HunterAwareness_proofs`**: `SpecTypeOK`, `SpecPursuitRemembers`, `SpecFleeAgreement`, `SpecHuntableLegsTurn`, for every set of herds and every length of a reaction.
`Sound(a, h)` is what holds of one animal, whatever it does; `Good` is the same of a record in the middle of a turn. Each
operator of the turn maps good records to good records, so a turn is the composition of its lemmas, family by family.
`PursuitRemembers` needs that an aware animal is awake *and* still afraid; `FleeAgreement`, that an animal in pursuit has no authored
reason to flee, which the stimulus, the alarm of a packmate and the tick each have to keep.

**`HuntWeapon_proofs` and `Hunt_proofs`**: `SpecTypeOK`, `SpecScopeBacked`, `SpecClaimsFollow`, `SpecRoundCounted` and the action property `SpecAmmoKept`, for every table of
weapons, every size of the arrays and every set of outings. Any integers are allowed as a weapon's `shots` and `reload`; that no count of rounds is negative
or too large is proved of the weapons that are `Stocked`, and is false of others (section 4). The invariant, part by part:

- `HunterInv` (`Hunters`): a weapon without a chamber of several rounds has one in it or none, the rounds of one that is `Stocked` fit it
  (`Fit`, `Bounds`), a weapon not taken has none, a reload under way will find what it takes and only a chamber of one round is pumped
  (`LoadsIn`), and a scope view has a scope (`Scoped`). Each of the operators of `HuntWeapon` maps hunters to hunters, and none but the refill makes
  a round (`NoMore`);
- `FieldInv` (`Grounds`, `Followed`, `Room`): records are told apart by ids that the counter has reached (`Distinct`), what is on display is
  prey wherever its record is now (`ShownPrey`), and the ship's entries and the ship itself name *different* claimed prey. That
  is what `ClaimsFollow` needs: a removal shifts every later index by one, which is right only if the removed record is
  none of those still named. `Room` is what lets `AddDeadBody` write without a look;
- `ProfileInv` (`Tallied`, `Emptied`): memory counts exactly the round under way, or nothing between R and the new round, so that the one write at
  the exit counts it once; `OverInv` says when that write may have been made.

Every action lemma concludes `IInv' /\ Accounted`: the invariant again, and either no weapon holds more or one of the three reasons of `AmmoKept`
is there. The loop over the shots in the air is a recursive function in `AnimateBullets`; that every shot's choice can
be made and keeps the invariant is induction over its length, done with sets instead of an operator parameter: the
least element of a set of numbers (`LeastElement`, from `WFMin`), `SetInduction` on it, and `StepsExist` for a walk of n steps.

Assumptions. Each module names the conditions on its constants; most say only that a set is finite, a size positive or a null value distinct. These say
more:

- `StoreConstants`: edits and sessions are different things (`Edits \cap Sessions = {}`); `told` holds both.
- `GuiNulls`: no version of the store, folder or expedition is the null value that stands for its absence.
- `WeaponAssumption`: a weapon loaded shell by shell has an animation to do it with (`reload > 0 => rld > 0`), which the loader checks
  (`AreWeaponAnimationReferencesValid`, `Hunt/Core/GameTypes.h:650`). Nothing is assumed of how many rounds there are; the counts are unbounded integers, so
  that a table whose numbers overflow an `int` when doubled is outside the model.
- `FieldAssumption`: the array has a place for the hunter's body (`MaxIds < Slots`). This one is a bound, not a fact of the
  code: it holds of areas that place fewer than 256 animals (see Hunt in section 2).
- `OutingAssumption`: an outing is what its type says (`Outings \subseteq OutingType`), takes a weapon and leaves a place in the array.

What the proofs changed in the models: the loop over shots was a fold and is a function now, for the reason given; two
overlapping `CASE`s of `HunterAwareness`, for which TLA+ leaves the choice open, became the `IF` ... `ELSE IF` of the code.

Only model-checked: all liveness and everything that needs ENABLED (`CommandsEnd`, `RunReturns`, `ChildReaped`, `RequestsSettle`, `CloseEnds`,
`QuietCalms`), which is out of the prover's reach, and the counterexamples of the findings.

## 6. Not modelled

PROJECT.json gives the reason for each component. In short: parsers and codecs are pure functions on unbounded strings, which the
repository compares with golden files; renderers, animation and physics are floating point without a protocol; the menu is legacy;
vendored code is not part of the program. The Python frontend under `Frontend/reference` is the behavioural reference of
the native one; the native code is what runs, and is what is modelled.

## 7. Plan

In this order; each item is a module, its runs and, where it says so, its theorems.

1. That `RunWait` of `LodgeSession` is what `ChildSupervisor` promises, and that `SessionJournal` implements a plain chain of its nine
   states, as refinements.
2. `StoreCatalog`: the rules of hunter, instance and settings edits and the revision checks of planning and association refresh, over the
   transaction of `LodgeStore`.
3. `DisplayRecovery`: the debounce over 32-bit milliseconds that wrap, checked against a definition over unbounded time.
4. `NetworkManager`: server and client threads against stop, as the code closes sockets after it waits.
5. `EngineSession`: the authorised invocation and exit codes, composed with `ChildSupervisor`.
6. Of the game: the flying families of animals, survival waves, mouse capture across focus changes, audio voices.
