---------------------------- MODULE LodgeSession ----------------------------
(***************************************************************************)
(* The life of a hunt session in the native frontend: preparation          *)
(* (sessions.cpp), the one launch (session_runner.cpp over                 *)
(* session_process.cpp), recovery, and reconciliation of what the child    *)
(* left behind (reconciliation.cpp).                                       *)
(*                                                                         *)
(* Every command runs in a process of its own and holds lodge.lock from    *)
(* its first read to its last write, so two live commands never interleave.*)
(* What does interleave is everything else: a command that is killed at    *)
(* any step and leaves its lock, its journal and its child behind; an      *)
(* operator who removes that lock; a power cut that undoes renames whose   *)
(* directory was not yet synced; a child, or a grandchild the supervisor   *)
(* never sees, that keeps writing work/state; an interrupt.                *)
(*                                                                         *)
(* journal.json is a pair: now is what a reader sees, safe what survives a *)
(* power cut.  atomic_write (store_write.cpp) ends in one of three ways:   *)
(* replaced and synced, not replaced, or replaced with the directory sync  *)
(* failing, which throws although the new bytes are already visible.  On   *)
(* Windows nothing is synced after the rename: the third end does not      *)
(* exist, a power cut may leave anything, and the model has none; safe is  *)
(* then what the dead process leaves, and equal to now.                    *)
(***************************************************************************)
EXTENDS SessionJournal, FiniteSets

CONSTANTS
  Procs,        \* frontend processes (one command each at a time)
  Sessions,     \* session UUIDs
  Members,      \* the state files of a session: its SAV and its SAB
  Values,       \* contents a state file can have
  Original,     \* the content of every member in the pinned snapshot
  Unreadable,   \* the contents the native codec rejects
  Missing,      \* a member that is not in the directory
  KillOnClose   \* TRUE: Windows, whose job object dies with its owner

ASSUME SessionConstants ==
  /\ Original \in Values
  /\ Unreadable \subseteq Values \ {Original}
  /\ Missing \notin Values
  /\ {"free", "stale"} \cap Procs = {}
  /\ KillOnClose \in BOOLEAN

VARIABLES
  lock,      \* lodge.lock: "free", the live process that made it, or "stale"
  made,      \* [Sessions -> BOOLEAN] sessions/<id> exists
  now,       \* [Sessions -> journal] journal.json as read back
  safe,      \* [Sessions -> journal] journal.json as it survives a power cut
  work,      \* [Sessions -> [Members -> content]] work/state
  returned,  \* [Sessions -> [Members -> content]] returned/
  logs,      \* [Sessions -> BOOLEAN] logs/ has entries
  child,     \* [Sessions -> ...] the session's direct child
  kin,       \* [Sessions -> BOOLEAN] a descendant of the child is alive
  spawns,    \* [Sessions -> Nat] history: children ever started
  pc, tgt,   \* [Procs -> ...] next step and target session of each command
  mem,       \* [Procs -> journal] the journal object in memory
  found,     \* [Procs -> set of codes] the local diagnostics of reconcile
  shot,      \* [Procs -> capture] the bytes read from work/state
  sig        \* [Procs -> BOOLEAN] the interrupt flag

disk   == <<lock, made, now, safe>>
tree   == <<work, returned, logs>>
family == <<child, kin, spawns>>
local  == <<pc, tgt, mem, found, shot, sig>>
vars   == <<disk, tree, family, local>>

Contents == Values \cup {Missing}
Trees    == [Members -> Contents]
Baseline == [m \in Members |-> Original]
Nothing  == [m \in Members |-> Missing]
Captures == Trees \cup {NoCapture}

Codes == { "preflight-failed", "spawn-failed", "process-stopped",
           "log-capture-failed", "process-ownership-lost",
           "unclean-process-return", "source-review-required",
           "missing-state-member", "return-review-required",
           "codec-findings" }

Journals ==
  [ state : States \cup {"absent"}, transitions : Seq(States),
    diagnostics : SUBSET Codes, clean : BOOLEAN,
    capture : Captures, members : Captures ]

Steps == { "idle", "release", "prep.root", "prep.journal", "run.read",
           "run.preflight", "run.intent", "run.spawn", "run.logs",
           "run.started", "run.wait", "run.returned", "run.unwind",
           "recover.read", "reconcile.read", "rec.inspecting",
           "rec.evidence", "rec.capture", "rec.freeze", "rec.compare",
           "rec.copy", "rec.inspect", "rec.final" }

TypeOK ==
  /\ lock \in Procs \cup {"free", "stale"}
  /\ made \in [Sessions -> BOOLEAN]
  /\ now \in [Sessions -> Journals]
  /\ safe \in [Sessions -> Journals]
  /\ work \in [Sessions -> Trees]
  /\ returned \in [Sessions -> Trees]
  /\ logs \in [Sessions -> BOOLEAN]
  /\ child \in [Sessions -> {"none", "running", "zero", "nonzero", "reaped", "gone"}]
  /\ kin \in [Sessions -> BOOLEAN]
  /\ spawns \in [Sessions -> Nat]
  /\ pc \in [Procs -> Steps]
  /\ tgt \in [Procs -> Sessions]
  /\ mem \in [Procs -> Journals]
  /\ found \in [Procs -> SUBSET Codes]
  /\ shot \in [Procs -> Captures]
  /\ sig \in [Procs -> BOOLEAN]

Init ==
  /\ lock = "free"
  /\ made = [s \in Sessions |-> FALSE]
  /\ now = [s \in Sessions |-> NoJournal]
  /\ safe = [s \in Sessions |-> NoJournal]
  /\ work = [s \in Sessions |-> Nothing]
  /\ returned = [s \in Sessions |-> Nothing]
  /\ logs = [s \in Sessions |-> FALSE]
  /\ child = [s \in Sessions |-> "none"]
  /\ kin = [s \in Sessions |-> FALSE]
  /\ spawns = [s \in Sessions |-> 0]
  /\ pc = [p \in Procs |-> "idle"]
  /\ tgt \in [Procs -> Sessions]
  /\ mem = [p \in Procs |-> NoJournal]
  /\ found = [p \in Procs |-> {}]
  /\ shot = [p \in Procs |-> NoCapture]
  /\ sig = [p \in Procs |-> FALSE]

-----------------------------------------------------------------------------
(* How an atomic_write of session s's journal can end.                     *)

Replaced(s, j) ==
  /\ now' = [now EXCEPT ![s] = j]
  /\ safe' = [safe EXCEPT ![s] = j]

Unsynced(s, j) ==
  /\ ~KillOnClose
  /\ now' = [now EXCEPT ![s] = j]
  /\ UNCHANGED safe

NotReplaced == UNCHANGED <<now, safe>>

Throws(s, j) == Unsynced(s, j) \/ NotReplaced

Goto(p, step) == pc' = [pc EXCEPT ![p] = step]

(* Go on at step with journal j in memory; nothing reads it after the end. *)
Proceed(p, step, j) ==
  /\ Goto(p, step)
  /\ mem' = [mem EXCEPT ![p] = IF step = "release" THEN NoJournal ELSE j]

(* session_journal::persist by process p: on success memory holds j and    *)
(* the command goes on; an exception leaves memory alone and unwinds.      *)
Persist(p, j, next, unwind) ==
  \/ Valid(j) /\ Replaced(tgt[p], j) /\ Proceed(p, next, j)
  \/ Valid(j) /\ Unsynced(tgt[p], j) /\ Proceed(p, unwind, mem[p])
  \/ NotReplaced /\ Proceed(p, unwind, mem[p])

(* A refusal or an exception: the WriterLock destructor comes next.        *)
Abandon(p) == NotReplaced /\ Proceed(p, "release", NoJournal)

(* session_journal::transition; a refused edge throws.                     *)
Advance(p, j, to, next, unwind) ==
  IF TransitionAllowed(j.state, to)
    THEN Persist(p, Transition(j, to), next, unwind)
    ELSE NotReplaced /\ Proceed(p, unwind, mem[p])

At(p, step) == pc[p] = step

-----------------------------------------------------------------------------
(* The writer lock.  A command that finds lodge.lock refuses and ends.     *)

(* Defect: lodge.lock is written without the exclusive create.             *)
StartUnlocked(p, s, step) ==
  /\ At(p, "idle")
  /\ lock' = p
  /\ Goto(p, step)
  /\ tgt' = [tgt EXCEPT ![p] = s]
  /\ UNCHANGED <<made, now, safe, tree, family, mem, found, shot, sig>>

Start(p, s, step) ==
  /\ At(p, "idle")
  /\ lock = "free"
  /\ lock' = p
  /\ Goto(p, step)
  /\ tgt' = [tgt EXCEPT ![p] = s]
  /\ UNCHANGED <<made, now, safe, tree, family, mem, found, shot, sig>>

Forget(p) ==
  /\ Goto(p, "idle")
  /\ mem' = [mem EXCEPT ![p] = NoJournal]
  /\ found' = [found EXCEPT ![p] = {}]
  /\ shot' = [shot EXCEPT ![p] = NoCapture]
  /\ sig' = [sig EXCEPT ![p] = FALSE]
  /\ UNCHANGED tgt

(* WriterLock::release and ~WriterLock; the unlink can fail.               *)
Release(p) ==
  /\ At(p, "release")
  /\ lock' \in {"free", "stale"}
  /\ Forget(p)
  /\ UNCHANGED <<made, now, safe, tree, family>>

-----------------------------------------------------------------------------
(* prepare_session and native_session::prepare: the journal is written     *)
(* last, so a directory without one is an orphan no command accepts.       *)

(* Defect: a session directory that exists is prepared again.              *)
BeginPrepareAgain(p, s) == Start(p, s, "prep.root")

BeginPrepare(p, s) == ~made[s] /\ Start(p, s, "prep.root")

PrepareRoot(p) ==
  /\ At(p, "prep.root")
  /\ \/ /\ Goto(p, "release")                  \* pins, codec or mkdir refused
        /\ UNCHANGED <<made, work>>
     \/ /\ made' = [made EXCEPT ![tgt[p]] = TRUE]
        /\ \/ /\ work' = [work EXCEPT ![tgt[p]] = Baseline]
              /\ Goto(p, "prep.journal")
           \/ /\ UNCHANGED work                \* write_blobs threw
              /\ Goto(p, "release")
  /\ UNCHANGED <<lock, now, safe, returned, logs, family, tgt, mem, found, shot, sig>>

PrepareJournal(p) ==
  /\ At(p, "prep.journal")
  /\ Persist(p, Prepared, "release", "release")
  /\ UNCHANGED <<lock, made, tree, family, tgt, found, shot, sig>>

-----------------------------------------------------------------------------
(* run_session *)

BeginRun(p, s) == Start(p, s, "run.read")

(* Interrupt check, read, and the refusal of anything but prepared.        *)
RunRead(p) ==
  /\ At(p, "run.read")
  /\ \/ Abandon(p)                             \* interrupt, or no authorization
     \/ /\ ~sig[p]
        /\ Valid(now[tgt[p]])
        /\ now[tgt[p]].state = "prepared"
        /\ Proceed(p, "run.preflight", now[tgt[p]])
        /\ NotReplaced
  /\ UNCHANGED <<lock, made, tree, family, tgt, found, shot, sig>>

(* synthetic_preflight / native_preflight.  Pins, engine and policy live   *)
(* outside the store and may differ at any time; the workspace and the     *)
(* logs are this model's own.                                              *)
RunPreflight(p) ==
  LET s == tgt[p] IN
  /\ At(p, "run.preflight")
  /\ \/ /\ work[s] = Baseline
        /\ ~logs[s]
        /\ Goto(p, "run.intent")
        /\ UNCHANGED mem
        /\ NotReplaced
     \/ IF sig[p]
          THEN Abandon(p)
          ELSE Advance(p, Diagnose(mem[p], {"preflight-failed"}), "failed",
                       "release", "release")
  /\ UNCHANGED <<lock, made, tree, family, tgt, found, shot, sig>>

(* Defect: the child is spawned although the intent may not be durable.    *)
RunIntentHasty(p) ==
  /\ At(p, "run.intent")
  /\ IF sig[p]
       THEN Abandon(p)
       ELSE Advance(p, mem[p], "launching", "run.spawn", "run.spawn")
  /\ UNCHANGED <<lock, made, tree, family, tgt, found, shot, sig>>

(* Durable intent: launching is persisted before anything is spawned.      *)
RunIntent(p) ==
  /\ At(p, "run.intent")
  /\ IF sig[p]
       THEN Abandon(p)
       ELSE Advance(p, mem[p], "launching", "run.spawn", "release")
  /\ UNCHANGED <<lock, made, tree, family, tgt, found, shot, sig>>

(* fork, exec and the exec-error handshake.                                *)
RunSpawn(p) ==
  LET s == tgt[p] IN
  /\ At(p, "run.spawn")
  /\ \/ /\ sig[p]                              \* left launching
        /\ Abandon(p)
        /\ UNCHANGED <<child, spawns>>
     \/ /\ ~sig[p]
        /\ child' = [child EXCEPT ![s] = "running"]
        /\ spawns' = [spawns EXCEPT ![s] = @ + 1]
        /\ Goto(p, "run.logs")
        /\ UNCHANGED mem
        /\ NotReplaced
     \/ /\ ~sig[p]
        /\ Advance(p, Diagnose(mem[p], {"spawn-failed"}), "failed",
                   "release", "release")
        /\ UNCHANGED <<child, spawns>>
  /\ UNCHANGED <<lock, made, tree, kin, tgt, found, shot, sig>>

(* Sink::open: an exclusive create whose failure is only recorded.         *)
RunLogs(p) ==
  /\ At(p, "run.logs")
  /\ \E opened \in BOOLEAN : logs' = [logs EXCEPT ![tgt[p]] = @ \/ opened]
  /\ Goto(p, "run.started")
  /\ UNCHANGED <<disk, work, returned, family, tgt, mem, found, shot, sig>>

(* The on_started callback; when its write throws the child is stopped.    *)
RunStarted(p) ==
  /\ At(p, "run.started")
  /\ Advance(p, mem[p], "running", "run.wait", "run.unwind")
  /\ UNCHANGED <<lock, made, tree, family, tgt, found, shot, sig>>

(* Defect: the stop sequence signals a running child and does not wait.    *)
Signalled(p) == child' = [child EXCEPT ![tgt[p]] = IF @ = "running" THEN @ ELSE "reaped"]

Reaped(p) == child' = [child EXCEPT ![tgt[p]] = "reaped"]

(* Defect: the supervision loop has no timeout and no cancel check.        *)
RunWaitForever(p) ==
  /\ At(p, "run.wait")
  /\ child[tgt[p]] = "zero"
  /\ Reaped(p)
  /\ Proceed(p, "run.returned", [mem[p] EXCEPT !.clean = TRUE])
  /\ UNCHANGED <<disk, tree, kin, spawns, tgt, found, shot, sig>>

(* The supervision loop: exit, cancellation or timeout.  stop_owned reaps  *)
(* the child, except that one which survives SIGKILL for five seconds      *)
(* makes it throw.                                                         *)
RunWait(p) ==
  LET s == tgt[p]
      end(clean) ==
        /\ Reaped(p)
        /\ mem' = [mem EXCEPT ![p] =
                     Diagnose([@ EXCEPT !.clean = clean],
                              IF clean THEN {} ELSE {"process-stopped"})]
        /\ Goto(p, "run.returned")
  IN
  /\ At(p, "run.wait")
  /\ \/ child[s] = "zero" /\ end(TRUE)
     \/ child[s] = "nonzero" /\ end(FALSE)
     \/ end(FALSE)                             \* timeout, cancel or interrupt
     \/ /\ Goto(p, "run.unwind")               \* stop_owned or a pipe throws
        /\ UNCHANGED <<child, mem>>
  /\ UNCHANGED <<disk, tree, kin, spawns, tgt, found, shot, sig>>

(* Defect: the job of a child that ended is not terminated.                *)
RunReturnedLeaving(p) ==
  /\ At(p, "run.returned")
  /\ \/ Abandon(p)
     \/ \E lost \in SUBSET {"log-capture-failed"} :
          Advance(p, Diagnose(mem[p], lost), "returned", "release", "release")
  /\ UNCHANGED <<lock, made, tree, family, tgt, found, shot, sig>>

(* finish drains the logs for at most two seconds, then returned is        *)
(* persisted.  On Windows the job takes the descendants with it.           *)
RunReturned(p) ==
  /\ At(p, "run.returned")
  /\ \/ Abandon(p)                             \* a pipe or wait call failed
     \/ \E lost \in SUBSET {"log-capture-failed"} :
          Advance(p, Diagnose(mem[p], lost), "returned", "release", "release")
  /\ kin' = [kin EXCEPT ![tgt[p]] = @ /\ ~KillOnClose]
  /\ UNCHANGED <<lock, made, tree, child, spawns, tgt, found, shot, sig>>

(* catch (...): stop_owned, whose own failure is swallowed, and rethrow;   *)
(* on Windows the job closes with the supervisor.                          *)
RunUnwind(p) ==
  LET s == tgt[p] IN
  /\ At(p, "run.unwind")
  /\ \/ Reaped(p)
     \/ /\ child[s] = "running"
        /\ child' = [child EXCEPT ![s] = IF KillOnClose THEN "gone" ELSE @]
  /\ kin' = [kin EXCEPT ![s] = @ /\ ~KillOnClose]
  /\ Proceed(p, "release", NoJournal)
  /\ UNCHANGED <<disk, tree, spawns, tgt, found, shot, sig>>

-----------------------------------------------------------------------------
(* recover_session and reconcile_session *)

BeginRecover(p, s) == Start(p, s, "recover.read")

RecoverRead(p) ==
  LET j == now[tgt[p]] IN
  /\ At(p, "recover.read")
  /\ IF ~Valid(j) THEN Abandon(p)
     ELSE CASE j.state \in {"launching", "running"} ->
                 Advance(p, Diagnose(j, {"process-ownership-lost"}),
                         "interrupted", "release", "release")
            [] j.state \in {"returned", "inspecting"} ->
                 Proceed(p, "rec.inspecting", j) /\ NotReplaced
            [] OTHER -> Abandon(p)
  /\ UNCHANGED <<lock, made, tree, family, tgt, found, shot, sig>>

BeginReconcile(p, s) == Start(p, s, "reconcile.read")

ReconcileRead(p) ==
  LET j == now[tgt[p]] IN
  /\ At(p, "reconcile.read")
  /\ IF Valid(j) /\ j.state \in {"returned", "inspecting"}
       THEN Proceed(p, "rec.inspecting", j) /\ NotReplaced
       ELSE Abandon(p)
  /\ UNCHANGED <<lock, made, tree, family, tgt, found, shot, sig>>

(* reconcile_locked *)
RecInspecting(p) ==
  /\ At(p, "rec.inspecting")
  /\ IF mem[p].state = "returned"
       THEN Advance(p, mem[p], "inspecting", "rec.evidence", "release")
       ELSE Goto(p, "rec.evidence") /\ UNCHANGED mem /\ NotReplaced
  /\ UNCHANGED <<lock, made, tree, family, tgt, found, shot, sig>>

(* Defect: recovery starts from an empty list of findings.                 *)
RecEvidenceAfresh(p) ==
  /\ At(p, "rec.evidence")
  /\ \E review \in SUBSET {"source-review-required"} :
       found' = [found EXCEPT ![p] = review]
  /\ Goto(p, "rec.capture")
  /\ UNCHANGED <<disk, tree, family, tgt, mem, shot, sig>>

(* Process outcome, pinned evidence, baseline and workspace.               *)
RecEvidence(p) ==
  /\ At(p, "rec.evidence")
  /\ \E review \in SUBSET {"source-review-required"} :
       found' = [found EXCEPT ![p] =
         mem[p].diagnostics \cup review \cup
         (IF mem[p].clean THEN {} ELSE {"unclean-process-return"})]
  /\ Goto(p, "rec.capture")
  /\ UNCHANGED <<disk, tree, family, tgt, mem, shot, sig>>

Review(p, code) == found' = [found EXCEPT ![p] = @ \cup {code}]

RecCapture(p) ==
  LET seen == work[tgt[p]] IN
  /\ At(p, "rec.capture")
  /\ \/ /\ Review(p, "return-review-required")  \* unsafe or unreadable path
        /\ Goto(p, "rec.final")
        /\ UNCHANGED shot
     \/ /\ shot' = [shot EXCEPT ![p] = seen]
        /\ found' = [found EXCEPT ![p] = @ \cup
             (IF \E m \in Members : seen[m] = Missing
                THEN {"missing-state-member"} ELSE {})]
        /\ Goto(p, "rec.freeze")
  /\ UNCHANGED <<disk, tree, family, tgt, mem, sig>>

(* Defect: every attempt replaces return_capture.                          *)
RecFreezeLatest(p) ==
  LET j == [mem[p] EXCEPT !.capture = shot[p], !.diagnostics = found[p]] IN
  /\ At(p, "rec.freeze")
  /\ mem' = [mem EXCEPT ![p] = j]
  /\ \/ /\ Replaced(tgt[p], j)
        /\ Goto(p, "rec.compare")
        /\ UNCHANGED found
     \/ /\ Throws(tgt[p], j)
        /\ Review(p, "return-review-required")
        /\ Goto(p, "rec.final")
  /\ UNCHANGED <<lock, made, tree, family, tgt, shot, sig>>

(* return_capture is set once and persisted with the findings so far,      *)
(* before anything is copied.  A failed write is one more finding.         *)
RecFreeze(p) ==
  LET j == [mem[p] EXCEPT
              !.capture = IF @ = NoCapture THEN shot[p] ELSE @,
              !.diagnostics = found[p]] IN
  /\ At(p, "rec.freeze")
  /\ mem' = [mem EXCEPT ![p] = j]
  /\ \/ /\ Replaced(tgt[p], j)
        /\ Goto(p, "rec.compare")
        /\ UNCHANGED found
     \/ /\ Throws(tgt[p], j)
        /\ Review(p, "return-review-required")
        /\ Goto(p, "rec.final")
  /\ UNCHANGED <<lock, made, tree, family, tgt, shot, sig>>

(* Later bytes never replace the first capture, nor an earlier copy.       *)
RecCompare(p) ==
  LET copy == returned[tgt[p]] IN
  /\ At(p, "rec.compare")
  /\ IF \/ mem[p].capture # shot[p]
        \/ \E m \in Members : copy[m] # Missing /\ copy[m] # shot[p][m]
       THEN Review(p, "return-review-required") /\ Goto(p, "rec.final")
       ELSE Goto(p, "rec.copy") /\ UNCHANGED found
  /\ UNCHANGED <<disk, tree, family, tgt, mem, shot, sig>>

(* write_blobs, one member at a time, then the verification of the copy.   *)
RecCopy(p) ==
  LET s == tgt[p]
      copy(m) == returned' = [returned EXCEPT ![s][m] = shot[p][m]]
      pending == { m \in Members : returned[s][m] # shot[p][m] }
      giveup == Review(p, "return-review-required") /\ Goto(p, "rec.final")
  IN
  /\ At(p, "rec.copy")
  /\ \/ /\ \E m \in pending :
             /\ copy(m)
             /\ (UNCHANGED <<pc, found>>) \/ giveup
     \/ UNCHANGED returned /\ giveup
     \/ /\ pending = {}
        /\ Goto(p, "rec.inspect")
        /\ UNCHANGED <<returned, found>>
  /\ UNCHANGED <<disk, work, logs, family, tgt, mem, shot, sig>>

(* The codec inspects the verified copy.                                   *)
RecInspect(p) ==
  /\ At(p, "rec.inspect")
  /\ \/ Review(p, "return-review-required")     \* codec evidence changed
     \/ IF \E m \in Members : returned[tgt[p]][m] \in Unreadable
          THEN Review(p, "codec-findings")
          ELSE UNCHANGED found
  /\ Goto(p, "rec.final")
  /\ UNCHANGED <<disk, tree, family, tgt, mem, shot, sig>>

RecFinal(p) ==
  /\ At(p, "rec.final")
  /\ Advance(p, [mem[p] EXCEPT !.diagnostics = found[p], !.members = shot[p]],
             IF found[p] = {} THEN "candidate" ELSE "quarantined",
             "release", "release")
  /\ found' = [found EXCEPT ![p] = {}]
  /\ shot' = [shot EXCEPT ![p] = NoCapture]
  /\ UNCHANGED <<lock, made, tree, family, tgt, sig>>

-----------------------------------------------------------------------------
(* The child, its descendants, the operator and the machine.               *)

(* Ctrl-C only raises a flag, which only run reads.  After the spawn, and  *)
(* for a cancel request, its one effect is that RunWait stops the child.   *)
Interrupt(p) ==
  /\ pc[p] \in {"run.read", "run.preflight", "run.intent", "run.spawn"}
  /\ ~sig[p]
  /\ sig' = [sig EXCEPT ![p] = TRUE]
  /\ UNCHANGED <<disk, tree, family, pc, tgt, mem, found, shot>>

ChildWrite(s) ==
  /\ child[s] = "running" \/ kin[s]
  /\ \E m \in Members, v \in Contents : work' = [work EXCEPT ![s][m] = v]
  /\ UNCHANGED <<disk, returned, logs, family, local>>

ChildFork(s) ==
  /\ child[s] = "running"
  /\ ~kin[s]
  /\ kin' = [kin EXCEPT ![s] = TRUE]
  /\ UNCHANGED <<disk, tree, child, spawns, local>>

ChildExit(s) ==
  /\ child[s] = "running"
  /\ \E how \in {"zero", "nonzero"} : child' = [child EXCEPT ![s] = how]
  /\ UNCHANGED <<disk, tree, kin, spawns, local>>

KinExit(s) ==
  /\ kin[s]
  /\ kin' = [kin EXCEPT ![s] = FALSE]
  /\ UNCHANGED <<disk, tree, child, spawns, local>>

(* A command is killed: its lock stays, and on POSIX so does its child.    *)
Crash(p) ==
  LET s == tgt[p]
      owner == pc[p] \in {"run.logs", "run.started", "run.wait",
                          "run.returned", "run.unwind"}
  IN
  /\ pc[p] # "idle"
  /\ lock' = "stale"
  /\ Forget(p)
  /\ IF KillOnClose /\ owner
       THEN /\ child' = [child EXCEPT ![s] = IF @ = "reaped" THEN @ ELSE "gone"]
            /\ kin' = [kin EXCEPT ![s] = FALSE]
       ELSE UNCHANGED <<child, kin>>
  /\ UNCHANGED <<made, now, safe, tree, spawns>>

(* The operator removes a lock whose owner is gone.  The documents ask for *)
(* the children to be checked as well; the model does not rely on it.      *)
ManualUnlock ==
  /\ lock = "stale"
  /\ lock' = "free"
  /\ UNCHANGED <<made, now, safe, tree, family, local>>

(* Every process dies; a rename whose directory was not synced may be      *)
(* undone, and what the child and the logs never synced may be lost.  Of   *)
(* Windows the code promises nothing here: no power is lost there.         *)
PowerLoss ==
  /\ ~KillOnClose
  /\ lock' \in IF lock = "free" THEN {"free"} ELSE {"free", "stale"}
  /\ \/ now' = safe /\ UNCHANGED safe
     \/ safe' = now /\ UNCHANGED now
  /\ \E writes, copies \in SUBSET Members :
       /\ work' = [s \in Sessions |->
            [m \in Members |-> IF made[s] /\ m \in writes THEN Original
                                                         ELSE work[s][m]]]
       /\ returned' = [s \in Sessions |->
            [m \in Members |-> IF now'[s].state # "candidate" /\ m \in copies
                                 THEN Missing ELSE returned[s][m]]]
  /\ logs' \in {logs, [s \in Sessions |-> FALSE]}
  /\ child' = [s \in Sessions |->
                IF child[s] \in {"none", "reaped"} THEN child[s] ELSE "gone"]
  /\ kin' = [s \in Sessions |-> FALSE]
  /\ pc' = [p \in Procs |-> "idle"]
  /\ mem' = [p \in Procs |-> NoJournal]
  /\ found' = [p \in Procs |-> {}]
  /\ shot' = [p \in Procs |-> NoCapture]
  /\ sig' = [p \in Procs |-> FALSE]
  /\ UNCHANGED <<made, spawns, tgt>>

-----------------------------------------------------------------------------
Begin(p) ==
  \E s \in Sessions : \/ BeginPrepare(p, s) \/ BeginRun(p, s)
                      \/ BeginRecover(p, s) \/ BeginReconcile(p, s)

(* One step of the command process p is executing.                         *)
Step(p) ==
  \/ PrepareRoot(p) \/ PrepareJournal(p)
  \/ RunRead(p) \/ RunPreflight(p) \/ RunIntent(p) \/ RunSpawn(p)
  \/ RunLogs(p) \/ RunStarted(p) \/ RunWait(p) \/ RunReturned(p) \/ RunUnwind(p)
  \/ RecoverRead(p) \/ ReconcileRead(p)
  \/ RecInspecting(p) \/ RecEvidence(p) \/ RecCapture(p) \/ RecFreeze(p)
  \/ RecCompare(p) \/ RecCopy(p) \/ RecInspect(p) \/ RecFinal(p)
  \/ Release(p)

World ==
  \/ \E p \in Procs : Interrupt(p) \/ Crash(p)
  \/ \E s \in Sessions : ChildWrite(s) \/ ChildFork(s) \/ ChildExit(s) \/ KinExit(s)
  \/ ManualUnlock
  \/ PowerLoss

Next == (\E p \in Procs : Begin(p) \/ Step(p)) \/ World

(* A command that is not killed keeps running; nothing is assumed of the   *)
(* child, which may hang forever and ignore SIGTERM.                       *)
Spec == Init /\ [][Next]_vars /\ \A p \in Procs : WF_vars(Step(p))

-----------------------------------------------------------------------------
(* Properties                                                              *)

(* A live command holds lodge.lock, so at most one command is under way;   *)
(* a crash, a stale lock and the operator's removal of it do not break     *)
(* this (WriterLock, store_write.cpp).                                     *)
WriterAlone == \A p \in Procs : pc[p] # "idle" => lock = p

(* What keeps TypeOK and LaunchedOnce: where each step of a command finds  *)
(* its session, its journal in memory and the bytes it captured.           *)
Fresh == {"absent", "prepared"}
Unmade(s) ==
  ~made[s] => now[s].state = "absent" /\ safe[s].state = "absent" /\ spawns[s] = 0
Knows(p) ==
  /\ pc[p] = "prep.root" => ~made[tgt[p]]
  /\ pc[p] \notin {"idle", "release", "prep.root", "run.read",
                   "recover.read", "reconcile.read"} => made[tgt[p]]
  /\ pc[p] \in {"prep.journal", "run.preflight", "run.intent", "run.spawn"} =>
       spawns[tgt[p]] = 0
  /\ pc[p] = "run.spawn" =>
       now[tgt[p]].state \notin Fresh /\ safe[tgt[p]].state \notin Fresh
  /\ pc[p] \in {"rec.inspecting", "rec.evidence", "rec.capture", "rec.freeze"} =>
       mem[p].state \notin Fresh
  /\ pc[p] \in {"rec.freeze", "rec.compare", "rec.copy"} => shot[p] \in Trees
CommandSteps == (\A s \in Sessions : Unmade(s)) /\ (\A p \in Procs : Knows(p))

(* A session's child is started at most once, and once it was started      *)
(* neither a reader nor a power cut finds the session prepared again:      *)
(* launching is durable before the fork (run_session; "Prepared sessions   *)
(* can explicitly launch once", SESSION_MODEL.md).                         *)
LaunchedOnce ==
  \A s \in Sessions :
    /\ spawns[s] <= 1
    /\ spawns[s] > 0 => now[s].state \notin Fresh /\ safe[s].state \notin Fresh

(* No state the child can still write to is taken for returned: from       *)
(* returned on, the direct child has been reaped.                          *)
AfterReturn == {"returned", "inspecting", "candidate", "quarantined"}
ReturnedMeansReaped ==
  \A s \in Sessions : now[s].state \in AfterReturn => child[s] = "reaped"

(* A candidate is a complete, readable pair whose retained copy is exactly *)
(* the first durable capture, left by a clean process, with no finding of  *)
(* any earlier attempt forgotten (reconcile_locked).                       *)
CandidateSound ==
  \A s \in Sessions : now[s].state = "candidate" =>
    /\ now[s].clean
    /\ now[s].diagnostics = {}
    /\ returned[s] = now[s].capture
    /\ now[s].members = now[s].capture
    /\ \A m \in Members : returned[s][m] \in Values \ Unreadable

(* A session's durable history only grows, and what a reader sees extends  *)
(* it: a terminal session never comes back to life, and a power cut takes  *)
(* back at most the last, unsynced event (transition, persist).            *)
IsPrefixOf(a, b) == Len(a) <= Len(b) /\ SubSeq(b, 1, Len(a)) = a
HistoryGrows ==
  [][\A s \in Sessions :
       /\ IsPrefixOf(safe[s].transitions, safe'[s].transitions)
       /\ IsPrefixOf(safe'[s].transitions, now'[s].transitions)]_vars

(* Evidence is never replaced: a durable capture is final, durable         *)
(* findings are never dropped, and a retained copy of a member is never    *)
(* overwritten by other bytes (reconcile_locked).                          *)
EvidenceKept ==
  [][\A s \in Sessions :
       /\ safe[s].capture # NoCapture => safe'[s].capture = safe[s].capture
       /\ safe[s].diagnostics \subseteq safe'[s].diagnostics
       /\ \A m \in Members :
            returned[s][m] # Missing => returned'[s][m] \in {Missing, returned[s][m]}]_vars

(* On Windows the workspace still holds what was captured, however many    *)
(* attempts of reconcile it took and whoever was killed meanwhile: the     *)
(* descendants the child left ended before returned was written            *)
(* ("Descendants holding the pipes past the log bound die with the job",   *)
(* session_process.cpp, run).                                              *)
CaptureStands ==
  KillOnClose =>
    \A s \in Sessions : now[s].capture # NoCapture => work[s] = now[s].capture

(* A command that is not killed ends, though the child may hang, ignore    *)
(* SIGTERM and keep its pipes open: every wait in run_session is bounded.  *)
CommandsEnd == \A p \in Procs : pc[p] # "idle" ~> pc[p] = "idle"
=============================================================================
