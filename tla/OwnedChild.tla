----------------------------- MODULE OwnedChild -----------------------------
(***************************************************************************)
(* The child process of one run and what the frontend shares with it:      *)
(* process_internal.hpp's Child (with its prestarted waiter thread), the   *)
(* pipes, and, as far as the run can tell, the kernel and the program that *)
(* was started.  ProbeRun and SessionRun are the two supervisors.          *)
(*                                                                         *)
(* Bytes are counted, in units of which a pipe holds Cap; a pipe is open   *)
(* for writing while some process holds its write end.  A pid is free for  *)
(* another process as soon as the child has been reaped, so that a signal  *)
(* or a wait that comes later hits a bystander.                            *)
(***************************************************************************)
EXTENDS Naturals

CONSTANTS
  Cap,      \* units a pipe holds
  Input,    \* units of the request a codec helper is sent
  MaxMade   \* units the program and its own child write at most, in all

ASSUME BoundsAssumption == Cap \in Nat \ {0} /\ Input \in Nat /\ MaxMade \in Nat

Streams == {"out", "err"}
Kinds == {"probe", "session"}

(* What the program does: it behaves, cannot be executed, stops for ever   *)
(* at some point, does so and is never hit by a signal (it sleeps in the   *)
(* kernel), or leaves a process behind that keeps its output pipes.        *)
Programs == {"well", "fails", "hangs", "wedged", "forks"}

VARIABLES
  kind,       \* which supervisor runs: "probe" or "session"
  prog,       \* the program
  proc,       \* the child: "none", "setup", "run", "zombie" or "gone"
  owner,      \* whose the pid is: "free", "child" or "other"
  pending,    \* signals sent to the child and not delivered
  doing,      \* what the program is at: "idle", "read", "out", "err", "hang"
  sawEof,     \* the program has read its input to the end
  made,       \* units written to each stream so far
  inq,        \* standard input: [buf, w: parent's end, r: child's end]
  outq,       \* each output pipe: [buf, ends: writers, r: parent's end]
  failq,      \* exec-error pipe: [report, w: child's end, r: parent's end]
  reaped,     \* Child.reaped
  cleanup,    \* *Child.cleanup: "unset" (-2), "none" (-1) or "pid"
  waiter,     \* the waiter thread: "polls", "waits" or "over"
  trespass    \* a bystander was signalled or waited for

child == <<proc, owner, pending, doing, sawEof, made, inq, outq, failq>>
reaping == <<reaped, cleanup, waiter, trespass>>
owned == <<kind, prog, child, reaping>>

OwnedInit ==
  /\ kind \in Kinds
  /\ prog \in Programs
  /\ proc = "none"
  /\ owner = "free"
  /\ pending = {}
  /\ doing = "idle"
  /\ sawEof = FALSE
  /\ made = [s \in Streams |-> 0]
  /\ inq = [buf |-> 0, w |-> TRUE, r |-> TRUE]
  /\ outq = [s \in Streams |-> [buf |-> 0, ends |-> {}, r |-> TRUE]]
  /\ failq = [report |-> FALSE, w |-> TRUE, r |-> TRUE]
  /\ reaped = FALSE
  /\ cleanup = "unset"
  /\ waiter = "polls"
  /\ trespass = FALSE

-----------------------------------------------------------------------------
(* The kernel and the program.                                             *)

MadeSoFar == made["out"] + made["err"]

(* What closes when the child dies: all its ends.                          *)
Dies ==
  /\ proc' = "zombie"
  /\ pending' = {}
  /\ doing' = "idle"
  /\ inq' = [inq EXCEPT !.r = FALSE]
  /\ outq' = [s \in Streams |-> [outq[s] EXCEPT !.ends = @ \ {"child"}]]
  /\ UNCHANGED <<kind, prog, owner, sawEof, made, reaping>>

(* Between fork and exec: execv closes the exec-error pipe ...             *)
Exec ==
  /\ proc = "setup" /\ prog # "fails"
  /\ proc' = "run"
  /\ failq' = [failq EXCEPT !.w = FALSE]
  /\ outq' = IF prog = "forks"
             THEN [s \in Streams |-> [outq[s] EXCEPT !.ends = @ \cup {"heir"}]]
             ELSE outq
  /\ UNCHANGED <<kind, prog, owner, pending, doing, sawEof, made, inq, reaping>>

(* ... and a failed step reports its errno on it and exits 127.            *)
SetupFails ==
  /\ proc = "setup" /\ prog = "fails"
  /\ failq' = [failq EXCEPT !.report = TRUE, !.w = FALSE]
  /\ Dies

(* The program turns to its next operation, which may block.               *)
Turn ==
  /\ proc = "run" /\ doing = "idle"
  /\ \/ kind = "probe" /\ ~sawEof /\ doing' = "read"
     \/ \E s \in Streams : MadeSoFar < MaxMade /\ doing' = s
     \/ prog \in {"hangs", "wedged"} /\ doing' = "hang"
  /\ UNCHANGED <<kind, prog, proc, owner, pending, sawEof, made, inq, outq, failq, reaping>>

Reads ==
  /\ proc = "run" /\ doing = "read"
  /\ inq.buf > 0 \/ ~inq.w
  /\ inq' = [inq EXCEPT !.buf = IF @ > 0 THEN @ - 1 ELSE 0]
  /\ sawEof' = (inq.buf = 0)
  /\ doing' = "idle"
  /\ UNCHANGED <<kind, prog, proc, owner, pending, made, outq, failq, reaping>>

Put(s) ==
  /\ outq[s].r /\ outq[s].buf < Cap
  /\ outq' = [outq EXCEPT ![s].buf = @ + 1]
  /\ made' = [made EXCEPT ![s] = @ + 1]

Writes(s) ==
  /\ proc = "run" /\ doing = s
  /\ Put(s)
  /\ doing' = "idle"
  /\ UNCHANGED <<kind, prog, proc, owner, pending, sawEof, inq, failq, reaping>>

Exits ==
  /\ proc = "run" /\ doing = "idle"
  /\ UNCHANGED failq
  /\ Dies

(* A signal is delivered; a program may catch SIGTERM, or take its time.   *)
Killed(sig) ==
  /\ proc \in {"setup", "run"} /\ sig \in pending
  /\ prog # "wedged"
  /\ failq' = [failq EXCEPT !.w = FALSE]
  /\ Dies

(* The process the program left behind writes to its pipes, or ends.       *)
HeirWrites(s) ==
  /\ "heir" \in outq[s].ends
  /\ MadeSoFar + (IF doing \in Streams THEN 1 ELSE 0) < MaxMade
  /\ Put(s)
  /\ UNCHANGED <<kind, prog, proc, owner, pending, doing, sawEof, inq, failq, reaping>>

HeirEnds ==
  /\ \E s \in Streams : "heir" \in outq[s].ends
  /\ outq' = [s \in Streams |-> [outq[s] EXCEPT !.ends = @ \ {"heir"}]]
  /\ UNCHANGED <<kind, prog, proc, owner, pending, doing, sawEof, made, inq, failq, reaping>>

(* Another process gets the pid of a child that was reaped.                *)
PidReused ==
  /\ owner = "free" /\ proc = "gone"
  /\ owner' = "other"
  /\ UNCHANGED <<kind, prog, proc, pending, doing, sawEof, made, inq, outq, failq, reaping>>

ChildRuns == Exec \/ SetupFails \/ Turn \/ Reads \/ Exits \/ \E s \in Streams : Writes(s)
KillDelivered == Killed("KILL")
KernelStep ==
  \/ ChildRuns \/ KillDelivered \/ Killed("TERM") \/ HeirEnds \/ PidReused
  \/ \E s \in Streams : HeirWrites(s)

-----------------------------------------------------------------------------
(* Child: what the supervisor's thread does with the process.              *)

(* fork.  The parent then closes its copies of the child's ends.           *)
Forked ==
  /\ proc' = "setup"
  /\ owner' = "child"
  /\ outq' = [s \in Streams |-> [outq[s] EXCEPT !.ends = {"child"}]]

(* kill(pid, sig).                                                         *)
Signal(sig) ==
  /\ pending' = IF owner = "child" /\ proc # "zombie" THEN pending \cup {sig} ELSE pending
  /\ trespass' = (trespass \/ owner # "child")

(* waitpid that finds the child dead.                                      *)
Reap ==
  /\ proc = "zombie"
  /\ proc' = "gone"
  /\ owner' = "free"

(* Defect: the status is taken and reaped is not set.                      *)
TryWaitForgets ==
  /\ Reap
  /\ UNCHANGED reaped

(* Child::try_wait.                                                        *)
TryWait ==
  /\ Reap
  /\ reaped' = TRUE

HasPid == proc # "none"

(* ~Child: SIGKILL unless reaped, ...                                      *)
Condemn ==
  /\ HasPid /\ ~reaped
  /\ Signal("KILL")

(* Defect: the child is abandoned to nobody.                               *)
HandOverNothing == cleanup' = "none"

(* ... the end of its 250 ms of waitpid(WNOHANG): the waiter takes over.   *)
HandOver == cleanup' = IF HasPid /\ ~reaped THEN "pid" ELSE "none"

(* The waiter thread: it polls cleanup, then waits for the pid it finds.   *)
WaiterAcquires ==
  /\ waiter = "polls" /\ cleanup # "unset"
  /\ waiter' = IF cleanup = "pid" THEN "waits" ELSE "over"
  /\ trespass' = (trespass \/ (cleanup = "pid" /\ owner # "child"))
  /\ UNCHANGED <<kind, prog, child, reaped, cleanup>>

WaiterReaps ==
  /\ waiter = "waits"
  /\ Reap
  /\ waiter' = "over"
  /\ UNCHANGED <<kind, prog, pending, doing, sawEof, made, inq, outq, failq, reaped, cleanup, trespass>>

WaiterStep == WaiterAcquires \/ WaiterReaps

OwnedTypeOK ==
  /\ kind \in Kinds /\ prog \in Programs
  /\ proc \in {"none", "setup", "run", "zombie", "gone"}
  /\ owner \in {"free", "child", "other"}
  /\ pending \in SUBSET {"TERM", "KILL"}
  /\ doing \in {"idle", "read", "hang"} \cup Streams
  /\ sawEof \in BOOLEAN
  /\ made \in [Streams -> 0 .. MaxMade]
  /\ inq \in [buf : 0 .. Cap, w : BOOLEAN, r : BOOLEAN]
  /\ outq \in [Streams -> [buf : 0 .. Cap, ends : SUBSET {"child", "heir"}, r : BOOLEAN]]
  /\ failq \in [report : BOOLEAN, w : BOOLEAN, r : BOOLEAN]
  /\ reaped \in BOOLEAN
  /\ cleanup \in {"unset", "none", "pid"}
  /\ waiter \in {"polls", "waits", "over"}
  /\ trespass \in BOOLEAN
=============================================================================
