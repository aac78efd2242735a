--------------------------- MODULE ChildSupervisor ---------------------------
(***************************************************************************)
(* A run of either supervisor with its child, the kernel, the waiter       *)
(* thread, the clock and the user.                                         *)
(***************************************************************************)
EXTENDS SessionRun

vars == session

Init == OwnedInit /\ SessionInit

Supervise ==
  \/ (ProbeStep \/ ForkFails \/ DestroyStep) /\ UNCHANGED telling
  \/ SessionStep
Waiter == WaiterStep /\ UNCHANGED <<running, probing, telling>>
Kernel == KernelStep /\ UNCHANGED <<running, probing, telling>>
Clock == Expires /\ UNCHANGED telling

Next == Supervise \/ Waiter \/ Kernel \/ Clock \/ UserCancels

(* Both threads run.  A program goes on until it stops by itself, and a    *)
(* SIGKILL arrives in the end.  The deadline is only counted on where the  *)
(* program does not behave: a run with a helper that does must need none.  *)
Fairness ==
  /\ WF_vars(Supervise)
  /\ WF_vars(Waiter)
  /\ WF_vars(ChildRuns /\ UNCHANGED <<running, probing, telling>>)
  /\ WF_vars(KillDelivered /\ UNCHANGED <<running, probing, telling>>)
  /\ WF_vars(prog # "well" /\ Clock)

Spec == Init /\ [][Next]_vars
LiveSpec == Spec /\ Fairness

-----------------------------------------------------------------------------
(* Every variable stays in its type, and the supervisor in its states.     *)
TypeOK ==
  /\ OwnedTypeOK /\ RunningTypeOK /\ SessionTypeOK
  /\ pc \in {"spawn", "loop", "handshake", "watch", "stop", "terminate", "grace", "kill", "reap",
             "finish", "destroy", "last wait", "done"}
  /\ answer \in {"none", "result", "timed out", "output exceeds", "exec failed", "fork failed",
                 "spawn failed", "thrown"}

(* process_internal.hpp: no signal and no waitpid of the supervisor or of  *)
(* the waiter thread ever hits a process other than the run's own child,   *)
(* although its pid may be reused as soon as somebody has reaped it.       *)
BystandersLive == ~trespass

(* A run that answers has the whole of what the program and its heirs      *)
(* wrote and will write: probe_process returns every unit of both streams, *)
(* and a session log that reports no error has accounted for every one.    *)
(* No outcome is told of a child that was not waited for.                  *)
Whole(s) == outq[s].ends = {} /\ outq[s].buf = 0 /\ got[s] = made[s]
EvidenceWhole ==
  answer = "result" =>
    /\ reaped
    /\ \A s \in Streams :
         IF kind = "probe" THEN Whole(s)
         ELSE ~log[s].error => Whole(s) /\ log[s].total = made[s]

(* Every run ends: a helper that behaves is served to its end although it  *)
(* fills its output pipes before it has read its input, and no program     *)
(* holds the frontend longer than the bounds of the code.                  *)
RunReturns == <>(pc = "done")

(* Whatever path the run took, a child that a signal can reach is dead and *)
(* reaped in the end: by the run, or by the waiter it leaves behind.       *)
ChildReaped == prog # "wedged" => ((proc # "none") ~> (proc = "gone"))
=============================================================================
