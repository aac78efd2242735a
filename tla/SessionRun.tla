----------------------------- MODULE SessionRun -----------------------------
(***************************************************************************)
(* session_process::run (POSIX): one hunt's engine.  The exec handshake is *)
(* read to its end before anything is told; the loop then waits for the    *)
(* exit, a cancellation or the timeout, and drains both output pipes into  *)
(* logs whose bytes are accounted in chunks.  stop_owned terminates, waits *)
(* GRACE, kills, waits REAP, and gives up; an exception, its own included, *)
(* stops the child once more on its way out.                               *)
(***************************************************************************)
EXTENDS ProbeRun

CONSTANT Chunk   \* CHUNK: units accounted together while the pipe is open

ASSUME ChunkAssumption == Chunk \in Nat \ {0}

VARIABLES
  cancel,   \* *cancel
  reason,   \* outcome.reason
  caught,   \* an exception has been caught and will be thrown on
  log       \* each Sink: [total, eof, error]

telling == <<cancel, reason, caught, log>>
session == <<owned, running, probing, telling>>

SessionInit ==
  /\ ProbeInit
  /\ cancel = FALSE
  /\ reason = "exited"
  /\ caught = FALSE
  /\ log = [s \in Streams |-> [total |-> 0, eof |-> FALSE, error |-> FALSE]]

(* The user, by way of the handlers of interrupt.hpp.                      *)
UserCancels ==
  /\ kind = "session" /\ pc \notin {"spawn", "done"} /\ ~cancel
  /\ cancel' = TRUE
  /\ UNCHANGED <<owned, running, probing, reason, caught, log>>

AtSession(at) == kind = "session" /\ pc = at

SessionForks ==
  /\ AtSession("spawn")
  /\ Forked
  /\ inq' = [inq EXCEPT !.w = FALSE]
  /\ pc' = "handshake"
  /\ UNCHANGED <<kind, prog, pending, doing, sawEof, made, failq, reaping, expired, got, answer, probing, telling>>

(* Popen's synchronous handshake: the report is followed by waitpid, its   *)
(* absence by the logs' creation, which may fail, and by on_started, which *)
(* may throw.                                                              *)
SpawnFails ==
  /\ AtSession("handshake") /\ failq.report
  /\ TryWait
  /\ Throws("spawn failed")
  /\ UNCHANGED <<kind, prog, pending, doing, sawEof, made, inq, outq, failq, cleanup, waiter, trespass, expired, got, probing, telling>>

Started ==
  /\ AtSession("handshake") /\ ~failq.w /\ ~failq.report
  /\ failq' = [failq EXCEPT !.r = FALSE]
  /\ \E unopened \in SUBSET Streams : log' = [s \in Streams |-> [log[s] EXCEPT !.error = s \in unopened]]
  /\ \/ pc' = "watch" /\ UNCHANGED caught
     \/ pc' = "stop" /\ caught' = TRUE
  /\ UNCHANGED <<kind, prog, proc, owner, pending, doing, sawEof, made, inq, outq, reaping, expired, got, answer, probing, cancel, reason>>

-----------------------------------------------------------------------------
(* Sink: consume accounts whole chunks, end the rest.                      *)

(* Defect: end accounts the pending units and keeps them.                  *)
ConsumedTwice(units, ended) == IF ended THEN units + (units % Chunk) ELSE units - (units % Chunk)

Consumed(units, ended) == IF ended THEN units ELSE units - (units % Chunk)

(* Supervisor::service, and the drains in it.                              *)
Service ==
  /\ \E s \in Streams : Readable(s)
  /\ got' = [s \in Streams |-> got[s] + IF Readable(s) THEN outq[s].buf ELSE 0]
  /\ outq' = [s \in Streams |-> IF Readable(s) THEN [outq[s] EXCEPT !.buf = 0, !.r = ~AtEof(s)] ELSE outq[s]]
  /\ log' = [s \in Streams |->
               IF Readable(s)
               THEN [log[s] EXCEPT !.total = Consumed(got[s] + outq[s].buf, AtEof(s)), !.eof = AtEof(s)]
               ELSE log[s]]

Services(at) ==
  /\ AtSession(at)
  /\ proc # "zombie"
  /\ Service
  /\ UNCHANGED <<kind, prog, proc, owner, pending, doing, sawEof, made, inq, failq, reaping, pc, expired, answer, probing, cancel, reason, caught>>

(* try_wait succeeds: on with the logs.                                    *)
ExitSeen(at) ==
  /\ AtSession(at)
  /\ TryWait
  /\ pc' = "finish"
  /\ UNCHANGED <<kind, prog, pending, doing, sawEof, made, inq, outq, failq, cleanup, waiter, trespass, expired, got, answer, probing, telling>>

(* The loop of run: cancel is looked at before the clock.                  *)
Interrupted ==
  /\ AtSession("watch") /\ proc # "zombie"
  /\ cancel \/ expired
  /\ reason' = IF cancel THEN "cancelled" ELSE "timeout"
  /\ pc' = "stop"
  /\ UNCHANGED <<owned, expired, got, answer, probing, cancel, caught, log>>

-----------------------------------------------------------------------------
(* stop_owned.  The child may die between its try_wait and its kill, and   *)
(* stays a zombie, its pid its own, until this thread waits for it.        *)

StopBegins ==
  /\ AtSession("stop") /\ proc # "zombie"
  /\ pc' = "terminate"
  /\ UNCHANGED <<owned, expired, got, answer, probing, telling>>

Signals(at, sig, next) ==
  /\ AtSession(at)
  /\ Signal(sig)
  /\ pc' = next
  /\ UNCHANGED <<kind, prog, proc, owner, doing, sawEof, made, inq, outq, failq, reaped, cleanup, waiter, expired, got, answer, probing, telling>>

GraceEnds ==
  /\ AtSession("grace") /\ proc # "zombie"
  /\ pc' = "kill"
  /\ UNCHANGED <<owned, expired, got, answer, probing, telling>>

(* wait_exit(REAP) fails: thrown out of run's try block the first time,    *)
(* swallowed by its handler the second.                                    *)
ReapEnds ==
  /\ AtSession("reap") /\ proc # "zombie"
  /\ pc' = IF caught THEN "finish" ELSE "stop"
  /\ caught' = TRUE
  /\ UNCHANGED <<owned, expired, got, answer, probing, cancel, reason, log>>

-----------------------------------------------------------------------------
(* finish, until both pipes are closed or FINISH is over; the code leaves  *)
(* the pipes and only then tells.                                          *)

FinishServices ==
  /\ AtSession("finish")
  /\ Service
  /\ UNCHANGED <<kind, prog, proc, owner, pending, doing, sawEof, made, inq, failq, reaping, pc, expired, answer, probing, cancel, reason, caught>>

(* Defect: the log of a pipe that was not read to its end is reported      *)
(* without an error.                                                       *)
LogResultUnfinished == [s \in Streams |-> log[s]]

(* Sink::result: an unfinished log is an error of the log.                 *)
LogResult == [s \in Streams |-> [log[s] EXCEPT !.error = @ \/ ~log[s].eof]]

FinishEnds ==
  /\ AtSession("finish")
  /\ outq' = [s \in Streams |-> [outq[s] EXCEPT !.r = FALSE]]
  /\ log' = LogResult
  /\ Throws(IF caught THEN "thrown" ELSE "result")
  /\ UNCHANGED <<kind, prog, proc, owner, pending, doing, sawEof, made, inq, failq, reaping, expired, got, probing, cancel, reason, caught>>

SessionStep ==
  \/ SessionForks \/ SpawnFails \/ Started
  \/ \E at \in {"watch", "grace", "reap"} : Services(at)
  \/ \E at \in {"watch", "stop", "grace", "reap"} : ExitSeen(at)
  \/ Interrupted \/ StopBegins \/ GraceEnds \/ ReapEnds
  \/ Signals("terminate", "TERM", "grace") \/ Signals("kill", "KILL", "reap")
  \/ FinishServices \/ FinishEnds

SessionTypeOK ==
  /\ cancel \in BOOLEAN /\ caught \in BOOLEAN
  /\ reason \in {"exited", "cancelled", "timeout"}
  /\ log \in [Streams -> [total : 0 .. MaxMade, eof : BOOLEAN, error : BOOLEAN]]
=============================================================================
