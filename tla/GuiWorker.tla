------------------------------ MODULE GuiWorker ------------------------------
(***************************************************************************)
(* Worker of Frontend/gui/model/src/worker.cpp: one thread, a queue of     *)
(* work, a queue of completions, and a mutex that every critical section   *)
(* of the code takes.  An action is one critical section, or what a thread *)
(* does between two of them.  The condition variable is explicit: submit   *)
(* pushes under the mutex and notifies after it, so that the thread may    *)
(* look at the queue in between, and a notification that finds nobody      *)
(* waiting is lost.                                                        *)
(*                                                                         *)
(* The owner of the worker (EvaluationGui) says what a job is and what its *)
(* work may find out.  The wake callback only makes an event loop that     *)
(* wakes up by itself do so earlier; it is left out.                       *)
(***************************************************************************)
EXTENDS Naturals, Sequences

CONSTANT NoJob

VARIABLES
  work,         \* work_: submitted jobs, oldest first
  completions,  \* completions_: finished jobs and posts, oldest first
  stopping,     \* stopping_
  held,         \* the job run() took off work_ and still works on, or NoJob
  thread,       \* run(): "look", "waiting", "working", "finish" or "gone"
  owes          \* submit has pushed and not yet notified

worker == <<work, completions, stopping, held, thread, owes>>

WorkerInit ==
  /\ work = << >>
  /\ completions = << >>
  /\ stopping = FALSE
  /\ held = NoJob
  /\ thread = "look"
  /\ owes = FALSE

-----------------------------------------------------------------------------
(* The owner's side.                                                       *)

(* Defect: nobody is notified.                                             *)
EnqueueSilently(job) ==
  /\ work' = IF stopping THEN work ELSE Append(work, job)
  /\ UNCHANGED owes

(* submit; SubmitNotify follows.                                           *)
Enqueue(job) ==
  /\ work' = IF stopping THEN work ELSE Append(work, job)
  /\ owes' = ~stopping

Submit(job) ==
  /\ Enqueue(job)
  /\ UNCHANGED <<completions, stopping, held, thread>>

Notified == thread' = IF thread = "waiting" THEN "look" ELSE thread

SubmitNotify ==
  /\ owes
  /\ owes' = FALSE
  /\ Notified
  /\ UNCHANGED <<work, completions, stopping, held>>

(* post, from any thread.                                                  *)
Post(job) ==
  /\ completions' = IF stopping THEN completions ELSE Append(completions, job)
  /\ UNCHANGED <<work, stopping, held, thread, owes>>

(* One turn of drain: the owner runs the completion, which may submit.     *)
Drained(kind) ==
  /\ completions # << >>
  /\ Head(completions).kind = kind
  /\ completions' = Tail(completions)
  /\ UNCHANGED <<stopping, held, thread>>

(* ~Worker: stop, notify, join, discard.                                   *)
Stop ==
  /\ stopping' = TRUE
  /\ work' = << >>
  /\ UNCHANGED <<completions, held, thread, owes>>

(* Defect: the destructor does not notify.                                 *)
StopQuietly == UNCHANGED worker

StopNotify ==
  /\ Notified
  /\ UNCHANGED <<work, completions, stopping, held, owes>>

Join ==
  /\ thread = "gone"
  /\ completions' = << >>
  /\ UNCHANGED <<work, stopping, held, thread, owes>>

-----------------------------------------------------------------------------
(* run(), the worker thread.                                               *)

(* The predicate is evaluated, and the wait begun, under the mutex.        *)
Look ==
  /\ thread = "look"
  /\ CASE stopping ->
            thread' = "gone" /\ UNCHANGED <<work, held>>
       [] ~stopping /\ work = << >> ->
            thread' = "waiting" /\ UNCHANGED <<work, held>>
       [] ~stopping /\ work # << >> ->
            /\ held' = Head(work)
            /\ work' = Tail(work)
            /\ thread' = "working"
  /\ UNCHANGED <<completions, stopping, owes>>

SpuriousWakeup ==
  /\ thread = "waiting"
  /\ thread' = "look"
  /\ UNCHANGED <<work, completions, stopping, held, owes>>

(* job.first(), outside the mutex; outcome is the job with what it found.  *)
Work(outcome) ==
  /\ thread = "working"
  /\ held' = outcome
  /\ thread' = "finish"
  /\ UNCHANGED <<work, completions, stopping, owes>>

(* Defect: the worker stays busy with the job it has delivered.            *)
FinishBusy ==
  /\ thread = "finish"
  /\ completions' = IF stopping THEN completions ELSE Append(completions, held)
  /\ thread' = "look"
  /\ UNCHANGED <<work, held, stopping, owes>>

Finish ==
  /\ thread = "finish"
  /\ completions' = IF stopping THEN completions ELSE Append(completions, held)
  /\ held' = NoJob
  /\ thread' = "look"
  /\ UNCHANGED <<work, stopping, owes>>
=============================================================================
