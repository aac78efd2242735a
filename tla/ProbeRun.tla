------------------------------ MODULE ProbeRun ------------------------------
(***************************************************************************)
(* probe_process::run (POSIX): one request to the codec helper.  One loop  *)
(* polls the four pipes and serves those that poll named, in the order of  *)
(* the code; it ends when all are closed, and the child is then waited     *)
(* for.  A served output pipe is read until it is empty or closed: what    *)
(* the helper writes between two reads of one drain it could as well write *)
(* before the first.                                                       *)
(***************************************************************************)
EXTENDS OwnedChild, FiniteSets

CONSTANT OutputLimit   \* units of a stream that are accepted

ASSUME LimitAssumption == OutputLimit \in Nat

VARIABLES
  pc,        \* where the run is; shared with SessionRun
  expired,   \* the deadline has passed
  got,       \* units taken from each output pipe
  answer,    \* how the run ended: "none", "result" or what was thrown
  ready,     \* pipes that poll named and that are not served yet
  sent       \* units of the request written

probing == <<ready, sent>>
running == <<pc, expired, got, answer>>
probe == <<owned, running, probing>>

ProbeInit ==
  /\ pc = "spawn"
  /\ expired = FALSE
  /\ got = [s \in Streams |-> 0]
  /\ answer = "none"
  /\ ready = {}
  /\ sent = 0

(* The exception unwinds to ~Child.                                        *)
Throws(what) ==
  /\ answer' = what
  /\ pc' = "destroy"

(* The clock.                                                              *)
Expires ==
  /\ pc \notin {"spawn", "done"} /\ ~expired
  /\ expired' = TRUE
  /\ UNCHANGED <<owned, pc, got, answer, probing>>

(* fork, nonblocking, and the close of in_w when there is nothing to send. *)
ProbeForks ==
  /\ kind = "probe" /\ pc = "spawn"
  /\ Forked
  /\ inq' = [inq EXCEPT !.w = (Input > 0)]
  /\ pc' = "loop"
  /\ UNCHANGED <<kind, prog, pending, doing, sawEof, made, failq, reaping, expired, got, answer, probing>>

(* fork fails: no child, and the waiter is told so.                        *)
ForkFails ==
  /\ pc = "spawn"
  /\ Throws("fork failed")
  /\ UNCHANGED <<owned, expired, got, probing>>

-----------------------------------------------------------------------------
(* The loop.                                                               *)

Pipes == {"fail", "in", "out", "err"}
Order == [p \in Pipes |-> CASE p = "fail" -> 1 [] p = "in" -> 2 [] p = "out" -> 3 [] p = "err" -> 4]

AtEof(s) == outq[s].ends = {}
Readable(s) == outq[s].r /\ (outq[s].buf > 0 \/ AtEof(s))

OpenPipes ==
  {p \in Pipes : \/ p = "fail" /\ failq.r
                 \/ p = "in" /\ inq.w
                 \/ p \in Streams /\ outq[p].r}

(* Defect: the request is sent before anything is read.                    *)
EventfulSendFirst == IF inq.w THEN {p \in Pipes : p = "in" /\ (inq.buf < Cap \/ ~inq.r)}
                     ELSE {p \in Streams : Readable(p)} \cup {p \in Pipes : p = "fail" /\ failq.r /\ ~failq.w}

(* What poll names: a pipe with data, with room, or without its other end. *)
Eventful ==
  {p \in Pipes : \/ p = "fail" /\ failq.r /\ (failq.report \/ ~failq.w)
                 \/ p = "in" /\ inq.w /\ (inq.buf < Cap \/ ~inq.r)
                 \/ p \in Streams /\ Readable(p)}

InLoop == kind = "probe" /\ pc = "loop"

(* poll; with nothing to name it returns after a second and is repeated.   *)
Poll ==
  /\ InLoop /\ ready = {} /\ OpenPipes # {}
  /\ IF expired
     THEN Throws("timed out") /\ UNCHANGED ready
     ELSE Eventful # {} /\ ready' = Eventful /\ UNCHANGED <<answer, pc>>
  /\ UNCHANGED <<owned, expired, got, sent>>

Serves(p) ==
  /\ InLoop /\ p \in ready
  /\ \A q \in ready : Order[p] <= Order[q]
  /\ ready' = ready \ {p}

ServeFail ==
  /\ Serves("fail")
  /\ IF failq.report
     THEN Throws("exec failed") /\ UNCHANGED failq
     ELSE failq' = [failq EXCEPT !.r = FALSE] /\ UNCHANGED <<answer, pc>>
  /\ UNCHANGED <<kind, prog, proc, owner, pending, doing, sawEof, made, inq, outq, reaping, expired, got, sent>>

(* write takes what the pipe has room for; EPIPE closes it like the end.   *)
ServeIn ==
  /\ Serves("in")
  /\ LET room == Cap - inq.buf
         put == IF ~inq.r THEN 0 ELSE IF Input - sent < room THEN Input - sent ELSE room
     IN /\ sent' = sent + put
        /\ inq' = [inq EXCEPT !.buf = @ + put, !.w = inq.r /\ sent + put < Input]
  /\ UNCHANGED <<kind, prog, proc, owner, pending, doing, sawEof, made, outq, failq, reaping, running>>

ServeOut(s) ==
  /\ Serves(s)
  /\ IF expired THEN Throws("timed out") /\ UNCHANGED <<outq, got>>
     ELSE IF got[s] + outq[s].buf > OutputLimit
     THEN Throws("output exceeds") /\ UNCHANGED <<outq, got>>
     ELSE /\ got' = [got EXCEPT ![s] = @ + outq[s].buf]
          /\ outq' = [outq EXCEPT ![s].buf = 0, ![s].r = ~AtEof(s)]
          /\ UNCHANGED <<answer, pc>>
  /\ UNCHANGED <<kind, prog, proc, owner, pending, doing, sawEof, made, inq, failq, reaping, expired, sent>>

(* All streams are closed; the child may still run until the deadline.     *)
ProbeWaits ==
  /\ InLoop /\ ready = {} /\ OpenPipes = {}
  /\ IF proc = "zombie"
     THEN TryWait /\ Throws("result") /\ UNCHANGED expired
     ELSE expired /\ Throws("timed out") /\ UNCHANGED <<proc, owner, reaped, expired>>
  /\ UNCHANGED <<kind, prog, pending, doing, sawEof, made, inq, outq, failq, cleanup, waiter, trespass, got, probing>>

-----------------------------------------------------------------------------
(* ~Child, in either supervisor: the end of the run.                       *)

Destroy ==
  /\ pc = "destroy"
  /\ IF HasPid /\ ~reaped
     THEN Condemn /\ pc' = "last wait" /\ UNCHANGED cleanup
     ELSE pc' = "done" /\ HandOver /\ UNCHANGED <<pending, trespass>>
  /\ UNCHANGED <<kind, prog, proc, owner, doing, sawEof, made, inq, outq, failq, reaped, waiter, expired, got, answer, probing>>

(* The synchronous waits find the child dead ...                           *)
LastWait ==
  /\ pc = "last wait" /\ ~reaped
  /\ TryWait
  /\ UNCHANGED <<kind, prog, pending, doing, sawEof, made, inq, outq, failq, cleanup, waiter, trespass, running, probing>>

(* ... or their time is over.  The pipes go with the run's frame.          *)
LastWaitEnds ==
  /\ pc = "last wait"
  /\ HandOver
  /\ pc' = "done"
  /\ UNCHANGED <<kind, prog, child, reaped, waiter, trespass, expired, got, answer, probing>>

ProbeStep ==
  \/ ProbeForks \/ Poll \/ ServeFail \/ ServeIn \/ (\E s \in Streams : ServeOut(s)) \/ ProbeWaits
DestroyStep == Destroy \/ LastWait \/ LastWaitEnds

RunningTypeOK ==
  /\ expired \in BOOLEAN
  /\ got \in [Streams -> 0 .. MaxMade]
  /\ ready \in SUBSET Pipes
  /\ sent \in 0 .. Input
=============================================================================
