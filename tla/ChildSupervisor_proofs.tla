------------------------ MODULE ChildSupervisor_proofs ------------------------
(***************************************************************************)
(* Proofs about ChildSupervisor for pipes, requests, outputs, limits and   *)
(* log chunks of every size: its type invariant, that no bystander of the  *)
(* child's pid is ever hit, and that a run that answers has read the whole *)
(* of what the program and its heirs wrote.                                *)
(***************************************************************************)
EXTENDS ChildSupervisor, TLAPS

-----------------------------------------------------------------------------
(* The inductive invariant, in parts.                                      *)

(* The program never starts a unit that would be one too many.             *)
Budget == MadeSoFar + (IF doing \in Streams THEN 1 ELSE 0) <= MaxMade

(* The pid is the child's until somebody waits for it; the supervisor      *)
(* knows when it did so itself, and knows a child it has not waited for.   *)
Living == proc \in {"setup", "run", "zombie"}
Supervised == {"loop", "handshake", "watch", "stop", "terminate", "grace", "kill", "reap"}
PidKnown ==
  /\ Living => owner = "child"
  /\ reaped => proc = "gone"
  /\ pc = "spawn" => proc = "none"
  /\ pc \in Supervised => Living
  /\ pc # "done" /\ proc = "gone" => reaped
  /\ pc = "finish" => reaped \/ (Living /\ caught)

(* The waiter is told once, when the run is over, and only of a child that *)
(* nobody has waited for.                                                  *)
HandedOver ==
  /\ cleanup # "unset" => pc = "done"
  /\ cleanup = "unset" => waiter = "polls"
  /\ cleanup = "pid" /\ waiter # "over" => Living
  /\ waiter = "waits" => cleanup = "pid"

(* Every unit is in a pipe or taken; a pipe is left only at its end, with  *)
(* all of its units accounted, unless a session gives up on its log.       *)
Accounted(s) ==
  /\ got[s] + outq[s].buf = made[s]
  /\ log[s].total <= got[s]
  /\ proc \in {"setup", "run"} => "child" \in outq[s].ends
  /\ pc = "spawn" => outq[s].r
  /\ kind = "probe" /\ ~outq[s].r => Whole(s)
  /\ log[s].eof => ~outq[s].r /\ Whole(s) /\ log[s].total = made[s]

(* An answer is given at the end, after the wait.                          *)
Answered ==
  answer = "result" =>
    /\ pc \in {"destroy", "last wait", "done"}
    /\ reaped
    /\ \A s \in Streams : IF kind = "probe" THEN ~outq[s].r
                          ELSE ~log[s].error => log[s].eof

IInv == TypeOK /\ Budget /\ PidKnown /\ HandedOver /\ (\A s \in Streams : Accounted(s)) /\ Answered

-----------------------------------------------------------------------------
(* Arithmetic of the logs: what is accounted never exceeds what was read.  *)

LEMMA PipeRecord ==
  ASSUME NEW p \in [buf : 0 .. Cap, ends : SUBSET {"child", "heir"}, r : BOOLEAN], NEW open \in BOOLEAN
  PROVE  /\ [p EXCEPT !.r = open] \in [buf : 0 .. Cap, ends : SUBSET {"child", "heir"}, r : BOOLEAN]
         /\ [p EXCEPT !.buf = 0, !.r = open] \in [buf : 0 .. Cap, ends : SUBSET {"child", "heir"}, r : BOOLEAN]
         /\ [p EXCEPT !.buf = 0, !.r = open].buf = 0
         /\ [p EXCEPT !.buf = 0, !.r = open].ends = p.ends
         /\ [p EXCEPT !.buf = 0, !.r = open].r = open
         /\ [p EXCEPT !.r = open].buf = p.buf
         /\ [p EXCEPT !.r = open].ends = p.ends
         /\ [p EXCEPT !.r = open].r = open
<1>1. 0 \in 0 .. Cap
  BY BoundsAssumption
<1>. QED  BY <1>1

LEMMA LogRecord ==
  ASSUME NEW l \in [total : Nat, eof : BOOLEAN, error : BOOLEAN], NEW n \in Nat, NEW ended \in BOOLEAN
  PROVE  /\ [l EXCEPT !.total = n, !.eof = ended] \in [total : Nat, eof : BOOLEAN, error : BOOLEAN]
         /\ [l EXCEPT !.total = n, !.eof = ended].total = n
         /\ [l EXCEPT !.total = n, !.eof = ended].eof = ended
  OBVIOUS

LEMMA ConsumedBound ==
  ASSUME NEW units \in Nat, NEW ended \in BOOLEAN
  PROVE  /\ Consumed(units, ended) \in 0 .. units
         /\ ended => Consumed(units, ended) = units
<1>1. units % Chunk \in 0 .. units
  BY ChunkAssumption
<1>. QED  BY <1>1 DEF Consumed

-----------------------------------------------------------------------------
(* The kernel and the program.                                             *)

LEMMA DiesEffect ==
  ASSUME OwnedTypeOK, Dies
  PROVE  /\ UNCHANGED <<kind, prog, owner, sawEof, made, reaping>>
         /\ proc' = "zombie" /\ pending' = {} /\ doing' = "idle"
         /\ inq' \in [buf : 0 .. Cap, w : BOOLEAN, r : BOOLEAN]
         /\ outq' \in [Streams -> [buf : 0 .. Cap, ends : SUBSET {"child", "heir"}, r : BOOLEAN]]
         /\ \A s \in Streams : /\ outq'[s].buf = outq[s].buf /\ outq'[s].r = outq[s].r
                               /\ outq'[s].ends = outq[s].ends \ {"child"}
<1>1. inq' \in [buf : 0 .. Cap, w : BOOLEAN, r : BOOLEAN]
  BY DEF OwnedTypeOK, Dies
<1>2. ASSUME NEW s \in Streams
      PROVE  /\ outq'[s] \in [buf : 0 .. Cap, ends : SUBSET {"child", "heir"}, r : BOOLEAN]
             /\ outq'[s].buf = outq[s].buf /\ outq'[s].r = outq[s].r
             /\ outq'[s].ends = outq[s].ends \ {"child"}
  <2>1. PICK ends \in SUBSET {"child", "heir"} : ends = outq[s].ends \ {"child"}
    BY DEF OwnedTypeOK
  <2>2. outq'[s] = [outq[s] EXCEPT !.ends = ends]
    BY <2>1 DEF Dies
  <2>3. outq[s] \in [buf : 0 .. Cap, ends : SUBSET {"child", "heir"}, r : BOOLEAN]
    BY DEF OwnedTypeOK
  <2>. QED  BY <2>1, <2>2, <2>3
<1>3. outq' = [s \in Streams |-> outq'[s]]
  BY DEF Dies
<1>. QED  BY <1>1, <1>2, <1>3 DEF Dies

LEMMA PutEffect ==
  ASSUME OwnedTypeOK, NEW s \in Streams, Put(s), MadeSoFar < MaxMade
  PROVE  /\ outq' \in [Streams -> [buf : 0 .. Cap, ends : SUBSET {"child", "heir"}, r : BOOLEAN]]
         /\ made' \in [Streams -> 0 .. MaxMade]
         /\ MadeSoFar' = MadeSoFar + 1
         /\ outq[s].r
         /\ outq'[s].buf = outq[s].buf + 1 /\ made'[s] = made[s] + 1
         /\ \A t \in Streams \ {s} : outq'[t] = outq[t] /\ made'[t] = made[t]
         /\ \A t \in Streams : outq'[t].r = outq[t].r /\ outq'[t].ends = outq[t].ends
<1>1. /\ Cap \in Nat /\ MaxMade \in Nat
      /\ made["out"] \in Nat /\ made["err"] \in Nat
      /\ outq[s].buf \in Nat /\ outq[s].buf < Cap /\ outq[s].r
      /\ outq' = [outq EXCEPT ![s].buf = @ + 1] /\ made' = [made EXCEPT ![s] = @ + 1]
  BY BoundsAssumption DEF OwnedTypeOK, Put, Streams
<1>2. /\ made["out"] + made["err"] < MaxMade
      /\ s = "out" \/ s = "err"
  BY DEF MadeSoFar, Streams
<1>3. outq' \in [Streams -> [buf : 0 .. Cap, ends : SUBSET {"child", "heir"}, r : BOOLEAN]]
  BY <1>1 DEF OwnedTypeOK
<1>4. /\ made'[s] = made[s] + 1
      /\ \A t \in Streams \ {s} : outq'[t] = outq[t] /\ made'[t] = made[t]
      /\ outq'[s].buf = outq[s].buf + 1
      /\ \A t \in Streams : outq'[t].r = outq[t].r /\ outq'[t].ends = outq[t].ends
  BY <1>1 DEF OwnedTypeOK
<1>5. made' \in [Streams -> 0 .. MaxMade]
  BY <1>1, <1>2 DEF OwnedTypeOK, Streams
<1>6. MadeSoFar' = MadeSoFar + 1
  BY <1>1, <1>2, <1>4 DEF MadeSoFar, Streams
<1>. QED  BY <1>1, <1>3, <1>4, <1>5, <1>6

(* What the kernel and the program may do to what the supervisor knows.    *)
ChildMoved ==
  /\ OwnedTypeOK' /\ Budget' /\ UNCHANGED <<kind, reaping>>
  /\ (proc' = "gone") <=> (proc = "gone")
  /\ (proc' = "none") <=> (proc = "none")
  /\ proc' \in {"setup", "run"} => proc \in {"setup", "run"}
  /\ proc # "gone" => owner' = owner
  /\ \A s \in Streams :
       /\ outq'[s].r = outq[s].r
       /\ outq'[s].buf - outq[s].buf = made'[s] - made[s]
       /\ ~outq[s].r => made'[s] = made[s]
       /\ proc' \in {"setup", "run"} /\ "child" \in outq[s].ends => "child" \in outq'[s].ends
       /\ outq[s].ends = {} => outq'[s].ends = {} \/ proc = "setup"

LEMMA KernelMoves ==
  ASSUME OwnedTypeOK, Budget, KernelStep
  PROVE  ChildMoved
<1>1. \A s \in Streams : outq[s].buf \in Nat /\ made[s] \in Nat
  BY BoundsAssumption DEF OwnedTypeOK
<1>2. ASSUME Dies, proc \in {"setup", "run"}, failq' \in [report : BOOLEAN, w : BOOLEAN, r : BOOLEAN]
      PROVE  ChildMoved
  <2>1. OwnedTypeOK'
    BY <1>2, DiesEffect DEF OwnedTypeOK, reaping
  <2>2. Budget'
    <3>1. doing' \notin Streams /\ MadeSoFar' = MadeSoFar /\ MadeSoFar \in Nat
      BY <1>1, <1>2, DiesEffect DEF MadeSoFar, Streams
    <3>. QED  BY <3>1, BoundsAssumption DEF Budget
  <2>. QED  BY <1>1, <1>2, <2>1, <2>2, DiesEffect DEF ChildMoved
<1>3. CASE Exec
  <2>1. OwnedTypeOK'
    <3>1. \A s \in Streams : [outq[s] EXCEPT !.ends = @ \cup {"heir"}]
                              \in [buf : 0 .. Cap, ends : SUBSET {"child", "heir"}, r : BOOLEAN]
      BY DEF OwnedTypeOK
    <3>2. outq' \in [Streams -> [buf : 0 .. Cap, ends : SUBSET {"child", "heir"}, r : BOOLEAN]]
      BY <1>3, <3>1 DEF Exec, OwnedTypeOK
    <3>3. failq' \in [report : BOOLEAN, w : BOOLEAN, r : BOOLEAN]
      BY <1>3 DEF Exec, OwnedTypeOK
    <3>4. /\ proc' = "run"
          /\ UNCHANGED <<kind, prog, owner, pending, doing, sawEof, made, inq, reaping>>
      BY <1>3 DEF Exec
    <3>. QED  BY <3>2, <3>3, <3>4 DEF OwnedTypeOK, reaping
  <2>2. Budget' /\ UNCHANGED <<kind, reaping, owner, made>>
    BY <1>3 DEF Exec, Budget, MadeSoFar
  <2>3. \A s \in Streams : /\ outq'[s].r = outq[s].r /\ outq'[s].buf = outq[s].buf
                           /\ outq[s].ends \subseteq outq'[s].ends
    BY <1>3 DEF Exec, OwnedTypeOK
  <2>. QED  BY <1>1, <1>3, <2>1, <2>2, <2>3 DEF Exec, ChildMoved
<1>4. CASE SetupFails \/ Exits \/ Killed("TERM") \/ Killed("KILL")
  <2>1. Dies /\ proc \in {"setup", "run"} /\ failq' \in [report : BOOLEAN, w : BOOLEAN, r : BOOLEAN]
    BY <1>4 DEF SetupFails, Exits, Killed, OwnedTypeOK
  <2>. QED  BY <1>2, <2>1
<1>5. CASE Turn
  <2>1. OwnedTypeOK' /\ UNCHANGED <<kind, reaping, proc, owner, made, outq>>
    BY <1>5 DEF Turn, OwnedTypeOK, reaping
  <2>2. Budget'
    <3>1. MadeSoFar' = MadeSoFar /\ MadeSoFar \in Nat /\ doing \notin Streams
      BY <1>1, <1>5 DEF Turn, MadeSoFar, Streams
    <3>2. doing' \in Streams => MadeSoFar < MaxMade
      BY <1>5 DEF Turn, Streams
    <3>. QED  BY <3>1, <3>2, BoundsAssumption DEF Budget
  <2>. QED  BY <1>1, <2>1, <2>2 DEF ChildMoved
<1>6. CASE Reads
  <2>1. OwnedTypeOK' /\ UNCHANGED <<kind, reaping, proc, owner, made, outq>>
    <3>1. inq.buf \in 0 .. Cap /\ inq' = [inq EXCEPT !.buf = IF @ > 0 THEN @ - 1 ELSE 0]
      BY <1>6 DEF Reads, OwnedTypeOK
    <3>2. inq' \in [buf : 0 .. Cap, w : BOOLEAN, r : BOOLEAN]
      BY <3>1, BoundsAssumption DEF OwnedTypeOK
    <3>. QED  BY <1>6, <3>2 DEF Reads, OwnedTypeOK, reaping
  <2>2. Budget'
    BY <1>6, <2>1 DEF Reads, Budget, MadeSoFar, Streams
  <2>. QED  BY <1>1, <2>1, <2>2 DEF ChildMoved
<1>7. ASSUME NEW s \in Streams, Writes(s) \/ HeirWrites(s)
      PROVE  ChildMoved
  <2>1. /\ Put(s) /\ MadeSoFar < MaxMade
        /\ doing' \in {"idle", doing}
        /\ (IF doing' \in Streams THEN 1 ELSE 0) + MadeSoFar < MaxMade
        /\ UNCHANGED <<kind, prog, proc, owner, pending, sawEof, inq, failq, reaping>>
    <3>1. MadeSoFar \in Nat
      BY <1>1 DEF MadeSoFar, Streams
    <3>2. CASE Writes(s)
      BY <3>1, <3>2, BoundsAssumption DEF Writes, Budget, Streams
    <3>3. CASE HeirWrites(s)
      BY <3>1, <3>3, BoundsAssumption DEF HeirWrites
    <3>. QED  BY <1>7, <3>2, <3>3
  <2>2. OwnedTypeOK'
    <3>1. /\ outq' \in [Streams -> [buf : 0 .. Cap, ends : SUBSET {"child", "heir"}, r : BOOLEAN]]
          /\ made' \in [Streams -> 0 .. MaxMade]
      BY <2>1, PutEffect
    <3>. QED  BY <2>1, <3>1 DEF OwnedTypeOK, reaping
  <2>3. Budget'
    BY <1>1, <2>1, PutEffect, BoundsAssumption DEF Budget, MadeSoFar, Streams
  <2>4. /\ outq[s].r
        /\ \A t \in Streams : outq'[t].r = outq[t].r /\ outq'[t].ends = outq[t].ends
        /\ \A t \in Streams : t # s => outq'[t] = outq[t] /\ made'[t] = made[t]
        /\ outq'[s].buf = outq[s].buf + 1 /\ made'[s] = made[s] + 1
    BY <2>1, PutEffect
  <2>5. \A t \in Streams : outq'[t].buf - outq[t].buf = made'[t] - made[t]
    <3>. SUFFICES ASSUME NEW t \in Streams PROVE outq'[t].buf - outq[t].buf = made'[t] - made[t]
      OBVIOUS
    <3>1. CASE t = s
      BY <1>1, <2>4, <3>1
    <3>2. CASE t # s
      BY <1>1, <2>4, <3>2
    <3>. QED  BY <3>1, <3>2
  <2>. QED  BY <2>1, <2>2, <2>3, <2>4, <2>5 DEF ChildMoved
<1>8. CASE HeirEnds
  <2>1. OwnedTypeOK' /\ UNCHANGED <<kind, reaping, proc, owner, made, doing>>
    BY <1>8 DEF HeirEnds, OwnedTypeOK, reaping
  <2>2. Budget'
    BY <2>1 DEF Budget, MadeSoFar
  <2>3. \A s \in Streams : /\ outq'[s].r = outq[s].r /\ outq'[s].buf = outq[s].buf
                           /\ outq'[s].ends = outq[s].ends \ {"heir"}
    BY <1>8 DEF HeirEnds, OwnedTypeOK
  <2>. QED  BY <1>1, <2>1, <2>2, <2>3 DEF ChildMoved
<1>9. CASE PidReused
  BY <1>1, <1>9 DEF ChildMoved, PidReused, OwnedTypeOK, Budget, MadeSoFar, reaping
<1>. QED  BY <1>3, <1>4, <1>5, <1>6, <1>7, <1>8, <1>9 DEF KernelStep, ChildRuns, KillDelivered

LEMMA KernelInvariant ==
  ASSUME IInv, KernelStep, UNCHANGED <<running, probing, telling>>
  PROVE  IInv'
<1>1. /\ TypeOK /\ OwnedTypeOK /\ Budget /\ PidKnown /\ HandedOver /\ Answered
      /\ \A s \in Streams : Accounted(s)
  BY DEF IInv, TypeOK
<1>2. ChildMoved
  BY <1>1, KernelMoves
<1>3. /\ UNCHANGED <<kind, reaped, cleanup, waiter, trespass, pc, expired, got, answer, ready, sent>>
      /\ UNCHANGED <<cancel, reason, caught, log>>
  BY <1>2 DEF ChildMoved, reaping, running, probing, telling
<1>4. TypeOK' /\ Budget'
  BY <1>1, <1>2, <1>3, ZenonT(40) DEF ChildMoved, TypeOK, RunningTypeOK, SessionTypeOK
<1>5. PidKnown' /\ HandedOver'
  <2>1. Living' <=> Living
    BY <1>1, <1>2, <1>4 DEF ChildMoved, Living, OwnedTypeOK
  <2>. QED  BY <1>1, <1>2, <1>3, <2>1 DEF ChildMoved, PidKnown, HandedOver, Living
<1>6. Answered'
  BY <1>1, <1>2, <1>3 DEF ChildMoved, Answered
<1>7. ASSUME NEW s \in Streams
      PROVE  Accounted(s)'
  <2>1. /\ outq[s].buf \in Nat /\ made[s] \in Nat /\ got[s] \in Nat
        /\ outq'[s].buf \in Nat /\ made'[s] \in Nat
    <3>1. outq[s].buf \in 0 .. Cap /\ made[s] \in 0 .. MaxMade /\ got[s] \in 0 .. MaxMade
      BY <1>1 DEF TypeOK, OwnedTypeOK, RunningTypeOK
    <3>2. outq'[s].buf \in 0 .. Cap /\ made'[s] \in 0 .. MaxMade
      BY <1>4 DEF TypeOK, OwnedTypeOK
    <3>. QED  BY <3>1, <3>2, BoundsAssumption
  <2>2. got'[s] + outq'[s].buf = made'[s]
    BY <1>1, <1>2, <1>3, <2>1 DEF ChildMoved, Accounted
  <2>3. ~outq[s].r /\ Whole(s) => Whole(s)' /\ made'[s] = made[s]
    <3>1. outq[s].ends = {} => proc # "setup"
      BY <1>1 DEF Accounted
    <3>2. ASSUME ~outq[s].r, Whole(s)
          PROVE  made'[s] = made[s] /\ outq'[s].buf = 0 /\ outq'[s].ends = {}
      <4>1. made'[s] = made[s] /\ outq'[s].buf - outq[s].buf = made'[s] - made[s]
        BY <1>2, <3>2 DEF ChildMoved
      <4>2. outq[s].buf = 0 /\ outq[s].ends = {}
        BY <3>2 DEF Whole
      <4>3. outq'[s].ends = {}
        BY <1>2, <3>1, <4>2 DEF ChildMoved
      <4>. QED  BY <2>1, <4>1, <4>2, <4>3
    <3>. QED  BY <1>3, <2>1, <2>2, <3>2 DEF Whole
  <2>. QED  BY <1>1, <1>2, <1>3, <2>2, <2>3 DEF ChildMoved, Accounted
<1>. QED  BY <1>4, <1>5, <1>6, <1>7 DEF IInv

(* The waiter thread only ever waits for the child that it was told of.    *)
LEMMA WaiterInvariant ==
  ASSUME IInv, WaiterStep, UNCHANGED <<running, probing, telling>>
  PROVE  IInv' /\ (~trespass => ~trespass')
<1>1. /\ OwnedTypeOK /\ RunningTypeOK /\ SessionTypeOK /\ TypeOK /\ Budget /\ PidKnown /\ HandedOver /\ Answered
      /\ \A s \in Streams : Accounted(s)
  BY DEF IInv, TypeOK
<1>2. /\ UNCHANGED <<kind, prog, pending, doing, sawEof, made, inq, outq, failq, reaped, cleanup>>
      /\ UNCHANGED <<pc, expired, got, answer, ready, sent, cancel, reason, caught, log>>
      /\ \/ /\ waiter = "polls" /\ cleanup # "unset" /\ UNCHANGED <<proc, owner>>
            /\ waiter' = IF cleanup = "pid" THEN "waits" ELSE "over"
            /\ trespass' \in BOOLEAN /\ (trespass' => trespass \/ (cleanup = "pid" /\ owner # "child"))
         \/ /\ waiter = "waits" /\ waiter' = "over" /\ proc = "zombie" /\ proc' = "gone" /\ owner' = "free"
            /\ UNCHANGED trespass
  BY DEF WaiterStep, WaiterAcquires, WaiterReaps, Reap, child, running, probing, telling
<1>3. TypeOK' /\ Budget'
  <2>1. TypeOK'
    <3>1. OwnedTypeOK'
      BY <1>1, <1>2 DEF OwnedTypeOK
    <3>2. RunningTypeOK' /\ SessionTypeOK'
      BY <1>1, <1>2 DEF RunningTypeOK, SessionTypeOK
    <3>. QED  BY <1>1, <1>2, <3>1, <3>2 DEF TypeOK
  <2>. QED  BY <1>1, <1>2, <2>1 DEF Budget, MadeSoFar
<1>4. PidKnown' /\ HandedOver' /\ (~trespass => ~trespass')
  BY <1>1, <1>2 DEF PidKnown, HandedOver, Living, Supervised
<1>5. Answered' /\ \A s \in Streams : Accounted(s)'
  BY <1>1, <1>2 DEF Answered, Accounted, Whole
<1>. QED  BY <1>3, <1>4, <1>5 DEF IInv

(* The clock and the user decide nothing by themselves.                    *)
LEMMA OutsideInvariant ==
  ASSUME IInv, (Expires /\ UNCHANGED telling) \/ UserCancels \/ UNCHANGED vars
  PROVE  IInv' /\ UNCHANGED trespass
<1>1. /\ OwnedTypeOK /\ RunningTypeOK /\ SessionTypeOK /\ TypeOK /\ Budget /\ PidKnown /\ HandedOver /\ Answered
      /\ \A s \in Streams : Accounted(s)
  BY DEF IInv, TypeOK
<1>2. /\ UNCHANGED <<kind, prog, proc, owner, pending, doing, sawEof, made, inq, outq, failq>>
      /\ UNCHANGED <<reaped, cleanup, waiter, trespass, pc, got, answer, ready, sent, reason, caught, log>>
      /\ expired' \in {expired, TRUE} /\ cancel' \in {cancel, TRUE}
  BY DEF Expires, UserCancels, vars, session, owned, child, reaping, running, probing, telling
<1>3. TypeOK' /\ Budget'
  <2>1. TypeOK'
    <3>1. OwnedTypeOK'
      BY <1>1, <1>2 DEF OwnedTypeOK
    <3>2. RunningTypeOK' /\ SessionTypeOK'
      BY <1>1, <1>2 DEF RunningTypeOK, SessionTypeOK
    <3>. QED  BY <1>1, <1>2, <3>1, <3>2 DEF TypeOK
  <2>. QED  BY <1>1, <1>2, <2>1 DEF Budget, MadeSoFar
<1>4. PidKnown' /\ HandedOver'
  BY <1>1, <1>2 DEF PidKnown, HandedOver, Living
<1>5. Answered' /\ \A s \in Streams : Accounted(s)'
  BY <1>1, <1>2 DEF Answered, Accounted, Whole
<1>. QED  BY <1>2, <1>3, <1>4, <1>5 DEF IInv

(* ~Child: the signal and the synchronous waits are for a child that was   *)
(* not waited for, and so is what it hands over.                           *)
LEMMA DestroyInvariant ==
  ASSUME IInv, DestroyStep, UNCHANGED telling
  PROVE  IInv' /\ (~trespass => ~trespass')
<1>1. /\ OwnedTypeOK /\ RunningTypeOK /\ SessionTypeOK /\ TypeOK
      /\ Budget /\ PidKnown /\ HandedOver /\ Answered
      /\ \A s \in Streams : Accounted(s)
  BY DEF IInv, TypeOK
<1>2. /\ UNCHANGED <<kind, prog, doing, sawEof, made, inq, outq, failq, waiter>>
      /\ UNCHANGED <<expired, got, answer, ready, sent, cancel, reason, caught, log>>
      /\ pc \in {"destroy", "last wait"}
  BY DEF DestroyStep, Destroy, LastWait, LastWaitEnds, Condemn, Signal, TryWait, Reap,
     child, running, probing, telling
<1>3. CASE pc = "destroy" /\ HasPid /\ ~reaped /\ Condemn /\ pc' = "last wait" /\ UNCHANGED <<proc, owner, reaped, cleanup>>
  <2>1. owner = "child"
    BY <1>1, <1>3 DEF PidKnown, Living, HasPid, OwnedTypeOK
  <2>2. pending' \in SUBSET {"TERM", "KILL"} /\ trespass' = trespass
    BY <1>1, <1>3, <2>1 DEF Condemn, Signal, OwnedTypeOK
  <2>3. OwnedTypeOK'
    <3>1. UNCHANGED <<kind, prog, doing, sawEof, made, waiter, inq, outq, failq, proc, owner, reaped, cleanup, trespass>>
      BY <1>2, <1>3, <2>2
    <3>. QED  BY <1>1, <2>2, <3>1 DEF OwnedTypeOK
  <2>4. RunningTypeOK' /\ SessionTypeOK' /\ Budget'
    BY <1>1, <1>2 DEF RunningTypeOK, SessionTypeOK, Budget, MadeSoFar
  <2>5. PidKnown' /\ HandedOver'
    BY <1>1, <1>2, <1>3 DEF PidKnown, HandedOver, Living, Supervised
  <2>6. Answered' /\ \A s \in Streams : Accounted(s)'
    BY <1>1, <1>2, <1>3 DEF Answered, Accounted, Whole
  <2>. QED  BY <1>1, <1>2, <1>3, <2>2, <2>3, <2>4, <2>5, <2>6 DEF IInv, TypeOK
<1>4. CASE HandOver /\ pc' = "done" /\ UNCHANGED <<proc, owner, reaped, pending, trespass>>
  <2>1. OwnedTypeOK'
    <3>1. /\ UNCHANGED <<kind, prog, doing, sawEof, made, waiter, inq, outq, failq>>
          /\ UNCHANGED <<proc, owner, reaped, pending, trespass>>
          /\ cleanup' \in {"pid", "none"}
      BY <1>2, <1>4 DEF HandOver
    <3>. QED  BY <1>1, <3>1 DEF OwnedTypeOK
  <2>2. RunningTypeOK' /\ SessionTypeOK' /\ Budget'
    BY <1>1, <1>2 DEF RunningTypeOK, SessionTypeOK, Budget, MadeSoFar
  <2>3. waiter = "polls" /\ (cleanup' = "pid" => Living)
    <3>1. HasPid /\ ~reaped => Living
      BY <1>1, <1>2 DEF PidKnown, Living, HasPid, OwnedTypeOK
    <3>. QED  BY <1>1, <1>2, <1>4, <3>1 DEF HandOver, HandedOver
  <2>4. PidKnown' /\ HandedOver'
    <3>1. cleanup' # "unset"
      BY <1>4 DEF HandOver
    <3>. QED  BY <1>1, <1>2, <1>4, <2>3, <3>1 DEF PidKnown, HandedOver, Living, Supervised
  <2>5. Answered' /\ \A s \in Streams : Accounted(s)'
    BY <1>1, <1>2, <1>4 DEF Answered, Accounted, Whole
  <2>. QED  BY <1>1, <1>2, <1>4, <2>1, <2>2, <2>4, <2>5 DEF IInv, TypeOK
<1>5. CASE pc = "last wait" /\ UNCHANGED <<pc, cleanup, pending, trespass>> /\ TryWait
  <2>1. proc = "zombie" /\ proc' = "gone" /\ owner' = "free" /\ reaped' = TRUE
    BY <1>5 DEF TryWait, Reap
  <2>2. OwnedTypeOK'
    <3>1. UNCHANGED <<kind, prog, doing, sawEof, made, waiter, inq, outq, failq, cleanup, pending, trespass>>
      BY <1>2, <1>5
    <3>. QED  BY <1>1, <2>1, <3>1 DEF OwnedTypeOK
  <2>3. RunningTypeOK' /\ SessionTypeOK' /\ Budget'
    BY <1>1, <1>2 DEF RunningTypeOK, SessionTypeOK, Budget, MadeSoFar
  <2>4. PidKnown' /\ HandedOver'
    BY <1>1, <1>2, <1>5, <2>1 DEF PidKnown, HandedOver, Living, Supervised
  <2>5. Answered' /\ \A s \in Streams : Accounted(s)'
    BY <1>1, <1>2, <1>5, <2>1 DEF Answered, Accounted, Whole
  <2>. QED  BY <1>1, <1>2, <1>5, <2>2, <2>3, <2>4, <2>5 DEF IInv, TypeOK
<1>. QED  BY <1>3, <1>4, <1>5 DEF DestroyStep, Destroy, LastWait, LastWaitEnds, child, running

-----------------------------------------------------------------------------
(* The supervisors: what their steps have in common.                       *)

Steps == {"spawn", "loop", "handshake", "watch", "stop", "terminate", "grace", "kill", "reap",
          "finish", "destroy", "last wait", "done"}
Thrown == {"timed out", "output exceeds", "exec failed", "fork failed", "spawn failed", "thrown"}

(* A move of the supervisor alone, that takes nothing and answers nothing. *)
LEMMA ControlInvariant ==
  ASSUME IInv, UNCHANGED <<kind, prog, proc, owner, doing, sawEof, made, outq, reaped, cleanup, waiter>>,
         UNCHANGED <<expired, got, cancel>>,
         pc # "done", pc' \in Supervised \cup {"finish", "destroy"},
         pc' \in Supervised => pc \in Supervised,
         pc' = "finish" => pc \in Supervised /\ caught',
         answer' \in Thrown \/ (answer' = answer /\ pc \in Supervised),
         pending' \in SUBSET {"TERM", "KILL"}, trespass' \in BOOLEAN,
         inq' \in [buf : 0 .. Cap, w : BOOLEAN, r : BOOLEAN],
         failq' \in [report : BOOLEAN, w : BOOLEAN, r : BOOLEAN],
         ready' \in SUBSET Pipes, sent' \in 0 .. Input,
         caught' \in BOOLEAN, reason' \in {"exited", "cancelled", "timeout"},
         log' \in [Streams -> [total : 0 .. MaxMade, eof : BOOLEAN, error : BOOLEAN]],
         \A s \in Streams : log'[s].total = log[s].total /\ log'[s].eof = log[s].eof
  PROVE  IInv'
<1>1. /\ OwnedTypeOK /\ RunningTypeOK /\ SessionTypeOK /\ TypeOK
      /\ Budget /\ PidKnown /\ HandedOver /\ Answered
      /\ \A s \in Streams : Accounted(s)
  BY DEF IInv, TypeOK
<1>2. OwnedTypeOK' /\ Budget'
  BY <1>1 DEF OwnedTypeOK, Budget, MadeSoFar
<1>3. RunningTypeOK' /\ SessionTypeOK'
  BY <1>1 DEF RunningTypeOK, SessionTypeOK
<1>4. answer' # "result"
  BY <1>1 DEF Answered, Thrown, Supervised
<1>5. pc' \in Steps /\ answer' \in Thrown \cup {"none"}
  BY <1>1, <1>4 DEF Steps, Supervised, Thrown, TypeOK
<1>6. PidKnown' /\ HandedOver'
  BY <1>1 DEF PidKnown, HandedOver, Living, Supervised
<1>7. Answered'
  BY <1>4 DEF Answered
<1>8. \A s \in Streams : Accounted(s)'
  BY <1>1 DEF Accounted, Whole, Supervised
<1>. QED  BY <1>2, <1>3, <1>5, <1>6, <1>7, <1>8 DEF IInv, TypeOK, Steps, Thrown

(* try_wait finds the child dead.                                          *)
LEMMA ReapInvariant ==
  ASSUME IInv, TryWait,
         UNCHANGED <<kind, prog, pending, doing, sawEof, made, inq, outq, failq, cleanup, waiter, trespass>>,
         UNCHANGED <<expired, got, probing, telling>>,
         pc \in Supervised, pc' \in {"finish", "destroy"},
         answer' \in Thrown \/ answer' = answer \/
           (answer' = "result" /\ kind = "probe" /\ pc' = "destroy" /\ \A s \in Streams : ~outq[s].r)
  PROVE  IInv'
<1>1. /\ OwnedTypeOK /\ RunningTypeOK /\ SessionTypeOK /\ TypeOK
      /\ Budget /\ PidKnown /\ HandedOver /\ Answered
      /\ \A s \in Streams : Accounted(s)
  BY DEF IInv, TypeOK
<1>2. /\ proc = "zombie" /\ proc' = "gone" /\ owner' = "free" /\ reaped' = TRUE
      /\ UNCHANGED <<ready, sent, cancel, reason, caught, log>>
  BY DEF TryWait, Reap, probing, telling
<1>3. OwnedTypeOK'
  BY <1>1, <1>2 DEF OwnedTypeOK
<1>4. RunningTypeOK' /\ SessionTypeOK' /\ Budget'
  BY <1>1, <1>2 DEF RunningTypeOK, SessionTypeOK, Budget, MadeSoFar
<1>5. answer # "result"
  BY <1>1 DEF Answered, Supervised
<1>6. pc' \in Steps /\ answer' \in Thrown \cup {"none", "result"}
  BY <1>1 DEF Steps, Thrown, TypeOK
<1>7. PidKnown' /\ HandedOver'
  BY <1>1, <1>2 DEF PidKnown, HandedOver, Living, Supervised
<1>8. Answered'
  BY <1>1, <1>2, <1>5 DEF Answered, Thrown
<1>9. \A s \in Streams : Accounted(s)'
  BY <1>1, <1>2 DEF Accounted, Whole
<1>. QED  BY <1>3, <1>4, <1>6, <1>7, <1>8, <1>9 DEF IInv, TypeOK, Steps, Thrown

(* fork: the parent has a child that nobody has waited for.                *)
LEMMA ForkInvariant ==
  ASSUME IInv, Forked, pc = "spawn", pc' \in {"loop", "handshake"},
         UNCHANGED <<kind, prog, pending, doing, sawEof, made, failq, reaping>>,
         UNCHANGED <<expired, got, answer, probing, telling>>,
         inq' \in [buf : 0 .. Cap, w : BOOLEAN, r : BOOLEAN]
  PROVE  IInv'
<1>1. /\ OwnedTypeOK /\ RunningTypeOK /\ SessionTypeOK /\ TypeOK
      /\ Budget /\ PidKnown /\ HandedOver /\ Answered
      /\ \A s \in Streams : Accounted(s)
  BY DEF IInv, TypeOK
<1>2. /\ proc = "none" /\ proc' = "setup" /\ owner' = "child"
      /\ UNCHANGED <<reaped, cleanup, waiter, trespass, ready, sent, cancel, reason, caught, log>>
  BY <1>1 DEF Forked, PidKnown, reaping, probing, telling
<1>3. /\ outq' \in [Streams -> [buf : 0 .. Cap, ends : SUBSET {"child", "heir"}, r : BOOLEAN]]
      /\ \A s \in Streams : outq'[s].buf = outq[s].buf /\ outq'[s].r = outq[s].r /\ outq'[s].ends = {"child"}
  BY <1>1 DEF Forked, OwnedTypeOK
<1>4. OwnedTypeOK'
  BY <1>1, <1>2, <1>3 DEF OwnedTypeOK
<1>5. RunningTypeOK' /\ SessionTypeOK' /\ Budget'
  BY <1>1, <1>2 DEF RunningTypeOK, SessionTypeOK, Budget, MadeSoFar
<1>6. PidKnown' /\ HandedOver'
  BY <1>1, <1>2 DEF PidKnown, HandedOver, Living, Supervised
<1>7. Answered'
  BY <1>1, <1>2 DEF Answered
<1>8. \A s \in Streams : Accounted(s)'
  BY <1>1, <1>2, <1>3 DEF Accounted
<1>. QED  BY <1>1, <1>4, <1>5, <1>6, <1>7, <1>8 DEF IInv, TypeOK

(* What a pipe held is taken from it; at its end the pipe is left, and its *)
(* log complete.                                                           *)
LEMMA TakenInvariant ==
  ASSUME IInv, pc \in Supervised \cup {"finish"},
         UNCHANGED <<kind, prog, proc, owner, pending, doing, sawEof, made, inq, failq, reaping>>,
         UNCHANGED <<pc, expired, answer, sent, cancel, reason, caught>>,
         ready' \in SUBSET Pipes,
         outq' \in [Streams -> [buf : 0 .. Cap, ends : SUBSET {"child", "heir"}, r : BOOLEAN]],
         got' \in [Streams -> Nat],
         log' \in [Streams -> [total : Nat, eof : BOOLEAN, error : BOOLEAN]],
         \A s \in Streams :
           \/ outq'[s] = outq[s] /\ got'[s] = got[s] /\ log'[s] = log[s]
           \/ /\ got'[s] = got[s] + outq[s].buf
              /\ outq'[s].buf = 0 /\ outq'[s].ends = outq[s].ends
              /\ ~outq'[s].r => outq[s].ends = {}
              /\ log'[s].total <= got'[s]
              /\ log'[s].eof => ~outq'[s].r /\ log'[s].total = got'[s]
  PROVE  IInv'
<1>1. /\ OwnedTypeOK /\ RunningTypeOK /\ SessionTypeOK /\ TypeOK
      /\ Budget /\ PidKnown /\ HandedOver /\ Answered
      /\ \A s \in Streams : Accounted(s)
  BY DEF IInv, TypeOK
<1>2. UNCHANGED <<reaped, cleanup, waiter, trespass>>
  BY DEF reaping
<1>3. OwnedTypeOK' /\ Budget'
  BY <1>1, <1>2 DEF OwnedTypeOK, Budget, MadeSoFar
<1>4. ASSUME NEW s \in Streams
      PROVE  Accounted(s)' /\ got'[s] \in 0 .. MaxMade /\ log'[s].total \in 0 .. MaxMade
  <2>1. /\ outq[s].buf \in Nat /\ made[s] \in 0 .. MaxMade /\ got[s] \in Nat /\ got'[s] \in Nat
        /\ outq'[s].buf \in Nat /\ log'[s].total \in Nat /\ log[s].total \in Nat /\ MaxMade \in Nat
    <3>1. outq[s].buf \in 0 .. Cap /\ made[s] \in 0 .. MaxMade /\ outq'[s].buf \in 0 .. Cap
      BY <1>1 DEF OwnedTypeOK
    <3>2. got[s] \in 0 .. MaxMade /\ log[s].total \in 0 .. MaxMade
      BY <1>1 DEF RunningTypeOK, SessionTypeOK
    <3>. QED  BY <3>1, <3>2, BoundsAssumption
  <2>2. CASE outq'[s] = outq[s] /\ got'[s] = got[s] /\ log'[s] = log[s]
    <3>1. Accounted(s)'
      BY <1>1, <2>2 DEF Accounted, Whole
    <3>. QED  BY <2>1, <2>2, <3>1 DEF Accounted
  <2>3. CASE /\ got'[s] = got[s] + outq[s].buf
             /\ outq'[s].buf = 0 /\ outq'[s].ends = outq[s].ends
             /\ ~outq'[s].r => outq[s].ends = {}
             /\ log'[s].total <= got'[s]
             /\ log'[s].eof => ~outq'[s].r /\ log'[s].total = got'[s]
    <3>1. got'[s] = made[s] /\ got'[s] + outq'[s].buf = made'[s]
      BY <1>1, <2>1, <2>3 DEF Accounted
    <3>2. ~outq'[s].r => Whole(s)'
      BY <2>3, <3>1 DEF Whole
    <3>3. pc # "spawn" /\ (proc' \in {"setup", "run"} => "child" \in outq'[s].ends)
      BY <1>1, <2>3 DEF Accounted, Supervised
    <3>4. Accounted(s)'
      BY <2>3, <3>1, <3>2, <3>3 DEF Accounted
    <3>. QED  BY <2>1, <2>3, <3>1, <3>4
  <2>. QED  BY <2>2, <2>3
<1>5. RunningTypeOK' /\ SessionTypeOK'
  BY <1>1, <1>4 DEF RunningTypeOK, SessionTypeOK
<1>6. PidKnown' /\ HandedOver'
  BY <1>1, <1>2 DEF PidKnown, HandedOver, Living, Supervised
<1>7. Answered'
  BY <1>1 DEF Answered, Supervised
<1>. QED  BY <1>1, <1>3, <1>4, <1>5, <1>6, <1>7 DEF IInv, TypeOK

-----------------------------------------------------------------------------
(* The probe.                                                              *)

LEMMA ForkFailsInvariant ==
  ASSUME IInv, ForkFails, UNCHANGED telling
  PROVE  IInv' /\ UNCHANGED trespass
<1>1. OwnedTypeOK /\ RunningTypeOK /\ SessionTypeOK
  BY DEF IInv, TypeOK
<1>2. /\ UNCHANGED <<kind, prog, proc, owner, pending, doing, sawEof, made, inq, outq, failq>>
      /\ UNCHANGED <<reaped, cleanup, waiter, trespass, expired, got, ready, sent, cancel, reason, caught, log>>
      /\ pc = "spawn" /\ pc' = "destroy" /\ answer' = "fork failed"
  BY DEF ForkFails, Throws, owned, child, reaping, probing, telling
<1>3. pc' \in Supervised \cup {"finish", "destroy"} /\ pc' \notin Supervised /\ answer' \in Thrown
  BY <1>2 DEF Supervised, Thrown
<1>. QED  BY <1>1, <1>2, <1>3, ControlInvariant DEF OwnedTypeOK, RunningTypeOK, SessionTypeOK

LEMMA ProbeInvariant ==
  ASSUME IInv, ProbeStep, UNCHANGED telling
  PROVE  IInv' /\ UNCHANGED trespass
<1>1. /\ OwnedTypeOK /\ RunningTypeOK /\ SessionTypeOK /\ PidKnown
      /\ \A s \in Streams : Accounted(s)
  BY DEF IInv, TypeOK
<1>2. /\ UNCHANGED <<cancel, reason, caught, log>>
      /\ caught' \in BOOLEAN /\ reason' \in {"exited", "cancelled", "timeout"}
      /\ log' \in [Streams -> [total : 0 .. MaxMade, eof : BOOLEAN, error : BOOLEAN]]
  BY <1>1 DEF telling, SessionTypeOK
<1>3. "loop" \in Supervised /\ {"timed out", "output exceeds", "exec failed"} \subseteq Thrown
  BY DEF Supervised, Thrown
<1>4. CASE ProbeForks
  <2>1. inq' \in [buf : 0 .. Cap, w : BOOLEAN, r : BOOLEAN]
    <3>1. (Input > 0) \in BOOLEAN
      OBVIOUS
    <3>2. inq' = [inq EXCEPT !.w = (Input > 0)] /\ inq \in [buf : 0 .. Cap, w : BOOLEAN, r : BOOLEAN]
      BY <1>1, <1>4 DEF ProbeForks, OwnedTypeOK
    <3>. QED  BY <3>1, <3>2
  <2>. QED  BY <1>4, <2>1, ForkInvariant DEF ProbeForks, reaping
<1>5. CASE Poll \/ ServeFail
  <2>1. /\ UNCHANGED <<kind, prog, proc, owner, pending, doing, sawEof, made, inq, outq>>
        /\ UNCHANGED <<reaped, cleanup, waiter, trespass, expired, got, sent>>
        /\ pc = "loop"
        /\ \/ pc' = "loop" /\ answer' = answer
           \/ pc' = "destroy" /\ answer' \in {"timed out", "exec failed"}
        /\ failq' \in {failq, [failq EXCEPT !.r = FALSE]}
        /\ ready' \subseteq ready \cup Pipes
    BY <1>5 DEF Poll, ServeFail, InLoop, Serves, Throws, Eventful, owned, child, reaping
  <2>2. failq' \in [report : BOOLEAN, w : BOOLEAN, r : BOOLEAN]
    BY <1>1, <2>1 DEF OwnedTypeOK
  <2>. QED  BY <1>1, <1>2, <1>3, <2>1, <2>2, ControlInvariant DEF OwnedTypeOK, RunningTypeOK
<1>6. CASE ServeIn
  <2>. DEFINE room == Cap - inq.buf
              put == IF ~inq.r THEN 0 ELSE IF Input - sent < room THEN Input - sent ELSE room
  <2>1. /\ UNCHANGED <<kind, prog, proc, owner, pending, doing, sawEof, made, outq, failq>>
        /\ UNCHANGED <<reaped, cleanup, waiter, trespass, pc, expired, got, answer>>
        /\ pc = "loop" /\ ready' \subseteq ready
        /\ sent' = sent + put
        /\ inq' = [inq EXCEPT !.buf = @ + put, !.w = inq.r /\ sent + put < Input]
    BY <1>6 DEF ServeIn, InLoop, Serves, reaping, running
  <2>2. put \in Nat /\ put <= Cap - inq.buf /\ put <= Input - sent /\ inq.buf \in Nat /\ sent \in Nat
    BY <1>1, BoundsAssumption DEF OwnedTypeOK, RunningTypeOK
  <2>. HIDE DEF put
  <2>3. sent' \in 0 .. Input /\ inq.buf + put \in 0 .. Cap
    BY <2>1, <2>2, BoundsAssumption
  <2>4. (inq.r /\ sent + put < Input) \in BOOLEAN
    OBVIOUS
  <2>5. inq' \in [buf : 0 .. Cap, w : BOOLEAN, r : BOOLEAN]
    BY <1>1, <2>1, <2>3, <2>4 DEF OwnedTypeOK
  <2>. QED  BY <1>1, <1>2, <1>3, <2>1, <2>3, <2>5, ControlInvariant DEF OwnedTypeOK, RunningTypeOK
<1>7. ASSUME NEW s \in Streams, ServeOut(s)
      PROVE  IInv' /\ UNCHANGED trespass
  <2>1. /\ UNCHANGED <<kind, prog, proc, owner, pending, doing, sawEof, made, inq, failq>>
        /\ UNCHANGED <<reaping, reaped, cleanup, waiter, trespass, expired, sent>>
        /\ pc = "loop" /\ ready' \subseteq ready
    BY <1>7 DEF ServeOut, InLoop, Serves, reaping
  <2>2. CASE pc' = "destroy" /\ answer' \in {"timed out", "output exceeds"} /\ UNCHANGED <<outq, got>>
    BY <1>1, <1>2, <1>3, <2>1, <2>2, ControlInvariant DEF OwnedTypeOK, RunningTypeOK
  <2>3. CASE /\ got' = [got EXCEPT ![s] = @ + outq[s].buf]
             /\ outq' = [outq EXCEPT ![s].buf = 0, ![s].r = ~AtEof(s)]
             /\ UNCHANGED <<answer, pc>>
    <3>1. outq[s].buf \in Nat /\ got \in [Streams -> Nat] /\ log' \in [Streams -> [total : Nat, eof : BOOLEAN, error : BOOLEAN]]
          /\ \A t \in Streams : log[t].total \in Nat /\ got[t] \in Nat
      BY <1>1, <1>2, BoundsAssumption DEF OwnedTypeOK, RunningTypeOK, SessionTypeOK
    <3>2. got' \in [Streams -> Nat]
      BY <2>3, <3>1
    <3>3. PICK open \in BOOLEAN : open = ~AtEof(s)
      OBVIOUS
    <3>4. outq' \in [Streams -> [buf : 0 .. Cap, ends : SUBSET {"child", "heir"}, r : BOOLEAN]]
      <4>1. outq' = [outq EXCEPT ![s].buf = 0, ![s].r = open] /\ 0 \in 0 .. Cap
        BY <2>3, <3>3, BoundsAssumption
      <4>2. [outq[s] EXCEPT !.buf = 0, !.r = open] \in [buf : 0 .. Cap, ends : SUBSET {"child", "heir"}, r : BOOLEAN]
        BY <1>1, <4>1, ZenonT(40) DEF OwnedTypeOK
      <4>3. outq' = [outq EXCEPT ![s] = [outq[s] EXCEPT !.buf = 0, !.r = open]]
        BY <1>1, <4>1 DEF OwnedTypeOK
      <4>. QED  BY <1>1, <4>2, <4>3 DEF OwnedTypeOK
    <3>5. /\ \A t \in Streams : t # s => outq'[t] = outq[t] /\ got'[t] = got[t] /\ log'[t] = log[t]
          /\ got'[s] = got[s] + outq[s].buf
          /\ outq'[s].buf = 0 /\ outq'[s].ends = outq[s].ends
          /\ ~outq'[s].r => outq[s].ends = {}
      BY <1>1, <1>2, <2>3, <3>1 DEF OwnedTypeOK, AtEof
    <3>6. log'[s].total <= got'[s]
      BY <1>1, <1>2, <3>1, <3>5 DEF Accounted
    <3>7. log'[s].eof => ~outq'[s].r /\ log'[s].total = got'[s]
      <4>1. log'[s].eof => outq[s].ends = {} /\ outq[s].buf = 0 /\ got[s] = made[s] /\ log'[s].total = made[s]
        BY <1>1, <1>2 DEF Accounted, Whole
      <4>2. outq'[s].r = open /\ (outq[s].ends = {} => open = FALSE)
        BY <1>1, <2>3, <3>3 DEF OwnedTypeOK, AtEof
      <4>. QED  BY <3>1, <3>5, <4>1, <4>2
    <3>8. ready' \in SUBSET Pipes /\ pc \in Supervised \cup {"finish"}
      BY <1>1, <1>3, <2>1 DEF RunningTypeOK
    <3>. QED  BY <1>2, <2>1, <2>3, <3>1, <3>2, <3>4, <3>5, <3>6, <3>7, <3>8, TakenInvariant
  <2>. QED  BY <1>7, <2>2, <2>3 DEF ServeOut, Throws
<1>8. CASE ProbeWaits
  <2>1. /\ UNCHANGED <<kind, prog, pending, doing, sawEof, made, inq, outq, failq, cleanup, waiter, trespass, got>>
        /\ UNCHANGED <<probing, ready, sent>>
        /\ kind = "probe" /\ pc = "loop" /\ \A s \in Streams : ~outq[s].r
        /\ \/ TryWait /\ answer' = "result" /\ pc' = "destroy" /\ UNCHANGED expired
           \/ answer' = "timed out" /\ pc' = "destroy" /\ UNCHANGED <<proc, owner, reaped, expired>>
    BY <1>8 DEF ProbeWaits, InLoop, OpenPipes, Pipes, Streams, Throws, probing
  <2>2. CASE TryWait /\ answer' = "result" /\ pc' = "destroy" /\ UNCHANGED expired
    BY <1>3, <2>1, <2>2, ReapInvariant
  <2>3. CASE answer' = "timed out" /\ pc' = "destroy" /\ UNCHANGED <<proc, owner, reaped, expired>>
    BY <1>1, <1>2, <1>3, <2>1, <2>3, ControlInvariant DEF OwnedTypeOK, RunningTypeOK
  <2>. QED  BY <2>1, <2>2, <2>3
<1>. QED  BY <1>4, <1>5, <1>6, <1>7, <1>8 DEF ProbeStep

-----------------------------------------------------------------------------
(* The session.                                                            *)

LEMMA ServiceTakes ==
  ASSUME OwnedTypeOK, RunningTypeOK, SessionTypeOK, Service
  PROVE  /\ outq' \in [Streams -> [buf : 0 .. Cap, ends : SUBSET {"child", "heir"}, r : BOOLEAN]]
         /\ got' \in [Streams -> Nat]
         /\ log' \in [Streams -> [total : Nat, eof : BOOLEAN, error : BOOLEAN]]
         /\ \A s \in Streams :
              \/ outq'[s] = outq[s] /\ got'[s] = got[s] /\ log'[s] = log[s]
              \/ /\ got'[s] = got[s] + outq[s].buf
                 /\ outq'[s].buf = 0 /\ outq'[s].ends = outq[s].ends
                 /\ ~outq'[s].r => outq[s].ends = {}
                 /\ log'[s].total <= got'[s]
                 /\ log'[s].eof => ~outq'[s].r /\ log'[s].total = got'[s]
<1>1. ASSUME NEW s \in Streams
      PROVE  outq[s].buf \in Nat /\ got[s] \in Nat /\ log[s].total \in Nat
  BY BoundsAssumption DEF OwnedTypeOK, RunningTypeOK, SessionTypeOK
<1>2. /\ got' = [s \in Streams |-> got[s] + IF Readable(s) THEN outq[s].buf ELSE 0]
      /\ DOMAIN outq' = Streams /\ DOMAIN log' = Streams
      /\ outq' = [s \in Streams |-> outq'[s]] /\ log' = [s \in Streams |-> log'[s]]
  BY DEF Service
<1>3. ASSUME NEW s \in Streams
      PROVE  /\ outq'[s] \in [buf : 0 .. Cap, ends : SUBSET {"child", "heir"}, r : BOOLEAN]
             /\ got'[s] \in Nat
             /\ log'[s] \in [total : Nat, eof : BOOLEAN, error : BOOLEAN]
             /\ \/ outq'[s] = outq[s] /\ got'[s] = got[s] /\ log'[s] = log[s]
                \/ /\ got'[s] = got[s] + outq[s].buf
                   /\ outq'[s].buf = 0 /\ outq'[s].ends = outq[s].ends
                   /\ ~outq'[s].r => outq[s].ends = {}
                   /\ log'[s].total <= got'[s]
                   /\ log'[s].eof => ~outq'[s].r /\ log'[s].total = got'[s]
  <2>1. /\ outq[s] \in [buf : 0 .. Cap, ends : SUBSET {"child", "heir"}, r : BOOLEAN]
        /\ log[s] \in [total : Nat, eof : BOOLEAN, error : BOOLEAN]
    BY BoundsAssumption DEF OwnedTypeOK, SessionTypeOK
  <2>2. CASE ~Readable(s)
    <3>1. outq'[s] = outq[s] /\ log'[s] = log[s]
      BY <2>2 DEF Service
    <3>2. got'[s] = got[s]
      BY <1>1, <1>2, <2>2
    <3>. QED  BY <1>1, <2>1, <3>1, <3>2
  <2>3. CASE Readable(s)
    <3>1. PICK ended \in BOOLEAN : ended = AtEof(s)
      BY DEF AtEof
    <3>2. PICK open \in BOOLEAN : open = ~AtEof(s)
      BY DEF AtEof
    <3>3. PICK units \in Nat : units = got[s] + outq[s].buf
      BY <1>1
    <3>4. got'[s] = units
      BY <1>2, <2>3, <3>3
    <3>5. outq'[s] = [outq[s] EXCEPT !.buf = 0, !.r = open]
      BY <2>3, <3>2 DEF Service
    <3>6. log'[s] = [log[s] EXCEPT !.total = Consumed(units, ended), !.eof = ended]
      BY <2>3, <3>1, <3>3 DEF Service
    <3>7. Consumed(units, ended) \in 0 .. units /\ (ended = TRUE => Consumed(units, ended) = units)
      BY ConsumedBound
    <3>8. /\ outq'[s] \in [buf : 0 .. Cap, ends : SUBSET {"child", "heir"}, r : BOOLEAN]
          /\ outq'[s].buf = 0 /\ outq'[s].ends = outq[s].ends /\ outq'[s].r = open
      BY <2>1, <3>5, PipeRecord
    <3>9. /\ log'[s] \in [total : Nat, eof : BOOLEAN, error : BOOLEAN]
          /\ log'[s].total = Consumed(units, ended) /\ log'[s].eof = ended
      <4>1. PICK total \in Nat : total = Consumed(units, ended)
        BY <3>7
      <4>2. log'[s] = [log[s] EXCEPT !.total = total, !.eof = ended]
        BY <3>6, <4>1
      <4>. QED  BY <2>1, <4>1, <4>2, LogRecord
    <3>10. /\ open = FALSE => outq[s].ends = {}
           /\ ended = TRUE => open = FALSE
      BY <3>1, <3>2 DEF AtEof
    <3>11. log'[s].eof => log'[s].eof = TRUE
      BY <3>9
    <3>. QED  BY <3>3, <3>4, <3>7, <3>8, <3>9, <3>10, <3>11
  <2>. QED  BY <2>2, <2>3
<1>. QED  BY <1>2, <1>3

(* Both logs are told as they are: complete, or with an error.             *)
LEMMA FinishInvariant ==
  ASSUME IInv, FinishEnds
  PROVE  IInv' /\ UNCHANGED trespass
<1>1. /\ OwnedTypeOK /\ RunningTypeOK /\ SessionTypeOK /\ TypeOK
      /\ Budget /\ PidKnown /\ HandedOver /\ Answered
      /\ \A s \in Streams : Accounted(s)
  BY DEF IInv, TypeOK
<1>2. /\ UNCHANGED <<kind, prog, proc, owner, pending, doing, sawEof, made, inq, failq>>
      /\ UNCHANGED <<reaped, cleanup, waiter, trespass, expired, got, ready, sent, cancel, reason, caught>>
      /\ kind = "session" /\ pc = "finish" /\ pc' = "destroy"
      /\ answer' = IF caught THEN "thrown" ELSE "result"
  BY DEF FinishEnds, AtSession, Throws, reaping, probing
<1>3. /\ outq' \in [Streams -> [buf : 0 .. Cap, ends : SUBSET {"child", "heir"}, r : BOOLEAN]]
      /\ \A s \in Streams : outq'[s].buf = outq[s].buf /\ outq'[s].ends = outq[s].ends /\ outq'[s].r = FALSE
  <2>1. ASSUME NEW s \in Streams
        PROVE  /\ outq'[s] \in [buf : 0 .. Cap, ends : SUBSET {"child", "heir"}, r : BOOLEAN]
               /\ outq'[s].buf = outq[s].buf /\ outq'[s].ends = outq[s].ends /\ outq'[s].r = FALSE
    <3>1. outq'[s] = [outq[s] EXCEPT !.r = FALSE]
      BY DEF FinishEnds
    <3>2. outq[s] \in [buf : 0 .. Cap, ends : SUBSET {"child", "heir"}, r : BOOLEAN]
      BY <1>1 DEF OwnedTypeOK
    <3>. QED  BY <3>1, <3>2, PipeRecord
  <2>2. outq' = [s \in Streams |-> outq'[s]]
    BY DEF FinishEnds
  <2>. QED  BY <2>1, <2>2
<1>4. /\ log' \in [Streams -> [total : 0 .. MaxMade, eof : BOOLEAN, error : BOOLEAN]]
      /\ \A s \in Streams : /\ log'[s].total = log[s].total /\ log'[s].eof = log[s].eof
                            /\ ~log'[s].error => log[s].eof
  <2>1. ASSUME NEW s \in Streams
        PROVE  /\ log'[s] \in [total : 0 .. MaxMade, eof : BOOLEAN, error : BOOLEAN]
               /\ log'[s].total = log[s].total /\ log'[s].eof = log[s].eof
               /\ ~log'[s].error => log[s].eof
    <3>1. PICK b \in BOOLEAN : b = (log[s].error \/ ~log[s].eof)
      OBVIOUS
    <3>2. log'[s] = [log[s] EXCEPT !.error = b]
      BY <3>1 DEF FinishEnds, LogResult
    <3>3. log[s] \in [total : 0 .. MaxMade, eof : BOOLEAN, error : BOOLEAN]
      BY <1>1 DEF SessionTypeOK
    <3>4. b = FALSE => log[s].eof
      BY <3>1
    <3>. QED  BY <3>2, <3>3, <3>4
  <2>2. log' = [s \in Streams |-> log'[s]]
    BY DEF FinishEnds, LogResult
  <2>. QED  BY <2>1, <2>2
<1>5. OwnedTypeOK'
  BY <1>1, <1>2, <1>3 DEF OwnedTypeOK
<1>6. RunningTypeOK' /\ SessionTypeOK' /\ Budget'
  BY <1>1, <1>2, <1>4 DEF RunningTypeOK, SessionTypeOK, Budget, MadeSoFar
<1>7. PidKnown' /\ HandedOver'
  BY <1>1, <1>2 DEF PidKnown, HandedOver, Living, Supervised
<1>8. Answered'
  BY <1>1, <1>2, <1>4 DEF Answered, PidKnown
<1>9. \A s \in Streams : Accounted(s)'
  BY <1>1, <1>2, <1>3, <1>4 DEF Accounted, Whole
<1>. QED  BY <1>1, <1>2, <1>5, <1>6, <1>7, <1>8, <1>9 DEF IInv, TypeOK

LEMMA SessionInvariant ==
  ASSUME IInv, SessionStep
  PROVE  IInv' /\ UNCHANGED trespass
<1>1. /\ OwnedTypeOK /\ RunningTypeOK /\ SessionTypeOK /\ PidKnown
  BY DEF IInv, TypeOK
<1>2. /\ {"handshake", "watch", "stop", "terminate", "grace", "kill", "reap"} \subseteq Supervised
      /\ {"spawn failed", "thrown"} \subseteq Thrown
  BY DEF Supervised, Thrown
<1>3. CASE SessionForks
  <2>1. inq' \in [buf : 0 .. Cap, w : BOOLEAN, r : BOOLEAN]
    BY <1>1, <1>3 DEF SessionForks, OwnedTypeOK
  <2>. QED  BY <1>3, <2>1, ForkInvariant DEF SessionForks, AtSession, reaping, telling
<1>4. CASE SpawnFails
  BY <1>2, <1>4, ReapInvariant DEF SpawnFails, AtSession, Throws
<1>5. CASE Started
  <2>1. /\ UNCHANGED <<kind, prog, proc, owner, pending, doing, sawEof, made, inq, outq>>
        /\ UNCHANGED <<reaped, cleanup, waiter, trespass, expired, got, answer, ready, sent, cancel, reason>>
        /\ pc = "handshake" /\ pc' \in {"watch", "stop"} /\ caught' \in {caught, TRUE}
        /\ failq' = [failq EXCEPT !.r = FALSE]
    BY <1>5 DEF Started, AtSession, reaping, probing
  <2>2. failq' \in [report : BOOLEAN, w : BOOLEAN, r : BOOLEAN]
    BY <1>1, <2>1 DEF OwnedTypeOK
  <2>3. /\ log' \in [Streams -> [total : 0 .. MaxMade, eof : BOOLEAN, error : BOOLEAN]]
        /\ \A s \in Streams : log'[s].total = log[s].total /\ log'[s].eof = log[s].eof
    <3>1. PICK unopened \in SUBSET Streams : log' = [s \in Streams |-> [log[s] EXCEPT !.error = s \in unopened]]
      BY <1>5 DEF Started
    <3>2. \A s \in Streams : (s \in unopened) \in BOOLEAN
      OBVIOUS
    <3>. QED  BY <1>1, <3>1, <3>2 DEF SessionTypeOK
  <2>. QED  BY <1>1, <1>2, <2>1, <2>2, <2>3, ControlInvariant DEF OwnedTypeOK, RunningTypeOK, SessionTypeOK
<1>6. ASSUME NEW at \in {"watch", "grace", "reap"}, Services(at)
      PROVE  IInv' /\ UNCHANGED trespass
  BY <1>1, <1>2, <1>6, ServiceTakes, TakenInvariant DEF Services, AtSession, RunningTypeOK, reaping, probing
<1>7. ASSUME NEW at \in {"watch", "stop", "grace", "reap"}, ExitSeen(at)
      PROVE  IInv' /\ UNCHANGED trespass
  BY <1>2, <1>7, ReapInvariant DEF ExitSeen, AtSession
<1>8. CASE Interrupted \/ StopBegins \/ GraceEnds \/ ReapEnds
  <2>1. /\ UNCHANGED <<kind, prog, proc, owner, pending, doing, sawEof, made, inq, outq, failq>>
        /\ UNCHANGED <<reaped, cleanup, waiter, trespass, expired, got, answer, ready, sent, cancel, log>>
        /\ pc \in {"watch", "stop", "grace", "reap"}
        /\ pc' \in {"stop", "terminate", "kill"} \/ (pc' = "finish" /\ caught' = TRUE)
        /\ caught' \in {caught, TRUE} /\ reason' \in {reason, "cancelled", "timeout"}
    BY <1>8 DEF Interrupted, StopBegins, GraceEnds, ReapEnds, AtSession, owned, child, reaping, probing, telling
  <2>2. /\ pending' \in SUBSET {"TERM", "KILL"} /\ trespass' \in BOOLEAN
        /\ inq' \in [buf : 0 .. Cap, w : BOOLEAN, r : BOOLEAN]
        /\ failq' \in [report : BOOLEAN, w : BOOLEAN, r : BOOLEAN]
    BY <1>1, <2>1 DEF OwnedTypeOK
  <2>3. ready' \in SUBSET Pipes /\ sent' \in 0 .. Input
    BY <1>1, <2>1 DEF RunningTypeOK
  <2>4. /\ caught' \in BOOLEAN /\ reason' \in {"exited", "cancelled", "timeout"}
        /\ log' \in [Streams -> [total : 0 .. MaxMade, eof : BOOLEAN, error : BOOLEAN]]
        /\ \A s \in Streams : log'[s].total = log[s].total /\ log'[s].eof = log[s].eof
    BY <1>1, <2>1 DEF SessionTypeOK
  <2>5. /\ pc \in Supervised /\ pc # "done" /\ pc' \in Supervised \cup {"finish", "destroy"}
        /\ pc' = "finish" => caught'
    BY <2>1 DEF Supervised
  <2>. QED  BY <2>1, <2>2, <2>3, <2>4, <2>5, ControlInvariant
<1>9. ASSUME NEW at \in {"terminate", "kill"}, NEW sig \in {"TERM", "KILL"}, NEW next \in {"grace", "reap"},
             Signals(at, sig, next)
      PROVE  IInv' /\ UNCHANGED trespass
  <2>1. /\ UNCHANGED <<kind, prog, proc, owner, doing, sawEof, made, inq, outq, failq, reaped, cleanup, waiter>>
        /\ UNCHANGED <<expired, got, answer, ready, sent, cancel, reason, caught, log>>
        /\ pc = at /\ pc' = next /\ Signal(sig)
    BY <1>9 DEF Signals, AtSession, probing, telling
  <2>2. owner = "child"
    BY <1>1, <1>2, <2>1 DEF PidKnown, Living
  <2>3. pending' \in SUBSET {"TERM", "KILL"} /\ trespass' = trespass
    BY <1>1, <2>1, <2>2 DEF Signal, OwnedTypeOK
  <2>4. /\ trespass' \in BOOLEAN
        /\ inq' \in [buf : 0 .. Cap, w : BOOLEAN, r : BOOLEAN]
        /\ failq' \in [report : BOOLEAN, w : BOOLEAN, r : BOOLEAN]
    BY <1>1, <2>1, <2>3 DEF OwnedTypeOK
  <2>5. ready' \in SUBSET Pipes /\ sent' \in 0 .. Input
    BY <1>1, <1>9 DEF Signals, probing, RunningTypeOK
  <2>6. /\ caught' \in BOOLEAN /\ reason' \in {"exited", "cancelled", "timeout"}
        /\ log' \in [Streams -> [total : 0 .. MaxMade, eof : BOOLEAN, error : BOOLEAN]]
        /\ \A s \in Streams : log'[s].total = log[s].total /\ log'[s].eof = log[s].eof
    BY <1>1, <2>1 DEF SessionTypeOK
  <2>7. pc \in Supervised /\ pc' \in Supervised /\ pc # "done" /\ pc' # "finish"
    BY <1>2, <2>1 DEF Supervised
  <2>. QED  BY <2>1, <2>3, <2>4, <2>5, <2>6, <2>7, ControlInvariant
<1>10. CASE FinishServices
  BY <1>1, <1>2, <1>10, ServiceTakes, TakenInvariant DEF FinishServices, AtSession, RunningTypeOK, reaping, probing
<1>. QED  BY <1>3, <1>4, <1>5, <1>6, <1>7, <1>8, <1>9, <1>10, FinishInvariant DEF SessionStep

-----------------------------------------------------------------------------
(* The invariant, and what follows from it.                                *)

LEMMA InitIInv ==
  ASSUME Init
  PROVE  IInv /\ ~trespass
<1>1. /\ 0 \in 0 .. Cap /\ 0 \in 0 .. MaxMade /\ 0 \in 0 .. Input
  BY BoundsAssumption
<1>2. OwnedTypeOK
  BY <1>1 DEF Init, OwnedInit, OwnedTypeOK, Streams
<1>3. RunningTypeOK /\ SessionTypeOK
  BY <1>1 DEF Init, SessionInit, ProbeInit, RunningTypeOK, SessionTypeOK, Pipes, Streams
<1>4. TypeOK
  BY <1>2, <1>3 DEF Init, SessionInit, ProbeInit, TypeOK
<1>5. Budget
  BY BoundsAssumption DEF Init, OwnedInit, Budget, MadeSoFar, Streams
<1>6. PidKnown /\ HandedOver /\ Answered
  BY DEF Init, OwnedInit, SessionInit, ProbeInit, PidKnown, HandedOver, Answered, Living, Supervised
<1>7. \A s \in Streams : Accounted(s)
  BY DEF Init, OwnedInit, SessionInit, ProbeInit, Accounted
<1>. QED  BY <1>4, <1>5, <1>6, <1>7 DEF IInv, Init, OwnedInit

LEMMA NextIInv ==
  ASSUME IInv, [Next]_vars
  PROVE  IInv' /\ (~trespass => ~trespass')
<1>1. KernelStep /\ UNCHANGED <<running, probing, telling>> => IInv' /\ UNCHANGED trespass
  BY KernelInvariant, KernelMoves DEF IInv, TypeOK, ChildMoved, reaping
<1>. QED  BY <1>1, WaiterInvariant, OutsideInvariant, DestroyInvariant, ForkFailsInvariant,
             ProbeInvariant, SessionInvariant DEF Next, Supervise, Waiter, Kernel, Clock

(* A run, its child, the kernel and the waiter always satisfy the invariant. *)
THEOREM SpecIInv == Spec => [](IInv /\ ~trespass)
<1>1. Init => IInv /\ ~trespass
  BY InitIInv
<1>2. (IInv /\ ~trespass) /\ [Next]_vars => (IInv /\ ~trespass)'
  BY NextIInv
<1>. QED  BY <1>1, <1>2, PTL DEF Spec

(* Every variable keeps its type: no pipe holds, and no log accounts, more *)
(* than was written, for every size of the pipes.                          *)
THEOREM SpecTypeOK == Spec => []TypeOK
<1>1. IInv => TypeOK
  BY DEF IInv
<1>. QED  BY <1>1, SpecIInv, PTL

(* No kill and no waitpid of a run or of its waiter hits another process,  *)
(* whenever the pid is reused (process_internal.hpp).                      *)
THEOREM SpecBystandersLive == Spec => []BystandersLive
<1>1. ~trespass => BystandersLive
  BY DEF BystandersLive
<1>. QED  BY <1>1, SpecIInv, PTL

(* A run that answers has waited for its child and read all of its output, *)
(* or says that a log is incomplete, whatever the program leaves behind.   *)
THEOREM SpecEvidenceWhole == Spec => []EvidenceWhole
<1>1. ASSUME IInv
      PROVE  EvidenceWhole
  BY <1>1 DEF IInv, Answered, Accounted, EvidenceWhole
<1>2. IInv => EvidenceWhole
  BY <1>1
<1>. QED  BY <1>2, SpecIInv, PTL
=============================================================================
