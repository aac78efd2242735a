------------------------ MODULE LodgeSession_proofs ------------------------
(***************************************************************************)
(* Proofs about LodgeSession for any number of processes, sessions, state  *)
(* files and contents, on POSIX and on Windows: TypeOK, WriterAlone and    *)
(* LaunchedOnce are invariants of Spec.                                    *)
(***************************************************************************)
EXTENDS LodgeSession, SequenceTheorems, TLAPS

-----------------------------------------------------------------------------
(* Journals are closed under what a command does with them.                *)

LEMMA JournalClosed ==
  /\ NoJournal \in Journals
  /\ Prepared \in Journals
  /\ \A j \in Journals, to \in States : Transition(j, to) \in Journals
  /\ \A j \in Journals, c \in SUBSET Codes : Diagnose(j, c) \in Journals
  /\ \A j \in Journals, b \in BOOLEAN : [j EXCEPT !.clean = b] \in Journals
  /\ \A j \in Journals, c \in SUBSET Codes, t \in Captures :
       /\ [j EXCEPT !.capture = t, !.diagnostics = c] \in Journals
       /\ [j EXCEPT !.diagnostics = c, !.members = t] \in Journals
<1>1. NoJournal \in Journals
  <2>1. << >> \in Seq(States)
    OBVIOUS
  <2>. QED  BY <2>1 DEF NoJournal, Journals, Captures
<1>2. Prepared \in Journals
  <2>1. <<"prepared">> \in Seq(States)
    BY DEF States
  <2>. QED  BY <2>1 DEF Prepared, Journals, Captures, States
<1>3. \A j \in Journals, to \in States : Transition(j, to) \in Journals
  <2>. SUFFICES ASSUME NEW j \in Journals, NEW to \in States
                PROVE  Transition(j, to) \in Journals
    OBVIOUS
  <2>1. j.transitions \in Seq(States)
    BY DEF Journals
  <2>2. Append(j.transitions, to) \in Seq(States)
    BY <2>1, AppendProperties
  <2>. QED  BY <2>2 DEF Transition, Journals
<1>4. \A j \in Journals, c \in SUBSET Codes : Diagnose(j, c) \in Journals
  BY DEF Diagnose, Journals
<1>5. \A j \in Journals, b \in BOOLEAN : [j EXCEPT !.clean = b] \in Journals
  BY DEF Journals
<1>6. \A j \in Journals, c \in SUBSET Codes, t \in Captures :
       /\ [j EXCEPT !.capture = t, !.diagnostics = c] \in Journals
       /\ [j EXCEPT !.diagnostics = c, !.members = t] \in Journals
  BY DEF Journals
<1>. QED  BY <1>1, <1>2, <1>3, <1>4, <1>5, <1>6

(* The effect of persist: only the target session's journal can change,    *)
(* and only to j; the command continues at next only if j is durable.      *)
LEMMA PersistEffect ==
  ASSUME TypeOK, NEW p \in Procs, NEW j \in Journals,
         NEW next \in Steps, NEW unwind \in Steps,
         Persist(p, j, next, unwind)
  PROVE  /\ now' \in [Sessions -> Journals]
         /\ safe' \in [Sessions -> Journals]
         /\ pc' \in [Procs -> Steps]
         /\ mem' \in [Procs -> Journals]
         /\ \A s \in Sessions :
              /\ now'[s] = now[s] \/ (s = tgt[p] /\ now'[s] = j)
              /\ safe'[s] = safe[s] \/ (s = tgt[p] /\ safe'[s] = j)
         /\ \A q \in Procs : q # p => pc'[q] = pc[q] /\ mem'[q] = mem[q]
         /\ \/ pc'[p] = unwind
            \/ /\ pc'[p] = next
               /\ now'[tgt[p]] = j /\ safe'[tgt[p]] = j
               /\ next # "release" => mem'[p] = j
<1>1. tgt[p] \in Sessions /\ mem[p] \in Journals /\ NoJournal \in Journals
  BY JournalClosed DEF TypeOK
<1>2. CASE Replaced(tgt[p], j) /\ Proceed(p, next, j)
  BY <1>1, <1>2 DEF TypeOK, Replaced, Proceed, Goto
<1>3. CASE Unsynced(tgt[p], j) /\ Proceed(p, unwind, mem[p])
  BY <1>1, <1>3 DEF TypeOK, Unsynced, Proceed, Goto
<1>4. CASE NotReplaced /\ Proceed(p, unwind, mem[p])
  BY <1>1, <1>4 DEF TypeOK, NotReplaced, Proceed, Goto
<1>. QED  BY <1>2, <1>3, <1>4 DEF Persist

(* No edge leads back to prepared.                                         *)
LEMMA EdgesLeaveFresh ==
  ASSUME NEW from, NEW to, TransitionAllowed(from, to)
  PROVE  to \in States \ Fresh
BY DEF TransitionAllowed, Edges, States, Fresh

(* The effect of transition: what it writes is past the launch.            *)
LEMMA AdvanceEffect ==
  ASSUME TypeOK, NEW p \in Procs, NEW j \in Journals, NEW to,
         NEW next \in Steps, NEW unwind \in Steps,
         Advance(p, j, to, next, unwind)
  PROVE  /\ now' \in [Sessions -> Journals]
         /\ safe' \in [Sessions -> Journals]
         /\ pc' \in [Procs -> Steps]
         /\ mem' \in [Procs -> Journals]
         /\ \A s \in Sessions :
              /\ now'[s] = now[s] \/ (s = tgt[p] /\ now'[s].state \notin Fresh)
              /\ safe'[s] = safe[s] \/ (s = tgt[p] /\ safe'[s].state \notin Fresh)
         /\ \A q \in Procs : q # p => pc'[q] = pc[q] /\ mem'[q] = mem[q]
         /\ \/ pc'[p] = unwind
            \/ /\ pc'[p] = next
               /\ now'[tgt[p]].state \notin Fresh /\ safe'[tgt[p]].state \notin Fresh
               /\ next # "release" => mem'[p].state \notin Fresh
<1>1. CASE TransitionAllowed(j.state, to)
  <2>1. to \in States /\ to \notin Fresh
    BY <1>1, EdgesLeaveFresh
  <2>2. Transition(j, to) \in Journals
    BY <2>1, JournalClosed
  <2>3. Transition(j, to).state = to
    BY DEF Transition, Journals
  <2>4. Persist(p, Transition(j, to), next, unwind)
    BY <1>1 DEF Advance
  <2>. QED  BY <2>1, <2>2, <2>3, <2>4, PersistEffect
<1>2. CASE ~TransitionAllowed(j.state, to)
  <2>1. NotReplaced /\ Proceed(p, unwind, mem[p])
    BY <1>2 DEF Advance
  <2>2. NoJournal \in Journals
    BY JournalClosed
  <2>. QED  BY <2>1, <2>2 DEF TypeOK, NotReplaced, Proceed, Goto
<1>. QED  BY <1>1, <1>2

(* Abandon is the exit of every refusal.                                   *)
LEMMA AbandonEffect ==
  ASSUME TypeOK, NEW p \in Procs, Abandon(p)
  PROVE  /\ UNCHANGED <<now, safe>>
         /\ pc' = [pc EXCEPT ![p] = "release"]
         /\ mem' = [mem EXCEPT ![p] = NoJournal]
BY DEF Abandon, NotReplaced, Proceed, Goto

-----------------------------------------------------------------------------
(* TypeOK, one step per action.                                            *)

LEMMA InitTypeOK == Init => TypeOK
<1>. SUFFICES ASSUME Init PROVE TypeOK
  OBVIOUS
<1>1. NoJournal \in Journals
  BY JournalClosed
<1>2. Nothing \in Trees
  BY DEF Nothing, Trees, Contents
<1>. QED  BY <1>1, <1>2 DEF Init, TypeOK, Captures, Steps

LEMMA BeginTypeOK ==
  ASSUME TypeOK, NEW p \in Procs, Begin(p)
  PROVE  TypeOK'
<1>. PICK s \in Sessions, step \in Steps : Start(p, s, step)
  BY DEF Begin, BeginPrepare, BeginRun, BeginRecover, BeginReconcile, Steps
<1>. QED  BY DEF TypeOK, Start, Goto, tree, family

LEMMA StepTypeOK ==
  ASSUME TypeOK, CommandSteps, NEW p \in Procs, Step(p)
  PROVE  TypeOK'
<1>. DEFINE s == tgt[p]
<1>1. /\ s \in Sessions /\ pc[p] \in Steps /\ mem[p] \in Journals
      /\ now[s] \in Journals /\ found[p] \in SUBSET Codes
      /\ shot[p] \in Captures /\ NoJournal \in Journals
  BY JournalClosed DEF TypeOK
<1>2. \A c \in SUBSET Codes : Diagnose(mem[p], c) \in Journals
  BY <1>1, JournalClosed
<1>. USE DEF At, Goto, disk, tree, family, local
<1>3. CASE PrepareRoot(p)
  <2>1. Baseline \in Trees
    BY SessionConstants DEF Baseline, Trees, Contents
  <2>2. work' \in [Sessions -> Trees]
    BY <1>1, <1>3, <2>1 DEF PrepareRoot, TypeOK
  <2>3. made' \in [Sessions -> BOOLEAN]
    BY <1>1, <1>3 DEF PrepareRoot, TypeOK
  <2>4. pc' \in [Procs -> Steps]
    BY <1>3 DEF PrepareRoot, TypeOK, Steps
  <2>. QED  BY <1>3, <2>2, <2>3, <2>4 DEF PrepareRoot, TypeOK
<1>4. CASE PrepareJournal(p)
  <2>1. "release" \in Steps
    BY DEF Steps
  <2>2. Persist(p, Prepared, "release", "release")
    BY <1>4 DEF PrepareJournal
  <2>. QED  BY <1>4, <2>1, <2>2, JournalClosed, PersistEffect DEF PrepareJournal, TypeOK
<1>5. CASE RunRead(p)
  BY <1>1, <1>5, AbandonEffect DEF RunRead, Proceed, NotReplaced, TypeOK, Steps
<1>6. CASE RunPreflight(p)
  <2>1. Diagnose(mem[p], {"preflight-failed"}) \in Journals
    BY <1>2 DEF Codes
  <2>2. CASE Advance(p, Diagnose(mem[p], {"preflight-failed"}), "failed", "release", "release")
    <3>1. "release" \in Steps
      BY DEF Steps
    <3>. QED  BY <1>6, <2>1, <2>2, <3>1, AdvanceEffect DEF RunPreflight, TypeOK
  <2>3. CASE Abandon(p)
    BY <1>1, <1>6, <2>3, AbandonEffect DEF RunPreflight, TypeOK, Steps
  <2>4. CASE Goto(p, "run.intent") /\ UNCHANGED mem /\ NotReplaced
    BY <1>1, <1>6, <2>4 DEF RunPreflight, NotReplaced, TypeOK, Steps
  <2>. QED  BY <1>6, <2>2, <2>3, <2>4 DEF RunPreflight
<1>7. CASE RunIntent(p)
  <2>1. "release" \in Steps /\ "run.spawn" \in Steps
    BY DEF Steps
  <2>2. CASE Advance(p, mem[p], "launching", "run.spawn", "release")
    BY <1>1, <1>7, <2>1, <2>2, AdvanceEffect DEF RunIntent, TypeOK
  <2>3. CASE Abandon(p)
    BY <1>1, <1>7, <2>1, <2>3, AbandonEffect DEF RunIntent, TypeOK
  <2>. QED  BY <1>7, <2>2, <2>3 DEF RunIntent
<1>8. CASE RunSpawn(p)
  <2>1. Diagnose(mem[p], {"spawn-failed"}) \in Journals
    BY <1>2 DEF Codes
  <2>2. "release" \in Steps /\ "run.logs" \in Steps
    BY DEF Steps
  <2>3. CASE Advance(p, Diagnose(mem[p], {"spawn-failed"}), "failed", "release", "release")
             /\ UNCHANGED <<child, spawns>>
    BY <1>8, <2>1, <2>2, <2>3, AdvanceEffect DEF RunSpawn, TypeOK
  <2>4. CASE Abandon(p) /\ UNCHANGED <<child, spawns>>
    BY <1>1, <1>8, <2>2, <2>4, AbandonEffect DEF RunSpawn, TypeOK
  <2>5. CASE /\ child' = [child EXCEPT ![s] = "running"]
             /\ spawns' = [spawns EXCEPT ![s] = @ + 1]
             /\ Goto(p, "run.logs")
             /\ UNCHANGED mem
             /\ NotReplaced
    <3>1. child' \in [Sessions -> {"none", "running", "zero", "nonzero", "reaped", "gone"}]
      BY <1>1, <2>5 DEF TypeOK
    <3>2. spawns' \in [Sessions -> Nat]
      BY <1>1, <2>5 DEF TypeOK
    <3>3. pc' \in [Procs -> Steps]
      BY <2>2, <2>5 DEF TypeOK
    <3>. QED  BY <1>8, <2>5, <3>1, <3>2, <3>3 DEF RunSpawn, NotReplaced, TypeOK
  <2>. QED  BY <1>8, <2>3, <2>4, <2>5 DEF RunSpawn
<1>9. CASE RunLogs(p)
  <2>1. "run.started" \in Steps
    BY DEF Steps
  <2>. QED  BY <1>1, <1>9, <2>1 DEF RunLogs, TypeOK
<1>10. CASE RunStarted(p)
  <2>1. "run.wait" \in Steps /\ "run.unwind" \in Steps
    BY DEF Steps
  <2>2. Advance(p, mem[p], "running", "run.wait", "run.unwind")
    BY <1>10 DEF RunStarted
  <2>. QED  BY <1>1, <1>10, <2>1, <2>2, AdvanceEffect DEF RunStarted, TypeOK
<1>11. CASE RunWait(p)
  <2>1. "run.returned" \in Steps /\ "run.unwind" \in Steps
    BY DEF Steps
  <2>2. \A b \in BOOLEAN, c \in SUBSET Codes :
          Diagnose([mem[p] EXCEPT !.clean = b], c) \in Journals
    BY <1>1, JournalClosed
  <2>3. {"process-stopped"} \in SUBSET Codes
    BY DEF Codes
  <2>4. mem' \in [Procs -> Journals]
    <3>1. \/ mem' = [mem EXCEPT ![p] = Diagnose([mem[p] EXCEPT !.clean = TRUE], {})]
          \/ mem' = [mem EXCEPT ![p] =
                       Diagnose([mem[p] EXCEPT !.clean = FALSE], {"process-stopped"})]
          \/ mem' = mem
      BY <1>11, Zenon DEF RunWait
    <3>2. /\ Diagnose([mem[p] EXCEPT !.clean = TRUE], {}) \in Journals
          /\ Diagnose([mem[p] EXCEPT !.clean = FALSE], {"process-stopped"}) \in Journals
      BY <2>2, <2>3
    <3>. QED  BY <3>1, <3>2 DEF TypeOK
  <2>5. child' \in [Sessions -> {"none", "running", "zero", "nonzero", "reaped", "gone"}]
    BY <1>1, <1>11 DEF RunWait, Reaped, TypeOK
  <2>6. pc' \in [Procs -> Steps]
    BY <1>11, <2>1 DEF RunWait, TypeOK
  <2>. QED  BY <1>11, <2>4, <2>5, <2>6 DEF RunWait, TypeOK
<1>12. CASE RunReturned(p)
  <2>1. "release" \in Steps
    BY DEF Steps
  <2>2. kin' \in [Sessions -> BOOLEAN]
    BY <1>1, <1>12, SessionConstants DEF RunReturned, TypeOK
  <2>3. UNCHANGED <<lock, made, tree, child, spawns, tgt, found, shot, sig>>
    BY <1>12 DEF RunReturned
  <2>4. CASE Abandon(p)
    BY <1>1, <2>1, <2>2, <2>3, <2>4, AbandonEffect DEF TypeOK
  <2>5. CASE \E lost \in SUBSET {"log-capture-failed"} :
               Advance(p, Diagnose(mem[p], lost), "returned", "release", "release")
    <3>1. PICK lost \in SUBSET {"log-capture-failed"} :
            Advance(p, Diagnose(mem[p], lost), "returned", "release", "release")
      BY <2>5
    <3>2. Diagnose(mem[p], lost) \in Journals
      BY <1>2 DEF Codes
    <3>. QED  BY <2>1, <2>2, <2>3, <3>1, <3>2, AdvanceEffect DEF TypeOK
  <2>. QED  BY <1>12, <2>4, <2>5 DEF RunReturned
<1>13. CASE RunUnwind(p)
  <2>1. "release" \in Steps
    BY DEF Steps
  <2>2. kin' \in [Sessions -> BOOLEAN]
    BY <1>1, <1>13, SessionConstants DEF RunUnwind, TypeOK
  <2>3. child' \in [Sessions -> {"none", "running", "zero", "nonzero", "reaped", "gone"}]
    BY <1>1, <1>13 DEF RunUnwind, Reaped, TypeOK
  <2>4. UNCHANGED <<disk, tree, spawns, tgt, found, shot, sig>>
    BY <1>13 DEF RunUnwind
  <2>5. pc' \in [Procs -> Steps] /\ mem' \in [Procs -> Journals]
    BY <1>1, <1>13, <2>1 DEF RunUnwind, Proceed, TypeOK
  <2>. QED  BY <2>2, <2>3, <2>4, <2>5 DEF TypeOK
<1>14. CASE RecoverRead(p)
  <2>1. "release" \in Steps /\ "rec.inspecting" \in Steps
    BY DEF Steps
  <2>2. CASE Abandon(p)
    BY <1>1, <1>14, <2>1, <2>2, AbandonEffect DEF RecoverRead, TypeOK
  <2>3. CASE Proceed(p, "rec.inspecting", now[s]) /\ NotReplaced
    BY <1>1, <1>14, <2>1, <2>3 DEF RecoverRead, Proceed, NotReplaced, TypeOK
  <2>4. CASE Advance(p, Diagnose(now[s], {"process-ownership-lost"}),
                     "interrupted", "release", "release")
    <3>1. Diagnose(now[s], {"process-ownership-lost"}) \in Journals
      BY <1>1, JournalClosed DEF Codes
    <3>. QED  BY <1>14, <2>1, <2>4, <3>1, AdvanceEffect DEF RecoverRead, TypeOK
  <2>. QED  BY <1>14, <2>2, <2>3, <2>4 DEF RecoverRead
<1>15. CASE ReconcileRead(p)
  <2>1. "release" \in Steps /\ "rec.inspecting" \in Steps
    BY DEF Steps
  <2>2. CASE Abandon(p)
    BY <1>1, <1>15, <2>1, <2>2, AbandonEffect DEF ReconcileRead, TypeOK
  <2>3. CASE Proceed(p, "rec.inspecting", now[s]) /\ NotReplaced
    BY <1>1, <1>15, <2>1, <2>3 DEF ReconcileRead, Proceed, NotReplaced, TypeOK
  <2>. QED  BY <1>15, <2>2, <2>3 DEF ReconcileRead
<1>16. CASE RecInspecting(p)
  <2>1. "release" \in Steps /\ "rec.evidence" \in Steps
    BY DEF Steps
  <2>2. CASE Advance(p, mem[p], "inspecting", "rec.evidence", "release")
    BY <1>1, <1>16, <2>1, <2>2, AdvanceEffect DEF RecInspecting, TypeOK
  <2>3. CASE Goto(p, "rec.evidence") /\ UNCHANGED mem /\ NotReplaced
    BY <1>1, <1>16, <2>1, <2>3 DEF RecInspecting, NotReplaced, TypeOK
  <2>. QED  BY <1>16, <2>2, <2>3 DEF RecInspecting
<1>17. CASE RecEvidence(p)
  <2>. DEFINE unclean == IF mem[p].clean THEN {} ELSE {"unclean-process-return"}
  <2>1. "rec.capture" \in Steps
    BY DEF Steps
  <2>2. PICK review \in SUBSET {"source-review-required"} :
          found' = [found EXCEPT ![p] = mem[p].diagnostics \cup review \cup unclean]
    BY <1>17 DEF RecEvidence
  <2>3. mem[p].diagnostics \in SUBSET Codes
    BY <1>1 DEF Journals
  <2>4. review \in SUBSET Codes /\ unclean \in SUBSET Codes
    BY DEF Codes
  <2>5. found' \in [Procs -> SUBSET Codes]
    <3>. HIDE DEF unclean
    <3>. QED  BY <2>2, <2>3, <2>4 DEF TypeOK
  <2>. QED  BY <1>17, <2>1, <2>5 DEF RecEvidence, TypeOK
<1>18. ASSUME NEW code \in Codes, Review(p, code)
       PROVE  found' \in [Procs -> SUBSET Codes]
  BY <1>1, <1>18 DEF Review, TypeOK
<1>19. "return-review-required" \in Codes /\ "codec-findings" \in Codes
       /\ "missing-state-member" \in Codes
  BY DEF Codes
<1>20. CASE RecCapture(p)
  <2>1. "rec.final" \in Steps /\ "rec.freeze" \in Steps
    BY DEF Steps
  <2>2. CASE Review(p, "return-review-required") /\ Goto(p, "rec.final") /\ UNCHANGED shot
    BY <1>18, <1>19, <1>20, <2>1, <2>2 DEF RecCapture, TypeOK
  <2>3. CASE /\ shot' = [shot EXCEPT ![p] = work[s]]
             /\ found' = [found EXCEPT ![p] = @ \cup
                  (IF \E m \in Members : work[s][m] = Missing
                     THEN {"missing-state-member"} ELSE {})]
             /\ Goto(p, "rec.freeze")
    <3>1. shot' \in [Procs -> Captures]
      BY <1>1, <2>3 DEF TypeOK, Captures
    <3>2. found' \in [Procs -> SUBSET Codes]
      BY <1>1, <1>19, <2>3 DEF TypeOK
    <3>. QED  BY <1>20, <2>1, <2>3, <3>1, <3>2 DEF RecCapture, TypeOK
  <2>. QED  BY <1>20, <2>2, <2>3 DEF RecCapture
<1>21. CASE RecFreeze(p)
  <2>. DEFINE j == [mem[p] EXCEPT
                      !.capture = IF @ = NoCapture THEN shot[p] ELSE @,
                      !.diagnostics = found[p]]
  <2>1. j \in Journals
    <3>1. PICK t \in Captures : t = IF mem[p].capture = NoCapture THEN shot[p] ELSE mem[p].capture
      BY <1>1 DEF Journals
    <3>. QED  BY <1>1, <3>1, JournalClosed
  <2>2. mem' \in [Procs -> Journals]
    BY <1>21, <2>1 DEF RecFreeze, TypeOK
  <2>3. pc' \in [Procs -> Steps]
    BY <1>21 DEF RecFreeze, TypeOK, Steps
  <2>4. found' \in [Procs -> SUBSET Codes]
    BY <1>18, <1>19, <1>21 DEF RecFreeze, TypeOK
  <2>5. Replaced(s, j) \/ Throws(s, j)
    BY <1>21 DEF RecFreeze
  <2>6. now' \in [Sessions -> Journals] /\ safe' \in [Sessions -> Journals]
    <3>. HIDE DEF j, s
    <3>. QED  BY <1>1, <2>1, <2>5 DEF Replaced, Throws, Unsynced, NotReplaced, TypeOK
  <2>7. UNCHANGED <<lock, made, tree, family, tgt, shot, sig>>
    BY <1>21 DEF RecFreeze
  <2>. QED  BY <2>2, <2>3, <2>4, <2>6, <2>7 DEF TypeOK
<1>22. CASE RecCompare(p)
  <2>1. "rec.final" \in Steps /\ "rec.copy" \in Steps
    BY DEF Steps
  <2>2. UNCHANGED <<disk, tree, family, tgt, mem, shot, sig>>
    BY <1>22 DEF RecCompare
  <2>3. CASE Review(p, "return-review-required") /\ Goto(p, "rec.final")
    BY <1>18, <1>19, <2>1, <2>2, <2>3 DEF TypeOK
  <2>4. CASE Goto(p, "rec.copy") /\ UNCHANGED found
    BY <2>1, <2>2, <2>4 DEF TypeOK
  <2>. QED  BY <1>22, <2>3, <2>4 DEF RecCompare
<1>23. CASE RecCopy(p)
  <2>1. "rec.final" \in Steps /\ "rec.inspect" \in Steps
    BY DEF Steps
  <2>2. UNCHANGED <<disk, work, logs, family, tgt, mem, shot, sig>>
    BY <1>23 DEF RecCopy
  <2>3. returned' \in [Sessions -> Trees]
    <3>1. shot[p] \in Trees
      BY <1>23 DEF RecCopy, CommandSteps, Knows
    <3>2. \A m \in Members : shot[p][m] \in Contents
      BY <3>1 DEF Trees
    <3>3. returned[s] \in [Members -> Contents]
      BY <1>1 DEF TypeOK, Trees
    <3>4. \A m \in Members : [returned[s] EXCEPT ![m] = shot[p][m]] \in Trees
      BY <3>2, <3>3 DEF Trees
    <3>5. \/ UNCHANGED returned
          \/ \E m \in Members : returned' = [returned EXCEPT ![s][m] = shot[p][m]]
      BY <1>23 DEF RecCopy
    <3>. QED  BY <1>1, <3>4, <3>5, ZenonT(40) DEF TypeOK
  <2>4. found' \in [Procs -> SUBSET Codes]
    BY <1>18, <1>19, <1>23 DEF RecCopy, TypeOK
  <2>5. pc' \in [Procs -> Steps]
    BY <1>23, <2>1 DEF RecCopy, TypeOK
  <2>. QED  BY <2>2, <2>3, <2>4, <2>5 DEF TypeOK
<1>24. CASE RecInspect(p)
  <2>1. "rec.final" \in Steps
    BY DEF Steps
  <2>2. found' \in [Procs -> SUBSET Codes]
    BY <1>18, <1>19, <1>24 DEF RecInspect, TypeOK
  <2>. QED  BY <1>24, <2>1, <2>2 DEF RecInspect, TypeOK
<1>25. CASE RecFinal(p)
  <2>. DEFINE j  == [mem[p] EXCEPT !.diagnostics = found[p], !.members = shot[p]]
              to == IF found[p] = {} THEN "candidate" ELSE "quarantined"
  <2>1. "release" \in Steps /\ j \in Journals
    BY <1>1, JournalClosed DEF Steps
  <2>2. Advance(p, j, to, "release", "release")
    BY <1>25 DEF RecFinal
  <2>3. /\ found' \in [Procs -> SUBSET Codes] /\ shot' \in [Procs -> Captures]
        /\ UNCHANGED <<lock, made, tree, family, tgt, sig>>
    BY <1>25 DEF RecFinal, TypeOK, Captures
  <2>. HIDE DEF j, to
  <2>. QED  BY <2>1, <2>2, <2>3, AdvanceEffect DEF TypeOK
<1>26. CASE Release(p)
  <2>1. "idle" \in Steps
    BY DEF Steps
  <2>. QED  BY <1>1, <1>26, <2>1 DEF Release, Forget, TypeOK, Captures
<1>. QED  BY <1>3, <1>4, <1>5, <1>6, <1>7, <1>8, <1>9, <1>10, <1>11, <1>12, <1>13,
             <1>14, <1>15, <1>16, <1>17, <1>20, <1>21, <1>22, <1>23, <1>24, <1>25,
             <1>26 DEF Step

LEMMA WorldTypeOK ==
  ASSUME TypeOK, World
  PROVE  TypeOK'
<1>1. CASE \E p \in Procs : Interrupt(p)
  BY <1>1 DEF Interrupt, TypeOK, disk, tree, family
<1>2. CASE \E p \in Procs : Crash(p)
  <2>1. PICK p \in Procs : Crash(p)
    BY <1>2
  <2>2. "idle" \in Steps /\ NoJournal \in Journals /\ tgt[p] \in Sessions
    BY JournalClosed DEF Steps, TypeOK
  <2>3. kin' \in [Sessions -> BOOLEAN]
    BY <2>1, <2>2 DEF Crash, TypeOK
  <2>4. child' \in [Sessions -> {"none", "running", "zero", "nonzero", "reaped", "gone"}]
    BY <2>1, <2>2 DEF Crash, TypeOK
  <2>5. UNCHANGED <<made, now, safe, tree, spawns>> /\ lock' = "stale" /\ Forget(p)
    BY <2>1 DEF Crash
  <2>. QED  BY <2>2, <2>3, <2>4, <2>5 DEF Forget, Goto, TypeOK, Captures, tree
<1>3. CASE \E s \in Sessions : ChildWrite(s)
  <2>1. PICK s \in Sessions, m \in Members, v \in Contents :
          work' = [work EXCEPT ![s][m] = v]
    BY <1>3 DEF ChildWrite
  <2>2. work' \in [Sessions -> Trees]
    BY <2>1 DEF TypeOK, Trees
  <2>. QED  BY <1>3, <2>2 DEF ChildWrite, TypeOK, disk, family, local
<1>4. CASE \E s \in Sessions : ChildFork(s) \/ ChildExit(s) \/ KinExit(s)
  BY <1>4, ZenonT(40) DEF ChildFork, ChildExit, KinExit, TypeOK, disk, tree, local
<1>5. CASE ManualUnlock
  BY <1>5 DEF ManualUnlock, TypeOK, tree, family, local
<1>6. CASE PowerLoss
  <2>1. /\ lock' \in {"free", "stale"} /\ UNCHANGED <<made, spawns, tgt>>
        /\ now' \in [Sessions -> Journals] /\ safe' \in [Sessions -> Journals]
    BY <1>6 DEF PowerLoss, TypeOK
  <2>2. PICK writes \in SUBSET Members, copies \in SUBSET Members :
         /\ work' = [s \in Sessions |->
              [m \in Members |-> IF made[s] /\ m \in writes THEN Original
                                                           ELSE work[s][m]]]
         /\ returned' = [s \in Sessions |->
              [m \in Members |-> IF now'[s].state # "candidate" /\ m \in copies
                                   THEN Missing ELSE returned[s][m]]]
    BY <1>6 DEF PowerLoss
  <2>3. Original \in Contents /\ Missing \in Contents
    BY SessionConstants DEF Contents
  <2>4. \A s \in Sessions, m \in Members :
          work[s][m] \in Contents /\ returned[s][m] \in Contents
    BY DEF TypeOK, Trees
  <2>5. work' \in [Sessions -> Trees]
    BY <2>2, <2>3, <2>4 DEF Trees
  <2>6. returned' \in [Sessions -> Trees]
    BY <2>2, <2>3, <2>4 DEF Trees
  <2>7. /\ logs' \in [Sessions -> BOOLEAN] /\ kin' \in [Sessions -> BOOLEAN]
        /\ child' \in [Sessions -> {"none", "running", "zero", "nonzero", "reaped", "gone"}]
    BY <1>6 DEF PowerLoss, TypeOK
  <2>8. pc' \in [Procs -> Steps] /\ mem' \in [Procs -> Journals]
    BY <1>6, JournalClosed DEF PowerLoss, Steps
  <2>9. /\ found' \in [Procs -> SUBSET Codes] /\ shot' \in [Procs -> Captures]
        /\ sig' \in [Procs -> BOOLEAN]
    BY <1>6 DEF PowerLoss, Captures
  <2>. QED  BY <2>1, <2>5, <2>6, <2>7, <2>8, <2>9 DEF TypeOK
<1>. QED  BY <1>1, <1>2, <1>3, <1>4, <1>5, <1>6 DEF World

-----------------------------------------------------------------------------
(* WriterAlone: a step is the step of the lock's owner, and only releasing *)
(* or dying gives the lock up.                                             *)

LEMMA StepFrame ==
  ASSUME TypeOK, NEW p \in Procs, Step(p)
  PROVE  /\ pc[p] # "idle"
         /\ \A q \in Procs \ {p} : pc'[q] = pc[q]
         /\ lock' = lock \/ pc'[p] = "idle"
         /\ UNCHANGED tgt
<1>1. ASSUME NEW j, NEW next, NEW unwind, Persist(p, j, next, unwind)
      PROVE  \A q \in Procs \ {p} : pc'[q] = pc[q]
  BY <1>1 DEF Persist, Proceed, Goto, TypeOK
<1>2. ASSUME NEW j, NEW to, NEW next, NEW unwind, Advance(p, j, to, next, unwind)
      PROVE  \A q \in Procs \ {p} : pc'[q] = pc[q]
  BY <1>1, <1>2 DEF Advance, Proceed, Goto, TypeOK
<1>. USE DEF At, Goto, disk
<1>3. CASE PrepareRoot(p) \/ PrepareJournal(p)
  BY <1>1, <1>3 DEF PrepareRoot, PrepareJournal, TypeOK
<1>4. CASE RunRead(p) \/ RunPreflight(p) \/ RunIntent(p)
  BY <1>2, <1>4, AbandonEffect DEF RunRead, RunPreflight, RunIntent, Proceed, TypeOK
<1>5. CASE RunSpawn(p) \/ RunLogs(p) \/ RunStarted(p)
  BY <1>2, <1>5, AbandonEffect DEF RunSpawn, RunLogs, RunStarted, TypeOK
<1>6. CASE RunWait(p) \/ RunReturned(p) \/ RunUnwind(p)
  BY <1>2, <1>6, AbandonEffect DEF RunWait, RunReturned, RunUnwind, Proceed, TypeOK
<1>7. CASE RecoverRead(p) \/ ReconcileRead(p) \/ RecInspecting(p)
  BY <1>2, <1>7, AbandonEffect DEF RecoverRead, ReconcileRead, RecInspecting, Proceed, TypeOK
<1>8. CASE RecEvidence(p) \/ RecCapture(p) \/ RecFreeze(p) \/ RecCompare(p)
  BY <1>8 DEF RecEvidence, RecCapture, RecFreeze, RecCompare, TypeOK
<1>9. CASE RecCopy(p) \/ RecInspect(p)
  BY <1>9 DEF RecCopy, RecInspect, TypeOK
<1>10. CASE RecFinal(p)
  BY <1>2, <1>10 DEF RecFinal, TypeOK
<1>11. CASE Release(p)
  BY <1>11 DEF Release, Forget, TypeOK
<1>. QED  BY <1>3, <1>4, <1>5, <1>6, <1>7, <1>8, <1>9, <1>10, <1>11 DEF Step

LEMMA NextWriterAlone ==
  ASSUME TypeOK, WriterAlone, [Next]_vars
  PROVE  WriterAlone'
<1>1. CASE \E p \in Procs : Begin(p)
  <2>1. PICK p \in Procs, s \in Sessions, step \in Steps : Start(p, s, step)
    BY <1>1 DEF Begin, BeginPrepare, BeginRun, BeginRecover, BeginReconcile, Steps
  <2>2. \A q \in Procs : pc[q] = "idle"
    BY <2>1, SessionConstants DEF Start, WriterAlone
  <2>. QED  BY <2>1, <2>2 DEF Start, Goto, WriterAlone, TypeOK
<1>2. CASE \E p \in Procs : Step(p)
  BY <1>2, StepFrame DEF WriterAlone
<1>3. CASE \E p \in Procs : Interrupt(p)
  BY <1>3 DEF Interrupt, WriterAlone, disk
<1>4. CASE \E p \in Procs : Crash(p)
  BY <1>4 DEF Crash, Forget, Goto, WriterAlone, TypeOK
<1>5. CASE \E s \in Sessions : ChildWrite(s) \/ ChildFork(s) \/ ChildExit(s) \/ KinExit(s)
  BY <1>5 DEF ChildWrite, ChildFork, ChildExit, KinExit, WriterAlone, disk, local
<1>6. CASE ManualUnlock
  BY <1>6, SessionConstants DEF ManualUnlock, WriterAlone, local
<1>7. CASE PowerLoss
  BY <1>7 DEF PowerLoss, WriterAlone
<1>8. CASE UNCHANGED vars
  BY <1>8 DEF WriterAlone, vars, disk, local
<1>. QED  BY <1>1, <1>2, <1>3, <1>4, <1>5, <1>6, <1>7, <1>8 DEF Next, World

-----------------------------------------------------------------------------
(* CommandSteps and LaunchedOnce.                                          *)

(* A session stays Unmade or launched at most once under a step that makes *)
(* nothing, spawns nothing and writes only journals past the launch.       *)
LEMMA LaterJournals ==
  ASSUME TypeOK, CommandSteps, LaunchedOnce, NEW t \in Sessions, made[t],
         UNCHANGED <<made, spawns>>,
         \A s \in Sessions :
           /\ now'[s] = now[s] \/ (s = t /\ now'[s].state \notin Fresh)
           /\ safe'[s] = safe[s] \/ (s = t /\ safe'[s].state \notin Fresh)
  PROVE  (\A s \in Sessions : Unmade(s)') /\ LaunchedOnce'
<1>1. ASSUME NEW s \in Sessions PROVE Unmade(s)'
  BY DEF CommandSteps, Unmade
<1>2. LaunchedOnce'
  BY DEF LaunchedOnce
<1>. QED  BY <1>1, <1>2

LEMMA StepLaunch ==
  ASSUME TypeOK, WriterAlone, CommandSteps, LaunchedOnce, NEW p \in Procs, Step(p)
  PROVE  CommandSteps' /\ LaunchedOnce'
<1>. DEFINE s == tgt[p]
            Sound == (\A t \in Sessions : Unmade(t)') /\ LaunchedOnce'
<1>1. /\ s \in Sessions /\ mem[p] \in Journals /\ now[s] \in Journals
      /\ \A t \in Sessions : Unmade(t)
      /\ Knows(p)
  BY DEF TypeOK, CommandSteps
<1>2. \A q \in Procs \ {p} : Knows(q)'
  <2>1. \A q \in Procs \ {p} : pc'[q] = "idle"
    BY StepFrame DEF WriterAlone
  <2>. QED  BY <2>1 DEF Knows
<1>. SUFFICES Knows(p)' /\ Sound
  BY <1>2 DEF CommandSteps
<1>3. ASSUME made[s], UNCHANGED <<made, spawns>>,
             \A t \in Sessions :
               /\ now'[t] = now[t] \/ (t = s /\ now'[t].state \notin Fresh)
               /\ safe'[t] = safe[t] \/ (t = s /\ safe'[t].state \notin Fresh)
      PROVE  Sound
  BY <1>1, <1>3, LaterJournals
<1>. DEFINE Moved(next, unwind) ==
              \/ pc'[p] = unwind
              \/ /\ pc'[p] = next
                 /\ now'[s].state \notin Fresh /\ safe'[s].state \notin Fresh
                 /\ next # "release" => mem'[p].state \notin Fresh
<1>0. ASSUME NEW j \in Journals, NEW to, NEW next \in Steps, NEW unwind \in Steps,
             Advance(p, j, to, next, unwind), made[s], UNCHANGED <<made, spawns>>
      PROVE  Sound /\ Moved(next, unwind)
  <2>1. \A t \in Sessions :
          /\ now'[t] = now[t] \/ (t = s /\ now'[t].state \notin Fresh)
          /\ safe'[t] = safe[t] \/ (t = s /\ safe'[t].state \notin Fresh)
    BY <1>0, AdvanceEffect
  <2>2. Moved(next, unwind)
    BY <1>0, AdvanceEffect
  <2>. HIDE DEF Moved, Sound
  <2>. QED  BY <1>0, <1>3, <2>1, <2>2
<1>4. ASSUME UNCHANGED <<made, spawns, now, safe>> PROVE Sound
  BY <1>1, <1>4 DEF Unmade, LaunchedOnce
<1>5. ASSUME pc'[p] \in {"idle", "release"} PROVE Knows(p)'
  BY <1>5 DEF Knows
<1>6. UNCHANGED tgt
  BY StepFrame
<1>7. ASSUME Abandon(p) PROVE pc'[p] = "release" /\ UNCHANGED <<now, safe>>
  BY <1>7, AbandonEffect DEF TypeOK
<1>8. /\ {"release", "run.spawn", "run.wait", "run.unwind", "rec.evidence"} \subseteq Steps
      /\ {"preflight-failed", "spawn-failed", "log-capture-failed",
           "process-ownership-lost"} \subseteq Codes
  BY DEF Steps, Codes
<1>9. \A c \in SUBSET Codes : Diagnose(mem[p], c) \in Journals
                              /\ Diagnose(now[s], c) \in Journals
  BY <1>1, JournalClosed
<1>. USE DEF At, Goto, disk, tree, family, local
<1>10. CASE PrepareRoot(p)
  <2>1. ~made[s] /\ spawns[s] = 0
    BY <1>1, <1>10 DEF PrepareRoot, Knows, Unmade
  <2>2. UNCHANGED <<now, safe, spawns>>
    BY <1>10 DEF PrepareRoot
  <2>3. \A t \in Sessions : made[t] => made'[t]
    BY <1>10 DEF PrepareRoot, TypeOK
  <2>4. Sound
    BY <1>1, <2>2, <2>3 DEF Unmade, LaunchedOnce
  <2>5. pc'[p] = "release" \/ (pc'[p] = "prep.journal" /\ made'[s])
    BY <1>1, <1>10 DEF PrepareRoot, TypeOK
  <2>6. Knows(p)'
    BY <1>6, <2>1, <2>2, <2>5 DEF Knows
  <2>. QED  BY <2>4, <2>6
<1>11. CASE PrepareJournal(p)
  <2>1. made[s] /\ spawns[s] = 0
    BY <1>1, <1>11 DEF PrepareJournal, Knows
  <2>2. Persist(p, Prepared, "release", "release") /\ UNCHANGED <<made, spawns>>
    BY <1>11 DEF PrepareJournal
  <2>3. Prepared \in Journals
    BY JournalClosed
  <2>4. /\ pc'[p] = "release"
        /\ \A t \in Sessions : t # s => now'[t] = now[t] /\ safe'[t] = safe[t]
    BY <1>8, <2>2, <2>3, PersistEffect
  <2>5. \A t \in Sessions : Unmade(t)'
    BY <1>1, <2>1, <2>2, <2>4 DEF Unmade
  <2>6. LaunchedOnce'
    BY <2>1, <2>2, <2>4 DEF LaunchedOnce
  <2>. QED  BY <1>5, <2>4, <2>5, <2>6
<1>12. CASE RunRead(p)
  <2>1. CASE Abandon(p)
    BY <1>4, <1>5, <1>7, <1>12, <2>1 DEF RunRead
  <2>2. CASE now[s].state = "prepared" /\ Proceed(p, "run.preflight", now[s]) /\ NotReplaced
    <3>1. made[s] /\ spawns[s] = 0
      BY <1>1, <2>2 DEF Unmade, LaunchedOnce, Fresh, TypeOK
    <3>2. pc'[p] = "run.preflight" /\ UNCHANGED <<made, spawns, now, safe>>
      BY <1>12, <2>2 DEF RunRead, Proceed, NotReplaced, TypeOK
    <3>. QED  BY <1>4, <1>6, <3>1, <3>2 DEF Knows
  <2>. QED  BY <1>12, <2>1, <2>2 DEF RunRead
<1>13. CASE RunPreflight(p)
  <2>1. made[s] /\ spawns[s] = 0 /\ UNCHANGED <<made, spawns>>
    BY <1>1, <1>13 DEF RunPreflight, Knows
  <2>2. CASE Goto(p, "run.intent") /\ UNCHANGED mem /\ NotReplaced
    <3>1. pc'[p] = "run.intent" /\ UNCHANGED <<now, safe>>
      BY <2>2 DEF NotReplaced, TypeOK
    <3>. QED  BY <1>4, <1>6, <2>1, <3>1 DEF Knows
  <2>3. CASE Abandon(p)
    BY <1>4, <1>5, <1>7, <2>1, <2>3
  <2>4. CASE Advance(p, Diagnose(mem[p], {"preflight-failed"}), "failed", "release", "release")
    <3>1. Diagnose(mem[p], {"preflight-failed"}) \in Journals
      BY <1>8, <1>9
    <3>2. Sound /\ Moved("release", "release")
      BY <1>0, <1>8, <2>1, <2>4, <3>1
    <3>. QED  BY <1>5, <3>2
  <2>. QED  BY <1>13, <2>2, <2>3, <2>4 DEF RunPreflight
<1>14. CASE RunIntent(p)
  <2>1. made[s] /\ spawns[s] = 0 /\ UNCHANGED <<made, spawns>>
    BY <1>1, <1>14 DEF RunIntent, Knows
  <2>2. CASE Abandon(p)
    BY <1>4, <1>5, <1>7, <2>1, <2>2
  <2>3. CASE Advance(p, mem[p], "launching", "run.spawn", "release")
    <3>1. Sound /\ Moved("run.spawn", "release")
      BY <1>0, <1>1, <1>8, <2>1, <2>3
    <3>. QED  BY <1>6, <2>1, <3>1 DEF Knows
  <2>. QED  BY <1>14, <2>2, <2>3 DEF RunIntent
<1>15. CASE RunSpawn(p)
  <2>1. /\ made[s] /\ spawns[s] = 0 /\ UNCHANGED made
        /\ now[s].state \notin Fresh /\ safe[s].state \notin Fresh
    BY <1>1, <1>15 DEF RunSpawn, Knows
  <2>2. CASE Abandon(p) /\ UNCHANGED <<child, spawns>>
    BY <1>4, <1>5, <1>7, <2>1, <2>2
  <2>3. CASE /\ spawns' = [spawns EXCEPT ![s] = @ + 1]
             /\ Goto(p, "run.logs")
             /\ NotReplaced
    <3>1. UNCHANGED <<now, safe>> /\ pc'[p] = "run.logs"
      BY <2>3 DEF NotReplaced, TypeOK
    <3>2. spawns'[s] = 1 /\ \A t \in Sessions : t # s => spawns'[t] = spawns[t]
      BY <1>1, <2>1, <2>3 DEF TypeOK
    <3>3. \A t \in Sessions : Unmade(t)'
      BY <1>1, <2>1, <3>1, <3>2 DEF Unmade
    <3>4. LaunchedOnce'
      BY <2>1, <3>1, <3>2 DEF LaunchedOnce
    <3>5. Knows(p)'
      BY <1>6, <2>1, <3>1 DEF Knows
    <3>. QED  BY <3>3, <3>4, <3>5
  <2>4. CASE /\ Advance(p, Diagnose(mem[p], {"spawn-failed"}), "failed", "release", "release")
             /\ UNCHANGED <<child, spawns>>
    <3>1. Diagnose(mem[p], {"spawn-failed"}) \in Journals
      BY <1>8, <1>9
    <3>2. Sound /\ Moved("release", "release")
      BY <1>0, <1>8, <2>1, <2>4, <3>1
    <3>. QED  BY <1>5, <3>2
  <2>. QED  BY <1>15, <2>2, <2>3, <2>4 DEF RunSpawn
<1>16. CASE RunLogs(p)
  <2>1. made[s] /\ pc'[p] = "run.started" /\ UNCHANGED <<made, spawns, now, safe>>
    BY <1>1, <1>16 DEF RunLogs, Knows, TypeOK
  <2>. QED  BY <1>4, <1>6, <2>1 DEF Knows
<1>17. CASE RunStarted(p)
  <2>1. made[s] /\ UNCHANGED <<made, spawns>>
    BY <1>1, <1>17 DEF RunStarted, Knows
  <2>2. Advance(p, mem[p], "running", "run.wait", "run.unwind")
    BY <1>17 DEF RunStarted
  <2>3. Sound /\ Moved("run.wait", "run.unwind")
    BY <1>0, <1>1, <1>8, <2>1, <2>2
  <2>. QED  BY <1>6, <2>1, <2>3 DEF Knows
<1>18. CASE RunWait(p)
  <2>1. made[s] /\ UNCHANGED <<made, spawns, now, safe>>
    BY <1>1, <1>18 DEF RunWait, Knows
  <2>2. pc'[p] \in {"run.returned", "run.unwind"}
    BY <1>18 DEF RunWait, TypeOK
  <2>. QED  BY <1>4, <1>6, <2>1, <2>2 DEF Knows
<1>19. CASE RunReturned(p)
  <2>1. made[s] /\ UNCHANGED <<made, spawns>>
    BY <1>1, <1>19 DEF RunReturned, Knows
  <2>2. CASE Abandon(p)
    BY <1>4, <1>5, <1>7, <2>1, <2>2
  <2>3. CASE \E lost \in SUBSET {"log-capture-failed"} :
               Advance(p, Diagnose(mem[p], lost), "returned", "release", "release")
    <3>1. PICK lost \in SUBSET {"log-capture-failed"} :
            Advance(p, Diagnose(mem[p], lost), "returned", "release", "release")
      BY <2>3
    <3>2. Diagnose(mem[p], lost) \in Journals
      BY <1>8, <1>9
    <3>3. Sound /\ Moved("release", "release")
      BY <1>0, <1>8, <2>1, <3>1, <3>2
    <3>. QED  BY <1>5, <3>3
  <2>. QED  BY <1>19, <2>2, <2>3 DEF RunReturned
<1>20. CASE RunUnwind(p)
  <2>1. pc'[p] = "release" /\ UNCHANGED <<made, spawns, now, safe>>
    BY <1>20 DEF RunUnwind, Proceed, TypeOK
  <2>. QED  BY <1>4, <1>5, <2>1
<1>21. ASSUME made[s], now[s].state \notin Fresh, UNCHANGED <<made, spawns>>,
              Proceed(p, "rec.inspecting", now[s]), NotReplaced
       PROVE  Knows(p)' /\ Sound
  <2>1. pc'[p] = "rec.inspecting" /\ mem'[p] = now[s] /\ UNCHANGED <<now, safe>>
    BY <1>21 DEF Proceed, NotReplaced, TypeOK
  <2>. QED  BY <1>4, <1>6, <1>21, <2>1 DEF Knows
<1>22. CASE RecoverRead(p)
  <2>1. UNCHANGED <<made, spawns>>
    BY <1>22 DEF RecoverRead
  <2>2. CASE Abandon(p)
    BY <1>4, <1>5, <1>7, <2>1, <2>2
  <2>3. CASE /\ now[s].state \in {"returned", "inspecting"}
             /\ Proceed(p, "rec.inspecting", now[s]) /\ NotReplaced
    BY <1>1, <1>21, <2>1, <2>3 DEF Unmade, Fresh
  <2>4. CASE /\ now[s].state \in {"launching", "running"}
             /\ Advance(p, Diagnose(now[s], {"process-ownership-lost"}),
                        "interrupted", "release", "release")
    <3>1. Diagnose(now[s], {"process-ownership-lost"}) \in Journals /\ made[s]
      BY <1>1, <1>8, <1>9, <2>4 DEF Unmade
    <3>2. Sound /\ Moved("release", "release")
      BY <1>0, <1>8, <2>1, <2>4, <3>1
    <3>. QED  BY <1>5, <3>2
  <2>. QED  BY <1>22, <2>2, <2>3, <2>4 DEF RecoverRead
<1>23. CASE ReconcileRead(p)
  <2>1. UNCHANGED <<made, spawns>>
    BY <1>23 DEF ReconcileRead
  <2>2. CASE Abandon(p)
    BY <1>4, <1>5, <1>7, <2>1, <2>2
  <2>3. CASE /\ now[s].state \in {"returned", "inspecting"}
             /\ Proceed(p, "rec.inspecting", now[s]) /\ NotReplaced
    BY <1>1, <1>21, <2>1, <2>3 DEF Unmade, Fresh
  <2>. QED  BY <1>23, <2>2, <2>3 DEF ReconcileRead
<1>24. CASE RecInspecting(p)
  <2>1. made[s] /\ mem[p].state \notin Fresh /\ UNCHANGED <<made, spawns>>
    BY <1>1, <1>24 DEF RecInspecting, Knows
  <2>2. CASE Advance(p, mem[p], "inspecting", "rec.evidence", "release")
    <3>1. Sound /\ Moved("rec.evidence", "release")
      BY <1>0, <1>1, <1>8, <2>1, <2>2
    <3>. QED  BY <1>6, <2>1, <3>1 DEF Knows
  <2>3. CASE Goto(p, "rec.evidence") /\ UNCHANGED mem /\ NotReplaced
    <3>1. pc'[p] = "rec.evidence" /\ UNCHANGED <<mem, now, safe>>
      BY <2>3 DEF NotReplaced, TypeOK
    <3>. QED  BY <1>4, <1>6, <2>1, <3>1 DEF Knows
  <2>. QED  BY <1>24, <2>2, <2>3 DEF RecInspecting
<1>25. CASE RecEvidence(p)
  <2>1. /\ made[s] /\ mem[p].state \notin Fresh
        /\ UNCHANGED <<made, spawns, now, safe, mem>> /\ pc'[p] = "rec.capture"
    BY <1>1, <1>25 DEF RecEvidence, Knows, TypeOK
  <2>. QED  BY <1>4, <1>6, <2>1 DEF Knows
<1>26. CASE RecCapture(p)
  <2>1. /\ made[s] /\ mem[p].state \notin Fresh
        /\ UNCHANGED <<made, spawns, now, safe, mem>>
    BY <1>1, <1>26 DEF RecCapture, Knows
  <2>2. pc'[p] = "rec.final" \/ (pc'[p] = "rec.freeze" /\ shot'[p] \in Trees)
    BY <1>1, <1>26 DEF RecCapture, TypeOK
  <2>. QED  BY <1>4, <1>6, <2>1, <2>2 DEF Knows
<1>27. CASE RecFreeze(p)
  <2>. DEFINE j == [mem[p] EXCEPT
                      !.capture = IF @ = NoCapture THEN shot[p] ELSE @,
                      !.diagnostics = found[p]]
  <2>1. /\ made[s] /\ mem[p].state \notin Fresh /\ shot[p] \in Trees
        /\ UNCHANGED <<made, spawns, shot>>
    BY <1>1, <1>27 DEF RecFreeze, Knows
  <2>2. j.state \notin Fresh
    BY <1>1, <2>1 DEF Journals
  <2>3. Replaced(s, j) \/ Throws(s, j)
    BY <1>27 DEF RecFreeze
  <2>4. Sound
    <3>. HIDE DEF j, Sound
    <3>1. \A t \in Sessions :
            /\ now'[t] = now[t] \/ (t = s /\ now'[t].state \notin Fresh)
            /\ safe'[t] = safe[t] \/ (t = s /\ safe'[t].state \notin Fresh)
      BY <1>1, <2>2, <2>3 DEF Replaced, Throws, Unsynced, NotReplaced, TypeOK
    <3>. QED  BY <1>3, <2>1, <3>1
  <2>5. pc'[p] \in {"rec.compare", "rec.final"}
    BY <1>27 DEF RecFreeze, TypeOK
  <2>. QED  BY <1>6, <2>1, <2>4, <2>5 DEF Knows
<1>28. CASE RecCompare(p)
  <2>1. made[s] /\ shot[p] \in Trees /\ UNCHANGED <<made, spawns, now, safe, shot>>
    BY <1>1, <1>28 DEF RecCompare, Knows
  <2>2. pc'[p] \in {"rec.copy", "rec.final"}
    BY <1>28 DEF RecCompare, TypeOK
  <2>. QED  BY <1>4, <1>6, <2>1, <2>2 DEF Knows
<1>29. CASE RecCopy(p)
  <2>1. made[s] /\ shot[p] \in Trees /\ UNCHANGED <<made, spawns, now, safe, shot>>
    BY <1>1, <1>29 DEF RecCopy, Knows
  <2>2. pc'[p] \in {"rec.copy", "rec.inspect", "rec.final"}
    BY <1>29 DEF RecCopy, TypeOK
  <2>. QED  BY <1>4, <1>6, <2>1, <2>2 DEF Knows
<1>30. CASE RecInspect(p)
  <2>1. made[s] /\ pc'[p] = "rec.final" /\ UNCHANGED <<made, spawns, now, safe>>
    BY <1>1, <1>30 DEF RecInspect, Knows, TypeOK
  <2>. QED  BY <1>4, <1>6, <2>1 DEF Knows
<1>31. CASE RecFinal(p)
  <2>. DEFINE j  == [mem[p] EXCEPT !.diagnostics = found[p], !.members = shot[p]]
              to == IF found[p] = {} THEN "candidate" ELSE "quarantined"
  <2>1. made[s] /\ UNCHANGED <<made, spawns>> /\ Advance(p, j, to, "release", "release")
    BY <1>1, <1>31 DEF RecFinal, Knows
  <2>2. j \in Journals
    <3>1. found[p] \in SUBSET Codes /\ shot[p] \in Captures
      BY DEF TypeOK
    <3>. QED  BY <1>1, <3>1, JournalClosed
  <2>. HIDE DEF j, to
  <2>3. Sound /\ Moved("release", "release")
    BY <1>0, <1>8, <2>1, <2>2
  <2>. QED  BY <1>5, <2>3
<1>32. CASE Release(p)
  <2>1. pc'[p] = "idle" /\ UNCHANGED <<made, spawns, now, safe>>
    BY <1>32 DEF Release, Forget, TypeOK
  <2>. QED  BY <1>4, <1>5, <2>1
<1>. QED  BY <1>10, <1>11, <1>12, <1>13, <1>14, <1>15, <1>16, <1>17, <1>18, <1>19,
             <1>20, <1>22, <1>23, <1>24, <1>25, <1>26, <1>27, <1>28, <1>29, <1>30,
             <1>31, <1>32 DEF Step

LEMMA NextLaunch ==
  ASSUME TypeOK, WriterAlone, CommandSteps, LaunchedOnce, [Next]_vars
  PROVE  CommandSteps' /\ LaunchedOnce'
<1>1. ASSUME UNCHANGED <<made, spawns, now, safe>>
      PROVE  (\A s \in Sessions : Unmade(s)') /\ LaunchedOnce'
  BY <1>1 DEF CommandSteps, Unmade, LaunchedOnce
<1>2. CASE \E p \in Procs : Begin(p)
  <2>1. PICK p \in Procs : Begin(p)
    BY <1>2
  <2>2. PICK s \in Sessions,
             step \in {"prep.root", "run.read", "recover.read", "reconcile.read"} :
          Start(p, s, step) /\ (step = "prep.root" => ~made[s])
    BY <2>1 DEF Begin, BeginPrepare, BeginRun, BeginRecover, BeginReconcile
  <2>3. \A q \in Procs : pc[q] = "idle"
    BY <2>2, SessionConstants DEF Start, WriterAlone
  <2>4. /\ pc'[p] = step /\ tgt'[p] = s /\ UNCHANGED <<made, now, safe, spawns>>
        /\ \A q \in Procs \ {p} : pc'[q] = "idle"
    BY <2>2, <2>3 DEF Start, Goto, TypeOK, family
  <2>5. Knows(p)'
    BY <2>2, <2>4 DEF Knows
  <2>6. \A q \in Procs \ {p} : Knows(q)'
    BY <2>4 DEF Knows
  <2>. QED  BY <1>1, <2>4, <2>5, <2>6 DEF CommandSteps
<1>3. CASE \E p \in Procs : Step(p)
  BY <1>3, StepLaunch
<1>4. CASE \/ \E p \in Procs : Interrupt(p)
           \/ \E s \in Sessions : ChildWrite(s) \/ ChildFork(s) \/ ChildExit(s) \/ KinExit(s)
           \/ ManualUnlock
           \/ UNCHANGED vars
  <2>1. UNCHANGED <<made, spawns, now, safe, pc, tgt, mem, shot>>
    BY <1>4 DEF Interrupt, ChildWrite, ChildFork, ChildExit, KinExit, ManualUnlock,
                vars, disk, tree, family, local
  <2>2. \A p \in Procs : Knows(p)'
    BY <2>1 DEF CommandSteps, Knows
  <2>. QED  BY <1>1, <2>1, <2>2 DEF CommandSteps
<1>5. CASE \E p \in Procs : Crash(p)
  <2>1. PICK p \in Procs : Crash(p)
    BY <1>5
  <2>2. /\ UNCHANGED <<made, spawns, now, safe>>
        /\ \A q \in Procs : pc'[q] = "idle"
    BY <2>1 DEF Crash, Forget, Goto, TypeOK, WriterAlone
  <2>3. \A q \in Procs : Knows(q)'
    BY <2>2 DEF Knows
  <2>. QED  BY <1>1, <2>2, <2>3 DEF CommandSteps
<1>6. CASE PowerLoss
  <2>1. /\ UNCHANGED <<made, spawns>>
        /\ \A s \in Sessions : now'[s] \in {now[s], safe[s]} /\ safe'[s] \in {now[s], safe[s]}
        /\ \A q \in Procs : pc'[q] = "idle"
    BY <1>6 DEF PowerLoss
  <2>2. \A s \in Sessions : Unmade(s)'
    BY <2>1 DEF CommandSteps, Unmade
  <2>3. LaunchedOnce'
    BY <2>1 DEF LaunchedOnce
  <2>4. \A q \in Procs : Knows(q)'
    BY <2>1 DEF Knows
  <2>. QED  BY <2>2, <2>3, <2>4 DEF CommandSteps
<1>. QED  BY <1>2, <1>3, <1>4, <1>5, <1>6 DEF Next, World

-----------------------------------------------------------------------------
(* The inductive invariant.  TypeOK needs CommandSteps (the captured bytes *)
(* are there when they are copied), CommandSteps and LaunchedOnce need     *)
(* WriterAlone (nobody else moves a session under a command) and each      *)
(* other.                                                                  *)
IInv == TypeOK /\ WriterAlone /\ CommandSteps /\ LaunchedOnce

LEMMA InitIInv == Init => IInv
<1>. SUFFICES ASSUME Init PROVE IInv
  OBVIOUS
<1>1. TypeOK
  BY InitTypeOK
<1>2. WriterAlone
  BY DEF Init, WriterAlone
<1>3. CommandSteps
  BY DEF Init, CommandSteps, Unmade, Knows, NoJournal
<1>4. LaunchedOnce
  BY DEF Init, LaunchedOnce
<1>. QED  BY <1>1, <1>2, <1>3, <1>4 DEF IInv

LEMMA NextIInv == IInv /\ [Next]_vars => IInv'
<1>. SUFFICES ASSUME IInv, [Next]_vars PROVE IInv'
  OBVIOUS
<1>1. TypeOK'
  <2>1. CASE UNCHANGED vars
    BY <2>1 DEF IInv, TypeOK, vars, disk, tree, family, local
  <2>2. CASE Next
    BY <2>2, BeginTypeOK, StepTypeOK, WorldTypeOK DEF IInv, Next
  <2>. QED  BY <2>1, <2>2
<1>2. WriterAlone'
  BY NextWriterAlone DEF IInv
<1>3. CommandSteps' /\ LaunchedOnce'
  BY NextLaunch DEF IInv
<1>. QED  BY <1>1, <1>2, <1>3 DEF IInv

LEMMA SpecIInv == Spec => []IInv
BY InitIInv, NextIInv, PTL DEF Spec

(* Every state of a session, its processes and its files is well formed.   *)
THEOREM TypeCorrect == Spec => []TypeOK
<1>1. IInv => TypeOK
  BY DEF IInv
<1>. QED  BY <1>1, SpecIInv, PTL

(* At most one command is under way, and it is the owner of lodge.lock,    *)
(* whatever is killed, unlocked by hand or cut off (WriterLock).           *)
THEOREM OneWriter == Spec => []WriterAlone
<1>1. IInv => WriterAlone
  BY DEF IInv
<1>. QED  BY <1>1, SpecIInv, PTL

(* A prepared session is launched at most once, even across crashes, stale *)
(* locks, failed directory syncs and power cuts (run_session).             *)
THEOREM OneLaunch == Spec => []LaunchedOnce
<1>1. IInv => LaunchedOnce
  BY DEF IInv
<1>. QED  BY <1>1, SpecIInv, PTL
=============================================================================
