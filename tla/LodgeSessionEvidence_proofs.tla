-------------------- MODULE LodgeSessionEvidence_proofs --------------------
(***************************************************************************)
(* More proofs about LodgeSession: what a session keeps as evidence.  The  *)
(* journal's durable history and the captured bytes are never replaced,    *)
(* nothing is taken from a child that was not waited for, and a candidate  *)
(* is a complete, readable, unchanged capture of a clean process.          *)
(***************************************************************************)
EXTENDS LodgeSession_proofs

-----------------------------------------------------------------------------
(* The strengthened invariant.                                             *)

(* A session without a directory has no journal.                           *)
Blank(s) == ~made[s] => now[s] = NoJournal /\ safe[s] = NoJournal

(* What a power cut leaves of the journal is an earlier version of what a  *)
(* reader sees, and a candidate's is final.                                *)
Behind(s) ==
  /\ IsPrefixOf(safe[s].transitions, now[s].transitions)
  /\ safe[s].capture # NoCapture => now[s].capture = safe[s].capture
  /\ safe[s].diagnostics \subseteq now[s].diagnostics
  /\ safe[s].state = "candidate" => now[s] = safe[s]

(* Neither version says returned before the child was reaped.              *)
Waited(s) ==
  now[s].state \in AfterReturn \/ safe[s].state \in AfterReturn => child[s] = "reaped"

(* The journal j is a candidate for what is retained of session s.         *)
SoundFor(s, j) ==
  j.state = "candidate" =>
    /\ j.clean
    /\ j.diagnostics = {}
    /\ returned[s] = j.capture
    /\ j.members = j.capture
    /\ \A m \in Members : returned[s][m] \in Values \ Unreadable

(* The journal j in memory is the version n that is on the disk, with the  *)
(* findings and the capture of this attempt added.                         *)
Current(j, n) ==
  /\ j.state = n.state
  /\ j.transitions = n.transitions
  /\ n.capture # NoCapture => j.capture = n.capture
  /\ n.diagnostics \subseteq j.diagnostics

Examined == {"rec.capture", "rec.freeze", "rec.compare", "rec.copy", "rec.inspect", "rec.final"}
Reconciles == {"rec.inspecting", "rec.evidence"} \cup Examined
Carrying == {"run.preflight", "run.intent", "run.spawn", "run.logs", "run.started", "run.wait",
             "run.returned"} \cup Reconciles

(* What the command p carries of session s from step to step.              *)
Carries(p, s) ==
  /\ pc[p] = "prep.journal" => now[s] = NoJournal /\ safe[s] = NoJournal
  /\ pc[p] \in Carrying => Current(mem[p], now[s])
  /\ pc[p] = "run.spawn" => now[s].state = "launching" /\ safe[s].state = "launching"
  /\ pc[p] = "run.returned" => child[s] = "reaped"
  /\ pc[p] \in Reconciles => mem[p].state \in {"returned", "inspecting"}
  /\ pc[p] \in Examined =>
       mem[p].diagnostics \subseteq found[p] /\ (found[p] = {} => mem[p].clean)
  /\ pc[p] \in {"rec.freeze", "rec.compare", "rec.copy", "rec.inspect"} =>
       (found[p] = {} => \A m \in Members : shot[p][m] # Missing)
  /\ pc[p] \in {"rec.copy", "rec.inspect"} => mem[p].capture = shot[p]
  /\ pc[p] = "rec.copy" => \A m \in Members : returned[s][m] \in {Missing, shot[p][m]}
  /\ pc[p] = "rec.inspect" => returned[s] = shot[p]
  /\ pc[p] = "rec.final" /\ found[p] = {} =>
       /\ returned[s] = shot[p] /\ mem[p].capture = shot[p]
       /\ \A m \in Members : returned[s][m] \in Values \ Unreadable

Evidence ==
  /\ \A s \in Sessions : Blank(s) /\ Behind(s) /\ Waited(s) /\ SoundFor(s, now[s])
  /\ \A p \in Procs : Carries(p, tgt[p])

-----------------------------------------------------------------------------
(* Histories by position.                                                  *)

LEMMA PrefixByPosition ==
  ASSUME NEW a \in Seq(States), NEW b \in Seq(States)
  PROVE  IsPrefixOf(a, b) <=> Len(a) <= Len(b) /\ \A i \in 1 .. Len(a) : b[i] = a[i]
<1>1. ASSUME Len(a) <= Len(b)
      PROVE  /\ SubSeq(b, 1, Len(a)) \in Seq(States)
             /\ Len(SubSeq(b, 1, Len(a))) = Len(a)
             /\ \A i \in 1 .. Len(a) : SubSeq(b, 1, Len(a))[i] = b[i]
  BY <1>1
<1>2. ASSUME Len(a) <= Len(b), \A i \in 1 .. Len(a) : b[i] = a[i]
      PROVE  SubSeq(b, 1, Len(a)) = a
  BY <1>1, <1>2, SeqEqual
<1>. QED  BY <1>1, <1>2 DEF IsPrefixOf

LEMMA PrefixReflexive ==
  ASSUME NEW a \in Seq(States)
  PROVE  IsPrefixOf(a, a)
<1>1. Len(a) \in Nat
  OBVIOUS
<1>. QED  BY <1>1, PrefixByPosition

LEMMA PrefixTransitive ==
  ASSUME NEW a \in Seq(States), NEW b \in Seq(States), NEW c \in Seq(States),
         IsPrefixOf(a, b), IsPrefixOf(b, c)
  PROVE  IsPrefixOf(a, c)
<1>1. Len(a) \in Nat /\ Len(b) \in Nat /\ Len(c) \in Nat
  OBVIOUS
<1>2. /\ Len(a) <= Len(b) /\ \A i \in 1 .. Len(a) : b[i] = a[i]
      /\ Len(b) <= Len(c) /\ \A i \in 1 .. Len(b) : c[i] = b[i]
  BY PrefixByPosition
<1>3. Len(a) <= Len(c) /\ \A i \in 1 .. Len(a) : c[i] = a[i]
  BY <1>1, <1>2
<1>. QED  BY <1>3, PrefixByPosition

LEMMA PrefixAppend ==
  ASSUME NEW a \in Seq(States), NEW e \in States
  PROVE  IsPrefixOf(a, Append(a, e))
<1>1. /\ Append(a, e) \in Seq(States)
      /\ Len(Append(a, e)) = Len(a) + 1
      /\ \A i \in 1 .. Len(a) : Append(a, e)[i] = a[i]
      /\ Len(a) \in Nat
  OBVIOUS
<1>2. PICK b \in Seq(States) : b = Append(a, e)
  BY <1>1
<1>3. Len(a) <= Len(b) /\ \A i \in 1 .. Len(a) : b[i] = a[i]
  BY <1>1, <1>2
<1>. QED  BY <1>2, <1>3, PrefixByPosition

-----------------------------------------------------------------------------
(* What a command may write.                                               *)

(* The journal j is a later version of n.                                  *)
Extension(j, n) ==
  /\ IsPrefixOf(n.transitions, j.transitions)
  /\ n.capture # NoCapture => j.capture = n.capture
  /\ n.diagnostics \subseteq j.diagnostics

(* A write of j as session s's journal that a reader sees, synced or not.  *)
Written(s, j) == now'[s] = j /\ safe'[s] \in {safe[s], j}

Kept(s) == now'[s] = now[s] /\ safe'[s] = safe[s]

(* The steps of HistoryGrows and EvidenceKept for one journal.             *)
Grown(s) ==
  /\ IsPrefixOf(safe[s].transitions, safe'[s].transitions)
  /\ IsPrefixOf(safe'[s].transitions, now'[s].transitions)
  /\ safe[s].capture # NoCapture => safe'[s].capture = safe[s].capture
  /\ safe[s].diagnostics \subseteq safe'[s].diagnostics

LEMMA JournalHistory ==
  ASSUME TypeOK, NEW s \in Sessions
  PROVE  now[s].transitions \in Seq(States) /\ safe[s].transitions \in Seq(States)
BY DEF TypeOK, Journals

LEMMA KeptGrown ==
  ASSUME TypeOK, NEW s \in Sessions, Behind(s), Kept(s)
  PROVE  Behind(s)' /\ Grown(s)
<1>1. IsPrefixOf(safe[s].transitions, safe[s].transitions)
  BY JournalHistory, PrefixReflexive
<1>. QED  BY <1>1 DEF Behind, Kept, Grown

LEMMA WrittenGrown ==
  ASSUME TypeOK, NEW s \in Sessions, Behind(s), NEW j \in Journals, Written(s, j),
         Extension(j, now[s]), now[s].state # "candidate"
  PROVE  Behind(s)' /\ Grown(s)
<1>1. /\ now[s].transitions \in Seq(States) /\ safe[s].transitions \in Seq(States)
      /\ j.transitions \in Seq(States)
  BY JournalHistory DEF Journals
<1>2. /\ IsPrefixOf(safe[s].transitions, j.transitions)
      /\ IsPrefixOf(safe[s].transitions, safe[s].transitions)
      /\ IsPrefixOf(j.transitions, j.transitions)
  BY <1>1, PrefixReflexive, PrefixTransitive DEF Behind, Extension
<1>3. safe[s].state # "candidate"
  BY DEF Behind
<1>. QED  BY <1>2, <1>3 DEF Behind, Written, Extension, Grown

LEMMA CurrentExtends ==
  ASSUME TypeOK, NEW s \in Sessions, NEW j \in Journals, Current(j, now[s])
  PROVE  Extension(j, now[s])
BY JournalHistory, PrefixReflexive DEF Current, Extension

(* The effect of transition when the journal in memory is current.         *)
LEMMA AdvanceWrites ==
  ASSUME TypeOK, NEW p \in Procs, NEW j \in Journals, NEW to,
         NEW next \in Steps, NEW unwind \in Steps,
         Advance(p, j, to, next, unwind), Current(j, now[tgt[p]]),
         NEW s, s = tgt[p], NEW k, k = Transition(j, to)
  PROVE  /\ \A t \in Sessions \ {s} : Kept(t)
         /\ \/ Kept(s)
            \/ /\ Written(s, k) /\ TransitionAllowed(j.state, to)
               /\ k \in Journals /\ Extension(k, now[s])
         /\ \/ pc'[p] = unwind
            \/ /\ pc'[p] = next /\ TransitionAllowed(j.state, to)
               /\ now'[s] = k /\ safe'[s] = k
               /\ next # "release" => mem'[p] = k
<1>1. s \in Sessions /\ now[s] \in Journals
  BY DEF TypeOK
<1>2. CASE TransitionAllowed(j.state, to)
  <2>1. to \in States
    BY <1>2, EdgesLeaveFresh
  <2>2. k \in Journals
    BY <2>1, JournalClosed
  <2>3. Extension(k, now[s])
    <3>1. /\ k.transitions = Append(j.transitions, to) /\ k.capture = j.capture
          /\ k.diagnostics = j.diagnostics /\ j.transitions \in Seq(States)
      BY DEF Transition, Journals
    <3>2. IsPrefixOf(j.transitions, k.transitions)
      BY <2>1, <3>1, PrefixAppend
    <3>. QED  BY <3>1, <3>2 DEF Current, Extension
  <2>4. Persist(p, k, next, unwind)
    BY <1>2 DEF Advance
  <2>5. CASE Replaced(s, k) /\ Proceed(p, next, k)
    BY <1>1, <1>2, <2>2, <2>3, <2>5 DEF TypeOK, Replaced, Proceed, Goto, Kept, Written
  <2>6. CASE Unsynced(s, k) /\ Proceed(p, unwind, mem[p])
    BY <1>1, <1>2, <2>2, <2>3, <2>6 DEF TypeOK, Unsynced, Proceed, Goto, Kept, Written
  <2>7. CASE NotReplaced /\ Proceed(p, unwind, mem[p])
    BY <1>1, <2>7 DEF TypeOK, NotReplaced, Proceed, Goto, Kept
  <2>. QED  BY <2>4, <2>5, <2>6, <2>7 DEF Persist
<1>3. CASE ~TransitionAllowed(j.state, to)
  BY <1>1, <1>3 DEF Advance, TypeOK, NotReplaced, Proceed, Goto, Kept
<1>. QED  BY <1>2, <1>3

-----------------------------------------------------------------------------
(* The steps of a command.                                                 *)

(* A step writes nothing, or a later version of its own session's journal, *)
(* which says returned only of a reaped child and candidate only of what   *)
(* is sound.                                                               *)
Writes(p, s) ==
  /\ \A t \in Sessions \ {s} : Kept(t)
  /\ \/ Kept(s)
     \/ \E j \in Journals :
          /\ Written(s, j) /\ Extension(j, now[s]) /\ now[s].state # "candidate"
          /\ j.state \in AfterReturn => child[s] = "reaped" /\ child'[s] = "reaped"
          /\ SoundFor(s, j) /\ returned'[s] = returned[s]

LEMMA TransitionFields ==
  ASSUME NEW j \in Journals, NEW to
  PROVE  /\ Transition(j, to).state = to
         /\ Transition(j, to).diagnostics = j.diagnostics
         /\ Transition(j, to).clean = j.clean
         /\ Transition(j, to).capture = j.capture
         /\ Transition(j, to).members = j.members
BY DEF Transition, Journals

LEMMA AdvanceKeeps ==
  ASSUME TypeOK, NEW p \in Procs, NEW s, s = tgt[p], NEW j \in Journals, NEW to,
         NEW next \in Steps, NEW unwind \in Steps,
         Advance(p, j, to, next, unwind), Current(j, now[s]), UNCHANGED returned,
         TransitionAllowed(j.state, to) /\ to \in AfterReturn => child[s] = "reaped" /\ child'[s] = "reaped",
         to = "candidate" => SoundFor(s, Transition(j, to))
  PROVE  Writes(p, s)
<1>. DEFINE k == Transition(j, to)
<1>1. ASSUME TransitionAllowed(j.state, to)
      PROVE  j.state # "candidate"
  BY <1>1 DEF TransitionAllowed, Edges
<1>2. k.state = to
  BY TransitionFields
<1>3. /\ \A t \in Sessions \ {s} : Kept(t)
      /\ \/ Kept(s)
         \/ /\ Written(s, k) /\ TransitionAllowed(j.state, to)
            /\ k \in Journals /\ Extension(k, now[s])
  BY AdvanceWrites
<1>4. to # "candidate" => SoundFor(s, k)
  BY <1>2 DEF SoundFor
<1>. HIDE DEF k
<1>5. to = "candidate" => SoundFor(s, k)
  BY DEF k
<1>. QED  BY <1>1, <1>2, <1>3, <1>4, <1>5 DEF Writes, Current

(* What a command carries before its session has a journal in memory, and  *)
(* after it has given up.                                                  *)
LEMMA CarriesNothing ==
  ASSUME NEW p, NEW s,
         pc[p] \in {"idle", "release", "prep.root", "run.read", "run.unwind", "recover.read",
                    "reconcile.read"}
  PROVE  Carries(p, s)
BY DEF Carries, Carrying, Reconciles, Examined

(* The steps of prepare_session.                                           *)
LEMMA PrepareEvidence ==
  ASSUME IInv, Evidence, NEW p \in Procs, NEW s, s = tgt[p],
         PrepareRoot(p) \/ PrepareJournal(p)
  PROVE  Writes(p, s) /\ Carries(p, s)'
<1>1. TypeOK /\ s \in Sessions /\ Blank(s) /\ Carries(p, s) /\ Knows(p)
  BY DEF IInv, TypeOK, Evidence, CommandSteps
<1>2. CASE PrepareRoot(p)
  <2>1. UNCHANGED <<now, safe>> /\ now[s] = NoJournal /\ safe[s] = NoJournal
    BY <1>1, <1>2 DEF PrepareRoot, At, Knows, Blank
  <2>2. pc'[p] \in {"release", "prep.journal"}
    BY <1>1, <1>2 DEF PrepareRoot, Goto, TypeOK
  <2>3. Carries(p, s)'
    BY <2>1, <2>2 DEF Carries, Carrying, Reconciles, Examined
  <2>. QED  BY <2>1, <2>3 DEF Writes, Kept
<1>3. CASE PrepareJournal(p)
  <2>1. /\ Persist(p, Prepared, "release", "release") /\ UNCHANGED returned
        /\ now[s] = NoJournal
    BY <1>1, <1>3 DEF PrepareJournal, At, Carries, tree
  <2>2. pc'[p] = "release"
    BY <1>1, <2>1 DEF Persist, Proceed, Goto, TypeOK
  <2>3. /\ \A t \in Sessions \ {s} : Kept(t)
        /\ Kept(s) \/ Written(s, Prepared)
    BY <1>1, <2>1 DEF Persist, Replaced, Unsynced, NotReplaced, Kept, Written, TypeOK
  <2>4. Prepared \in Journals
    BY JournalClosed
  <2>5. Extension(Prepared, NoJournal)
    <3>1. << >> \in Seq(States) /\ <<"prepared">> \in Seq(States) /\ Len(<< >>) = 0 /\ Len(<<"prepared">>) = 1
      BY DEF States
    <3>2. PICK a \in Seq(States), b \in Seq(States) : a = << >> /\ b = <<"prepared">>
      BY <3>1
    <3>3. Len(a) <= Len(b) /\ \A i \in 1 .. Len(a) : b[i] = a[i]
      BY <3>1, <3>2
    <3>4. IsPrefixOf(a, b)
      BY <3>3, PrefixByPosition
    <3>. QED  BY <3>2, <3>4 DEF Extension, Prepared, NoJournal
  <2>6. /\ Prepared.state \notin AfterReturn /\ SoundFor(s, Prepared)
        /\ NoJournal.state # "candidate"
    BY DEF Prepared, AfterReturn, SoundFor, NoJournal
  <2>7. Writes(p, s)
    BY <2>1, <2>3, <2>4, <2>5, <2>6 DEF Writes
  <2>8. Carries(p, s)'
    BY <2>2 DEF Carries, Carrying, Reconciles, Examined
  <2>. QED  BY <2>7, <2>8
<1>. QED  BY <1>2, <1>3

LEMMA DiagnoseFields ==
  ASSUME NEW j \in Journals, NEW c
  PROVE  /\ Diagnose(j, c).state = j.state
         /\ Diagnose(j, c).transitions = j.transitions
         /\ Diagnose(j, c).capture = j.capture
         /\ Diagnose(j, c).diagnostics = j.diagnostics \cup c
BY DEF Diagnose, Journals

LEMMA CurrentDiagnose ==
  ASSUME NEW j \in Journals, NEW n, NEW c, Current(j, n)
  PROVE  Current(Diagnose(j, c), n)
BY DiagnoseFields DEF Current

LEMMA CurrentItself ==
  ASSUME NEW j
  PROVE  Current(j, j)
BY DEF Current

(* The steps of run_session up to the fork.                                *)
LEMMA LaunchEvidence ==
  ASSUME IInv, Evidence, NEW p \in Procs, NEW s, s = tgt[p],
         RunRead(p) \/ RunPreflight(p) \/ RunIntent(p) \/ RunSpawn(p) \/ RunLogs(p) \/ RunStarted(p)
  PROVE  Writes(p, s) /\ Carries(p, s)'
<1>1. /\ TypeOK /\ s \in Sessions /\ Carries(p, s)
      /\ mem[p] \in Journals /\ now[s] \in Journals
  BY DEF IInv, TypeOK, Evidence
<1>2. /\ {"release", "run.spawn", "run.wait", "run.unwind"} \subseteq Steps
      /\ {"preflight-failed", "spawn-failed"} \subseteq Codes
      /\ AfterReturn \cap {"failed", "launching", "running"} = {}
  BY DEF Steps, Codes, AfterReturn
<1>3. ASSUME UNCHANGED <<now, safe>> PROVE Writes(p, s)
  BY <1>3 DEF Writes, Kept
<1>4. ASSUME Abandon(p) PROVE Writes(p, s) /\ Carries(p, s)'
  <2>1. UNCHANGED <<now, safe>> /\ pc'[p] = "release"
    BY <1>1, <1>4, AbandonEffect DEF TypeOK
  <2>. QED  BY <1>3, <2>1 DEF Carries, Carrying, Reconciles, Examined
<1>5. ASSUME NEW c \in SUBSET Codes, Current(mem[p], now[s]), UNCHANGED returned,
             Advance(p, Diagnose(mem[p], c), "failed", "release", "release")
      PROVE  Writes(p, s) /\ Carries(p, s)'
  <2>1. PICK j \in Journals : j = Diagnose(mem[p], c) /\ Current(j, now[s])
    BY <1>1, <1>5, JournalClosed, CurrentDiagnose
  <2>2. /\ Advance(p, j, "failed", "release", "release") /\ UNCHANGED returned
        /\ "failed" \notin AfterReturn /\ "failed" # "candidate"
    BY <1>2, <1>5, <2>1
  <2>3. Writes(p, s)
    BY <1>1, <1>2, <2>1, <2>2, AdvanceKeeps
  <2>4. pc'[p] = "release"
    <3>1. PICK k : k = Transition(j, "failed")
      OBVIOUS
    <3>. QED  BY <1>1, <1>2, <2>1, <2>2, <3>1, AdvanceWrites
  <2>. QED  BY <2>3, <2>4 DEF Carries, Carrying, Reconciles, Examined
<1>. USE DEF At, Goto, disk, tree, family
<1>6. CASE RunRead(p)
  <2>1. CASE now[s].state = "prepared" /\ Proceed(p, "run.preflight", now[s]) /\ NotReplaced
    <3>1. pc'[p] = "run.preflight" /\ mem'[p] = now[s] /\ UNCHANGED <<now, safe>>
      BY <1>1, <2>1 DEF Proceed, NotReplaced, TypeOK
    <3>. QED  BY <1>3, <3>1, CurrentItself DEF Carries, Carrying, Reconciles, Examined
  <2>. QED  BY <1>4, <1>6, <2>1 DEF RunRead
<1>7. CASE RunPreflight(p)
  <2>1. Current(mem[p], now[s]) /\ UNCHANGED returned
    BY <1>1, <1>7 DEF RunPreflight, Carries, Carrying
  <2>2. CASE Goto(p, "run.intent") /\ UNCHANGED mem /\ NotReplaced
    <3>1. pc'[p] = "run.intent" /\ UNCHANGED <<now, safe, mem>>
      BY <1>1, <2>2 DEF NotReplaced, TypeOK
    <3>. QED  BY <1>3, <2>1, <3>1 DEF Carries, Carrying, Reconciles, Examined
  <2>. QED  BY <1>2, <1>4, <1>5, <1>7, <2>1, <2>2 DEF RunPreflight
<1>8. CASE RunIntent(p)
  <2>1. Current(mem[p], now[s]) /\ UNCHANGED returned
    BY <1>1, <1>8 DEF RunIntent, Carries, Carrying
  <2>2. CASE Advance(p, mem[p], "launching", "run.spawn", "release")
    <3>. DEFINE k == Transition(mem[p], "launching")
    <3>1. Writes(p, s)
      BY <1>1, <1>2, <2>1, <2>2, AdvanceKeeps
    <3>2. pc'[p] = "release" \/ (pc'[p] = "run.spawn" /\ now'[s] = k /\ safe'[s] = k /\ mem'[p] = k)
      BY <1>1, <1>2, <2>1, <2>2, AdvanceWrites
    <3>3. k.state = "launching"
      BY <1>1, TransitionFields
    <3>. HIDE DEF k
    <3>. QED  BY <3>1, <3>2, <3>3, CurrentItself DEF Carries, Carrying, Reconciles, Examined
  <2>. QED  BY <1>4, <1>8, <2>2 DEF RunIntent
<1>9. CASE RunSpawn(p)
  <2>1. /\ Current(mem[p], now[s]) /\ UNCHANGED returned
        /\ now[s].state = "launching" /\ safe[s].state = "launching"
    BY <1>1, <1>9 DEF RunSpawn, Carries, Carrying
  <2>2. CASE Goto(p, "run.logs") /\ UNCHANGED mem /\ NotReplaced
    <3>1. pc'[p] = "run.logs" /\ UNCHANGED <<now, safe, mem>>
      BY <1>1, <2>2 DEF NotReplaced, TypeOK
    <3>. QED  BY <1>3, <2>1, <3>1 DEF Carries, Carrying, Reconciles, Examined
  <2>. QED  BY <1>2, <1>4, <1>5, <1>9, <2>1, <2>2 DEF RunSpawn
<1>10. CASE RunLogs(p)
  <2>1. Current(mem[p], now[s]) /\ pc'[p] = "run.started" /\ UNCHANGED <<now, safe, mem>>
    BY <1>1, <1>10 DEF RunLogs, Carries, Carrying, TypeOK
  <2>. QED  BY <1>3, <2>1 DEF Carries, Carrying, Reconciles, Examined
<1>11. CASE RunStarted(p)
  <2>1. /\ Current(mem[p], now[s]) /\ UNCHANGED returned
        /\ Advance(p, mem[p], "running", "run.wait", "run.unwind")
    BY <1>1, <1>11 DEF RunStarted, Carries, Carrying
  <2>. DEFINE k == Transition(mem[p], "running")
  <2>2. Writes(p, s)
    BY <1>1, <1>2, <2>1, AdvanceKeeps
  <2>3. pc'[p] = "run.unwind" \/ (pc'[p] = "run.wait" /\ now'[s] = k /\ mem'[p] = k)
    BY <1>1, <1>2, <2>1, AdvanceWrites
  <2>. HIDE DEF k
  <2>. QED  BY <2>2, <2>3, CurrentItself DEF Carries, Carrying, Reconciles, Examined
<1>. QED  BY <1>6, <1>7, <1>8, <1>9, <1>10, <1>11

(* The steps of run_session while the child lives, and its end.            *)
LEMMA ReturnEvidence ==
  ASSUME IInv, Evidence, NEW p \in Procs, NEW s, s = tgt[p],
         RunWait(p) \/ RunReturned(p) \/ RunUnwind(p)
  PROVE  Writes(p, s) /\ Carries(p, s)'
<1>1. /\ TypeOK /\ s \in Sessions /\ Carries(p, s)
      /\ mem[p] \in Journals /\ now[s] \in Journals
  BY DEF IInv, TypeOK, Evidence
<1>2. ASSUME UNCHANGED <<now, safe>> PROVE Writes(p, s)
  BY <1>2 DEF Writes, Kept
<1>. USE DEF At, Goto, disk, tree, family
<1>3. CASE RunWait(p)
  <2>1. Current(mem[p], now[s]) /\ UNCHANGED <<now, safe>>
    BY <1>1, <1>3 DEF RunWait, Carries, Carrying
  <2>2. CASE pc'[p] = "run.unwind"
    BY <1>2, <2>1, <2>2 DEF Carries, Carrying, Reconciles, Examined
  <2>3. ASSUME NEW b \in BOOLEAN, NEW c, Reaped(p), Goto(p, "run.returned"),
               mem' = [mem EXCEPT ![p] = Diagnose([@ EXCEPT !.clean = b], c)]
        PROVE  Writes(p, s) /\ Carries(p, s)'
    <3>1. [mem[p] EXCEPT !.clean = b] \in Journals
      BY <1>1, JournalClosed
    <3>2. Current([mem[p] EXCEPT !.clean = b], now[s])
      BY <1>1, <2>1 DEF Current, Journals
    <3>3. mem'[p] = Diagnose([mem[p] EXCEPT !.clean = b], c)
      BY <1>1, <2>3 DEF TypeOK
    <3>4. Current(mem'[p], now'[s])
      BY <2>1, <3>1, <3>2, <3>3, CurrentDiagnose
    <3>5. child'[s] = "reaped" /\ pc'[p] = "run.returned"
      BY <1>1, <2>3 DEF Reaped, TypeOK
    <3>. QED  BY <1>2, <2>1, <3>4, <3>5 DEF Carries, Carrying, Reconciles, Examined
  <2>4. \/ Goto(p, "run.unwind")
        \/ /\ Reaped(p) /\ Goto(p, "run.returned")
           /\ \/ mem' = [mem EXCEPT ![p] = Diagnose([@ EXCEPT !.clean = TRUE], {})]
              \/ mem' = [mem EXCEPT ![p] = Diagnose([@ EXCEPT !.clean = FALSE], {"process-stopped"})]
    BY <1>3, Zenon DEF RunWait
  <2>5. Goto(p, "run.unwind") => pc'[p] = "run.unwind"
    BY <1>1 DEF TypeOK
  <2>. QED  BY <2>2, <2>3, <2>4, <2>5
<1>4. CASE RunReturned(p)
  <2>1. /\ Current(mem[p], now[s]) /\ child[s] = "reaped" /\ UNCHANGED <<returned, child>>
        /\ \/ Abandon(p)
           \/ \E lost \in SUBSET {"log-capture-failed"} :
                Advance(p, Diagnose(mem[p], lost), "returned", "release", "release")
    BY <1>1, <1>4 DEF RunReturned, Carries, Carrying
  <2>2. CASE Abandon(p)
    <3>1. UNCHANGED <<now, safe>> /\ pc'[p] = "release"
      BY <1>1, <2>2, AbandonEffect DEF TypeOK
    <3>. QED  BY <1>2, <3>1 DEF Carries, Carrying, Reconciles, Examined
  <2>3. ASSUME NEW lost \in SUBSET {"log-capture-failed"},
               Advance(p, Diagnose(mem[p], lost), "returned", "release", "release")
        PROVE  Writes(p, s) /\ Carries(p, s)'
    <3>1. Diagnose(mem[p], lost) \in Journals /\ Current(Diagnose(mem[p], lost), now[s])
      <4>1. lost \in SUBSET Codes
        BY DEF Codes
      <4>. QED  BY <1>1, <2>1, <4>1, JournalClosed, CurrentDiagnose
    <3>2. "release" \in Steps
      BY DEF Steps
    <3>3. Writes(p, s)
      BY <1>1, <2>1, <2>3, <3>1, <3>2, AdvanceKeeps
    <3>4. pc'[p] = "release"
      BY <1>1, <2>3, <3>1, <3>2, AdvanceWrites
    <3>. QED  BY <3>3, <3>4 DEF Carries, Carrying, Reconciles, Examined
  <2>. QED  BY <2>1, <2>2, <2>3
<1>5. CASE RunUnwind(p)
  <2>1. UNCHANGED <<now, safe>> /\ pc'[p] = "release"
    BY <1>1, <1>5 DEF RunUnwind, Proceed, TypeOK
  <2>. QED  BY <1>2, <2>1 DEF Carries, Carrying, Reconciles, Examined
<1>. QED  BY <1>3, <1>4, <1>5

(* recover and reconcile read the journal and decide.                      *)
LEMMA ReadEvidence ==
  ASSUME IInv, Evidence, NEW p \in Procs, NEW s, s = tgt[p],
         RecoverRead(p) \/ ReconcileRead(p) \/ RecInspecting(p) \/ RecEvidence(p)
  PROVE  Writes(p, s) /\ Carries(p, s)'
<1>1. /\ TypeOK /\ s \in Sessions /\ Carries(p, s) /\ Waited(s)
      /\ mem[p] \in Journals /\ now[s] \in Journals
  BY DEF IInv, TypeOK, Evidence
<1>2. {"release", "rec.inspecting", "rec.evidence"} \subseteq Steps
  BY DEF Steps
<1>3. ASSUME UNCHANGED <<now, safe>> PROVE Writes(p, s)
  BY <1>3 DEF Writes, Kept
<1>4. ASSUME Abandon(p) PROVE Writes(p, s) /\ Carries(p, s)'
  <2>1. UNCHANGED <<now, safe>> /\ pc'[p] = "release"
    BY <1>1, <1>4, AbandonEffect DEF TypeOK
  <2>. QED  BY <1>3, <2>1 DEF Carries, Carrying, Reconciles, Examined
<1>5. ASSUME now[s].state \in {"returned", "inspecting"},
             Proceed(p, "rec.inspecting", now[s]), NotReplaced
      PROVE  Writes(p, s) /\ Carries(p, s)'
  <2>1. pc'[p] = "rec.inspecting" /\ mem'[p] = now[s] /\ UNCHANGED <<now, safe>>
    BY <1>1, <1>5 DEF Proceed, Goto, NotReplaced, TypeOK
  <2>. QED  BY <1>3, <1>5, <2>1, CurrentItself DEF Carries, Carrying, Reconciles, Examined
<1>. USE DEF At, Goto, disk, tree, family
<1>6. CASE RecoverRead(p)
  <2>1. CASE Advance(p, Diagnose(now[s], {"process-ownership-lost"}), "interrupted", "release", "release")
    <3>1. {"process-ownership-lost"} \in SUBSET Codes
      BY DEF Codes
    <3>2. PICK j \in Journals : j = Diagnose(now[s], {"process-ownership-lost"}) /\ Current(j, now[s])
      BY <1>1, <3>1, JournalClosed, CurrentDiagnose, CurrentItself
    <3>3. /\ Advance(p, j, "interrupted", "release", "release") /\ UNCHANGED returned
          /\ "interrupted" \notin AfterReturn /\ "interrupted" # "candidate"
      BY <1>6, <2>1, <3>2 DEF RecoverRead, AfterReturn
    <3>4. Writes(p, s)
      BY <1>1, <1>2, <3>2, <3>3, AdvanceKeeps
    <3>5. pc'[p] = "release"
      <4>1. PICK k : k = Transition(j, "interrupted")
        OBVIOUS
      <4>. QED  BY <1>1, <1>2, <3>2, <3>3, <4>1, AdvanceWrites
    <3>. QED  BY <3>4, <3>5 DEF Carries, Carrying, Reconciles, Examined
  <2>. QED  BY <1>4, <1>5, <1>6, <2>1 DEF RecoverRead
<1>7. CASE ReconcileRead(p)
  BY <1>4, <1>5, <1>7 DEF ReconcileRead
<1>8. CASE RecInspecting(p)
  <2>1. /\ Current(mem[p], now[s]) /\ mem[p].state \in {"returned", "inspecting"}
        /\ UNCHANGED <<returned, child>>
    BY <1>1, <1>8 DEF RecInspecting, Carries, Carrying, Reconciles
  <2>2. CASE Advance(p, mem[p], "inspecting", "rec.evidence", "release")
    <3>1. child[s] = "reaped" /\ child'[s] = "reaped" /\ "inspecting" # "candidate"
      BY <1>1, <2>1 DEF Current, Waited, AfterReturn
    <3>2. Writes(p, s)
      BY <1>1, <1>2, <2>1, <2>2, <3>1, AdvanceKeeps
    <3>3. PICK k : k = Transition(mem[p], "inspecting") /\ k.state = "inspecting"
      BY <1>1, TransitionFields
    <3>4. pc'[p] = "release" \/ (pc'[p] = "rec.evidence" /\ now'[s] = k /\ mem'[p] = k)
      BY <1>1, <1>2, <2>1, <2>2, <3>3, AdvanceWrites
    <3>. QED  BY <3>2, <3>3, <3>4, CurrentItself DEF Carries, Carrying, Reconciles, Examined
  <2>3. CASE Goto(p, "rec.evidence") /\ UNCHANGED mem /\ NotReplaced
    <3>1. pc'[p] = "rec.evidence" /\ UNCHANGED <<now, safe, mem>>
      BY <1>1, <2>3 DEF NotReplaced, TypeOK
    <3>. QED  BY <1>3, <2>1, <3>1 DEF Carries, Carrying, Reconciles, Examined
  <2>. QED  BY <1>8, <2>2, <2>3 DEF RecInspecting
<1>9. CASE RecEvidence(p)
  <2>1. /\ Current(mem[p], now[s]) /\ mem[p].state \in {"returned", "inspecting"}
        /\ pc'[p] = "rec.capture" /\ UNCHANGED <<now, safe, mem>>
    BY <1>1, <1>9 DEF RecEvidence, Carries, Carrying, Reconciles, TypeOK
  <2>2. /\ mem[p].diagnostics \subseteq found'[p]
        /\ ~mem[p].clean => "unclean-process-return" \in found'[p]
    BY <1>1, <1>9 DEF RecEvidence, TypeOK
  <2>. QED  BY <1>3, <2>1, <2>2 DEF Carries, Carrying, Reconciles, Examined
<1>. QED  BY <1>6, <1>7, <1>8, <1>9

(* The capture is read, frozen and compared.                               *)
LEMMA CaptureEvidence ==
  ASSUME IInv, Evidence, NEW p \in Procs, NEW s, s = tgt[p],
         RecCapture(p) \/ RecFreeze(p) \/ RecCompare(p)
  PROVE  Writes(p, s) /\ Carries(p, s)'
<1>1. /\ TypeOK /\ s \in Sessions /\ Carries(p, s) /\ Waited(s) /\ Knows(p)
      /\ mem[p] \in Journals /\ now[s] \in Journals /\ found[p] \in SUBSET Codes
  BY DEF IInv, TypeOK, Evidence, CommandSteps
<1>2. ASSUME UNCHANGED <<now, safe>> PROVE Writes(p, s)
  BY <1>2 DEF Writes, Kept
<1>3. /\ Current(mem[p], now[s]) /\ mem[p].state \in {"returned", "inspecting"}
      /\ mem[p].diagnostics \subseteq found[p] /\ (found[p] = {} => mem[p].clean)
  BY <1>1 DEF RecCapture, RecFreeze, RecCompare, At, Carries, Carrying, Reconciles, Examined
<1>4. ASSUME Review(p, "return-review-required")
      PROVE  found[p] \subseteq found'[p] /\ found'[p] # {}
  BY <1>1, <1>4 DEF Review, TypeOK
<1>. USE DEF At, Goto, disk, tree, family
<1>5. CASE RecCapture(p)
  <2>1. UNCHANGED <<now, safe, mem>>
    BY <1>5 DEF RecCapture
  <2>2. CASE Review(p, "return-review-required") /\ Goto(p, "rec.final")
    <3>1. pc'[p] = "rec.final"
      BY <1>1, <2>2 DEF TypeOK
    <3>. QED  BY <1>2, <1>3, <1>4, <2>1, <2>2, <3>1 DEF Carries, Carrying, Reconciles, Examined
  <2>3. CASE /\ shot' = [shot EXCEPT ![p] = work[s]]
             /\ found' = [found EXCEPT ![p] = @ \cup
                  (IF \E m \in Members : work[s][m] = Missing
                     THEN {"missing-state-member"} ELSE {})]
             /\ Goto(p, "rec.freeze")
    <3>1. pc'[p] = "rec.freeze" /\ shot'[p] = work[s] /\ found[p] \subseteq found'[p]
      BY <1>1, <2>3 DEF TypeOK
    <3>2. (\E m \in Members : work[s][m] = Missing) => "missing-state-member" \in found'[p]
      BY <1>1, <2>3 DEF TypeOK
    <3>3. found'[p] = {} => \A m \in Members : shot'[p][m] # Missing
      BY <3>1, <3>2
    <3>. QED  BY <1>2, <1>3, <2>1, <3>1, <3>3 DEF Carries, Carrying, Reconciles, Examined
  <2>. QED  BY <1>1, <1>5, <2>2, <2>3 DEF RecCapture
<1>6. CASE RecFreeze(p)
  <2>1. PICK t \in Captures : t = IF mem[p].capture = NoCapture THEN shot[p] ELSE mem[p].capture
    BY <1>1 DEF TypeOK, Journals
  <2>2. PICK j : j = [mem[p] EXCEPT !.capture = t, !.diagnostics = found[p]]
    OBVIOUS
  <2>3. /\ j \in Journals /\ j.state = mem[p].state /\ j.transitions = mem[p].transitions
        /\ j.clean = mem[p].clean /\ j.capture = t /\ j.diagnostics = found[p]
    BY <1>1, <2>1, <2>2, JournalClosed DEF Journals
  <2>4. /\ mem' = [mem EXCEPT ![p] = j]
        /\ \/ Replaced(s, j) /\ Goto(p, "rec.compare") /\ UNCHANGED found
           \/ Throws(s, j) /\ Review(p, "return-review-required") /\ Goto(p, "rec.final")
        /\ UNCHANGED <<returned, child, shot>>
    BY <1>1, <1>6, <2>1, <2>2 DEF RecFreeze
  <2>5. Current(j, now[s])
    BY <1>3, <2>1, <2>3 DEF Current
  <2>6. /\ \A u \in Sessions \ {s} : Kept(u)
        /\ Kept(s) \/ Written(s, j)
    BY <1>1, <2>4 DEF Replaced, Throws, Unsynced, NotReplaced, Kept, Written, TypeOK
  <2>7. Writes(p, s)
    <3>1. Extension(j, now[s])
      BY <1>1, <2>3, <2>5, CurrentExtends
    <3>2. /\ child[s] = "reaped" /\ child'[s] = "reaped"
          /\ j.state # "candidate" /\ now[s].state # "candidate"
      BY <1>1, <1>3, <2>3, <2>4 DEF Current, Waited, AfterReturn
    <3>3. SoundFor(s, j) /\ returned'[s] = returned[s]
      BY <2>4, <3>2 DEF SoundFor
    <3>. QED  BY <2>3, <2>6, <3>1, <3>2, <3>3 DEF Writes
  <2>8. mem'[p] = j /\ Current(j, now'[s])
    BY <1>1, <2>4, <2>5, <2>6, CurrentItself DEF TypeOK, Kept, Written
  <2>9. \/ pc'[p] = "rec.compare" /\ found'[p] = found[p]
        \/ pc'[p] = "rec.final" /\ found[p] \subseteq found'[p] /\ found'[p] # {}
    BY <1>1, <1>4, <2>4 DEF TypeOK
  <2>10. found[p] = {} => \A m \in Members : shot[p][m] # Missing
    BY <1>1, <1>6 DEF RecFreeze, Carries
  <2>11. Carries(p, s)'
    BY <1>3, <2>3, <2>4, <2>8, <2>9, <2>10 DEF Carries, Carrying, Reconciles, Examined
  <2>. QED  BY <2>7, <2>11
<1>7. CASE RecCompare(p)
  <2>1. /\ UNCHANGED <<now, safe, mem, shot, returned>>
        /\ (found[p] = {} => \A m \in Members : shot[p][m] # Missing)
    BY <1>1, <1>7 DEF RecCompare, Carries
  <2>2. \/ /\ pc'[p] = "rec.final" /\ Review(p, "return-review-required")
        \/ /\ pc'[p] = "rec.copy" /\ UNCHANGED found
           /\ mem[p].capture = shot[p]
           /\ \A m \in Members : returned[s][m] \in {Missing, shot[p][m]}
    BY <1>1, <1>7 DEF RecCompare, TypeOK
  <2>. QED  BY <1>2, <1>3, <1>4, <2>1, <2>2 DEF Carries, Carrying, Reconciles, Examined
<1>. QED  BY <1>5, <1>6, <1>7

(* The copy is made and inspected, and the session is judged.              *)
LEMMA CopyEvidence ==
  ASSUME IInv, Evidence, NEW p \in Procs, NEW s, s = tgt[p],
         RecCopy(p) \/ RecInspect(p)
  PROVE  Writes(p, s) /\ Carries(p, s)'
<1>1. /\ TypeOK /\ s \in Sessions /\ Carries(p, s) /\ Knows(p)
      /\ mem[p] \in Journals /\ found[p] \in SUBSET Codes
      /\ returned[s] \in [Members -> Contents]
  BY DEF IInv, TypeOK, Evidence, CommandSteps, Trees
<1>2. ASSUME UNCHANGED <<now, safe>> PROVE Writes(p, s)
  BY <1>2 DEF Writes, Kept
<1>3. /\ Current(mem[p], now[s]) /\ mem[p].state \in {"returned", "inspecting"}
      /\ mem[p].diagnostics \subseteq found[p] /\ (found[p] = {} => mem[p].clean)
      /\ (found[p] = {} => \A m \in Members : shot[p][m] # Missing)
      /\ mem[p].capture = shot[p]
  BY <1>1 DEF RecCopy, RecInspect, At, Carries, Carrying, Reconciles, Examined
<1>4. ASSUME NEW code, Review(p, code)
      PROVE  found[p] \subseteq found'[p] /\ found'[p] # {}
  BY <1>1, <1>4 DEF Review, TypeOK
<1>. USE DEF At, Goto, disk, tree, family
<1>5. CASE RecCopy(p)
  <2>1. /\ UNCHANGED <<now, safe, mem, shot>> /\ pc[p] = "rec.copy"
        /\ shot[p] \in [Members -> Contents]
        /\ \A m \in Members : returned[s][m] \in {Missing, shot[p][m]}
    BY <1>1, <1>5 DEF RecCopy, Carries, Knows, Trees
  <2>2. ASSUME NEW m \in Members, returned' = [returned EXCEPT ![s][m] = shot[p][m]]
        PROVE  \A n \in Members : returned'[s][n] \in {Missing, shot[p][n]}
    BY <1>1, <2>1, <2>2 DEF TypeOK
  <2>3. \/ UNCHANGED <<pc, found>>
           /\ \E m \in Members : returned' = [returned EXCEPT ![s][m] = shot[p][m]]
        \/ pc'[p] = "rec.final" /\ Review(p, "return-review-required")
        \/ pc'[p] = "rec.inspect" /\ UNCHANGED <<returned, found>>
           /\ \A m \in Members : returned[s][m] = shot[p][m]
    <3>. DEFINE copy(m) == returned' = [returned EXCEPT ![s][m] = shot[p][m]]
                giveup == Review(p, "return-review-required") /\ Goto(p, "rec.final")
    <3>1. \/ \E m \in Members : copy(m) /\ (UNCHANGED <<pc, found>> \/ giveup)
          \/ giveup
          \/ /\ { m \in Members : returned[s][m] # shot[p][m] } = {}
             /\ Goto(p, "rec.inspect") /\ UNCHANGED <<returned, found>>
      BY <1>5 DEF RecCopy
    <3>2. giveup => pc'[p] = "rec.final" /\ Review(p, "return-review-required")
      BY <1>1 DEF TypeOK
    <3>3. Goto(p, "rec.inspect") => pc'[p] = "rec.inspect"
      BY <1>1 DEF TypeOK
    <3>. HIDE DEF giveup
    <3>. QED  BY <3>1, <3>2, <3>3
  <2>4. CASE /\ UNCHANGED <<pc, found>>
             /\ \E m \in Members : returned' = [returned EXCEPT ![s][m] = shot[p][m]]
    <3>1. \A n \in Members : returned'[s][n] \in {Missing, shot[p][n]}
      BY <2>2, <2>4
    <3>. QED  BY <1>2, <1>3, <2>1, <2>4, <3>1 DEF Carries, Carrying, Reconciles, Examined
  <2>5. CASE pc'[p] = "rec.final" /\ Review(p, "return-review-required")
    BY <1>2, <1>3, <1>4, <2>1, <2>5 DEF Carries, Carrying, Reconciles, Examined
  <2>6. CASE pc'[p] = "rec.inspect" /\ UNCHANGED <<returned, found>>
             /\ \A m \in Members : returned[s][m] = shot[p][m]
    <3>1. returned'[s] = shot'[p]
      BY <1>1, <2>1, <2>6
    <3>. QED  BY <1>2, <1>3, <2>1, <2>6, <3>1 DEF Carries, Carrying, Reconciles, Examined
  <2>. QED  BY <2>3, <2>4, <2>5, <2>6
<1>6. CASE RecInspect(p)
  <2>1. /\ UNCHANGED <<now, safe, mem, shot, returned>> /\ pc'[p] = "rec.final"
        /\ returned[s] = shot[p]
    BY <1>1, <1>6 DEF RecInspect, Carries, TypeOK
  <2>2. \/ \E code \in Codes : Review(p, code)
        \/ UNCHANGED found /\ \A m \in Members : returned[s][m] \notin Unreadable
    BY <1>6 DEF RecInspect, Codes
  <2>3. CASE \E code \in Codes : Review(p, code)
    BY <1>2, <1>3, <1>4, <2>1, <2>3 DEF Carries, Carrying, Reconciles, Examined
  <2>4. CASE UNCHANGED found /\ \A m \in Members : returned[s][m] \notin Unreadable
    <3>1. found[p] = {} => \A m \in Members : returned[s][m] \in Values \ Unreadable
      BY <1>1, <1>3, <2>1, <2>4 DEF Contents
    <3>. QED  BY <1>2, <1>3, <2>1, <2>4, <3>1 DEF Carries, Carrying, Reconciles, Examined
  <2>. QED  BY <2>2, <2>3, <2>4
<1>. QED  BY <1>5, <1>6

LEMMA JudgeEvidence ==
  ASSUME IInv, Evidence, NEW p \in Procs, NEW s, s = tgt[p],
         RecFinal(p) \/ Release(p)
  PROVE  Writes(p, s) /\ Carries(p, s)'
<1>1. /\ TypeOK /\ s \in Sessions /\ Carries(p, s) /\ Waited(s)
      /\ mem[p] \in Journals /\ found[p] \in SUBSET Codes /\ shot[p] \in Captures
  BY DEF IInv, TypeOK, Evidence
<1>. USE DEF At, Goto, disk, tree, family
<1>2. CASE RecFinal(p)
  <2>1. /\ Current(mem[p], now[s]) /\ mem[p].state \in {"returned", "inspecting"}
        /\ mem[p].diagnostics \subseteq found[p]
        /\ found[p] = {} => /\ mem[p].clean /\ returned[s] = shot[p] /\ mem[p].capture = shot[p]
                            /\ \A m \in Members : returned[s][m] \in Values \ Unreadable
        /\ UNCHANGED <<returned, child>>
    BY <1>1, <1>2 DEF RecFinal, Carries, Carrying, Reconciles, Examined
  <2>2. PICK j : j = [mem[p] EXCEPT !.diagnostics = found[p], !.members = shot[p]]
    OBVIOUS
  <2>3. /\ j \in Journals /\ j.state = mem[p].state /\ j.transitions = mem[p].transitions
        /\ j.clean = mem[p].clean /\ j.capture = mem[p].capture
        /\ j.diagnostics = found[p] /\ j.members = shot[p]
    BY <1>1, <2>2, JournalClosed DEF Journals
  <2>4. PICK to : to = IF found[p] = {} THEN "candidate" ELSE "quarantined"
    OBVIOUS
  <2>5. Advance(p, j, to, "release", "release") /\ "release" \in Steps
    BY <1>2, <2>2, <2>4 DEF RecFinal, Steps
  <2>6. Current(j, now[s])
    BY <2>1, <2>3 DEF Current
  <2>7. child[s] = "reaped" /\ child'[s] = "reaped"
    BY <1>1, <2>1 DEF Current, Waited, AfterReturn
  <2>8. PICK k : k = Transition(j, to) /\ k.clean = j.clean /\ k.diagnostics = j.diagnostics
                 /\ k.capture = j.capture /\ k.members = j.members
    BY <2>3, TransitionFields
  <2>9. to = "candidate" => SoundFor(s, k)
    BY <2>1, <2>3, <2>4, <2>8 DEF SoundFor
  <2>10. Writes(p, s)
    BY <1>1, <2>1, <2>3, <2>5, <2>6, <2>7, <2>8, <2>9, AdvanceKeeps
  <2>11. pc'[p] = "release"
    BY <1>1, <2>3, <2>5, <2>6, <2>8, AdvanceWrites
  <2>. QED  BY <2>10, <2>11 DEF Carries, Carrying, Reconciles, Examined
<1>3. CASE Release(p)
  <2>1. pc'[p] = "idle" /\ UNCHANGED <<now, safe>>
    BY <1>1, <1>3 DEF Release, Forget, TypeOK
  <2>. QED  BY <2>1 DEF Writes, Kept, Carries, Carrying, Reconciles, Examined
<1>. QED  BY <1>2, <1>3

(* Any step of the command.                                                *)
LEMMA StepEvidence ==
  ASSUME IInv, Evidence, NEW p \in Procs, NEW s, s = tgt[p], Step(p)
  PROVE  Writes(p, s) /\ Carries(p, s)'
<1>1. CASE PrepareRoot(p) \/ PrepareJournal(p)
  BY <1>1, PrepareEvidence
<1>2. CASE RunRead(p) \/ RunPreflight(p) \/ RunIntent(p) \/ RunSpawn(p) \/ RunLogs(p) \/ RunStarted(p)
  BY <1>2, LaunchEvidence
<1>3. CASE RunWait(p) \/ RunReturned(p) \/ RunUnwind(p)
  BY <1>3, ReturnEvidence
<1>4. CASE RecoverRead(p) \/ ReconcileRead(p) \/ RecInspecting(p) \/ RecEvidence(p)
  BY <1>4, ReadEvidence
<1>5. CASE RecCapture(p) \/ RecFreeze(p) \/ RecCompare(p)
  BY <1>5, CaptureEvidence
<1>6. CASE RecCopy(p) \/ RecInspect(p)
  BY <1>6, CopyEvidence
<1>7. CASE RecFinal(p) \/ Release(p)
  BY <1>7, JudgeEvidence
<1>. QED  BY <1>1, <1>2, <1>3, <1>4, <1>5, <1>6, <1>7 DEF Step

-----------------------------------------------------------------------------
(* What a step does to the child, the copy and the directory.              *)

(* The children a step of p may start, and the copies it may fill.         *)
LEMMA StepFamily ==
  ASSUME IInv, Evidence, NEW p \in Procs, NEW s, s = tgt[p], Step(p)
  PROVE  /\ \A t \in Sessions : made[t] => made'[t]
         /\ ~made[s] => Kept(s)
         /\ \A t \in Sessions \ {s} : child'[t] = child[t] /\ returned'[t] = returned[t]
         /\ \/ child[s] = "reaped" => child'[s] = "reaped"
            \/ Kept(s) /\ now[s].state = "launching" /\ safe[s].state = "launching"
         /\ returned'[s] = returned[s] \/ (Kept(s) /\ now[s].state # "candidate")
         /\ \A m \in Members : returned[s][m] # Missing => returned'[s][m] = returned[s][m]
<1>1. TypeOK /\ s \in Sessions /\ Carries(p, s) /\ Knows(p) /\ Unmade(s)
  BY DEF IInv, TypeOK, Evidence, CommandSteps
<1>. USE DEF At, tree, family, disk
<1>2. \A t \in Sessions : made[t] => made'[t]
  <2>1. PrepareRoot(p) \/ UNCHANGED made
    BY DEF Step, PrepareJournal, RunRead, RunPreflight, RunIntent, RunSpawn, RunLogs, RunStarted,
           RunWait, RunReturned, RunUnwind, RecoverRead, ReconcileRead, RecInspecting, RecEvidence,
           RecCapture, RecFreeze, RecCompare, RecCopy, RecInspect, RecFinal, Release
  <2>. QED  BY <1>1, <2>1 DEF PrepareRoot, TypeOK
<1>3. ~made[s] => Kept(s)
  <2>. SUFFICES ASSUME ~made[s] PROVE Kept(s)
    OBVIOUS
  <2>1. pc[p] \in {"idle", "release", "prep.root", "run.read", "recover.read", "reconcile.read"}
    BY <1>1 DEF Knows
  <2>2. now[s].state = "absent"
    BY <1>1 DEF Unmade
  <2>3. PrepareRoot(p) \/ RunRead(p) \/ RecoverRead(p) \/ ReconcileRead(p) \/ Release(p)
    BY <2>1 DEF Step, PrepareJournal, RunPreflight, RunIntent, RunSpawn, RunLogs, RunStarted, RunWait,
           RunReturned, RunUnwind, RecInspecting, RecEvidence, RecCapture, RecFreeze, RecCompare,
           RecCopy, RecInspect, RecFinal
  <2>4. UNCHANGED <<now, safe>>
    BY <2>2, <2>3 DEF PrepareRoot, RunRead, RecoverRead, ReconcileRead, Release, Abandon, NotReplaced
  <2>. QED  BY <2>4 DEF Kept
<1>4. /\ \A t \in Sessions \ {s} : child'[t] = child[t]
      /\ \/ child[s] = "reaped" => child'[s] = "reaped"
         \/ Kept(s) /\ now[s].state = "launching" /\ safe[s].state = "launching"
  <2>1. CASE RunSpawn(p)
    <3>1. now[s].state = "launching" /\ safe[s].state = "launching"
      BY <1>1, <2>1 DEF RunSpawn, Carries
    <3>2. UNCHANGED child \/ (NotReplaced /\ child' = [child EXCEPT ![s] = "running"])
      BY <2>1 DEF RunSpawn
    <3>. QED  BY <1>1, <3>1, <3>2 DEF NotReplaced, Kept, TypeOK
  <2>2. CASE RunWait(p) \/ RunUnwind(p)
    <3>1. UNCHANGED child \/ Reaped(p)
          \/ (child[s] = "running" /\ \E v : child' = [child EXCEPT ![s] = v])
      BY <2>2 DEF RunWait, RunUnwind
    <3>. QED  BY <1>1, <3>1 DEF Reaped, TypeOK
  <2>3. CASE ~RunSpawn(p) /\ ~(RunWait(p) \/ RunUnwind(p))
    <3>1. UNCHANGED child
      BY <2>3 DEF Step, PrepareRoot, PrepareJournal, RunRead, RunPreflight, RunIntent, RunLogs, RunStarted,
             RunReturned, RecoverRead, ReconcileRead, RecInspecting, RecEvidence,
             RecCapture, RecFreeze, RecCompare, RecCopy, RecInspect, RecFinal, Release
    <3>. QED  BY <3>1
  <2>. QED  BY <2>1, <2>2, <2>3
<1>5. /\ \A t \in Sessions \ {s} : returned'[t] = returned[t]
      /\ returned'[s] = returned[s] \/ (Kept(s) /\ now[s].state # "candidate")
      /\ \A m \in Members : returned[s][m] # Missing => returned'[s][m] = returned[s][m]
  <2>1. CASE RecCopy(p)
    <3>1. /\ UNCHANGED <<now, safe>> /\ now[s].state # "candidate"
          /\ \A m \in Members : returned[s][m] \in {Missing, shot[p][m]}
      BY <1>1, <2>1 DEF RecCopy, Carries, Carrying, Reconciles, Examined, Current
    <3>2. \/ UNCHANGED returned
          \/ \E m \in Members : returned' = [returned EXCEPT ![s][m] = shot[p][m]]
      BY <2>1 DEF RecCopy
    <3>3. returned[s] \in [Members -> Contents]
      BY <1>1 DEF TypeOK, Trees
    <3>. QED  BY <1>1, <3>1, <3>2, <3>3 DEF Kept, TypeOK
  <2>2. CASE ~RecCopy(p)
    <3>1. UNCHANGED returned
      BY <2>2 DEF Step, PrepareRoot, PrepareJournal, RunRead, RunPreflight, RunIntent, RunSpawn, RunLogs,
             RunStarted, RunWait, RunReturned, RunUnwind, RecoverRead, ReconcileRead, RecInspecting,
             RecEvidence, RecCapture, RecFreeze, RecCompare, RecInspect, RecFinal, Release
    <3>. QED  BY <3>1
  <2>. QED  BY <2>1, <2>2
<1>. QED  BY <1>2, <1>3, <1>4, <1>5

-----------------------------------------------------------------------------
(* Every step keeps the evidence.                                          *)

(* A retained copy of a member is never overwritten by other bytes.        *)
CopyKept(s) ==
  \A m \in Members : returned[s][m] # Missing => returned'[s][m] \in {Missing, returned[s][m]}

Unharmed == \A s \in Sessions : Grown(s) /\ CopyKept(s)

LEMMA CommandKeeps ==
  ASSUME IInv, Evidence, NEW p \in Procs, Step(p)
  PROVE  Evidence' /\ Unharmed
<1>1. PICK s \in Sessions : s = tgt[p]
  BY DEF IInv, TypeOK
<1>2. Writes(p, s) /\ Carries(p, s)'
  BY <1>1, StepEvidence
<1>3. /\ \A t \in Sessions : made[t] => made'[t]
      /\ ~made[s] => Kept(s)
      /\ \A t \in Sessions \ {s} : child'[t] = child[t] /\ returned'[t] = returned[t]
      /\ \/ child[s] = "reaped" => child'[s] = "reaped"
         \/ Kept(s) /\ now[s].state = "launching" /\ safe[s].state = "launching"
      /\ returned'[s] = returned[s] \/ (Kept(s) /\ now[s].state # "candidate")
      /\ \A m \in Members : returned[s][m] # Missing => returned'[s][m] = returned[s][m]
  BY <1>1, StepFamily
<1>4. /\ TypeOK /\ WriterAlone
      /\ \A t \in Sessions : Blank(t) /\ Behind(t) /\ Waited(t) /\ SoundFor(t, now[t])
  BY DEF IInv, Evidence
<1>5. ASSUME NEW t \in Sessions \ {s}
      PROVE  /\ Blank(t)' /\ Behind(t)' /\ Waited(t)' /\ SoundFor(t, now[t])'
             /\ Grown(t) /\ CopyKept(t)
  <2>1. Kept(t) /\ (made[t] => made'[t]) /\ child'[t] = child[t] /\ returned'[t] = returned[t]
    BY <1>2, <1>3 DEF Writes
  <2>2. Behind(t)' /\ Grown(t)
    BY <1>4, <2>1, KeptGrown
  <2>. QED  BY <1>4, <2>1, <2>2 DEF Kept, Blank, Waited, SoundFor, CopyKept
<1>6. ASSUME Kept(s)
      PROVE  /\ Blank(s)' /\ Behind(s)' /\ Waited(s)' /\ SoundFor(s, now[s])'
             /\ Grown(s) /\ CopyKept(s)
  <2>1. Behind(s)' /\ Grown(s)
    BY <1>4, <1>6, KeptGrown
  <2>2. Blank(s)'
    BY <1>3, <1>4, <1>6 DEF Kept, Blank
  <2>3. Waited(s)'
    BY <1>3, <1>4, <1>6 DEF Kept, Waited, AfterReturn
  <2>4. SoundFor(s, now[s])'
    BY <1>3, <1>4, <1>6 DEF Kept, SoundFor
  <2>. QED  BY <1>3, <2>1, <2>2, <2>3, <2>4 DEF CopyKept
<1>7. ASSUME ~Kept(s)
      PROVE  /\ Blank(s)' /\ Behind(s)' /\ Waited(s)' /\ SoundFor(s, now[s])'
             /\ Grown(s) /\ CopyKept(s)
  <2>1. PICK j \in Journals :
          /\ Written(s, j) /\ Extension(j, now[s]) /\ now[s].state # "candidate"
          /\ j.state \in AfterReturn => child[s] = "reaped" /\ child'[s] = "reaped"
          /\ SoundFor(s, j) /\ returned'[s] = returned[s]
    BY <1>2, <1>7 DEF Writes
  <2>2. Behind(s)' /\ Grown(s)
    BY <1>4, <2>1, WrittenGrown
  <2>3. Blank(s)'
    BY <1>3, <1>7 DEF Blank
  <2>4. Waited(s)'
    BY <1>3, <1>4, <1>7, <2>1 DEF Written, Waited
  <2>5. SoundFor(s, now[s])'
    BY <2>1 DEF Written, SoundFor
  <2>. QED  BY <1>3, <2>2, <2>3, <2>4, <2>5 DEF CopyKept
<1>8. ASSUME NEW q \in Procs
      PROVE  Carries(q, tgt[q])'
  <2>1. CASE q = p
    BY <1>1, <1>2, <1>4, <2>1, StepFrame
  <2>2. CASE q # p
    <3>1. pc'[q] = "idle"
      BY <1>4, <2>2, StepFrame DEF WriterAlone
    <3>. QED  BY <3>1 DEF Carries, Carrying, Reconciles, Examined
  <2>. QED  BY <2>1, <2>2
<1>. QED  BY <1>5, <1>6, <1>7, <1>8 DEF Evidence, Unharmed

(* A command begins with nothing.                                          *)
LEMMA BeginKeeps ==
  ASSUME IInv, Evidence, NEW p \in Procs, Begin(p)
  PROVE  Evidence' /\ Unharmed
<1>1. PICK s \in Sessions, step \in {"prep.root", "run.read", "recover.read", "reconcile.read"} :
        Start(p, s, step)
  BY DEF Begin, BeginPrepare, BeginRun, BeginRecover, BeginReconcile
<1>2. TypeOK /\ \A q \in Procs : pc[q] = "idle"
  BY <1>1, SessionConstants DEF Start, WriterAlone, IInv
<1>3. /\ UNCHANGED <<made, now, safe, child, returned>>
      /\ \A q \in Procs : pc'[q] \in {step, "idle"}
  BY <1>1, <1>2 DEF Start, Goto, TypeOK, tree, family
<1>4. \A q \in Procs : Carries(q, tgt[q])'
  BY <1>3 DEF Carries, Carrying, Reconciles, Examined
<1>5. ASSUME NEW t \in Sessions
      PROVE  /\ Blank(t)' /\ Behind(t)' /\ Waited(t)' /\ SoundFor(t, now[t])'
             /\ Grown(t) /\ CopyKept(t)
  <2>1. Kept(t) /\ Behind(t)
    BY <1>3 DEF Kept, Evidence
  <2>2. Behind(t)' /\ Grown(t)
    BY <1>2, <2>1, KeptGrown
  <2>. QED  BY <1>3, <2>2 DEF Evidence, Blank, Waited, SoundFor, CopyKept
<1>. QED  BY <1>4, <1>5 DEF Evidence, Unharmed

(* The child, its descendants and the operator cannot touch the evidence;  *)
(* a killed command loses what it carried.                                 *)
LEMMA WorldKeeps ==
  ASSUME IInv, Evidence,
         \/ \E p \in Procs : Interrupt(p) \/ Crash(p)
         \/ \E s \in Sessions : ChildWrite(s) \/ ChildFork(s) \/ ChildExit(s) \/ KinExit(s)
         \/ ManualUnlock \/ UNCHANGED vars
  PROVE  Evidence' /\ Unharmed
<1>1. TypeOK /\ WriterAlone
  BY DEF IInv
<1>. USE DEF disk, tree, family, local, vars
<1>2. /\ UNCHANGED <<made, now, safe, returned>>
      /\ \A t \in Sessions : child[t] = "reaped" => child'[t] = "reaped"
  <2>1. CASE \E p \in Procs : Crash(p)
    <3>1. PICK p \in Procs : Crash(p)
      BY <2>1
    <3>2. \/ UNCHANGED child
          \/ child' = [child EXCEPT ![tgt[p]] = IF @ = "reaped" THEN @ ELSE "gone"]
      BY <3>1 DEF Crash
    <3>. QED  BY <1>1, <3>1, <3>2 DEF Crash, TypeOK
  <2>2. CASE \E s \in Sessions : ChildExit(s)
    BY <1>1, <2>2 DEF ChildExit, TypeOK
  <2>. QED  BY <2>1, <2>2 DEF Interrupt, ChildWrite, ChildFork, KinExit, ManualUnlock
<1>3. ASSUME NEW t \in Sessions
      PROVE  /\ Blank(t)' /\ Behind(t)' /\ Waited(t)' /\ SoundFor(t, now[t])'
             /\ Grown(t) /\ CopyKept(t)
  <2>1. Kept(t) /\ Behind(t)
    BY <1>2 DEF Kept, Evidence
  <2>2. Behind(t)' /\ Grown(t)
    BY <1>1, <2>1, KeptGrown
  <2>. QED  BY <1>2, <2>2 DEF Evidence, Blank, Waited, SoundFor, CopyKept
<1>4. ASSUME NEW q \in Procs PROVE Carries(q, tgt[q])'
  <2>1. CASE \E p \in Procs : Crash(p)
    <3>1. pc'[q] = "idle"
      BY <1>1, <2>1 DEF Crash, Forget, Goto, WriterAlone, TypeOK
    <3>. QED  BY <3>1 DEF Carries, Carrying, Reconciles, Examined
  <2>2. CASE ~\E p \in Procs : Crash(p)
    <3>1. UNCHANGED <<pc, tgt, mem, found, shot>>
      BY <2>2 DEF Interrupt, ChildWrite, ChildFork, ChildExit, KinExit, ManualUnlock
    <3>2. Carries(q, tgt[q]) /\ tgt[q] \in Sessions
      BY <1>1 DEF Evidence, TypeOK
    <3>. QED  BY <1>2, <3>1, <3>2 DEF Carries
  <2>. QED  BY <2>1, <2>2
<1>. QED  BY <1>3, <1>4 DEF Evidence, Unharmed

(* A power cut leaves an earlier version of each journal, and of a copy    *)
(* either what was there or less.                                          *)
LEMMA PowerKeeps ==
  ASSUME IInv, Evidence, PowerLoss
  PROVE  Evidence' /\ Unharmed
<1>1. TypeOK
  BY DEF IInv
<1>2. /\ (now' = safe /\ safe' = safe) \/ (safe' = now /\ now' = now)
      /\ UNCHANGED made
      /\ \A t \in Sessions : child[t] = "reaped" => child'[t] = "reaped"
      /\ \A q \in Procs : pc'[q] = "idle"
  BY DEF PowerLoss
<1>3. \A q \in Procs : Carries(q, tgt[q])'
  BY <1>2 DEF Carries, Carrying, Reconciles, Examined
<1>4. ASSUME NEW t \in Sessions
      PROVE  /\ Blank(t)' /\ Behind(t)' /\ Waited(t)' /\ SoundFor(t, now[t])'
             /\ Grown(t) /\ CopyKept(t)
  <2>1. Blank(t) /\ Behind(t) /\ Waited(t) /\ SoundFor(t, now[t])
    BY DEF Evidence
  <2>2. /\ IsPrefixOf(now[t].transitions, now[t].transitions)
        /\ IsPrefixOf(safe[t].transitions, safe[t].transitions)
    BY <1>1, JournalHistory, PrefixReflexive
  <2>3. Behind(t)' /\ Grown(t)
    BY <1>2, <2>1, <2>2 DEF Behind, Grown
  <2>4. Blank(t)' /\ Waited(t)'
    BY <1>2, <2>1 DEF Blank, Waited
  <2>5. PICK copies \in SUBSET Members :
          returned' = [s \in Sessions |->
            [m \in Members |-> IF now'[s].state # "candidate" /\ m \in copies
                                 THEN Missing ELSE returned[s][m]]]
    BY DEF PowerLoss
  <2>6. /\ returned[t] \in [Members -> Contents]
        /\ returned'[t] = [m \in Members |-> IF now'[t].state # "candidate" /\ m \in copies
                                               THEN Missing ELSE returned[t][m]]
    BY <1>1, <2>5 DEF TypeOK, Trees
  <2>7. CopyKept(t)
    BY <2>6 DEF CopyKept
  <2>8. SoundFor(t, now[t])'
    <3>1. CASE now'[t].state = "candidate"
      <4>1. now'[t] = now[t] /\ now[t].state = "candidate"
        BY <1>2, <2>1, <3>1 DEF Behind
      <4>2. returned'[t] = returned[t]
        BY <2>6, <3>1
      <4>. QED  BY <2>1, <4>1, <4>2 DEF SoundFor
    <3>2. CASE now'[t].state # "candidate"
      BY <3>2 DEF SoundFor
    <3>. QED  BY <3>1, <3>2
  <2>. QED  BY <2>3, <2>4, <2>7, <2>8
<1>. QED  BY <1>3, <1>4 DEF Evidence, Unharmed

LEMMA NextKeeps ==
  ASSUME IInv, Evidence, [Next]_vars
  PROVE  Evidence' /\ Unharmed
BY BeginKeeps, CommandKeeps, WorldKeeps, PowerKeeps DEF Next, World

LEMMA InitEvidence ==
  ASSUME Init
  PROVE  Evidence
<1>1. << >> \in Seq(States) /\ IsPrefixOf(<< >>, << >>)
  <2>1. << >> \in Seq(States)
    OBVIOUS
  <2>2. PICK a \in Seq(States) : a = << >>
    BY <2>1
  <2>3. IsPrefixOf(a, a)
    BY PrefixReflexive
  <2>. QED  BY <2>1, <2>2, <2>3
<1>2. \A s \in Sessions : Blank(s) /\ Behind(s) /\ Waited(s) /\ SoundFor(s, now[s])
  BY <1>1 DEF Init, Blank, Behind, Waited, SoundFor, NoJournal, AfterReturn
<1>3. \A p \in Procs : Carries(p, tgt[p])
  BY DEF Init, Carries, Carrying, Reconciles, Examined
<1>. QED  BY <1>2, <1>3 DEF Evidence

-----------------------------------------------------------------------------
(* The theorems.                                                           *)

(* What is known of a session's evidence at every step.                    *)
THEOREM SpecEvidence == Spec => [](IInv /\ Evidence)
<1>1. Init => IInv /\ Evidence
  BY InitIInv, InitEvidence
<1>2. IInv /\ Evidence /\ [Next]_vars => (IInv /\ Evidence)'
  BY NextIInv, NextKeeps
<1>. QED  BY <1>1, <1>2, PTL DEF Spec

(* What each step of a command relies on holds when it is taken.           *)
THEOREM StepsHold == Spec => []CommandSteps
<1>1. IInv => CommandSteps
  BY DEF IInv
<1>. QED  BY <1>1, SpecIInv, PTL

(* A journal that says returned, or anything after it, is of a session     *)
(* whose child was waited for, also after crashes and power cuts           *)
(* (run_session, reconcile_locked).                                        *)
THEOREM ReturnedReaped == Spec => []ReturnedMeansReaped
<1>1. Evidence => ReturnedMeansReaped
  BY DEF Evidence, Waited, ReturnedMeansReaped
<1>. QED  BY <1>1, SpecEvidence, PTL

(* A candidate is a complete, readable capture of a clean process, equal   *)
(* to the retained copy, with no finding of any attempt forgotten.         *)
THEOREM SoundCandidate == Spec => []CandidateSound
<1>1. Evidence => CandidateSound
  BY DEF Evidence, SoundFor, CandidateSound
<1>. QED  BY <1>1, SpecEvidence, PTL

(* The durable history of a session only grows, and what a reader sees     *)
(* extends it (transition, persist).                                       *)
THEOREM GrowingHistory == Spec => HistoryGrows
<1>1. IInv /\ Evidence /\ [Next]_vars =>
        [\A s \in Sessions :
           /\ IsPrefixOf(safe[s].transitions, safe'[s].transitions)
           /\ IsPrefixOf(safe'[s].transitions, now'[s].transitions)]_vars
  BY NextKeeps DEF Unharmed, Grown
<1>. QED  BY <1>1, SpecEvidence, PTL DEF Spec, HistoryGrows

(* Neither a durable capture, nor a durable finding, nor a copied member   *)
(* is ever replaced (reconcile_locked).                                    *)
THEOREM KeptEvidence == Spec => EvidenceKept
<1>1. IInv /\ Evidence /\ [Next]_vars =>
        [\A s \in Sessions :
           /\ safe[s].capture # NoCapture => safe'[s].capture = safe[s].capture
           /\ safe[s].diagnostics \subseteq safe'[s].diagnostics
           /\ \A m \in Members :
                returned[s][m] # Missing => returned'[s][m] \in {Missing, returned[s][m]}]_vars
  BY NextKeeps DEF Unharmed, Grown, CopyKept
<1>. QED  BY <1>1, SpecEvidence, PTL DEF Spec, EvidenceKept
=============================================================================
