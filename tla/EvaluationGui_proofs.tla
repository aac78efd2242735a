------------------------ MODULE EvaluationGui_proofs ------------------------
(***************************************************************************)
(* Proofs about EvaluationGui for every set of expeditions, names and      *)
(* folder texts and for every number of requests, dialogs and changes of   *)
(* the store: its type invariant, that what is shown is fresh, that an     *)
(* open preview is backed by the observation on the screen, that a folder  *)
(* is only confirmed as it was checked, and that the dialog's callback     *)
(* finds a live application or none.                                       *)
(***************************************************************************)
EXTENDS EvaluationGui, TLAPS

-----------------------------------------------------------------------------
(* The inductive invariant, in parts.                                      *)

(* A job that the worker was given: its number was drawn before, and if it *)
(* checks for the draft d it checks the text that the draft has.           *)
QueuedAt(n, d) ==
  { job \in Jobs :
      /\ job.kind # "dialog"
      /\ job.id < n
      /\ job.kind = "check" /\ job.id = d.req => job.of = d.folder }

(* A completion: a dialog's answer, or a job with what it found, and if it *)
(* is the newest load it found a version no older than a.                  *)
FinishedAt(n, d, newest, a) ==
  { job \in Jobs :
      \/ job.kind = "dialog"
      \/ /\ job \in QueuedAt(n, d)
         /\ job.kind = "load" => job.found \in Stores
         /\ job.kind = "load" /\ job.id = newest => job.found.v >= a
         /\ job.kind = "check" => job.found \in BOOLEAN }

Queued == QueuedAt(next, draft)
Finished == FinishedAt(next, draft, loading.id, asked)

WorkerInv ==
  /\ work \in Seq(Queued) /\ completions \in Seq(Finished)
  /\ stopping \in BOOLEAN /\ owes \in BOOLEAN
  /\ held \in Queued \cup {NoJob}
  /\ held # NoJob <=> thread \in {"working", "finish"}
  /\ thread \in {"look", "waiting", "working", "finish", "gone"}
  /\ thread = "finish" => held \in Finished

(* Numbers are drawn in order; the store only moves on.                    *)
LoadInv ==
  /\ store \in Stores
  /\ next \in 1 .. MaxRequests + 1
  /\ loading \in [state : {"idle", "loading", "ready", "error"}, id : 0 .. MaxRequests]
  /\ asked \in 0 .. MaxVersion
  /\ snapshot \in Stores \cup {None}
  /\ loading.id < next
  /\ asked <= store.v
  /\ ShownIsFresh

ViewInv ==
  /\ screen \in {"lodge", "console", "setup"}
  /\ selected \in Expeditions \cup {None}
  /\ preview \in BOOLEAN /\ exit \in BOOLEAN
  /\ PreviewBacked

(* A check that is awaited has a number; a confirmation that waits for it  *)
(* was pressed on the text that the draft has.                             *)
SetupInv ==
  /\ draft \in Drafts
  /\ confirmed \in [name : Names, folder : Folders, checked : Folders \cup {None}]
  /\ pressed \in Folders \cup {None}
  /\ auto \in BOOLEAN
  /\ draft.req < next
  /\ draft.status = "checking" => draft.req # 0
  /\ auto => pressed = draft.folder
  /\ FolderChecked

(* A dialog that is open has a number of its own, and one is left for the  *)
(* check of what it answers.                                               *)
NativeInv ==
  /\ dialog \in 0 .. MaxDialogs /\ dialogs \in 0 .. MaxDialogs
  /\ call \in [at : {"none", "open", "locked"}, id : 0 .. MaxDialogs, of : Answers]
  /\ life \in {"open", "closing", "stopping", "joining", "gone"}
  /\ dialog # 0 => next <= MaxRequests
  /\ call.at # "none" => call.id # 0
  /\ PostsToLiveApp

IInv == WorkerInv /\ LoadInv /\ ViewInv /\ SetupInv /\ NativeInv

-----------------------------------------------------------------------------
(* Queues: what a longer run of numbers and another draft leave of them.   *)

LEMMA SeqWiden ==
  ASSUME NEW S, NEW T, S \subseteq T, NEW q \in Seq(S)
  PROVE  q \in Seq(T)
OBVIOUS

LEMMA SeqStep ==
  ASSUME NEW S, NEW q \in Seq(S)
  PROVE  /\ << >> \in Seq(S)
         /\ \A x \in S : Append(q, x) \in Seq(S)
         /\ q # << >> => Head(q) \in S /\ Tail(q) \in Seq(S)
OBVIOUS

LEMMA JobFields ==
  ASSUME NEW job \in Jobs
  PROVE  /\ job.kind \in {"load", "check", "dialog"}
         /\ job.id \in Nat \ {0}
         /\ job.kind # "dialog" => job.id \in 1 .. MaxRequests
         /\ job.kind = "check" => job.of \in Folders
         /\ job.kind = "dialog" => job.id \in 1 .. MaxDialogs /\ job.of \in Answers
         /\ job # NoJob
BY GuiNulls DEF Jobs

LEMMA QueuedWiden ==
  ASSUME NEW n \in Nat, NEW m \in Nat, n <= m,
         NEW d \in Drafts, NEW e \in Drafts,
         \/ e.req = d.req /\ e.folder = d.folder
         \/ e.req = 0
         \/ e.req >= n
  PROVE  QueuedAt(n, d) \subseteq QueuedAt(m, e)
<1> SUFFICES ASSUME NEW job \in QueuedAt(n, d) PROVE job \in QueuedAt(m, e)
  OBVIOUS
<1>1. job \in Jobs /\ job.id < n /\ job.kind # "dialog"
  BY DEF QueuedAt
<1>2. job.id \in Nat \ {0} /\ job.id < m
  BY <1>1, JobFields
<1>3. e.req \in Nat /\ d.req \in Nat
  BY GuiConstants DEF Drafts
<1> QED
  BY <1>1, <1>2, <1>3 DEF QueuedAt

LEMMA FinishedWiden ==
  ASSUME NEW n \in Nat, NEW m \in Nat, n <= m,
         NEW d \in Drafts, NEW e \in Drafts,
         \/ e.req = d.req /\ e.folder = d.folder
         \/ e.req = 0
         \/ e.req >= n,
         NEW k \in Nat, NEW l \in Nat, NEW a \in Nat, NEW b \in Nat,
         (k = l /\ a = b) \/ l >= n
  PROVE  FinishedAt(n, d, k, a) \subseteq FinishedAt(m, e, l, b)
<1> SUFFICES ASSUME NEW job \in FinishedAt(n, d, k, a) PROVE job \in FinishedAt(m, e, l, b)
  OBVIOUS
<1>1. job \in Jobs
  BY DEF FinishedAt
<1>2. CASE job.kind = "dialog"
  BY <1>1, <1>2 DEF FinishedAt
<1>3. CASE job.kind # "dialog"
  <2>1. job \in QueuedAt(n, d)
    BY <1>3 DEF FinishedAt
  <2>2. job \in QueuedAt(m, e)
    BY <2>1, QueuedWiden
  <2>3. job.id \in Nat /\ job.id < n
    BY <1>1, <2>1, JobFields DEF QueuedAt
  <2>4. job.kind = "load" /\ job.id = l => job.found.v >= b
    BY <1>3, <2>3 DEF FinishedAt
  <2> QED
    BY <1>1, <1>3, <2>2, <2>4 DEF FinishedAt
<1> QED
  BY <1>2, <1>3

(* What an action may do to the numbers and the draft without disturbing   *)
(* a job that is queued or finished.                                       *)
LEMMA Widened ==
  ASSUME IInv, LoadInv', draft' \in Drafts, next' >= next,
         \/ draft'.req = draft.req /\ draft'.folder = draft.folder
         \/ draft'.req = 0
         \/ draft'.req >= next,
         (loading'.id = loading.id /\ asked' = asked) \/ loading'.id >= next
  PROVE  Queued \subseteq Queued' /\ Finished \subseteq Finished'
<1>1. next \in Nat /\ next' \in Nat
  BY GuiConstants DEF IInv, LoadInv
<1>2. draft \in Drafts
  BY DEF IInv, SetupInv
<1>3. loading.id \in Nat /\ loading'.id \in Nat /\ asked \in Nat /\ asked' \in Nat
  BY GuiConstants DEF IInv, LoadInv
<1>4. QueuedAt(next, draft) \subseteq QueuedAt(next', draft')
  BY <1>1, <1>2, QueuedWiden
<1>5. FinishedAt(next, draft, loading.id, asked) \subseteq FinishedAt(next', draft', loading'.id, asked')
  BY <1>1, <1>2, <1>3, FinishedWiden
<1> QED
  BY <1>4, <1>5 DEF Queued, Finished

LEMMA Idle ==
  ASSUME WorkerInv, UNCHANGED worker, Queued \subseteq Queued', Finished \subseteq Finished'
  PROVE  WorkerInv'
<1>1. work \in Seq(Queued') /\ completions \in Seq(Finished')
  BY SeqWiden DEF WorkerInv
<1> QED
  BY <1>1 DEF WorkerInv, worker

LEMMA Submitted ==
  ASSUME WorkerInv, Queued \subseteq Queued', Finished \subseteq Finished',
         NEW job \in Queued', Submit(job)
  PROVE  WorkerInv'
<1>1. work \in Seq(Queued') /\ completions \in Seq(Finished')
  BY SeqWiden DEF WorkerInv
<1>2. work' \in Seq(Queued')
  BY <1>1, SeqStep DEF Submit, Enqueue
<1>3. owes' \in BOOLEAN
  BY DEF Submit, Enqueue, WorkerInv
<1> QED
  BY <1>1, <1>2, <1>3 DEF WorkerInv, Submit

LEMMA Posted ==
  ASSUME WorkerInv, Queued \subseteq Queued', Finished \subseteq Finished',
         NEW job \in Finished', Post(job)
  PROVE  WorkerInv'
<1>1. work \in Seq(Queued') /\ completions \in Seq(Finished')
  BY SeqWiden DEF WorkerInv
<1>2. completions' \in Seq(Finished')
  BY <1>1, SeqStep DEF Post
<1> QED
  BY <1>1, <1>2 DEF WorkerInv, Post

(* A completion that is drained, where the handler submits nothing.        *)
LEMMA Popped ==
  ASSUME WorkerInv, Queued \subseteq Queued', Finished \subseteq Finished',
         NEW kind, Drained(kind), UNCHANGED <<work, owes>>
  PROVE  WorkerInv'
<1>1. work \in Seq(Queued') /\ completions \in Seq(Finished')
  BY SeqWiden DEF WorkerInv
<1>2. completions' \in Seq(Finished')
  BY <1>1, SeqStep DEF Drained
<1> QED
  BY <1>1, <1>2 DEF WorkerInv, Drained

(* The completion at the head of the queue.                                *)
LEMMA Headed ==
  ASSUME WorkerInv, NEW kind, Drained(kind), kind \in {"load", "check", "dialog"}
  PROVE  /\ Head(completions) \in Finished
         /\ Head(completions).kind = kind
<1>1. completions \in Seq(Finished)
  BY DEF WorkerInv
<1> QED
  BY <1>1, SeqStep DEF Drained

LEMMA TypesOK ==
  ASSUME IInv
  PROVE  TypeOK
<1>1. Queued \subseteq Jobs /\ Finished \subseteq Jobs
  BY DEF Queued, QueuedAt, Finished, FinishedAt
<1>2. work \in Seq(Jobs) /\ completions \in Seq(Jobs)
  BY <1>1, SeqWiden DEF IInv, WorkerInv
<1> QED
  BY <1>1, <1>2 DEF IInv, WorkerInv, LoadInv, ViewInv, SetupInv, NativeInv, TypeOK

-----------------------------------------------------------------------------
(* Every action preserves the invariant.                                   *)

LEMMA InitHolds == Init => IInv
<1> SUFFICES ASSUME Init PROVE IInv
  OBVIOUS
<1>1. WorkerInv
  <2>1. << >> \in Seq(Queued) /\ << >> \in Seq(Finished)
    OBVIOUS
  <2> QED
    BY <2>1 DEF Init, WorkerInit, WorkerInv
<1>2. LoadInv
  BY GuiConstants DEF Init, LoadInv, Stores, ShownIsFresh
<1>3. ViewInv
  BY DEF Init, ViewInv, PreviewBacked
<1>4. SetupInv
  <2>1. EmptyDraft \in Drafts /\ EmptyDraft.req = 0 /\ EmptyDraft.status = "unchecked"
    BY GuiConstants DEF EmptyDraft, Drafts
  <2>2. /\ draft = EmptyDraft /\ confirmed.folder = Blank
        /\ pressed = None /\ auto = FALSE /\ next = 1
    BY DEF Init
  <2>3. confirmed \in [name : Names, folder : Folders, checked : Folders \cup {None}]
    BY GuiConstants DEF Init
  <2> QED
    <3>1. FolderChecked
      BY <2>1, <2>2 DEF FolderChecked
    <3>2. draft \in Drafts /\ draft.req < next /\ draft.status # "checking"
      BY <2>1, <2>2
    <3> QED
      BY <2>2, <2>3, <3>1, <3>2 DEF SetupInv
<1>5. NativeInv
  BY GuiConstants DEF Init, NativeInv, Answers, PostsToLiveApp
<1> QED
  BY <1>1, <1>2, <1>3, <1>4, <1>5 DEF IInv

LEMMA ReloadHolds == ASSUME IInv, Reload PROVE IInv'
<1>1. next \in 1 .. MaxRequests
  BY GuiConstants DEF IInv, LoadInv, NativeInv, Reload, NumberLeft
<1>2. LoadInv'
  <2>1. store \in Stores /\ store.v \in 0 .. MaxVersion
    BY DEF IInv, LoadInv, Stores
  <2> QED
    BY <1>1, <2>1, GuiConstants DEF IInv, LoadInv, Reload, ShownIsFresh
<1>3. ViewInv'
  BY DEF IInv, ViewInv, PreviewBacked, Reload, view
<1>4. SetupInv'
  <2>1. draft.req \in Nat /\ draft.req < next'
    BY <1>1, GuiConstants DEF IInv, SetupInv, Drafts, Reload
  <2>2. UNCHANGED <<draft, auto, confirmed, pressed>>
    BY DEF Reload, setup
  <2> QED
    BY <2>1, <2>2 DEF IInv, SetupInv, FolderChecked
<1>5. NativeInv'
  BY <1>1, GuiConstants DEF IInv, NativeInv, PostsToLiveApp, Reload, NumberLeft, native
<1>6. Queued \subseteq Queued' /\ Finished \subseteq Finished'
  <2>1. draft' = draft /\ next' >= next /\ loading'.id >= next
    BY <1>1, GuiConstants DEF Reload, setup
  <2> QED
    BY <1>2, <2>1, Widened DEF IInv, SetupInv
<1>7. Job("load", next, None) \in Queued'
  BY <1>1 DEF Job, Queued, QueuedAt, Jobs, Reload
<1>8. WorkerInv'
  BY <1>6, <1>7, Submitted DEF IInv, Reload
<1> QED
  BY <1>2, <1>3, <1>4, <1>5, <1>8 DEF IInv

LEMMA DrainLoadHolds == ASSUME IInv, DrainLoad PROVE IInv'
<1> DEFINE job == Head(completions)
<1>1. job \in Finished /\ job.kind = "load"
  BY Headed DEF IInv, DrainLoad
<1>2. job.found \in Stores /\ (job.id = loading.id => job.found.v >= asked)
  BY <1>1 DEF Finished, FinishedAt
<1>3. LoadInv' /\ loading'.id = loading.id
  <2>1. loading \in [state : {"idle", "loading", "ready", "error"}, id : 0 .. MaxRequests]
    BY DEF IInv, LoadInv
  <2>2. CASE LoadAnswers(job)
    <3>1. Show(job.found)
      BY <2>2 DEF DrainLoad
    <3>2. loading'.id = loading.id /\ loading' \in [state : {"ready", "error"}, id : 0 .. MaxRequests]
      BY <3>1, <2>1 DEF Show
    <3>3. loading'.state = "ready" => snapshot' = job.found
      BY <3>1, <2>1 DEF Show
    <3>4. snapshot' \in Stores \cup {None}
      BY <3>1, <1>2 DEF Show
    <3>5. job.found # None /\ job.found.v >= asked
      BY <1>2, <2>2, GuiNulls DEF LoadAnswers
    <3> QED
      BY <3>2, <3>3, <3>4, <3>5 DEF IInv, LoadInv, ShownIsFresh, DrainLoad
  <2>3. CASE ~LoadAnswers(job)
    BY <2>3 DEF IInv, LoadInv, ShownIsFresh, DrainLoad
  <2> QED
    BY <2>2, <2>3
<1>4. ViewInv'
  <2>1. CASE LoadAnswers(job)
    <3>1. Show(job.found)
      BY <2>1 DEF DrainLoad
    <3>2. job.found # None
      BY <1>2, GuiNulls
    <3>3. preview' = (preview /\ job.found.ok /\ selected \in job.found.exps)
      BY <3>1 DEF Show
    <3> QED
      BY <3>1, <3>2, <3>3 DEF Show, IInv, ViewInv, PreviewBacked, DrainLoad
  <2>2. CASE ~LoadAnswers(job)
    BY <2>2 DEF IInv, ViewInv, PreviewBacked, DrainLoad
  <2> QED
    BY <2>1, <2>2
<1>5. SetupInv'
  BY DEF IInv, SetupInv, FolderChecked, DrainLoad, setup
<1>6. NativeInv'
  BY DEF IInv, NativeInv, PostsToLiveApp, DrainLoad, native
<1>7. Queued \subseteq Queued' /\ Finished \subseteq Finished'
  <2>1. draft' = draft /\ next' = next /\ asked' = asked
    BY DEF DrainLoad, setup
  <2> QED
    BY <1>3, <2>1, GuiConstants, Widened DEF IInv, SetupInv, LoadInv
<1>8. WorkerInv'
  BY <1>7, Popped DEF IInv, DrainLoad
<1> QED
  BY <1>3, <1>4, <1>5, <1>6, <1>8 DEF IInv

(* The actions of the user that ask the worker for nothing: what they do   *)
(* to the draft leaves the queues as they are.                             *)
LEMMA Quiet ==
  ASSUME IInv, UNCHANGED <<worker, store, load, native, life>>, SetupInv',
         \/ draft'.req = draft.req /\ draft'.folder = draft.folder
         \/ draft'.req = 0
  PROVE  WorkerInv' /\ LoadInv' /\ NativeInv'
<1>1. LoadInv'
  BY DEF IInv, LoadInv, ShownIsFresh, load
<1>2. NativeInv'
  BY DEF IInv, NativeInv, PostsToLiveApp, native, load
<1>3. Queued \subseteq Queued' /\ Finished \subseteq Finished'
  <2>1. next' >= next /\ loading'.id = loading.id /\ asked' = asked
    BY GuiConstants DEF IInv, LoadInv, load
  <2>2. draft' \in Drafts
    BY DEF SetupInv
  <2> QED
    BY <1>1, <2>1, <2>2, Widened
<1>4. WorkerInv'
  BY <1>3, Idle DEF IInv
<1> QED
  BY <1>1, <1>2, <1>4

LEMMA NavigateHolds ==
  ASSUME IInv, NEW where \in {"console", "setup", "exit"}, Navigate(where)
  PROVE  IInv'
<1>1. SetupInv' /\ (draft' = draft \/ draft'.req = 0)
  <2>1. CASE where = "setup"
    <3>1. draft' = [EmptyDraft EXCEPT !.name = confirmed.name, !.folder = confirmed.folder]
      BY <2>1 DEF Navigate
    <3>2. /\ draft' = [name |-> confirmed.name, folder |-> confirmed.folder, req |-> 0,
                       status |-> "unchecked", checked |-> None]
      BY <3>1 DEF EmptyDraft
    <3>3. draft' \in Drafts /\ draft'.req = 0 /\ draft'.status = "unchecked"
      BY <3>2, GuiConstants DEF IInv, SetupInv, Drafts
    <3>4. 0 < next' /\ auto' = FALSE /\ pressed' \in Folders \cup {None} /\ confirmed' = confirmed
      BY <2>1, GuiConstants DEF IInv, LoadInv, SetupInv, Navigate, load
    <3> QED
      BY <3>3, <3>4 DEF IInv, SetupInv, FolderChecked
  <2>2. CASE where # "setup"
    BY <2>2 DEF IInv, SetupInv, FolderChecked, Navigate, load
  <2> QED
    BY <2>1, <2>2
<1>2. ViewInv'
  BY DEF IInv, ViewInv, PreviewBacked, Navigate, load
<1> QED
  BY <1>1, <1>2, Quiet DEF IInv, Navigate

LEMMA BackHolds == ASSUME IInv, Back PROVE IInv'
<1>1. SetupInv' /\ (draft' = draft \/ draft'.req = 0)
  <2>1. CASE ~preview /\ screen = "setup"
    <3>1. draft' = EmptyDraft /\ auto' = FALSE
      BY <2>1 DEF Back
    <3>2. draft' \in Drafts /\ draft'.req = 0 /\ draft'.status = "unchecked"
      BY <3>1, GuiConstants DEF EmptyDraft, Drafts
    <3>3. 0 < next' /\ auto' = FALSE /\ pressed' \in Folders \cup {None} /\ confirmed' = confirmed
      BY <2>1, GuiConstants DEF IInv, LoadInv, SetupInv, Back, load
    <3> QED
      BY <3>1, <3>2, <3>3 DEF IInv, SetupInv, FolderChecked
  <2>2. CASE ~(~preview /\ screen = "setup")
    BY <2>2 DEF IInv, SetupInv, FolderChecked, Back, load
  <2> QED
    BY <2>1, <2>2
<1>2. ViewInv'
  BY DEF IInv, ViewInv, PreviewBacked, Back, load
<1> QED
  BY <1>1, <1>2, Quiet DEF IInv, Back

LEMMA SelectHolds ==
  ASSUME IInv, NEW e \in Expeditions, SelectExpedition(e)
  PROVE  IInv'
<1>1. SetupInv' /\ draft' = draft
  BY DEF IInv, SetupInv, FolderChecked, SelectExpedition, load, setup
<1>2. ViewInv'
  BY DEF IInv, ViewInv, PreviewBacked, SelectExpedition, load
<1>3. UNCHANGED <<worker, store, load, native, life>>
  BY DEF SelectExpedition
<1> QED
  BY <1>1, <1>2, <1>3, Quiet DEF IInv

LEMMA OpenPreviewHolds == ASSUME IInv, OpenPreview PROVE IInv'
<1>1. SetupInv' /\ draft' = draft
  BY DEF IInv, SetupInv, FolderChecked, OpenPreview, load, setup
<1>2. ViewInv'
  BY DEF IInv, ViewInv, PreviewBacked, OpenPreview, load
<1>3. UNCHANGED <<worker, store, load, native, life>>
  BY DEF OpenPreview
<1> QED
  BY <1>1, <1>2, <1>3, Quiet DEF IInv

LEMMA EditNameHolds ==
  ASSUME IInv, NEW name \in Names, EditName(name)
  PROVE  IInv'
<1>1. draft' \in Drafts /\ draft' = [draft EXCEPT !.name = name]
  BY DEF IInv, SetupInv, Drafts, EditName
<1>2. /\ draft'.req = draft.req /\ draft'.folder = draft.folder
      /\ draft'.status = draft.status /\ draft'.checked = draft.checked
  BY <1>1 DEF IInv, SetupInv, Drafts
<1>3. SetupInv'
  BY <1>1, <1>2 DEF IInv, SetupInv, FolderChecked, EditName, load
<1>4. ViewInv'
  BY DEF IInv, ViewInv, PreviewBacked, EditName, view, load
<1> QED
  BY <1>2, <1>3, <1>4, Quiet DEF IInv, EditName

(* Drafts that are edited or checked are drafts.                           *)
LEMMA DraftRetyped ==
  ASSUME draft \in Drafts, NEW folder \in Folders
  PROVE  /\ Retyped(folder) \in Drafts
         /\ Retyped(folder).folder = folder /\ Retyped(folder).req = 0
         /\ Retyped(folder).status = "unchecked"
<1>1. 0 \in 0 .. MaxRequests
  BY GuiConstants
<1>2. Retyped(folder) \in Drafts
  BY <1>1 DEF Retyped, Drafts
<1>3. Retyped(folder).folder = folder /\ Retyped(folder).req = 0
      /\ Retyped(folder).status = "unchecked"
  BY DEF Retyped, Drafts
<1> QED
  BY <1>2, <1>3

LEMMA EditFolderHolds ==
  ASSUME IInv, NEW folder \in Folders, EditFolder(folder)
  PROVE  IInv'
<1>1. draft \in Drafts
  BY DEF IInv, SetupInv
<1>2. /\ Retyped(folder) \in Drafts
      /\ Retyped(folder).req = 0 /\ Retyped(folder).status = "unchecked"
  BY <1>1, DraftRetyped
<1>3. draft' = draft \/ draft' = Retyped(folder)
  BY DEF EditFolder
<1>4. SetupInv'
  <2>1. CASE SameFolder(folder)
    <3>1. draft' = draft /\ auto' = auto
      BY <2>1 DEF EditFolder, StillConfirmed, IInv, SetupInv
    <3> QED
      BY <3>1 DEF IInv, SetupInv, FolderChecked, EditFolder, load
  <2>2. CASE ~SameFolder(folder)
    <3>1. draft' = Retyped(folder) /\ auto' = FALSE
      BY <2>2 DEF EditFolder, StillConfirmed
    <3>2. 0 < next'
      BY GuiConstants DEF IInv, LoadInv, EditFolder, load
    <3>3. draft' \in Drafts /\ draft'.req = 0 /\ draft'.status = "unchecked"
      BY <3>1, <1>2
    <3> QED
      BY <3>1, <3>2, <3>3 DEF IInv, SetupInv, FolderChecked, EditFolder
  <2> QED
    BY <2>1, <2>2
<1>5. ViewInv'
  BY DEF IInv, ViewInv, PreviewBacked, EditFolder, view, load
<1>6. UNCHANGED <<worker, store, load, native, life>>
  BY DEF EditFolder
<1>7. (draft'.req = draft.req /\ draft'.folder = draft.folder) \/ draft'.req = 0
  BY <1>2, <1>3
<1> QED
  BY <1>4, <1>5, <1>6, <1>7, Quiet DEF IInv

(* A draft is committed with a folder that is blank or that was checked.   *)
LEMMA Committed ==
  ASSUME NEW d \in Drafts, Commit(d), 0 < next', pressed' \in Folders \cup {None},
         d.folder = Blank \/ d.checked = d.folder
  PROVE  SetupInv' /\ draft'.req = 0 /\ screen' = "lodge"
<1>1. draft' \in Drafts /\ draft'.req = 0 /\ draft'.status = "unchecked"
  BY GuiConstants DEF Commit, EmptyDraft, Drafts
<1>2. d.folder \in Folders /\ d.folder # None
  BY GuiConstants DEF Drafts
<1>3. /\ confirmed'.folder = Trimmed[d.folder] /\ confirmed'.checked = d.checked
      /\ confirmed' \in [name : Names, folder : Folders, checked : Folders \cup {None}]
  BY GuiConstants DEF Commit, Drafts
<1>4. FolderChecked'
  <2>1. confirmed'.folder # Blank => d.folder # Blank
    BY <1>2, <1>3, GuiConstants
  <2>2. confirmed'.folder # Blank => confirmed'.checked # None
                                      /\ confirmed'.folder = Trimmed[confirmed'.checked]
    BY <1>2, <1>3, <2>1
  <2> QED
    BY <1>1, <2>2 DEF FolderChecked
<1>5. auto' = FALSE /\ screen' = "lodge"
  BY DEF Commit
<1> QED
  BY <1>1, <1>3, <1>4, <1>5 DEF SetupInv

LEMMA ConfirmHolds == ASSUME IInv, Confirm PROVE IInv'
<1> DEFINE id == IF draft.status = "checking" THEN draft.req ELSE next
<1>1. draft \in Drafts /\ screen = "setup" /\ pressed' = draft.folder /\ ~preview
  BY DEF IInv, SetupInv, ViewInv, PreviewBacked, Confirm
<1>2. UNCHANGED <<store, loading, asked, snapshot, selected, preview, exit, native, life>>
  BY DEF Confirm
<1>3. /\ draft.name \in Names /\ draft.folder \in Folders /\ draft.req \in 0 .. MaxRequests
      /\ draft.status \in {"unchecked", "checking", "ok", "error"}
  BY <1>1 DEF Drafts
<1>4. CASE UNCHANGED <<worker, next, screen, draft, auto, confirmed>>
  <2>1. SetupInv' /\ draft' = draft
    BY <1>1, <1>3, <1>4 DEF IInv, SetupInv, FolderChecked
  <2>2. ViewInv'
    BY <1>1, <1>2, <1>4 DEF IInv, ViewInv, PreviewBacked
  <2>3. UNCHANGED <<worker, store, load, native, life>>
    BY <1>2, <1>4 DEF load
  <2> QED
    BY <2>1, <2>2, <2>3, Quiet DEF IInv
<1>5. CASE /\ draft.folder = Blank \/ draft.status = "ok"
           /\ Commit(draft) /\ UNCHANGED <<worker, next>>
  <2>1. draft.folder = Blank \/ draft.checked = draft.folder
    BY <1>5 DEF IInv, SetupInv, FolderChecked
  <2>2. SetupInv' /\ draft'.req = 0 /\ screen' = "lodge"
    <3>1. 0 < next' /\ pressed' \in Folders
      BY <1>1, <1>3, <1>5, GuiConstants DEF IInv, LoadInv
    <3> QED
      BY <1>1, <1>5, <2>1, <3>1, Committed
  <2>3. ViewInv'
    BY <1>1, <1>2, <2>2 DEF IInv, ViewInv, PreviewBacked
  <2>4. UNCHANGED <<worker, store, load, native, life>>
    BY <1>2, <1>5 DEF load
  <2> QED
    BY <2>2, <2>3, <2>4, Quiet DEF IInv
<1>6. CASE /\ draft.status \in {"unchecked", "checking"}
           /\ draft.status = "checking" \/ NumberLeft
           /\ auto' = TRUE
           /\ draft' = [draft EXCEPT !.status = "checking", !.req = id]
           /\ next' = IF draft.status = "checking" THEN next ELSE next + 1
           /\ Submit(Job("check", id, draft.folder))
           /\ UNCHANGED <<screen, confirmed>>
  <2>1. /\ next' \in 1 .. MaxRequests + 1 /\ next' >= next
        /\ id \in 1 .. MaxRequests /\ id < next' /\ (id = draft.req \/ id >= next)
        /\ dialog # 0 => next' <= MaxRequests
    <3>1. /\ next \in 1 .. MaxRequests + 1 /\ dialog \in Nat
          /\ draft.req < next /\ (draft.status = "checking" => draft.req # 0)
          /\ dialog # 0 => next <= MaxRequests
          /\ MaxRequests \in Nat
      BY GuiConstants DEF IInv, LoadInv, SetupInv, NativeInv
    <3>2. CASE draft.status = "checking"
      BY <1>3, <1>6, <3>1, <3>2, GuiConstants
    <3>3. CASE draft.status # "checking"
      BY <1>6, <3>1, <3>3, GuiConstants DEF NumberLeft
    <3> QED
      BY <3>2, <3>3
  <2>2. draft' \in Drafts /\ draft'.req = id /\ draft'.folder = draft.folder
        /\ draft'.status = "checking"
    <3>1. PICK i \in 1 .. MaxRequests : i = id
      BY <2>1
    <3>2. draft' = [draft EXCEPT !.status = "checking", !.req = i]
      BY <1>6, <3>1
    <3>3. i \in 0 .. MaxRequests
      BY GuiConstants
    <3>4. draft' \in Drafts
      BY <1>1, <3>2, <3>3 DEF Drafts
    <3>5. draft'.req = i /\ draft'.folder = draft.folder /\ draft'.status = "checking"
      BY <1>1, <3>2 DEF Drafts
    <3> QED
      BY <3>1, <3>4, <3>5
  <2>3. LoadInv'
    BY <1>2, <2>1, GuiConstants DEF IInv, LoadInv, ShownIsFresh
  <2>4. ViewInv'
    BY <1>1, <1>2, <1>6 DEF IInv, ViewInv, PreviewBacked
  <2>5. SetupInv'
    <3>1. draft'.status # "ok" /\ auto' = TRUE /\ pressed' = draft'.folder /\ draft'.req # 0
      BY <1>1, <1>6, <2>1, <2>2
    <3>2. FolderChecked'
      BY <1>6, <3>1 DEF IInv, SetupInv, FolderChecked
    <3>3. confirmed' = confirmed /\ pressed' \in Folders
      BY <1>1, <1>3, <1>6
    <3> QED
      BY <2>1, <2>2, <3>1, <3>2, <3>3 DEF IInv, SetupInv
  <2>6. NativeInv'
    BY <1>2, <2>1 DEF IInv, NativeInv, PostsToLiveApp, native
  <2>7. Queued \subseteq Queued' /\ Finished \subseteq Finished'
    BY <1>2, <2>1, <2>2, <2>3, Widened
  <2>8. Job("check", id, draft.folder) \in Queued'
    BY <1>3, <2>1, <2>2 DEF Job, Queued, QueuedAt, Jobs
  <2>9. WorkerInv'
    BY <1>6, <2>7, <2>8, Submitted DEF IInv
  <2> QED
    BY <2>3, <2>4, <2>5, <2>6, <2>9 DEF IInv
<1> QED
  BY <1>3, <1>4, <1>5, <1>6 DEF Confirm

LEMMA DrainCheckHolds == ASSUME IInv, DrainCheck PROVE IInv'
<1> DEFINE job == Head(completions)
<1>1. job \in Finished /\ job.kind = "check"
  BY Headed DEF IInv, DrainCheck
<1>2. /\ job.found \in BOOLEAN /\ job.of \in Folders
      /\ job.id = draft.req => job.of = draft.folder
  BY <1>1, JobFields DEF Finished, FinishedAt, QueuedAt
<1>3. PICK d : d = [draft EXCEPT !.status = IF job.found THEN "ok" ELSE "error", !.checked = job.of]
  OBVIOUS
<1>4. draft \in Drafts
  BY DEF IInv, SetupInv
<1>5. /\ d \in Drafts
      /\ d.folder = draft.folder /\ d.req = draft.req /\ d.checked = job.of
      /\ d.status \in {"ok", "error"}
  <2>1. PICK s \in {"ok", "error"} : s = IF job.found THEN "ok" ELSE "error"
    BY <1>2
  <2>2. PICK f \in Folders : f = job.of
    BY <1>2
  <2>3. d = [draft EXCEPT !.status = s, !.checked = f]
    BY <1>3, <2>1, <2>2
  <2>4. d \in Drafts
    BY <1>4, <2>3 DEF Drafts
  <2>5. d.folder = draft.folder /\ d.req = draft.req /\ d.checked = f /\ d.status = s
    BY <1>4, <2>3 DEF Drafts
  <2> QED
    BY <2>2, <2>4, <2>5
<1>6. UNCHANGED <<work, owes, store, load, selected, preview, exit, pressed, native, life>>
  BY DEF DrainCheck
<1>7. SetupInv' /\ ViewInv' /\ (draft'.req = 0 \/ (draft'.req = draft.req /\ draft'.folder = draft.folder))
  <2>1. 0 < next' /\ pressed' \in Folders \cup {None} /\ next' = next
    BY <1>6, GuiConstants DEF IInv, LoadInv, SetupInv, load
  <2>2. CASE ~CheckAnswers(job)
    <3>1. UNCHANGED <<screen, draft, auto, confirmed>>
      BY <2>2, <1>3 DEF DrainCheck
    <3> QED
      BY <1>6, <2>1, <3>1 DEF IInv, SetupInv, FolderChecked, ViewInv, PreviewBacked, load
  <2>3. CASE CheckAnswers(job) /\ job.found /\ auto
    <3>1. Commit(d)
      BY <2>3, <1>3 DEF DrainCheck
    <3>2. d.checked = d.folder
      BY <1>2, <1>5, <2>3 DEF CheckAnswers
    <3>3. SetupInv' /\ draft'.req = 0 /\ screen' = "lodge"
      BY <1>5, <2>1, <3>1, <3>2, Committed
    <3>4. ~preview
      BY <2>3 DEF IInv, ViewInv, PreviewBacked, CheckAnswers
    <3> QED
      BY <1>6, <3>3, <3>4 DEF IInv, ViewInv, PreviewBacked
  <2>4. CASE CheckAnswers(job) /\ ~(job.found /\ auto)
    <3>1. draft' = d /\ auto' = FALSE /\ UNCHANGED <<screen, confirmed>>
      BY <2>4, <1>3 DEF DrainCheck
    <3>2. d.checked = d.folder
      BY <1>2, <1>5, <2>4 DEF CheckAnswers
    <3>3. FolderChecked'
      BY <3>1, <3>2 DEF IInv, SetupInv, FolderChecked
    <3>4. SetupInv'
      BY <1>5, <2>1, <3>1, <3>3 DEF IInv, SetupInv
    <3>5. ViewInv'
      BY <1>6, <3>1 DEF IInv, ViewInv, PreviewBacked, load
    <3> QED
      BY <1>5, <3>1, <3>4, <3>5
  <2> QED
    BY <2>2, <2>3, <2>4
<1>8. LoadInv'
  BY <1>6 DEF IInv, LoadInv, ShownIsFresh, load
<1>9. NativeInv'
  BY <1>6 DEF IInv, NativeInv, PostsToLiveApp, native, load
<1>10. Queued \subseteq Queued' /\ Finished \subseteq Finished'
  <2>1. next' >= next /\ loading'.id = loading.id /\ asked' = asked
    BY <1>6, GuiConstants DEF IInv, LoadInv, load
  <2> QED
    BY <1>7, <1>8, <2>1, Widened DEF SetupInv
<1>11. WorkerInv'
  BY <1>6, <1>10, Popped DEF IInv, DrainCheck
<1> QED
  BY <1>7, <1>8, <1>9, <1>11 DEF IInv

LEMMA BrowseHolds == ASSUME IInv, Browse PROVE IInv'
<1>1. UNCHANGED <<worker, store, load, view, setup, life>>
  BY DEF Browse
<1>2. LoadInv' /\ ViewInv' /\ SetupInv'
  <2>1. LoadInv'
    BY <1>1 DEF IInv, LoadInv, ShownIsFresh, load
  <2>2. ViewInv'
    BY <1>1 DEF IInv, ViewInv, PreviewBacked, view, load
  <2>3. SetupInv'
    BY <1>1 DEF IInv, SetupInv, FolderChecked, setup, load
  <2> QED
    BY <2>1, <2>2, <2>3
<1>3. NativeInv'
  <2>1. PICK i \in 1 .. MaxDialogs : i = dialogs + 1
    BY GuiConstants DEF IInv, NativeInv, Browse
  <2>2. call' = [at |-> "open", id |-> i, of |-> None] /\ dialog' = i /\ dialogs' = i
    BY <2>1 DEF Browse
  <2>3. next' <= MaxRequests
    BY <1>1, GuiConstants DEF Browse, NumberLeft, load, IInv, LoadInv
  <2>4. i \in 0 .. MaxDialogs /\ i # 0
    BY GuiConstants
  <2>5. call' \in [at : {"none", "open", "locked"}, id : 0 .. MaxDialogs, of : Answers]
        /\ call'.id # 0 /\ call'.at # "locked"
    BY <2>2, <2>4 DEF Answers
  <2> QED
    BY <1>1, <2>2, <2>3, <2>4, <2>5 DEF IInv, NativeInv, PostsToLiveApp
<1>4. Queued \subseteq Queued' /\ Finished \subseteq Finished'
  BY <1>1 DEF Queued, Finished, load, setup
<1>5. WorkerInv'
  BY <1>1, <1>4, Idle DEF IInv
<1> QED
  BY <1>2, <1>3, <1>5 DEF IInv

LEMMA DialogAnswerHolds ==
  ASSUME IInv, NEW folder \in Answers, DialogAnswer(folder)
  PROVE  IInv'
<1>1. UNCHANGED <<worker, store, load, view, setup, dialog, dialogs, life>>
  BY DEF DialogAnswer
<1>2. LoadInv' /\ ViewInv' /\ SetupInv'
  <2>1. LoadInv'
    BY <1>1 DEF IInv, LoadInv, ShownIsFresh, load
  <2>2. ViewInv'
    BY <1>1 DEF IInv, ViewInv, PreviewBacked, view, load
  <2>3. SetupInv'
    BY <1>1 DEF IInv, SetupInv, FolderChecked, setup, load
  <2> QED
    BY <2>1, <2>2, <2>3
<1>3. NativeInv'
  <2>1. call \in [at : {"none", "open", "locked"}, id : 0 .. MaxDialogs, of : Answers]
        /\ call.id # 0
    BY DEF IInv, NativeInv, DialogAnswer
  <2>2. CASE life = "open"
    <3>1. call' = [call EXCEPT !.at = "locked", !.of = folder]
      BY <2>2 DEF DialogAnswer
    <3>2. call' \in [at : {"none", "open", "locked"}, id : 0 .. MaxDialogs, of : Answers]
      BY <2>1, <3>1
    <3>3. call'.id = call.id
      BY <2>1, <3>1
    <3> QED
      BY <1>1, <2>1, <2>2, <3>2, <3>3 DEF IInv, NativeInv, PostsToLiveApp, load
  <2>3. CASE life # "open"
    <3>1. call' = [call EXCEPT !.at = "none"]
      BY <2>3 DEF DialogAnswer
    <3>2. call' \in [at : {"none", "open", "locked"}, id : 0 .. MaxDialogs, of : Answers]
          /\ call'.at = "none"
      BY <2>1, <3>1
    <3> QED
      BY <1>1, <3>2 DEF IInv, NativeInv, PostsToLiveApp, load
  <2> QED
    BY <2>2, <2>3
<1>4. Queued \subseteq Queued' /\ Finished \subseteq Finished'
  BY <1>1 DEF Queued, Finished, load, setup
<1>5. WorkerInv'
  BY <1>1, <1>4, Idle DEF IInv
<1> QED
  BY <1>2, <1>3, <1>5 DEF IInv

LEMMA DialogPostHolds == ASSUME IInv, DialogPost PROVE IInv'
<1>1. UNCHANGED <<store, load, view, setup, dialog, dialogs, life>>
  BY DEF DialogPost
<1>2. LoadInv' /\ ViewInv' /\ SetupInv'
  <2>1. LoadInv'
    BY <1>1 DEF IInv, LoadInv, ShownIsFresh, load
  <2>2. ViewInv'
    BY <1>1 DEF IInv, ViewInv, PreviewBacked, view, load
  <2>3. SetupInv'
    BY <1>1 DEF IInv, SetupInv, FolderChecked, setup, load
  <2> QED
    BY <2>1, <2>2, <2>3
<1>3. call \in [at : {"none", "open", "locked"}, id : 0 .. MaxDialogs, of : Answers]
      /\ call.id # 0
  BY DEF IInv, NativeInv, DialogPost
<1>4. NativeInv'
  <2>1. call' = [call EXCEPT !.at = "none", !.of = None]
    BY DEF DialogPost
  <2>2. call' \in [at : {"none", "open", "locked"}, id : 0 .. MaxDialogs, of : Answers]
    BY <1>3, <2>1 DEF Answers
  <2>3. call'.at = "none"
    BY <1>3, <2>1
  <2> QED
    BY <1>1, <2>2, <2>3 DEF IInv, NativeInv, PostsToLiveApp, load
<1>5. Queued \subseteq Queued' /\ Finished \subseteq Finished'
  BY <1>1 DEF Queued, Finished, load, setup
<1>6. Job("dialog", call.id, call.of) \in Finished'
  <2>1. call.id \in 1 .. MaxDialogs /\ call.of \in Answers
    BY <1>3, GuiConstants
  <2> QED
    BY <2>1 DEF Job, Jobs, Finished, FinishedAt
<1>7. WorkerInv'
  BY <1>5, <1>6, Posted DEF IInv, DialogPost
<1> QED
  BY <1>2, <1>4, <1>7 DEF IInv

LEMMA DrainDialogHolds == ASSUME IInv, DrainDialog PROVE IInv'
<1> DEFINE job == Head(completions)
<1>1. job \in Finished /\ job.kind = "dialog"
  BY Headed DEF IInv, DrainDialog
<1>2. job.id \in 1 .. MaxDialogs /\ job.of \in Answers
  BY <1>1, JobFields DEF Finished, FinishedAt
<1>3. UNCHANGED <<store, loading, asked, snapshot, view, confirmed, pressed, dialogs, call, life>>
  BY DEF DrainDialog
<1>4. ViewInv'
  BY <1>3 DEF IInv, ViewInv, PreviewBacked, view
<1>5. CASE job.id # dialog \/ screen # "setup" \/ job.of = None
  <2>1. UNCHANGED <<work, owes, next, draft, auto>>
    BY <1>5 DEF DrainDialog
  <2>2. LoadInv'
    BY <1>3, <2>1 DEF IInv, LoadInv, ShownIsFresh
  <2>3. SetupInv'
    BY <1>3, <2>1 DEF IInv, SetupInv, FolderChecked
  <2>4. NativeInv'
    <3>1. dialog' \in {0, dialog}
      BY DEF DrainDialog
    <3>2. dialog' \in 0 .. MaxDialogs /\ (dialog' # 0 => next' <= MaxRequests)
      BY <2>1, <3>1, GuiConstants DEF IInv, NativeInv
    <3> QED
      BY <1>3, <3>2 DEF IInv, NativeInv, PostsToLiveApp
  <2>5. Queued \subseteq Queued' /\ Finished \subseteq Finished'
    BY <1>3, <2>1 DEF Queued, Finished
  <2>6. WorkerInv'
    BY <2>1, <2>5, Popped DEF IInv, DrainDialog
  <2> QED
    BY <1>4, <2>2, <2>3, <2>4, <2>6 DEF IInv
<1>6. CASE ~(job.id # dialog \/ screen # "setup" \/ job.of = None)
  <2>1. /\ next' = next + 1
        /\ draft' = [Retyped(job.of) EXCEPT !.status = "checking", !.req = next]
        /\ auto' = StillConfirmed(job.of)
        /\ Enqueue(Job("check", next, job.of))
        /\ dialog' = 0
    BY <1>6 DEF DrainDialog
  <2>2. PICK f \in Folders : f = job.of
    BY <1>2, <1>6 DEF Answers
  <2>3. next \in 1 .. MaxRequests
    <3>1. dialog # 0
      BY <1>2, <1>6
    <3> QED
      BY <3>1, GuiConstants DEF IInv, NativeInv, LoadInv
  <2>4. draft' \in Drafts /\ draft'.folder = f /\ draft'.req = next /\ draft'.status = "checking"
    <3>1. Retyped(f) \in Drafts /\ Retyped(f).folder = f
      BY DraftRetyped DEF IInv, SetupInv
    <3>2. PICK i \in 0 .. MaxRequests : i = next
      BY <2>3, GuiConstants
    <3>3. PICK d \in Drafts : d = Retyped(f)
      BY <3>1
    <3>4. draft' = [d EXCEPT !.status = "checking", !.req = i]
      BY <2>1, <2>2, <3>2, <3>3
    <3>5. draft' \in Drafts
      BY <3>4 DEF Drafts
    <3>6. draft'.folder = d.folder /\ draft'.req = i /\ draft'.status = "checking"
      BY <3>4 DEF Drafts
    <3> QED
      BY <3>1, <3>2, <3>3, <3>5, <3>6
  <2>5. auto' \in BOOLEAN /\ (auto' => pressed' = draft'.folder)
    BY <1>3, <2>1, <2>2, <2>4 DEF StillConfirmed, SameFolder, IInv, SetupInv
  <2>6. next' \in 1 .. MaxRequests + 1 /\ next < next'
    BY <2>1, <2>3, GuiConstants
  <2>7. LoadInv'
    BY <1>3, <2>1, <2>6, GuiConstants DEF IInv, LoadInv, ShownIsFresh
  <2>8. SetupInv'
    <3>1. FolderChecked'
      BY <1>3, <2>4 DEF IInv, SetupInv, FolderChecked
    <3>2. draft'.req < next' /\ draft'.req # 0
      BY <2>3, <2>4, <2>6
    <3> QED
      BY <1>3, <2>4, <2>5, <3>1, <3>2 DEF IInv, SetupInv
  <2>9. NativeInv'
    <3>1. dialog' = 0 /\ dialog' \in 0 .. MaxDialogs
      BY <2>1, GuiConstants
    <3> QED
      BY <1>3, <3>1 DEF IInv, NativeInv, PostsToLiveApp
  <2>10. Queued \subseteq Queued' /\ Finished \subseteq Finished'
    <3>1. next' >= next /\ draft'.req >= next /\ loading'.id = loading.id /\ asked' = asked
      BY <1>3, <2>3, <2>4, <2>6
    <3> QED
      BY <2>4, <2>7, <3>1, Widened
  <2>11. Job("check", next, job.of) \in Queued'
    BY <2>2, <2>3, <2>4, <2>6 DEF Job, Queued, QueuedAt, Jobs
  <2>12. WorkerInv'
    <3>1. work \in Seq(Queued') /\ completions \in Seq(Finished')
      BY <2>10, SeqWiden DEF IInv, WorkerInv
    <3>2. completions' \in Seq(Finished')
      BY <3>1, SeqStep DEF DrainDialog, Drained
    <3>3. work' \in Seq(Queued') /\ owes' \in BOOLEAN
      BY <2>1, <2>11, <3>1, SeqStep DEF Enqueue, IInv, WorkerInv
    <3>4. UNCHANGED <<stopping, held, thread>>
      BY DEF DrainDialog, Drained
    <3> QED
      BY <2>10, <3>2, <3>3, <3>4 DEF IInv, WorkerInv
  <2> QED
    BY <1>4, <2>7, <2>8, <2>9, <2>12 DEF IInv
<1> QED
  BY <1>5, <1>6

(* The actions of the worker, of its notifications, of the shutdown and of *)
(* the store leave the application's own variables alone.                  *)
LEMMA Aside ==
  ASSUME IInv, UNCHANGED <<load, view, setup, native>>,
         life' \in {"open", "closing", "stopping", "joining", "gone"},
         call.at = "locked" => life' = "open",
         store' \in Stores, store'.v >= store.v,
         WorkerInv' \/ UNCHANGED worker
  PROVE  IInv'
<1>1. LoadInv'
  <2>1. asked \in Nat /\ store.v \in Nat /\ store'.v \in Nat /\ asked <= store.v
    BY GuiConstants DEF IInv, LoadInv, Stores
  <2>2. asked' <= store'.v
    BY <2>1 DEF load
  <2> QED
    BY <2>2 DEF IInv, LoadInv, ShownIsFresh, load
<1>2. ViewInv'
  BY DEF IInv, ViewInv, PreviewBacked, view, load
<1>3. SetupInv'
  BY DEF IInv, SetupInv, FolderChecked, setup, load
<1>4. NativeInv'
  BY DEF IInv, NativeInv, PostsToLiveApp, native, load
<1>5. UNCHANGED worker => WorkerInv'
  <2>1. Queued \subseteq Queued' /\ Finished \subseteq Finished'
    BY DEF Queued, Finished, load, setup
  <2> QED
    BY <2>1, Idle DEF IInv
<1> QED
  BY <1>1, <1>2, <1>3, <1>4, <1>5 DEF IInv

LEMMA CloseHolds == ASSUME IInv, Close \/ StoreChanges PROVE IInv'
<1>1. UNCHANGED <<worker, load, view, setup, native>>
  BY DEF Close, StoreChanges
<1>2. CASE Close
  BY <1>1, <1>2, GuiConstants, Aside DEF Close, IInv, LoadInv, NativeInv, Stores
<1>3. CASE StoreChanges
  <2>1. PICK ok \in BOOLEAN, exps \in SUBSET Expeditions :
          store' = [v |-> store.v + 1, ok |-> ok, exps |-> exps]
    BY <1>3 DEF StoreChanges
  <2>2. store.v \in 0 .. MaxVersion /\ store.v < MaxVersion
    BY <1>3 DEF StoreChanges, IInv, LoadInv, Stores
  <2>3. store' \in Stores /\ store'.v >= store.v
    BY <2>1, <2>2, GuiConstants DEF Stores
  <2>4. life' = life
    BY <1>3 DEF StoreChanges
  <2> QED
    BY <1>1, <2>3, <2>4, Aside DEF IInv, NativeInv, PostsToLiveApp
<1> QED
  BY <1>2, <1>3

(* What a job finds keeps it among the queued ones and makes it finished:  *)
(* the store that is read now is no older than the newest load asks for.   *)
LEMMA Found ==
  ASSUME IInv, NEW job \in Queued,
         NEW seen \in IF job.kind = "load" THEN {store} ELSE BOOLEAN,
         NEW outcome, outcome = [job EXCEPT !.found = seen]
  PROVE  outcome \in Queued /\ outcome \in Finished
<1>1. job \in Jobs /\ job.kind \in {"load", "check"}
  BY JobFields DEF Queued, QueuedAt
<1>2. store \in Stores /\ store.v >= asked
  BY GuiConstants DEF IInv, LoadInv, Stores
<1>3. CASE job.kind = "load"
  <2>1. job \in [kind : {"load"}, id : 1 .. MaxRequests, of : {None}, found : Stores \cup {None}]
    BY <1>1, <1>3 DEF Jobs
  <2>2. outcome \in [kind : {"load"}, id : 1 .. MaxRequests, of : {None}, found : Stores \cup {None}]
    BY <1>2, <1>3, <2>1
  <2>3. outcome.kind = "load" /\ outcome.id = job.id /\ outcome.found = store
    BY <1>3, <2>1
  <2>4. outcome \in Jobs
    BY <2>2 DEF Jobs
  <2>5. outcome \in Queued
    BY <2>3, <2>4 DEF Queued, QueuedAt
  <2>6. outcome \in Finished
    BY <1>2, <2>3, <2>4, <2>5 DEF Queued, Finished, FinishedAt
  <2> QED
    BY <2>5, <2>6
<1>4. CASE job.kind = "check"
  <2>1. job \in [kind : {"check"}, id : 1 .. MaxRequests, of : Folders, found : BOOLEAN \cup {None}]
    BY <1>1, <1>4 DEF Jobs
  <2>2. seen \in BOOLEAN
    BY <1>4
  <2>3. outcome \in [kind : {"check"}, id : 1 .. MaxRequests, of : Folders, found : BOOLEAN \cup {None}]
    BY <2>1, <2>2
  <2>4. /\ outcome.kind = "check" /\ outcome.id = job.id /\ outcome.of = job.of
        /\ outcome.found \in BOOLEAN
    BY <2>1, <2>2
  <2>5. outcome \in Jobs
    BY <2>3 DEF Jobs
  <2>6. outcome \in Queued
    BY <1>4, <2>4, <2>5 DEF Queued, QueuedAt
  <2>7. outcome \in Finished
    BY <2>4, <2>5, <2>6 DEF Queued, Finished, FinishedAt
  <2> QED
    BY <2>6, <2>7
<1> QED
  BY <1>1, <1>3, <1>4

(* Steps of the worker, whatever thread makes them, while the application  *)
(* asks for what it asked for.                                             *)
WorkerStep ==
  \/ WorkerRuns \/ WorkerWakes \/ UiNotifies
  \/ (Stop \/ StopNotify \/ Join) /\ UNCHANGED <<store, load, view, setup, native>>

LEMMA WorkerKept == ASSUME IInv, WorkerStep PROVE WorkerInv'
<1>1. UNCHANGED <<store, load, view, setup, native>>
  BY DEF WorkerStep, WorkerRuns, WorkerWakes, UiNotifies
<1>2. Queued' = Queued /\ Finished' = Finished
  BY <1>1 DEF Queued, Finished, load, setup
<1>3. work \in Seq(Queued) /\ completions \in Seq(Finished) /\ held \in Queued \cup {NoJob}
  BY DEF IInv, WorkerInv
<1>4. NoJob \notin Queued /\ NoJob \notin Finished
  BY GuiNulls DEF Queued, QueuedAt, Finished, FinishedAt
<1>5. CASE Look
  <2>1. work # << >> => Head(work) \in Queued /\ Tail(work) \in Seq(Queued)
    BY <1>3, SeqStep
  <2>2. work' \in Seq(Queued) /\ held' \in Queued \cup {NoJob}
    BY <1>3, <1>5, <2>1 DEF Look
  <2>3. thread' \in {"gone", "waiting", "working"} /\ (held' # NoJob <=> thread' = "working")
    BY <1>4, <1>5, <2>1 DEF Look, IInv, WorkerInv
  <2> QED
    BY <1>2, <1>3, <1>5, <2>2, <2>3 DEF Look, IInv, WorkerInv
<1>6. ASSUME held # NoJob,
             NEW seen \in IF held.kind = "load" THEN {store} ELSE BOOLEAN,
             Work([held EXCEPT !.found = seen])
      PROVE  WorkerInv'
  <2>1. PICK outcome : outcome = [held EXCEPT !.found = seen]
    OBVIOUS
  <2>2. outcome \in Queued /\ outcome \in Finished
    BY <1>3, <1>6, <2>1, Found
  <2>3. Work(outcome)
    BY <1>6, <2>1
  <2> QED
    BY <1>2, <1>3, <1>4, <2>2, <2>3 DEF Work, IInv, WorkerInv
<1>7. CASE Finish
  <2>1. held \in Finished
    BY <1>7 DEF Finish, IInv, WorkerInv
  <2>2. completions' \in Seq(Finished)
    BY <1>3, <1>7, <2>1, SeqStep DEF Finish
  <2> QED
    BY <1>2, <1>3, <1>7, <2>2 DEF Finish, IInv, WorkerInv
<1>8. CASE SpuriousWakeup \/ SubmitNotify \/ StopNotify
  <2>1. thread' \in {thread, "look"} /\ (thread' # thread => thread = "waiting")
    BY <1>8 DEF SpuriousWakeup, SubmitNotify, StopNotify, Notified
  <2>2. owes' \in BOOLEAN /\ UNCHANGED <<work, completions, stopping, held>>
    BY <1>8 DEF SpuriousWakeup, SubmitNotify, StopNotify, IInv, WorkerInv
  <2> QED
    BY <1>2, <1>3, <2>1, <2>2 DEF IInv, WorkerInv
<1>9. CASE Stop \/ Join
  <2>1. << >> \in Seq(Queued) /\ << >> \in Seq(Finished)
    OBVIOUS
  <2>2. work' \in Seq(Queued) /\ completions' \in Seq(Finished) /\ stopping' \in BOOLEAN
    BY <1>3, <1>9, <2>1 DEF Stop, Join, IInv, WorkerInv
  <2> QED
    BY <1>2, <1>3, <1>9, <2>2 DEF Stop, Join, IInv, WorkerInv
<1> QED
  BY <1>5, <1>6, <1>7, <1>8, <1>9 DEF WorkerStep, WorkerRuns, WorkerWakes, UiNotifies

LEMMA AsideHolds ==
  ASSUME IInv, Dispose \/ WorkerRuns \/ WorkerWakes \/ UiNotifies
  PROVE  IInv'
<1>1. WorkerStep
  BY DEF Dispose, WorkerStep
<1>2. WorkerInv'
  BY <1>1, WorkerKept
<1>3. UNCHANGED <<store, load, view, setup, native>>
  BY <1>1 DEF WorkerStep, WorkerRuns, WorkerWakes, UiNotifies
<1>4. /\ life' \in {"open", "closing", "stopping", "joining", "gone"}
      /\ call.at = "locked" => life' = "open"
  BY DEF Dispose, WorkerRuns, WorkerWakes, UiNotifies, IInv, NativeInv, PostsToLiveApp
<1>5. store' \in Stores /\ store'.v >= store.v
  BY <1>3, GuiConstants DEF IInv, LoadInv, Stores
<1> QED
  BY <1>2, <1>3, <1>4, <1>5, Aside

LEMMA NextHolds == IInv /\ [Next]_vars => IInv'
<1> SUFFICES ASSUME IInv, [Next]_vars PROVE IInv'
  OBVIOUS
<1>1. CASE User
  BY <1>1, ReloadHolds, BackHolds, OpenPreviewHolds, ConfirmHolds, BrowseHolds, NavigateHolds,
     SelectHolds, EditNameHolds, EditFolderHolds, DialogAnswerHolds DEF User
<1>2. CASE Drain
  BY <1>2, DrainLoadHolds, DrainCheckHolds, DrainDialogHolds DEF Drain
<1>3. CASE DialogPost
  BY <1>3, DialogPostHolds
<1>4. CASE Close \/ StoreChanges
  BY <1>4, CloseHolds
<1>5. CASE Dispose \/ WorkerRuns \/ WorkerWakes \/ UiNotifies
  BY <1>5, AsideHolds
<1>6. CASE UNCHANGED vars
  <2>1. UNCHANGED <<worker, store, load, view, setup, native, life>>
    BY <1>6 DEF vars
  <2>2. store' \in Stores /\ store'.v >= store.v
    BY <2>1, GuiConstants DEF IInv, LoadInv, Stores
  <2> QED
    BY <2>1, <2>2, Aside DEF IInv, NativeInv, PostsToLiveApp
<1> QED
  BY <1>1, <1>2, <1>3, <1>4, <1>5, <1>6 DEF Next

-----------------------------------------------------------------------------
(* Theorems.                                                               *)

(* The invariant holds of every state of the GUI: what is queued and what  *)
(* is finished belongs to numbers that were drawn, a completion that the   *)
(* model still waits for answers what it asked, and a confirmation that    *)
(* waits was pressed on the text of the draft.                             *)
THEOREM SpecIInv == Spec => []IInv
<1>1. Init => IInv
  BY InitHolds
<1>2. IInv /\ [Next]_vars => IInv'
  BY NextHolds
<1> QED
  BY <1>1, <1>2, PTL DEF Spec

(* The variables of the GUI and of its worker keep their types, the bound  *)
(* of the request numbers among them.                                      *)
THEOREM SpecTypeOK == Spec => []TypeOK
<1>1. IInv => TypeOK
  BY TypesOK
<1> QED
  BY <1>1, SpecIInv, PTL

(* What is shown as ready was read after the newest reload was asked for   *)
(* (complete_load).                                                        *)
THEOREM SpecShownIsFresh == Spec => []ShownIsFresh
<1>1. IInv => ShownIsFresh
  BY DEF IInv, LoadInv
<1> QED
  BY <1>1, SpecIInv, PTL

(* An open preview shows an expedition of the observation on the screen    *)
(* behind it (complete_load, open_preview).                                *)
THEOREM SpecPreviewBacked == Spec => []PreviewBacked
<1>1. IInv => PreviewBacked
  BY DEF IInv, ViewInv
<1> QED
  BY <1>1, SpecIInv, PTL

(* A folder shown as checked, and one that is confirmed, is the text that  *)
(* was checked (complete_folder_check).                                    *)
THEOREM SpecFolderChecked == Spec => []FolderChecked
<1>1. IInv => FolderChecked
  BY DEF IInv, SetupInv
<1> QED
  BY <1>1, SpecIInv, PTL

(* The dialog's callback posts to a live application only (~App).          *)
THEOREM SpecPostsToLiveApp == Spec => []PostsToLiveApp
<1>1. IInv => PostsToLiveApp
  BY DEF IInv, NativeInv
<1> QED
  BY <1>1, SpecIInv, PTL

(* Settings are only ever confirmed with the folder that Confirm was       *)
(* pressed on, by Confirm itself or by the check that it waits for         *)
(* (confirm_setup, complete_folder_check).                                 *)
THEOREM ConfirmedCommits == Spec => CommitWasConfirmed
<1> DEFINE Pressed == confirmed' # confirmed => pressed' # None
                                                 /\ confirmed'.folder = Trimmed[pressed']
<1>1. ASSUME IInv, [Next]_vars PROVE Pressed
  <2>1. draft.folder \in Folders /\ draft.folder # None
    BY <1>1, GuiConstants DEF IInv, SetupInv, Drafts
  <2>2. CASE Confirm
    <3>1. pressed' = draft.folder
      BY <2>2 DEF Confirm
    <3>2. draft.status \in {"unchecked", "checking", "ok", "error"}
      BY <1>1 DEF IInv, SetupInv, Drafts
    <3>3. confirmed' = confirmed \/ Commit(draft)
      BY <2>2, <3>2 DEF Confirm
    <3> QED
      BY <2>1, <3>1, <3>3 DEF Commit
  <2>3. CASE DrainCheck
    <3> DEFINE job == Head(completions)
    <3>1. PICK t : t = IF job.found THEN "ok" ELSE "error"
      OBVIOUS
    <3>2. PICK d : d = [draft EXCEPT !.status = t, !.checked = job.of]
      OBVIOUS
    <3>3. confirmed' = confirmed \/ (auto /\ Commit(d))
      BY <2>3, <3>1, <3>2 DEF DrainCheck
    <3>4. d.folder = draft.folder
      BY <1>1, <3>2 DEF IInv, SetupInv, Drafts
    <3>5. auto => pressed = draft.folder
      BY <1>1 DEF IInv, SetupInv
    <3>6. pressed' = pressed
      BY <2>3 DEF DrainCheck
    <3>7. Commit(d) => confirmed'.folder = Trimmed[d.folder]
      BY DEF Commit
    <3> QED
      BY <2>1, <3>3, <3>4, <3>5, <3>6, <3>7
  <2>4. ASSUME ~Confirm, ~DrainCheck PROVE confirmed' = confirmed
    <3>1. ASSUME User PROVE confirmed' = confirmed
      BY <2>4, <3>1 DEF User, Reload, Back, OpenPreview, Browse, Navigate, SelectExpedition,
        EditName, EditFolder, DialogAnswer, setup
    <3>2. ASSUME Drain PROVE confirmed' = confirmed
      BY <2>4, <3>2 DEF Drain, DrainLoad, DrainDialog, setup
    <3>3. ASSUME ~User, ~Drain PROVE confirmed' = confirmed
      BY <1>1, <3>3 DEF Next, vars, UiNotifies, Close, Dispose, DialogPost, WorkerRuns, WorkerWakes,
        StoreChanges, setup
    <3> QED
      BY <3>1, <3>2, <3>3
  <2> QED
    BY <2>2, <2>3, <2>4
<1> QED
  BY <1>1, SpecIInv, PTL DEF Spec, CommitWasConfirmed
=============================================================================
