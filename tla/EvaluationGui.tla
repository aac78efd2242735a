---------------------------- MODULE EvaluationGui ----------------------------
(***************************************************************************)
(* The evaluation GUI of Frontend/gui: the presentation model (loading,    *)
(* routing, selection, preview, setup), the native folder dialog and the   *)
(* shutdown of App, over the worker (GuiWorker).                           *)
(*                                                                         *)
(* Three threads take part.  The UI thread handles the user's events,      *)
(* drains completions and closes the application; the worker reads the     *)
(* store and probes folders; a foreign thread runs the callback of the     *)
(* native folder dialog, whenever the user answers it, even after the      *)
(* application is gone.  The store and the folders change meanwhile.       *)
(*                                                                         *)
(* A completion carries the number of its request.  Bounds: MaxRequests    *)
(* numbers, one kept for the dialog that is open; MaxDialogs dialogs;      *)
(* MaxVersion changes of the store; loads are asked for up to the number   *)
(* LastLoad; and Confirm submits only while fewer than MaxQueue jobs and   *)
(* completions are queued.                                                 *)
(***************************************************************************)
EXTENDS GuiWorker, FiniteSets

CONSTANTS
  Expeditions,  \* identities of expedition rows
  Names,        \* hunter names a user can type, Blank among them
  Folders,      \* folder texts a user can type or choose, Blank among them
  Trimmed,      \* what trimmed makes of each folder text
  Blank,        \* every text that trims to nothing
  Default,      \* the hunter name an application starts with
  None,
  MaxRequests, MaxDialogs, MaxVersion, MaxQueue,
  LastLoad      \* loads are only asked for while next does not exceed it

ASSUME GuiConstants ==
  /\ Blank \in Names \cap Folders
  /\ Default \in Names \ {Blank}
  /\ Trimmed \in [Folders -> Folders]
  /\ \A folder \in Folders : Trimmed[folder] = Blank <=> folder = Blank
  /\ None \notin Expeditions \cup Names \cup Folders
  /\ MaxRequests \in Nat /\ MaxDialogs \in Nat /\ MaxVersion \in Nat
  /\ MaxQueue \in Nat /\ LastLoad \in Nat

VARIABLES
  store,      \* the store directory: version, readable or not, expeditions
  next,       \* next_request_
  loading,    \* [state, id]: load_state_ and load_request_
  asked,      \* history: the store's version when the newest load was asked for
  snapshot,   \* snapshot_: the store as last read, or None
  screen, selected, preview, exit,
  draft,      \* draft_: name, folder, status, req; checked: the text probed
  auto,       \* confirm_after_check_
  confirmed,  \* confirmed_: name, folder; checked as in draft
  pressed,    \* history: the folder text Confirm was last pressed on
  dialog,     \* dialog_request_, 0 when no dialog is pending
  dialogs,    \* dialog_counter_
  call,       \* the native dialog: none, open, or its callback in the sink mutex
  life        \* App: "open", then the steps of its destructor

load   == <<next, loading, asked, snapshot>>
view   == <<screen, selected, preview, exit>>
setup  == <<draft, auto, confirmed, pressed>>
native == <<dialog, dialogs, call>>
vars   == <<worker, store, load, view, setup, native, life>>

Stores == [v : 0 .. MaxVersion, ok : BOOLEAN, exps : SUBSET Expeditions]
Answers == (Folders \ {Blank}) \cup {None}
Drafts == [ name : Names, folder : Folders, req : 0 .. MaxRequests,
            status : {"unchecked", "checking", "ok", "error"},
            checked : Folders \cup {None} ]

EmptyDraft ==
  [ name |-> Blank, folder |-> Blank, req |-> 0, status |-> "unchecked", checked |-> None ]

Job(kind, id, of) == [kind |-> kind, id |-> id, of |-> of, found |-> None]

Jobs ==
  [kind : {"load"}, id : 1 .. MaxRequests, of : {None}, found : Stores \cup {None}]
  \cup [kind : {"check"}, id : 1 .. MaxRequests, of : Folders, found : BOOLEAN \cup {None}]
  \cup [kind : {"dialog"}, id : 1 .. MaxDialogs, of : Answers, found : {None}]

ASSUME GuiNulls ==
  /\ None \notin Stores \cup BOOLEAN
  /\ NoJob \notin Jobs

TypeOK ==
  /\ work \in Seq(Jobs) /\ completions \in Seq(Jobs)
  /\ stopping \in BOOLEAN /\ owes \in BOOLEAN
  /\ held \in Jobs \cup {NoJob}
  /\ held # NoJob <=> thread \in {"working", "finish"}
  /\ thread \in {"look", "waiting", "working", "finish", "gone"}
  /\ store \in Stores
  /\ next \in 1 .. MaxRequests + 1
  /\ loading \in [state : {"idle", "loading", "ready", "error"}, id : 0 .. MaxRequests]
  /\ asked \in 0 .. MaxVersion
  /\ snapshot \in Stores \cup {None}
  /\ screen \in {"lodge", "console", "setup"}
  /\ selected \in Expeditions \cup {None}
  /\ preview \in BOOLEAN /\ exit \in BOOLEAN /\ auto \in BOOLEAN
  /\ draft \in Drafts
  /\ confirmed \in [name : Names, folder : Folders, checked : Folders \cup {None}]
  /\ pressed \in Folders \cup {None}
  /\ dialog \in 0 .. MaxDialogs /\ dialogs \in 0 .. MaxDialogs
  /\ call \in [at : {"none", "open", "locked"}, id : 0 .. MaxDialogs, of : Answers]
  /\ life \in {"open", "closing", "stopping", "joining", "gone"}

Init ==
  /\ WorkerInit
  /\ store \in { s \in Stores : s.v = 0 /\ (s.ok \/ s.exps = {}) }
  /\ next = 1
  /\ loading = [state |-> "idle", id |-> 0]
  /\ asked = 0
  /\ snapshot = None
  /\ screen = "lodge" /\ selected = None /\ preview = FALSE /\ exit = FALSE
  /\ draft = EmptyDraft /\ auto = FALSE
  /\ confirmed = [name |-> Default, folder |-> Blank, checked |-> None]
  /\ pressed = None
  /\ dialog = 0 /\ dialogs = 0
  /\ call = [at |-> "none", id |-> 0, of |-> None]
  /\ life = "open"

(* The UI thread is between two events, or two completions.                *)
Turn == life = "open" /\ ~owes

(* Bound: a request number is left beside the one the open dialog may use. *)
NumberLeft == next + (IF dialog = 0 THEN 0 ELSE 1) <= MaxRequests

-----------------------------------------------------------------------------
(* Loading.                                                                *)

(* App::reload_store: begin_load, and the read is submitted.               *)
Reload ==
  /\ Turn
  /\ next <= LastLoad /\ NumberLeft
  /\ loading' = [state |-> "loading", id |-> next]
  /\ next' = next + 1
  /\ asked' = store.v
  /\ Submit(Job("load", next, None))
  /\ UNCHANGED <<store, snapshot, view, setup, native, life>>

(* Defect: a completion is applied whatever request it answers.            *)
LoadAnswersAny(job) == loading.state = "loading"

LoadAnswers(job) == job.id = loading.id /\ loading.state = "loading"

(* Defect: a selection the new observation lacks is kept.                  *)
ShowStale(seen) ==
  /\ loading' = [loading EXCEPT !.state = IF seen.ok THEN "ready" ELSE "error"]
  /\ snapshot' = IF seen.ok THEN seen ELSE None
  /\ UNCHANGED <<selected, preview>>

(* complete_load with what the read saw.                                   *)
Show(seen) ==
  LET known == seen.ok /\ selected \in seen.exps IN
  /\ loading' = [loading EXCEPT !.state = IF seen.ok THEN "ready" ELSE "error"]
  /\ snapshot' = IF seen.ok THEN seen ELSE None
  /\ selected' = IF known THEN selected ELSE None
  /\ preview' = (preview /\ known)

DrainLoad ==
  LET job == Head(completions) IN
  /\ Turn
  /\ Drained("load")
  /\ IF LoadAnswers(job) THEN Show(job.found)
                         ELSE UNCHANGED <<loading, snapshot, selected, preview>>
  /\ UNCHANGED <<work, owes, store, next, asked, screen, exit, setup, native, life>>

-----------------------------------------------------------------------------
(* Routing, selection and preview.                                         *)

(* navigate *)
Navigate(where) ==
  /\ Turn
  /\ screen = "lodge" /\ ~preview
  /\ CASE where = "console" -> screen' = "console" /\ UNCHANGED <<exit, draft, auto, pressed>>
       [] where = "setup" ->
            /\ screen' = "setup"
            /\ draft' = [EmptyDraft EXCEPT !.name = confirmed.name, !.folder = confirmed.folder]
            /\ auto' = FALSE
            /\ pressed' = None
            /\ UNCHANGED exit
       [] where = "exit" -> exit' = TRUE /\ UNCHANGED <<screen, draft, auto, pressed>>
  /\ UNCHANGED <<worker, store, load, selected, preview, confirmed, native, life>>

(* back: the preview first, then the screen; leaving setup cancels it.     *)
Back ==
  /\ Turn
  /\ preview \/ screen # "lodge"
  /\ preview' = FALSE
  /\ screen' = IF preview THEN screen ELSE "lodge"
  /\ IF ~preview /\ screen = "setup" THEN draft' = EmptyDraft /\ auto' = FALSE
                                     ELSE UNCHANGED <<draft, auto>>
  /\ UNCHANGED <<worker, store, load, selected, exit, confirmed, pressed, native, life>>

SelectExpedition(e) ==
  /\ Turn
  /\ screen = "console" /\ ~preview
  /\ snapshot # None /\ e \in snapshot.exps
  /\ selected' = e
  /\ UNCHANGED <<worker, store, load, screen, preview, exit, setup, native, life>>

OpenPreview ==
  /\ Turn
  /\ screen = "console" /\ ~preview
  /\ snapshot # None /\ selected \in snapshot.exps
  /\ preview' = TRUE
  /\ UNCHANGED <<worker, store, load, screen, selected, exit, setup, native, life>>

-----------------------------------------------------------------------------
(* Setup.                                                                  *)

(* set_draft_name *)
EditName(name) ==
  /\ Turn
  /\ screen = "setup"
  /\ draft' = [draft EXCEPT !.name = name]
  /\ UNCHANGED <<worker, store, load, view, auto, confirmed, pressed, native, life>>

(* The draft with another folder text: the check starts over.              *)
Retyped(folder) ==
  [draft EXCEPT !.folder = folder, !.status = "unchecked", !.req = 0, !.checked = None]

SameFolder(folder) == draft.folder = folder /\ draft.status # "unchecked"

(* Defect: a waiting confirmation survives another folder.                 *)
StillConfirmedAnyway(folder) == auto

StillConfirmed(folder) == auto /\ SameFolder(folder)

(* set_draft_folder *)
EditFolder(folder) ==
  /\ Turn
  /\ screen = "setup"
  /\ draft' = IF SameFolder(folder) THEN draft ELSE Retyped(folder)
  /\ auto' = StillConfirmed(folder)
  /\ UNCHANGED <<worker, store, load, view, confirmed, pressed, native, life>>

(* commit_draft of d.                                                      *)
Commit(d) ==
  /\ confirmed' = [name |-> d.name, folder |-> Trimmed[d.folder], checked |-> d.checked]
  /\ draft' = EmptyDraft
  /\ auto' = FALSE
  /\ screen' = "lodge"

(* confirm_setup and on_confirm_setup.  A check that is still pending is   *)
(* submitted once more under its own number.                               *)
Confirm ==
  LET id == IF draft.status = "checking" THEN draft.req ELSE next IN
  /\ Turn
  /\ screen = "setup"
  /\ pressed' = draft.folder
  /\ CASE draft.name = Blank \/ (draft.folder # Blank /\ draft.status = "error") ->
            UNCHANGED <<worker, next, screen, draft, auto, confirmed>>
       [] draft.name # Blank /\ (draft.folder = Blank \/ draft.status = "ok") ->
            Commit(draft) /\ UNCHANGED <<worker, next>>
       [] draft.name # Blank /\ draft.folder # Blank /\ draft.status \in {"unchecked", "checking"} ->
            /\ draft.status = "checking" \/ NumberLeft
            /\ Len(work) + Len(completions) < MaxQueue
            /\ auto' = TRUE
            /\ draft' = [draft EXCEPT !.status = "checking", !.req = id]
            /\ next' = IF draft.status = "checking" THEN next ELSE next + 1
            /\ Submit(Job("check", id, draft.folder))
            /\ UNCHANGED <<screen, confirmed>>
  /\ UNCHANGED <<store, loading, asked, snapshot, selected, preview, exit, native, life>>

(* Defect: any completion answers a check that is pending.                 *)
CheckAnswersAny(job) == screen = "setup" /\ draft.status = "checking"

CheckAnswers(job) ==
  /\ screen = "setup"
  /\ job.id = draft.req
  /\ draft.status = "checking"

(* complete_folder_check *)
DrainCheck ==
  LET job == Head(completions)
      d   == [draft EXCEPT !.status = IF job.found THEN "ok" ELSE "error", !.checked = job.of]
  IN
  /\ Turn
  /\ Drained("check")
  /\ CASE ~CheckAnswers(job) -> UNCHANGED <<screen, draft, auto, confirmed>>
       [] CheckAnswers(job) /\ job.found /\ auto -> Commit(d)
       [] CheckAnswers(job) /\ ~(job.found /\ auto) ->
            draft' = d /\ auto' = FALSE /\ UNCHANGED <<screen, confirmed>>
  /\ UNCHANGED <<work, owes, store, load, selected, preview, exit, pressed, native, life>>

-----------------------------------------------------------------------------
(* The native folder dialog.                                               *)

(* open_folder_dialog *)
Browse ==
  /\ Turn
  /\ screen = "setup"
  /\ dialog = 0
  /\ dialogs < MaxDialogs /\ NumberLeft
  /\ dialogs' = dialogs + 1
  /\ dialog' = dialogs + 1
  /\ call' = [at |-> "open", id |-> dialogs + 1, of |-> None]
  /\ UNCHANGED <<worker, store, load, view, setup, life>>

(* dialog_callback on a foreign thread: takes the sink's mutex and finds   *)
(* the application, or nobody.  None: the user cancelled, or it failed.    *)
DialogAnswer(folder) ==
  /\ call.at = "open"
  /\ call' = IF life = "open" THEN [call EXCEPT !.at = "locked", !.of = folder]
                              ELSE [call EXCEPT !.at = "none"]
  /\ UNCHANGED <<worker, store, load, view, setup, dialog, dialogs, life>>

DialogPost ==
  /\ call.at = "locked"
  /\ Post(Job("dialog", call.id, call.of))
  /\ call' = [call EXCEPT !.at = "none", !.of = None]
  /\ UNCHANGED <<store, load, view, setup, dialog, dialogs, life>>

(* folder_dialog_finished: set_draft_folder, and the chosen folder is      *)
(* checked at once.                                                        *)
DrainDialog ==
  LET job == Head(completions) IN
  /\ Turn
  /\ Drained("dialog")
  /\ dialog' = IF job.id = dialog THEN 0 ELSE dialog
  /\ IF job.id # dialog \/ screen # "setup" \/ job.of = None
       THEN UNCHANGED <<work, owes, next, draft, auto>>
       ELSE /\ next' = next + 1
            /\ draft' = [Retyped(job.of) EXCEPT !.status = "checking", !.req = next]
            /\ auto' = StillConfirmed(job.of)
            /\ Enqueue(Job("check", next, job.of))
  /\ UNCHANGED <<store, loading, asked, snapshot, view, confirmed, pressed, dialogs, call, life>>

-----------------------------------------------------------------------------
(* ~App and ~Worker.                                                       *)

(* Defect: the sink is cleared without its mutex.                          *)
CloseUnlocked ==
  /\ Turn
  /\ life' = "closing"
  /\ UNCHANGED <<worker, store, load, view, setup, native>>

(* The window is closed, or exit was chosen; the sink forgets the app.     *)
Close ==
  /\ Turn
  /\ call.at # "locked"
  /\ life' = "closing"
  /\ UNCHANGED <<worker, store, load, view, setup, native>>

Dispose ==
  /\ \/ life = "closing"  /\ life' = "stopping" /\ Stop
     \/ life = "stopping" /\ life' = "joining"  /\ StopNotify
     \/ life = "joining"  /\ life' = "gone"     /\ Join
  /\ UNCHANGED <<store, load, view, setup, native>>

-----------------------------------------------------------------------------
(* The worker thread's jobs and the world they look at.                    *)

WorkerRuns ==
  /\ \/ Look
     \/ /\ held # NoJob
        /\ \E seen \in IF held.kind = "load" THEN {store} ELSE BOOLEAN :
             Work([held EXCEPT !.found = seen])
     \/ Finish
  /\ UNCHANGED <<store, load, view, setup, native, life>>

WorkerWakes ==
  /\ SpuriousWakeup
  /\ UNCHANGED <<store, load, view, setup, native, life>>

UiNotifies ==
  /\ SubmitNotify
  /\ UNCHANGED <<store, load, view, setup, native, life>>

(* Another frontend process writes the store.                              *)
StoreChanges ==
  /\ store.v < MaxVersion
  /\ \E ok \in BOOLEAN, exps \in SUBSET Expeditions :
       /\ ok \/ exps = {}
       /\ store' = [v |-> store.v + 1, ok |-> ok, exps |-> exps]
  /\ UNCHANGED <<worker, load, view, setup, native, life>>

-----------------------------------------------------------------------------
User ==
  \/ Reload \/ Back \/ OpenPreview \/ Confirm \/ Browse
  \/ \E where \in {"console", "setup", "exit"} : Navigate(where)
  \/ \E e \in Expeditions : SelectExpedition(e)
  \/ \E name \in Names : EditName(name)
  \/ \E folder \in Folders : EditFolder(folder)
  \/ \E folder \in Answers : DialogAnswer(folder)

Drain == DrainLoad \/ DrainCheck \/ DrainDialog

Next ==
  \/ User \/ Drain \/ UiNotifies \/ Close \/ Dispose
  \/ DialogPost \/ WorkerRuns \/ WorkerWakes \/ StoreChanges

(* The loop of App::run drains and, once exit was chosen, closes; threads  *)
(* are scheduled and file system calls return.  The user owes nothing.     *)
Fairness ==
  /\ WF_vars(Drain) /\ WF_vars(UiNotifies) /\ WF_vars(exit /\ Close) /\ WF_vars(Dispose)
  /\ WF_vars(DialogPost) /\ WF_vars(WorkerRuns)

Spec == Init /\ [][Next]_vars /\ Fairness

-----------------------------------------------------------------------------
(* Properties                                                              *)

(* What is shown as ready was read after the newest reload was asked for:  *)
(* a slow answer to an earlier request never passes for it (complete_load; *)
(* "the model ignores stale ones", RMLUI_EVALUATION.md).                   *)
ShownIsFresh == loading.state = "ready" => snapshot # None /\ snapshot.v >= asked

(* An open preview always shows an expedition of the observation on the    *)
(* screen behind it, though observations change under it (complete_load).  *)
PreviewBacked ==
  preview => screen = "console" /\ snapshot # None /\ selected \in snapshot.exps

(* A folder shown as checked is the text the worker really found to be a   *)
(* directory, and a confirmed one is that text trimmed, whatever was       *)
(* typed, chosen and answered in between (complete_folder_check).          *)
FolderChecked ==
  /\ draft.status = "ok" => draft.checked = draft.folder
  /\ confirmed.folder # Blank =>
       confirmed.checked # None /\ confirmed.folder = Trimmed[confirmed.checked]

(* Settings are only ever confirmed with the folder the user pressed       *)
(* Confirm on; an edit or a chosen folder revokes a confirmation that is   *)
(* still waiting for its check (confirm_setup, set_draft_folder).          *)
CommitWasConfirmed ==
  [][confirmed' # confirmed =>
       pressed' # None /\ confirmed'.folder = Trimmed[pressed']]_vars

(* Confirmed settings never have a blank hunter name ("Hunter name must    *)
(* not be blank.", presentation.cpp).                                      *)
ConfirmedNameGiven == confirmed.name # Blank

(* The dialog's callback posts only to an application whose destructor has *)
(* not begun (dialog_callback, ~App).                                      *)
PostsToLiveApp == call.at = "locked" => life = "open"

(* Nothing hangs: a load and a folder check end while the application is   *)
(* open (submit, run, drain).                                              *)
RequestsSettle ==
  /\ loading.state = "loading" ~> loading.state # "loading" \/ life # "open"
  /\ draft.status = "checking" ~> draft.status # "checking" \/ life # "open"

(* A chosen exit or a closed window ends the application: the join returns *)
(* whatever the worker was doing (~App, ~Worker).                          *)
CloseEnds == exit \/ life # "open" ~> life = "gone"
=============================================================================
