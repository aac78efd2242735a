--------------------------- MODULE SessionJournal ---------------------------
(***************************************************************************)
(* The session journal of Frontend/native/src/session_journal.cpp: the     *)
(* nine session states, the edges between them, what validate accepts, and *)
(* the value transition persists.  Constant-level: the modules that own a  *)
(* journal as state (LodgeSession) import these operators.                 *)
(*                                                                         *)
(* A journal is abstracted to the fields the session lifecycle reads back: *)
(*   state, transitions  the current state and the event history           *)
(*   diagnostics         the set of diagnostic codes recorded so far       *)
(*   clean               process.stop_reason = "exited" and exit_code = 0  *)
(*   capture             return_capture, or NoCapture while it is absent   *)
(*   members             returned_members, or NoCapture                    *)
(***************************************************************************)
EXTENDS Naturals, Sequences

CONSTANT NoCapture   \* stands for an absent return_capture / returned_members

Edges ==
  { <<"prepared",   "launching">>,  <<"prepared",   "failed">>,
    <<"launching",  "running">>,    <<"launching",  "failed">>,
    <<"launching",  "interrupted">>,
    <<"running",    "returned">>,   <<"running",    "interrupted">>,
    <<"returned",   "inspecting">>,
    <<"inspecting", "candidate">>,  <<"inspecting", "quarantined">> }

States == { "prepared", "launching", "running", "returned", "inspecting",
            "candidate", "quarantined", "failed", "interrupted" }

TransitionAllowed(from, to) == <<from, to>> \in Edges

(* validate: the history starts prepared, follows the edges, and ends in   *)
(* the recorded state.                                                     *)
Valid(j) ==
  LET h == j.transitions IN
  /\ Len(h) > 0
  /\ h[1] = "prepared"
  /\ \A i \in 1 .. Len(h) - 1 : TransitionAllowed(h[i], h[i + 1])
  /\ h[Len(h)] = j.state

(* journal.json does not exist.                                            *)
NoJournal ==
  [ state |-> "absent", transitions |-> << >>, diagnostics |-> {},
    clean |-> FALSE, capture |-> NoCapture, members |-> NoCapture ]

(* The journal prepare_session and native_session::prepare persist.        *)
Prepared ==
  [ state |-> "prepared", transitions |-> <<"prepared">>, diagnostics |-> {},
    clean |-> FALSE, capture |-> NoCapture, members |-> NoCapture ]

(* transition: the caller's fields are already in j; the state is replaced *)
(* and the event appended.  A refused edge throws, so callers guard with   *)
(* TransitionAllowed(j.state, to).                                         *)
Transition(j, to) ==
  [ j EXCEPT !.state = to, !.transitions = Append(j.transitions, to) ]

(* Defect: the exit of a clean process is recorded as a diagnostic too.    *)
DiagnoseExit(j, codes) ==
  [ j EXCEPT !.diagnostics = @ \cup codes \cup {"process-exited"} ]

(* diagnostics.push_back *)
Diagnose(j, codes) == [ j EXCEPT !.diagnostics = @ \cup codes ]
=============================================================================
