-------------------------- MODULE AcceptedHistory --------------------------
(***************************************************************************)
(* What a Lodge store promises about managed state, without files, locks   *)
(* or crashes (Frontend/docs/MANAGED_STATE.md): the store is upgraded at   *)
(* most once and never downgraded, and its accepted history only grows, by *)
(* generations that never existed before, accepted from sessions that were *)
(* never accepted before, each from the generation it was started from.    *)
(* One step may add several generations: a power cut can leave the durable *)
(* history behind the visible one, which the next write catches up with.   *)
(***************************************************************************)
EXTENDS Naturals, Sequences

CONSTANTS Gens, Sessions, Import

VARIABLES
  upgraded,  \* the manifest has schema 2
  history,   \* sequence of [gen, session]: the accepted generations, in order
  pinned     \* [Sessions -> Gens \cup {Import, ...}] generation a session started from

hvars == <<upgraded, history, pinned>>

(* The generation before the i-th accepted one.                            *)
PredecessorOf(h, i) == IF i = 1 THEN Import ELSE h[i - 1].gen

Linear(h, pins) ==
  /\ \A i, j \in 1 .. Len(h) : i # j =>
       h[i].gen # h[j].gen /\ h[i].session # h[j].session
  /\ \A i \in 1 .. Len(h) : pins[h[i].session] = PredecessorOf(h, i)

Extends(h, longer) ==
  Len(h) <= Len(longer) /\ SubSeq(longer, 1, Len(h)) = h

HInit ==
  /\ upgraded = FALSE
  /\ history = << >>
  /\ \A s \in Sessions : pinned[s] \notin Gens \cup {Import}

(* A session is prepared, once, from some generation.                      *)
Pin(s) ==
  /\ pinned[s] \notin Gens \cup {Import}
  /\ pinned'[s] \in Gens \cup {Import}
  /\ \A t \in Sessions \ {s} : pinned'[t] = pinned[t]
  /\ UNCHANGED <<upgraded, history>>

Upgrade ==
  /\ ~upgraded
  /\ upgraded' = TRUE
  /\ UNCHANGED <<history, pinned>>

Accept ==
  /\ upgraded' = TRUE
  /\ Extends(history, history')
  /\ history' # history
  /\ Linear(history', pinned)
  /\ UNCHANGED pinned

HNext == (\E s \in Sessions : Pin(s)) \/ Upgrade \/ Accept

HSpec == HInit /\ [][HNext]_hvars
=============================================================================
