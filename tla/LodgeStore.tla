----------------------------- MODULE LodgeStore -----------------------------
(***************************************************************************)
(* The Lodge store directory and its writers: catalog transactions         *)
(* (store_write.cpp, store_ops.cpp), the explicit upgrade to managed       *)
(* state, acceptance of a candidate and its recovery (acceptance.cpp), and *)
(* the explicit restore of lodge.json.bak.                                 *)
(*                                                                         *)
(* Each command is a process under lodge.lock that can be killed between   *)
(* any two writes; a write can fail, or become visible while its directory *)
(* sync fails; power can be cut; the manifest can be damaged from outside. *)
(* All manifests live in one directory: now is what a reader sees, after   *)
(* the set of states a power cut may leave.  Renames reach the disk in     *)
(* order and one successful sync makes all of them durable, so after holds *)
(* what now was at and since the last sync.                                *)
(*                                                                         *)
(* A manifest is the set of catalog edits it contains and the accepted     *)
(* history of one managed association, which the edit Managed imports.     *)
(* Journals are LodgeSession's; here a session has a pinned generation and *)
(* is a candidate from then on.                                            *)
(***************************************************************************)
EXTENDS Naturals, Sequences, FiniteSets

CONSTANTS
  Procs,      \* frontend processes
  Edits,      \* catalog edits: hunters, instances, settings, associations
  Managed,    \* the edit that imports the managed association
  Sessions,   \* sessions of that association
  Gens,       \* generation UUIDs
  Import,     \* generation zero: the imported snapshot
  None,       \* no generation
  PowerCuts   \* machines: TRUE is one that may lose power

ASSUME StoreConstants ==
  /\ Managed \in Edits
  /\ Edits \cap Sessions = {}
  /\ Import \notin Gens /\ None \notin Gens \cup {Import}
  /\ {"free", "stale"} \cap Procs = {}
  /\ PowerCuts \subseteq BOOLEAN

VARIABLES
  cuts,       \* this machine may lose power (a constant of the behaviour)
  lock,       \* lodge.lock: "free", the live process that made it, or "stale"
  now,        \* [main, bak, up -> manifest] the manifest files
  after,      \* set of such functions: what a power cut may leave
  kept,       \* manifests retained as lodge.recovery-*.json
  dir,        \* [Gens \cup {Import} -> ...] the snapshot directories
  pinned,     \* [Sessions -> generation] a candidate's predecessor, or None
  copied,     \* [Sessions -> generation] acceptance.json, or None
  told,       \* history: edits and sessions whose writer reported success
  committed,  \* history: [upgraded, chain] of the last synced manifest
  pc, arg,    \* [Procs -> ...] next step, and its edit or session
  new, gid    \* [Procs -> ...] the manifest in memory, the new generation

local == <<pc, arg, new, gid>>
vars  == <<cuts, lock, now, after, kept, dir, pinned, copied, told, committed, local>>

Entry == [gen : Gens, session : Sessions]

(* schema 0: no file.  3: bytes that are no valid manifest.                *)
Manifests == [schema : 0 .. 3, edits : SUBSET Edits, chain : Seq(Entry)]
Absent    == [schema |-> 0, edits |-> {}, chain |-> << >>]
Empty     == [schema |-> 1, edits |-> {}, chain |-> << >>]
Damaged   == [schema |-> 3, edits |-> {}, chain |-> << >>]

Files     == {"main", "bak", "up"}
Snapshots == Gens \cup {Import}
Steps == { "idle", "release", "txn.read", "txn.snapshot", "txn.sync", "txn.bak",
           "txn.main", "up.read", "up.backup", "up.main", "acc.read", "acc.stage",
           "acc.publish", "acc.sync", "acc.bak", "acc.main", "acc.receipt",
           "rec.read", "res.read", "res.keep", "res.main" }

TypeOK ==
  /\ cuts \in PowerCuts
  /\ lock \in Procs \cup {"free", "stale"}
  /\ now \in [Files -> Manifests]
  /\ after \subseteq [Files -> Manifests]
  /\ kept \subseteq Manifests
  /\ dir \in [Snapshots -> {"none", "staged", "visible", "durable"}]
  /\ pinned \in [Sessions -> Snapshots \cup {None}]
  /\ copied \in [Sessions -> Gens \cup {None}]
  /\ told \subseteq Edits \cup Sessions
  /\ committed \in [upgraded : BOOLEAN, chain : Seq(Entry)]
  /\ pc \in [Procs -> Steps]
  /\ arg \in [Procs -> Edits \cup Sessions \cup {None}]
  /\ new \in [Procs -> Manifests]
  /\ gid \in [Procs -> Gens \cup {None}]

Init ==
  /\ cuts \in PowerCuts
  /\ lock = "free"
  /\ now = [f \in Files |-> Absent]
  /\ after = {now}
  /\ kept = {}
  /\ dir = [g \in Snapshots |-> "none"]
  /\ pinned = [s \in Sessions |-> None]
  /\ copied = [s \in Sessions |-> None]
  /\ told = {}
  /\ committed = [upgraded |-> FALSE, chain |-> << >>]
  /\ pc = [p \in Procs |-> "idle"]
  /\ arg = [p \in Procs |-> None]
  /\ new = [p \in Procs |-> Absent]
  /\ gid = [p \in Procs |-> None]

-----------------------------------------------------------------------------
(* Reading.                                                                *)

Present(m)  == m.schema # 0
Readable(m) == m.schema \in {1, 2}

(* Store::read: a missing manifest is an empty store, unless a backup says *)
(* that there was one.                                                     *)
CanRead ==
  \/ Readable(now["main"])
  \/ /\ ~Present(now["main"])
     /\ ~Present(now["bak"]) /\ ~Present(now["up"])
Current == IF Present(now["main"]) THEN now["main"] ELSE Empty

(* Defect: the source session of the head is taken for its generation.     *)
HeadSession(m) == IF m.chain = << >> THEN Import ELSE m.chain[Len(m.chain)].session

CurrentGeneration(m) == IF m.chain = << >> THEN Import ELSE m.chain[Len(m.chain)].gen
Receipts(m) == { m.chain[i] : i \in 1 .. Len(m.chain) }
Accepted(m) == { r.session : r \in Receipts(m) }

-----------------------------------------------------------------------------
(* Writing: the three ends of atomic_write in the store directory.         *)

(* The locals of a command die with it; before that they stay, except that *)
(* the first step computes the manifest to write and the new generation.   *)
Carry(p, step, m, g) ==
  /\ pc' = [pc EXCEPT ![p] = step]
  /\ new' = [new EXCEPT ![p] = m]
  /\ gid' = [gid EXCEPT ![p] = g]

Drop(p, step) == Carry(p, step, Absent, None) /\ arg' = [arg EXCEPT ![p] = None]
Quit(p) == Drop(p, "release")

Goto(p, step) ==
  IF step = "release" THEN Quit(p)
  ELSE pc' = [pc EXCEPT ![p] = step] /\ UNCHANGED <<arg, new, gid>>

(* Defect: success is reported without the directory sync.                 *)
ReplacedNoSync(f, m) ==
  /\ now' = [now EXCEPT ![f] = m]
  /\ after' = after \cup {now'}

Replaced(f, m) ==
  /\ now' = [now EXCEPT ![f] = m]
  /\ after' = {now'}

(* Visible, but the directory sync failed.                                 *)
Unsynced(f, m) ==
  /\ now' = [now EXCEPT ![f] = m]
  /\ after' = IF cuts THEN after \cup {now'} ELSE {now'}

Write(p, f, m, next) ==
  \/ Replaced(f, m) /\ Goto(p, next)
  \/ Unsynced(f, m) /\ Quit(p)
  \/ UNCHANGED <<now, after>> /\ Quit(p)

At(p, step) == pc[p] = step

files == <<lock, now, after, kept>>

-----------------------------------------------------------------------------
(* WriterLock.                                                             *)

Start(p, step, what) ==
  /\ At(p, "idle")
  /\ lock = "free"
  /\ lock' = p
  /\ pc' = [pc EXCEPT ![p] = step]
  /\ arg' = [arg EXCEPT ![p] = what]
  /\ UNCHANGED <<now, after, kept, dir, pinned, copied, told, new, gid>>

Release(p) ==
  /\ At(p, "release")
  /\ lock' \in {"free", "stale"}
  /\ Drop(p, "idle")
  /\ UNCHANGED <<now, after, kept, dir, pinned, copied, told>>

-----------------------------------------------------------------------------
(* transaction: one catalog edit.  The edit Managed is associate with a    *)
(* managed copy, which publishes its snapshot before the manifest names it *)
(* (every attempt has a UUID of its own; Import is the latest, and bounded *)
(* to be reused only while no file names it).                              *)

ImportNamed == \E f \in Files : \E d \in after : Managed \in d[f].edits

Transact(p) == \E e \in Edits : Start(p, "txn.read", e)

TxnRead(p) ==
  LET m == [Current EXCEPT !.edits = @ \cup {arg[p]}] IN
  /\ At(p, "txn.read")
  /\ \/ Quit(p)                                        \* refused, or m is what is there
     \/ /\ CanRead
        /\ m # now["main"]
        /\ IF arg[p] = Managed /\ Managed \notin Current.edits
             THEN ~ImportNamed /\ Carry(p, "txn.snapshot", m, None)
             ELSE Carry(p, "txn.bak", m, None)
        /\ UNCHANGED arg
  /\ UNCHANGED <<files, dir, pinned, copied, told>>

(* write_blobs to .pending-ID, and the rename.                             *)
TxnSnapshot(p) ==
  /\ At(p, "txn.snapshot")
  /\ \/ dir' = [dir EXCEPT ![Import] = "staged"] /\ Quit(p)
     \/ dir' = [dir EXCEPT ![Import] = "visible"] /\ Goto(p, "txn.sync")
  /\ UNCHANGED <<files, pinned, copied, told>>

(* Defect: the snapshot's directory is not synced.                         *)
TxnSyncNot(p) ==
  /\ At(p, "txn.sync")
  /\ Goto(p, "txn.bak")
  /\ UNCHANGED <<files, dir, pinned, copied, told>>

TxnSync(p) ==
  /\ At(p, "txn.sync")
  /\ \/ dir' = [dir EXCEPT ![Import] = "durable"] /\ Goto(p, "txn.bak")
     \/ UNCHANGED dir /\ Quit(p)
  /\ UNCHANGED <<files, pinned, copied, told>>

(* Defect: the previous manifest is not saved.                             *)
TxnBakSkipped(p) ==
  /\ At(p, "txn.bak")
  /\ UNCHANGED <<now, after>> /\ Goto(p, "txn.main")
  /\ UNCHANGED <<lock, kept, dir, pinned, copied, told>>

TxnBak(p) ==
  /\ At(p, "txn.bak")
  /\ IF Present(now["main"])
       THEN Write(p, "bak", now["main"], "txn.main")
       ELSE UNCHANGED <<now, after>> /\ Goto(p, "txn.main")
  /\ UNCHANGED <<lock, kept, dir, pinned, copied, told>>

TxnMain(p) ==
  /\ At(p, "txn.main")
  /\ \/ /\ Replaced("main", new[p])
        /\ told' = told \cup {arg[p]}
     \/ Unsynced("main", new[p]) /\ UNCHANGED told
     \/ UNCHANGED <<now, after, told>>
  /\ Quit(p)
  /\ UNCHANGED <<lock, kept, dir, pinned, copied>>

-----------------------------------------------------------------------------
(* upgrade_store                                                           *)

BeginUpgrade(p) == Start(p, "up.read", None)

UpRead(p) ==
  /\ At(p, "up.read")
  /\ \/ Quit(p)                                        \* already upgraded, or refused
     \/ /\ CanRead
        /\ Current.schema = 1
        /\ Present(now["up"]) => now["up"] = Current
        /\ Carry(p, IF Present(now["up"]) THEN "up.main" ELSE "up.backup", Current, None)
        /\ UNCHANGED arg
  /\ UNCHANGED <<files, dir, pinned, copied, told>>

UpBackup(p) ==
  /\ At(p, "up.backup")
  /\ Write(p, "up", new[p], "up.main")
  /\ UNCHANGED <<lock, kept, dir, pinned, copied, told>>

UpMain(p) ==
  /\ At(p, "up.main")
  /\ Write(p, "main", [new[p] EXCEPT !.schema = 2], "release")
  /\ UNCHANGED <<lock, kept, dir, pinned, copied, told>>

-----------------------------------------------------------------------------
(* A session is prepared from the current generation and becomes a         *)
(* candidate (LodgeSession).                                               *)

Candidate(s) ==
  /\ lock = "free"
  /\ pinned[s] = None
  /\ now["main"].schema = 2
  /\ Managed \in now["main"].edits
  /\ pinned' = [pinned EXCEPT ![s] = CurrentGeneration(now["main"])]
  /\ UNCHANGED <<files, dir, copied, told, local>>

-----------------------------------------------------------------------------
(* accept_candidate                                                        *)

BeginAccept(p) == \E s \in Sessions : Start(p, "acc.read", s)

(* Defect: the pinned predecessor is not compared with the current head.   *)
AccReadStale(p) ==
  LET m == now["main"]  s == arg[p] IN
  /\ At(p, "acc.read")
  /\ \/ Quit(p)
     \/ /\ m.schema = 2
        /\ IF s \in Accepted(m)
             THEN Carry(p, "acc.receipt", m, None)
             ELSE /\ Managed \in m.edits
                  /\ pinned[s] # None
                  /\ \E g \in Gens :
                       /\ dir[g] = "none"
                       /\ Carry(p, "acc.stage",
                            [m EXCEPT !.chain = Append(@, [gen |-> g, session |-> s])], g)
        /\ UNCHANGED arg
  /\ UNCHANGED <<files, dir, pinned, copied, told>>

(* find_receipt, and either the committed receipt or the validation of the *)
(* candidate against the current head.                                     *)
AccRead(p) ==
  LET m == now["main"]  s == arg[p] IN
  /\ At(p, "acc.read")
  /\ \/ Quit(p)                                        \* some other evidence differs
     \/ /\ m.schema = 2
        /\ IF s \in Accepted(m)
             THEN Carry(p, "acc.receipt", m, None)
             ELSE /\ Managed \in m.edits
                  /\ pinned[s] = CurrentGeneration(m)
                  /\ \E g \in Gens :
                       /\ dir[g] = "none"
                       /\ Carry(p, "acc.stage",
                            [m EXCEPT !.chain = Append(@, [gen |-> g, session |-> s])], g)
        /\ UNCHANGED arg
  /\ UNCHANGED <<files, dir, pinned, copied, told>>

(* write_blobs to .pending-ID and the check of the staged bytes.           *)
AccStage(p) ==
  /\ At(p, "acc.stage")
  /\ dir' = [dir EXCEPT ![gid[p]] = "staged"]
  /\ Goto(p, "acc.publish") \/ Quit(p)
  /\ UNCHANGED <<files, pinned, copied, told>>

AccPublish(p) ==
  /\ At(p, "acc.publish")
  /\ \/ dir' = [dir EXCEPT ![gid[p]] = "visible"] /\ Goto(p, "acc.sync")
     \/ UNCHANGED dir /\ Quit(p)
  /\ UNCHANGED <<files, pinned, copied, told>>

(* The snapshot and its ancestors, the store directory last, are synced    *)
(* and the published bytes verified.                                       *)
AccSync(p) ==
  /\ At(p, "acc.sync")
  /\ \/ /\ dir' = [dir EXCEPT ![gid[p]] = "durable"]
        /\ after' = {now}
        /\ Goto(p, "acc.bak") \/ Quit(p)
     \/ /\ UNCHANGED <<dir, after>>
        /\ Quit(p)
  /\ UNCHANGED <<lock, now, kept, pinned, copied, told>>

AccBak(p) ==
  /\ At(p, "acc.bak")
  /\ Write(p, "bak", now["main"], "acc.main")
  /\ UNCHANGED <<lock, kept, dir, pinned, copied, told>>

(* Defect: the receipt is completed although the commit failed.            *)
AccMainBlind(p) ==
  /\ At(p, "acc.main")
  /\ \/ Replaced("main", new[p])
     \/ UNCHANGED <<now, after>>
  /\ Goto(p, "acc.receipt")
  /\ UNCHANGED <<lock, kept, dir, pinned, copied, told>>

(* The commit point.                                                       *)
AccMain(p) ==
  /\ At(p, "acc.main")
  /\ Write(p, "main", new[p], "acc.receipt")
  /\ UNCHANGED <<lock, kept, dir, pinned, copied, told>>

(* complete_receipt: an existing copy is never replaced.  Only the process *)
(* that committed may report accepted; others report already-accepted.     *)
AccReceipt(p) ==
  LET s == arg[p]
      r == CHOOSE e \in Receipts(new[p]) : e.session = s
  IN
  /\ At(p, "acc.receipt")
  /\ \/ /\ copied[s] \in {None, r.gen}
        /\ copied' = [copied EXCEPT ![s] = r.gen]
        /\ told' = IF gid[p] = r.gen THEN told \cup {s} ELSE told
     \/ UNCHANGED <<copied, told>>             \* the copy differs or fails
     \/ UNCHANGED told /\ copied' = [copied EXCEPT ![s] = IF @ = None THEN r.gen ELSE @]
  /\ Quit(p)
  /\ UNCHANGED <<files, dir, pinned>>

(* recover_acceptance completes a committed receipt and promotes nothing.  *)
BeginRecoverAcceptance(p) == \E s \in Sessions : Start(p, "rec.read", s)

RecRead(p) ==
  LET m == now["main"] IN
  /\ At(p, "rec.read")
  /\ \/ Quit(p)
     \/ /\ m.schema = 2
        /\ arg[p] \in Accepted(m)
        /\ Carry(p, "acc.receipt", m, None)
        /\ UNCHANGED arg
  /\ UNCHANGED <<files, dir, pinned, copied, told>>

-----------------------------------------------------------------------------
(* restore_backup                                                          *)

BeginRestore(p) == Start(p, "res.read", None)

ResRead(p) ==
  /\ At(p, "res.read")
  /\ IF \/ now["main"].schema = 2
        \/ Present(now["up"])
        \/ now["bak"].schema # 1
       THEN Quit(p)
       ELSE Goto(p, IF Present(now["main"]) THEN "res.keep" ELSE "res.main")
  /\ UNCHANGED <<files, dir, pinned, copied, told>>

(* The current bytes are retained under a name of their own.               *)
ResKeep(p) ==
  /\ At(p, "res.keep")
  /\ \/ /\ kept' = kept \cup {now["main"]}
        /\ Goto(p, "res.main") \/ Quit(p)
     \/ UNCHANGED kept /\ Quit(p)
  /\ UNCHANGED <<lock, now, after, dir, pinned, copied, told>>

(* An explicit restore gives up the edits that the backup does not have.   *)
ResMain(p) ==
  /\ At(p, "res.main")
  /\ Write(p, "main", now["bak"], "release")
  /\ told' = told \cap (now'["main"].edits \cup Sessions)
  /\ UNCHANGED <<lock, kept, dir, pinned, copied>>

-----------------------------------------------------------------------------
(* The operator, the disk and the machine.                                 *)

Crash(p) ==
  /\ ~At(p, "idle")
  /\ lock' = "stale"
  /\ Drop(p, "idle")
  /\ UNCHANGED <<now, after, kept, dir, pinned, copied, told>>

ManualUnlock ==
  /\ lock = "stale"
  /\ lock' = "free"
  /\ UNCHANGED <<now, after, kept, dir, pinned, copied, told, local>>

(* lodge.json is damaged from outside, or removed while a backup is there  *)
(* (removing the only manifest removes the store).                         *)
Damage ==
  /\ lock = "free"
  /\ Readable(now["main"])
  /\ \/ Replaced("main", Damaged)
     \/ /\ Present(now["bak"]) \/ Present(now["up"])
        /\ Replaced("main", Absent)
  /\ UNCHANGED <<lock, kept, dir, pinned, copied, told, local>>

(* The renames since the last sync survive up to some point.               *)
PowerLoss ==
  /\ cuts
  /\ lock' \in IF lock = "free" THEN {"free"} ELSE {"free", "stale"}
  /\ now' \in after
  /\ after' = {now'}
  /\ dir' \in { d \in [Snapshots -> {"none", "staged", "visible", "durable"}] :
                  \A g \in Snapshots :
                    IF dir[g] \in {"none", "durable"} THEN d[g] = dir[g]
                    ELSE d[g] \in {"staged", dir[g]} }
  /\ copied' \in { c \in [Sessions -> Gens \cup {None}] :
                     \A s \in Sessions : c[s] \in {None, copied[s]} }
  /\ pc' = [p \in Procs |-> "idle"]
  /\ arg' = [p \in Procs |-> None]
  /\ new' = [p \in Procs |-> Absent]
  /\ gid' = [p \in Procs |-> None]
  /\ UNCHANGED <<kept, pinned, told>>

-----------------------------------------------------------------------------
Begin(p) ==
  \/ Transact(p) \/ BeginUpgrade(p) \/ BeginAccept(p)
  \/ BeginRecoverAcceptance(p) \/ BeginRestore(p)

Step(p) ==
  \/ TxnRead(p) \/ TxnSnapshot(p) \/ TxnSync(p) \/ TxnBak(p) \/ TxnMain(p)
  \/ UpRead(p) \/ UpBackup(p) \/ UpMain(p)
  \/ AccRead(p) \/ AccStage(p) \/ AccPublish(p) \/ AccSync(p)
  \/ AccBak(p) \/ AccMain(p) \/ AccReceipt(p) \/ RecRead(p)
  \/ ResRead(p) \/ ResKeep(p) \/ ResMain(p)
  \/ Release(p)

World ==
  \/ \E s \in Sessions : Candidate(s)
  \/ \E p \in Procs : Crash(p)
  \/ ManualUnlock \/ Damage \/ PowerLoss

(* committed follows the manifest whenever it is synced and readable.      *)
Observe ==
  committed' = IF after' = {now'} /\ Readable(now'["main"])
                 THEN [upgraded |-> now'["main"].schema = 2,
                       chain |-> now'["main"].chain]
                 ELSE committed

Next == ((\E p \in Procs : Begin(p) \/ Step(p)) \/ World) /\ Observe /\ UNCHANGED cuts

Spec == Init /\ [][Next]_vars

-----------------------------------------------------------------------------
(* Properties                                                              *)

(* The durable manifest's history is the one a store promises: one upgrade *)
(* and no way back, and each session accepted at most once, from the       *)
(* generation it was started from, whatever is killed, retried, damaged or *)
(* restored (accept_candidate, upgrade_store, restore_backup).             *)
History == INSTANCE AcceptedHistory
             WITH upgraded <- committed.upgraded, history <- committed.chain
ImplementsHistory == History!HSpec

(* Every snapshot a manifest names, current or backup, was verified and    *)
(* synced before: no power cut leaves a head without its bytes             *)
(* (associate, accept_candidate).                                          *)
Named(m) ==
  { r.gen : r \in Receipts(m) } \cup (IF Managed \in m.edits THEN {Import} ELSE {})
SnapshotsBacked ==
  \A d \in after : \A f \in Files : \A g \in Named(d[f]) : dir[g] = "durable"

(* A writer that reported success is not contradicted later: its edit or   *)
(* acceptance is in the durable manifest until an explicit restore gives   *)
(* it up.  No update is lost to another writer, a crash or a power cut.    *)
ToldDurable ==
  \A d \in after : Readable(d["main"]) =>
    told \subseteq d["main"].edits \cup Accepted(d["main"])

(* The program never destroys a manifest: what it replaces stays in .bak,  *)
(* in the schema-1 backup or in a recovery copy ("The immediately previous *)
(* manifest is retained", STATE_MODEL.md).                                 *)
PreviousRetained ==
  [][\A p \in Procs :
       /\ pc[p] \in {"txn.main", "up.main", "acc.main", "res.main"}
       /\ pc'[p] \in {"release", "acc.receipt"}
       /\ Present(now["main"]) /\ now'["main"] # now["main"]
       => now["main"] \in {now'["bak"], now'["up"]} \cup kept']_vars

(* Without a power cut the convenience receipt never says more than the    *)
(* manifest: acceptance.json names the committed generation (accept        *)
(* commits before it copies, recover_acceptance never promotes).           *)
ReceiptNotAhead ==
  (~cuts /\ Readable(now["main"])) =>
    \A s \in Sessions : copied[s] # None =>
      [gen |-> copied[s], session |-> s] \in Receipts(now["main"])
=============================================================================
