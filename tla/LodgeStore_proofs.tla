------------------------- MODULE LodgeStore_proofs -------------------------
(***************************************************************************)
(* Proofs about LodgeStore for any number of processes, edits, sessions    *)
(* and generations, on machines with and without power cuts: its safety    *)
(* invariants, PreviousRetained, and that it implements AcceptedHistory.   *)
(***************************************************************************)
EXTENDS LodgeStore, SequenceTheorems, TLAPS

-----------------------------------------------------------------------------
(* The inductive invariant, in parts.                                      *)

(* A command that is under way holds lodge.lock.                           *)
WriterAlone == \A p \in Procs : pc[p] # "idle" => lock = p

(* What is visible may survive a power cut; without them nothing else may. *)
Visible ==
  /\ now \in after
  /\ ~cuts => after = {now}

(* Only managed manifests have a history, and what a manifest names is     *)
(* durable.                                                                *)
Sound(m)       == m.schema # 2 => m.chain = << >>
Backed(m, dr)  == \A g \in Named(m) : dr[g] = "durable"

(* A manifest that may become current has what was told and committed.     *)
Follows(m, pins, t, c) ==
  /\ t \cap Edits \subseteq m.edits
  /\ History!Extends(c.chain, m.chain)
  /\ c.upgraded => m.schema = 2
  /\ History!Linear(m.chain, pins)

(* A store without files has never told anything; a managed one keeps the  *)
(* schema-1 backup, which forbids a restore.                               *)
Fit(d, dr, pins, t, c) ==
  /\ \A f \in Files : Sound(d[f]) /\ Backed(d[f], dr)
  /\ Readable(d["main"]) => Follows(d["main"], pins, t, c)
  /\ c.upgraded \/ d["main"].schema = 2 => Present(d["up"])
  /\ (\A f \in Files : ~Present(d[f])) => t \cap Edits = {}
Disk == \A d \in after : Fit(d, dir, pinned, told, committed)

(* The histories: committed is what a synced manifest says, and what was   *)
(* told or copied of a session was committed.                              *)
Committed(s) == \E i \in 1 .. Len(committed.chain) : committed.chain[i].session = s
CommittedAs(g, s) == \E i \in 1 .. Len(committed.chain) : committed.chain[i] = [gen |-> g, session |-> s]
Ledger ==
  /\ committed.chain # << >> => committed.upgraded
  /\ after = {now} /\ Readable(now["main"]) =>
       committed = [upgraded |-> now["main"].schema = 2, chain |-> now["main"].chain]
  /\ \A s \in told \cap Sessions : Committed(s)
  /\ ~cuts => \A s \in Sessions, g \in Gens : copied[s] = g => CommittedAs(g, s)

(* What a command has in memory is made from the manifest that is there.   *)
Untold == ~Present(now["main"]) /\ told \cap Edits = {} /\ ~committed.upgraded
Usable == Readable(now["main"]) \/ Untold
Saved  == Present(now["main"]) => now["bak"] = now["main"]

Knows(p) ==
  /\ pc[p] = "txn.read" => arg[p] \in Edits
  /\ pc[p] \in {"txn.snapshot", "txn.sync", "txn.bak", "txn.main"} =>
       /\ Usable
       /\ arg[p] \in Edits
       /\ new[p] = [Current EXCEPT !.edits = @ \cup {arg[p]}]
       /\ gid[p] = None
  /\ pc[p] \in {"txn.snapshot", "txn.sync"} => ~ImportNamed
  /\ pc[p] \in {"txn.bak", "txn.main"} =>
       (Managed \in new[p].edits => dir[Import] = "durable")
  /\ pc[p] = "txn.main" => Saved
  /\ pc[p] \in {"up.backup", "up.main"} => Usable /\ new[p] = Current /\ Current.schema = 1
  /\ pc[p] = "up.main" => now["up"] = Current
  /\ pc[p] \in {"acc.read", "rec.read"} => arg[p] \in Sessions
  /\ pc[p] \in {"acc.stage", "acc.publish", "acc.sync", "acc.bak", "acc.main"} =>
       /\ now["main"].schema = 2
       /\ arg[p] \in Sessions \ Accepted(now["main"])
       /\ gid[p] \in Gens
       /\ pinned[arg[p]] = CurrentGeneration(now["main"])
       /\ new[p] = [now["main"] EXCEPT !.chain = Append(@, [gen |-> gid[p], session |-> arg[p]])]
       /\ \A r \in Receipts(now["main"]) : r.gen # gid[p]
  /\ pc[p] \in {"acc.stage", "acc.publish", "acc.sync"} => dir[gid[p]] # "durable"
  /\ pc[p] \in {"acc.bak", "acc.main"} => dir[gid[p]] = "durable"
  /\ pc[p] = "acc.main" => Saved
  /\ pc[p] = "acc.receipt" =>
       /\ now["main"].schema = 2
       /\ arg[p] \in Sessions \cap Accepted(now["main"])
       /\ new[p] = now["main"]
       /\ gid[p] # None => after = {now}
  /\ pc[p] \in {"res.keep", "res.main"} =>
       /\ now["main"].schema # 2
       /\ now["bak"].schema = 1
       /\ ~Present(now["up"])
  /\ pc[p] = "res.main" => (Present(now["main"]) => now["main"] \in kept)

Commands == \A p \in Procs : Knows(p)

IInv == TypeOK /\ WriterAlone /\ Visible /\ Disk /\ Ledger /\ Commands

-----------------------------------------------------------------------------
(* Histories: what Extends and Linear of AcceptedHistory say by position.  *)

LEMMA ExtendsByPosition ==
  ASSUME NEW h \in Seq(Entry), NEW l \in Seq(Entry)
  PROVE  History!Extends(h, l) <=> Len(h) <= Len(l) /\ \A i \in 1 .. Len(h) : l[i] = h[i]
<1>1. ASSUME Len(h) <= Len(l)
      PROVE  /\ SubSeq(l, 1, Len(h)) \in Seq(Entry)
             /\ Len(SubSeq(l, 1, Len(h))) = Len(h)
             /\ \A i \in 1 .. Len(h) : SubSeq(l, 1, Len(h))[i] = l[i]
  BY <1>1
<1>2. ASSUME Len(h) <= Len(l), \A i \in 1 .. Len(h) : l[i] = h[i]
      PROVE  SubSeq(l, 1, Len(h)) = h
  BY <1>1, <1>2, SeqEqual
<1>. QED  BY <1>1, <1>2 DEF History!Extends

LEMMA ExtendsItself ==
  ASSUME NEW h \in Seq(Entry)
  PROVE  History!Extends(h, h) /\ History!Extends(<< >>, h)
<1>1. << >> \in Seq(Entry) /\ Len(<< >>) = 0 /\ Len(h) \in Nat
  OBVIOUS
<1>2. PICK z \in Seq(Entry) : z = << >>
  BY <1>1
<1>3. History!Extends(h, h)
  BY ExtendsByPosition
<1>4. Len(z) <= Len(h) /\ \A i \in 1 .. Len(z) : h[i] = z[i]
  BY <1>1, <1>2
<1>5. History!Extends(z, h)
  BY <1>4, ExtendsByPosition
<1>. QED  BY <1>2, <1>3, <1>5

LEMMA ExtendsAppend ==
  ASSUME NEW h \in Seq(Entry), NEW l \in Seq(Entry), NEW e \in Entry, History!Extends(h, l)
  PROVE  History!Extends(h, Append(l, e))
<1>1. /\ Append(l, e) \in Seq(Entry)
      /\ Len(Append(l, e)) = Len(l) + 1
      /\ \A i \in 1 .. Len(l) : Append(l, e)[i] = l[i]
      /\ Len(h) \in Nat /\ Len(l) \in Nat
  OBVIOUS
<1>2. PICK z \in Seq(Entry) : z = Append(l, e)
  BY <1>1
<1>3. Len(h) <= Len(l) /\ \A i \in 1 .. Len(h) : l[i] = h[i]
  BY ExtendsByPosition
<1>4. Len(h) <= Len(z) /\ \A i \in 1 .. Len(h) : z[i] = h[i]
  BY <1>1, <1>2, <1>3
<1>5. History!Extends(h, z)
  BY <1>4, ExtendsByPosition
<1>. QED  BY <1>2, <1>5

LEMMA LinearEmpty ==
  ASSUME NEW pins
  PROVE  History!Linear(<< >>, pins)
BY DEF History!Linear

LEMMA LinearAppend ==
  ASSUME NEW h \in Seq(Entry), NEW e \in Entry, History!Linear(h, pinned),
         \A i \in 1 .. Len(h) : h[i].gen # e.gen /\ h[i].session # e.session,
         pinned[e.session] = IF h = << >> THEN Import ELSE h[Len(h)].gen
  PROVE  History!Linear(Append(h, e), pinned)
<1>. DEFINE l == Append(h, e)
<1>1. /\ Len(l) = Len(h) + 1 /\ Len(h) \in Nat
      /\ \A i \in 1 .. Len(h) : l[i] = h[i]
      /\ l[Len(h) + 1] = e
  OBVIOUS
<1>. HIDE DEF l
<1>2. ASSUME NEW i \in 1 .. Len(l), NEW j \in 1 .. Len(l), i # j
      PROVE  l[i].gen # l[j].gen /\ l[i].session # l[j].session
  <2>1. CASE i = Len(h) + 1
    BY <1>1, <1>2, <2>1
  <2>2. CASE j = Len(h) + 1
    BY <1>1, <1>2, <2>2
  <2>3. CASE i \in 1 .. Len(h) /\ j \in 1 .. Len(h)
    BY <1>1, <1>2, <2>3 DEF History!Linear
  <2>. QED  BY <1>1, <2>1, <2>2, <2>3
<1>3. ASSUME NEW i \in 1 .. Len(l)
      PROVE  pinned[l[i].session] = History!PredecessorOf(l, i)
  <2>1. CASE i = Len(h) + 1
    <3>1. h = << >> <=> i = 1
      BY <2>1, <1>1, EmptySeq
    <3>. QED  BY <1>1, <2>1, <3>1 DEF History!PredecessorOf
  <2>2. CASE i \in 1 .. Len(h)
    <3>1. pinned[h[i].session] = History!PredecessorOf(h, i)
      BY <2>2 DEF History!Linear
    <3>. QED  BY <1>1, <2>2, <3>1 DEF History!PredecessorOf
  <2>. QED  BY <1>1, <2>1, <2>2
<1>4. History!Linear(l, pinned)
  BY <1>2, <1>3 DEF History!Linear
<1>. QED  BY <1>4 DEF l

-----------------------------------------------------------------------------
(* Manifests are closed under what the commands do with them.              *)

LEMMA ManifestsClosed ==
  /\ Absent \in Manifests /\ Empty \in Manifests /\ Damaged \in Manifests
  /\ \A m \in Manifests :
       /\ \A e \in Edits : [m EXCEPT !.edits = @ \cup {e}] \in Manifests
       /\ [m EXCEPT !.schema = 2] \in Manifests
       /\ \A e \in Entry : [m EXCEPT !.chain = Append(@, e)] \in Manifests
<1>1. << >> \in Seq(Entry)
  OBVIOUS
<1>2. \A c \in Seq(Entry), e \in Entry : Append(c, e) \in Seq(Entry)
  OBVIOUS
<1>3. Absent \in Manifests /\ Empty \in Manifests /\ Damaged \in Manifests
  BY <1>1 DEF Manifests, Absent, Empty, Damaged
<1>4. ASSUME NEW m \in Manifests
      PROVE  /\ \A e \in Edits : [m EXCEPT !.edits = @ \cup {e}] \in Manifests
             /\ [m EXCEPT !.schema = 2] \in Manifests
  BY DEF Manifests
<1>5. ASSUME NEW m \in Manifests, NEW e \in Entry
      PROVE  [m EXCEPT !.chain = Append(@, e)] \in Manifests
  <2>1. Append(m.chain, e) \in Seq(Entry)
    BY <1>2 DEF Manifests
  <2>. QED  BY <2>1 DEF Manifests
<1>. QED  BY <1>3, <1>4, <1>5

LEMMA CurrentManifest ==
  ASSUME TypeOK
  PROVE  now["main"] \in Manifests /\ now["bak"] \in Manifests /\ Current \in Manifests
BY ManifestsClosed DEF TypeOK, Files, Current

LEMMA ReceiptsAreEntries ==
  ASSUME NEW m \in Manifests
  PROVE  /\ Receipts(m) \subseteq Entry
         /\ \A s \in Accepted(m) : \E r \in Receipts(m) : r.session = s
<1>1. m.chain \in Seq(Entry)
  BY DEF Manifests
<1>2. \A i \in 1 .. Len(m.chain) : m.chain[i] \in Entry
  BY <1>1, ElementOfSeq
<1>. QED  BY <1>2 DEF Receipts, Accepted

(* The receipt that AccReceipt copies.                                     *)
ReceiptOf(m, s) == CHOOSE e \in Receipts(m) : e.session = s

LEMMA ReceiptFound ==
  ASSUME NEW m \in Manifests, NEW s \in Accepted(m)
  PROVE  /\ ReceiptOf(m, s) \in Receipts(m) /\ ReceiptOf(m, s).session = s
         /\ ReceiptOf(m, s).gen \in Gens
         /\ ReceiptOf(m, s) = [gen |-> ReceiptOf(m, s).gen, session |-> s]
<1>1. ReceiptOf(m, s) \in Receipts(m) /\ ReceiptOf(m, s).session = s
  BY ReceiptsAreEntries DEF ReceiptOf
<1>2. PICK r \in Entry : r = ReceiptOf(m, s)
  BY <1>1, ReceiptsAreEntries
<1>3. r.gen \in Gens /\ r = [gen |-> r.gen, session |-> r.session]
  BY DEF Entry
<1>. QED  BY <1>1, <1>2, <1>3

-----------------------------------------------------------------------------
(* Types.                                                                  *)

LocalTypes ==
  /\ pc \in [Procs -> Steps]
  /\ arg \in [Procs -> Edits \cup Sessions \cup {None}]
  /\ new \in [Procs -> Manifests]
  /\ gid \in [Procs -> Gens \cup {None}]
FileTypes ==
  /\ now \in [Files -> Manifests]
  /\ after \subseteq [Files -> Manifests]

LEMMA LocalEffect ==
  ASSUME LocalTypes, NEW p \in Procs
  PROVE  /\ Quit(p) => LocalTypes'
         /\ \A step \in Steps : Goto(p, step) => LocalTypes'
         /\ Drop(p, "idle") => LocalTypes'
         /\ \A step \in Steps, m \in Manifests, g \in Gens \cup {None} :
              Carry(p, step, m, g) /\ UNCHANGED arg => LocalTypes'
<1>1. Absent \in Manifests /\ "release" \in Steps /\ "idle" \in Steps
  BY ManifestsClosed DEF Steps
<1>2. ASSUME NEW step \in Steps, Drop(p, step)
      PROVE  LocalTypes'
  BY <1>1, <1>2 DEF LocalTypes, Drop, Carry
<1>3. ASSUME NEW step \in Steps, Goto(p, step)
      PROVE  LocalTypes'
  BY <1>1, <1>2, <1>3 DEF LocalTypes, Goto, Quit
<1>4. ASSUME NEW step \in Steps, NEW m \in Manifests, NEW g \in Gens \cup {None},
             Carry(p, step, m, g), UNCHANGED arg
      PROVE  LocalTypes'
  BY <1>4 DEF LocalTypes, Carry
<1>. QED  BY <1>1, <1>2, <1>3, <1>4 DEF Quit

LEMMA FileEffect ==
  ASSUME FileTypes, NEW f \in Files, NEW m \in Manifests
  PROVE  /\ Replaced(f, m) => FileTypes'
         /\ Unsynced(f, m) => FileTypes'
         /\ UNCHANGED <<now, after>> => FileTypes'
BY DEF FileTypes, Replaced, Unsynced

LEMMA WriteTypes ==
  ASSUME FileTypes, LocalTypes, NEW p \in Procs, NEW f \in Files, NEW m \in Manifests,
         NEW next \in Steps, Write(p, f, m, next)
  PROVE  FileTypes' /\ LocalTypes'
BY FileEffect, LocalEffect DEF Write

LEMMA ObserveTypes ==
  ASSUME TypeOK, FileTypes', Observe
  PROVE  committed' \in [upgraded : BOOLEAN, chain : Seq(Entry)]
<1>1. now'["main"] \in Manifests
  BY DEF FileTypes, Files
<1>2. now'["main"].chain \in Seq(Entry)
  BY <1>1 DEF Manifests
<1>. QED  BY <1>2 DEF Observe, TypeOK

LEMMA BeginTypes ==
  ASSUME TypeOK, NEW p \in Procs, Begin(p)
  PROVE  /\ FileTypes' /\ LocalTypes'
         /\ lock' = p /\ UNCHANGED <<kept, dir, pinned, copied, told>>
<1>. PICK step \in Steps, what \in Edits \cup Sessions \cup {None} : Start(p, step, what)
  BY DEF Begin, Transact, BeginUpgrade, BeginAccept, BeginRecoverAcceptance, BeginRestore, Steps
<1>. QED  BY DEF Start, TypeOK, FileTypes, LocalTypes

(* The types of a command's step, but for what Observe adds.               *)
LEMMA StepTypes ==
  ASSUME TypeOK, NEW p \in Procs, Knows(p), Step(p)
  PROVE  /\ FileTypes' /\ LocalTypes'
         /\ lock' \in Procs \cup {"free", "stale"}
         /\ kept' \subseteq Manifests
         /\ dir' \in [Snapshots -> {"none", "staged", "visible", "durable"}]
         /\ UNCHANGED pinned
         /\ copied' \in [Sessions -> Gens \cup {None}]
         /\ told' \subseteq Edits \cup Sessions
<1>. DEFINE Rest == /\ lock' = lock /\ kept' = kept /\ dir' = dir /\ UNCHANGED pinned
                    /\ copied' = copied /\ told' = told
            Same == FileTypes' /\ LocalTypes'
<1>1. /\ FileTypes /\ LocalTypes
      /\ now["main"] \in Manifests /\ now["bak"] \in Manifests /\ Current \in Manifests
      /\ new[p] \in Manifests /\ gid[p] \in Gens \cup {None}
      /\ "main" \in Files /\ "bak" \in Files /\ "up" \in Files
  BY CurrentManifest DEF TypeOK, FileTypes, LocalTypes, Files
<1>2. /\ FileTypes'
      /\ LocalTypes'
      /\ Rest
      => /\ FileTypes' /\ LocalTypes'
         /\ lock' \in Procs \cup {"free", "stale"}
         /\ kept' \subseteq Manifests
         /\ dir' \in [Snapshots -> {"none", "staged", "visible", "durable"}]
         /\ UNCHANGED pinned
         /\ copied' \in [Sessions -> Gens \cup {None}]
         /\ told' \subseteq Edits \cup Sessions
  BY DEF TypeOK
<1>3. UNCHANGED <<now, after>> => FileTypes'
  BY <1>1, FileEffect
<1>4. Quit(p) => LocalTypes'
  BY <1>1, LocalEffect
<1>5. \A step \in Steps : Goto(p, step) => LocalTypes'
  BY <1>1, LocalEffect
<1>6. \A step \in Steps, m \in Manifests, g \in Gens \cup {None} :
         Carry(p, step, m, g) /\ UNCHANGED arg => LocalTypes'
  BY <1>1, LocalEffect
<1>7. \A f \in Files, m \in Manifests, next \in Steps :
        Write(p, f, m, next) => FileTypes' /\ LocalTypes'
  BY <1>1, WriteTypes
<1>8. \A f \in Files, m \in Manifests : Replaced(f, m) \/ Unsynced(f, m) => FileTypes'
  BY <1>1, FileEffect
<1>10. CASE TxnRead(p)
  <2>1. arg[p] \in Edits
    BY <1>10 DEF TxnRead, At, Knows
  <2>2. [Current EXCEPT !.edits = @ \cup {arg[p]}] \in Manifests
    BY <1>1, <2>1, ManifestsClosed
  <2>3. LocalTypes'
    BY <1>4, <1>6, <1>10, <2>2 DEF TxnRead, Steps
  <2>. QED  BY <1>2, <1>3, <1>10, <2>3 DEF TxnRead, files
<1>11. CASE TxnSnapshot(p) \/ TxnSync(p)
  <2>1. LocalTypes' /\ UNCHANGED <<files, pinned, copied, told>>
    BY <1>4, <1>5, <1>11 DEF TxnSnapshot, TxnSync, Steps
  <2>2. dir' \in [Snapshots -> {"none", "staged", "visible", "durable"}]
    BY <1>11 DEF TxnSnapshot, TxnSync, TypeOK
  <2>. QED  BY <1>3, <2>1, <2>2 DEF files, TypeOK
<1>12. CASE TxnBak(p)
  <2>1. FileTypes' /\ LocalTypes'
    BY <1>1, <1>3, <1>5, <1>7, <1>12 DEF TxnBak, Steps
  <2>. QED  BY <1>2, <1>12, <2>1 DEF TxnBak
<1>13. CASE TxnMain(p)
  <2>1. arg[p] \in Edits
    BY <1>13 DEF TxnMain, At, Knows
  <2>2. FileTypes' /\ LocalTypes'
    BY <1>1, <1>3, <1>4, <1>8, <1>13 DEF TxnMain
  <2>. QED  BY <1>13, <2>1, <2>2 DEF TxnMain, TypeOK
<1>14. CASE UpRead(p)
  <2>1. LocalTypes'
    BY <1>1, <1>4, <1>6, <1>14 DEF UpRead, Steps
  <2>. QED  BY <1>2, <1>3, <1>14, <2>1 DEF UpRead, files
<1>15. CASE UpBackup(p)
  <2>1. FileTypes' /\ LocalTypes'
    BY <1>1, <1>7, <1>15 DEF UpBackup, Steps
  <2>. QED  BY <1>2, <1>15, <2>1 DEF UpBackup
<1>16. CASE UpMain(p)
  <2>1. [new[p] EXCEPT !.schema = 2] \in Manifests
    BY <1>1, ManifestsClosed
  <2>2. FileTypes' /\ LocalTypes'
    BY <1>1, <1>7, <1>16, <2>1 DEF UpMain, Steps
  <2>. QED  BY <1>2, <1>16, <2>2 DEF UpMain
<1>17. CASE AccRead(p)
  <2>1. arg[p] \in Sessions
    BY <1>17 DEF AccRead, At, Knows
  <2>2. ASSUME NEW g \in Gens
        PROVE  [now["main"] EXCEPT !.chain = Append(@, [gen |-> g, session |-> arg[p]])] \in Manifests
    <3>1. [gen |-> g, session |-> arg[p]] \in Entry
      BY <2>1 DEF Entry
    <3>. QED  BY <1>1, <3>1, ManifestsClosed
  <2>3. LocalTypes'
    BY <1>1, <1>4, <1>6, <1>17, <2>2 DEF AccRead, Steps
  <2>. QED  BY <1>2, <1>3, <1>17, <2>3 DEF AccRead, files
<1>18. CASE AccStage(p) \/ AccPublish(p)
  <2>1. LocalTypes' /\ UNCHANGED <<files, pinned, copied, told>>
    BY <1>4, <1>5, <1>18 DEF AccStage, AccPublish, Steps
  <2>2. dir' \in [Snapshots -> {"none", "staged", "visible", "durable"}]
    BY <1>18 DEF AccStage, AccPublish, TypeOK
  <2>. QED  BY <1>3, <2>1, <2>2 DEF files, TypeOK
<1>19. CASE AccSync(p)
  <2>1. LocalTypes'
    BY <1>4, <1>5, <1>19 DEF AccSync, Steps
  <2>2. /\ dir' \in [Snapshots -> {"none", "staged", "visible", "durable"}]
        /\ FileTypes'
    BY <1>1, <1>19 DEF AccSync, TypeOK, FileTypes
  <2>. QED  BY <1>19, <2>1, <2>2 DEF AccSync, TypeOK
<1>20. CASE AccBak(p)
  <2>1. FileTypes' /\ LocalTypes'
    BY <1>1, <1>7, <1>20 DEF AccBak, Steps
  <2>. QED  BY <1>2, <1>20, <2>1 DEF AccBak
<1>21. CASE AccMain(p)
  <2>1. FileTypes' /\ LocalTypes'
    BY <1>1, <1>7, <1>21 DEF AccMain, Steps
  <2>. QED  BY <1>2, <1>21, <2>1 DEF AccMain
<1>22. CASE AccReceipt(p)
  <2>. DEFINE s == arg[p]
              r == ReceiptOf(new[p], s)
  <2>1. s \in Sessions /\ s \in Accepted(new[p])
    BY <1>22 DEF AccReceipt, At, Knows
  <2>2. r.gen \in Gens
    BY <1>1, <2>1, ReceiptFound
  <2>. HIDE DEF r
  <2>3. /\ UNCHANGED <<files, dir, pinned>> /\ Quit(p)
        /\ \/ copied' = [copied EXCEPT ![s] = r.gen] /\ told' \in {told, told \cup {s}}
           \/ UNCHANGED <<copied, told>>
           \/ UNCHANGED told /\ copied' = [copied EXCEPT ![s] = IF @ = None THEN r.gen ELSE @]
    BY <1>22 DEF AccReceipt, ReceiptOf, r
  <2>4. /\ copied' \in [Sessions -> Gens \cup {None}]
        /\ told' \subseteq Edits \cup Sessions
    BY <2>1, <2>2, <2>3 DEF TypeOK
  <2>. QED  BY <1>3, <1>4, <2>3, <2>4 DEF files, TypeOK
<1>23. CASE RecRead(p)
  <2>1. LocalTypes'
    BY <1>1, <1>4, <1>6, <1>23 DEF RecRead, Steps
  <2>. QED  BY <1>2, <1>3, <1>23, <2>1 DEF RecRead, files
<1>24. CASE ResRead(p)
  <2>1. LocalTypes'
    BY <1>4, <1>5, <1>24 DEF ResRead, Steps
  <2>. QED  BY <1>2, <1>3, <1>24, <2>1 DEF ResRead, files
<1>25. CASE ResKeep(p)
  <2>1. LocalTypes'
    BY <1>4, <1>5, <1>25 DEF ResKeep, Steps
  <2>2. kept' \subseteq Manifests
    BY <1>1, <1>25 DEF ResKeep, TypeOK
  <2>. QED  BY <1>3, <1>25, <2>1, <2>2 DEF ResKeep, TypeOK
<1>26. CASE ResMain(p)
  <2>1. FileTypes' /\ LocalTypes'
    BY <1>1, <1>7, <1>26 DEF ResMain, Steps
  <2>. QED  BY <1>26, <2>1 DEF ResMain, TypeOK
<1>27. CASE Release(p)
  <2>1. LocalTypes'
    BY <1>1, <1>27, LocalEffect DEF Release
  <2>. QED  BY <1>3, <1>27, <2>1 DEF Release, TypeOK
<1>. QED  BY <1>10, <1>11, <1>12, <1>13, <1>14, <1>15, <1>16, <1>17, <1>18, <1>19,
             <1>20, <1>21, <1>22, <1>23, <1>24, <1>25, <1>26, <1>27 DEF Step

LEMMA NextTypeOK ==
  ASSUME TypeOK, \A p \in Procs : Knows(p), [Next]_vars
  PROVE  TypeOK'
<1>1. FileTypes /\ LocalTypes
  BY DEF TypeOK, FileTypes, LocalTypes
<1>2. CASE UNCHANGED vars
  BY <1>2 DEF vars, local, TypeOK
<1>3. CASE Next
  <2>. DEFINE Rest == /\ FileTypes' /\ LocalTypes'
                      /\ lock' \in Procs \cup {"free", "stale"}
                      /\ kept' \subseteq Manifests
                      /\ dir' \in [Snapshots -> {"none", "staged", "visible", "durable"}]
                      /\ pinned' \in [Sessions -> Snapshots \cup {None}]
                      /\ copied' \in [Sessions -> Gens \cup {None}]
                      /\ told' \subseteq Edits \cup Sessions
  <2>1. ASSUME NEW p \in Procs, Begin(p) PROVE Rest
    BY <2>1, BeginTypes DEF TypeOK
  <2>2. ASSUME NEW p \in Procs, Step(p) PROVE Rest
    BY <2>2, StepTypes DEF TypeOK
  <2>3. ASSUME NEW s \in Sessions, Candidate(s) PROVE Rest
    <3>1. CurrentGeneration(now["main"]) \in Snapshots
      <4>1. now["main"].chain \in Seq(Entry)
        BY CurrentManifest DEF Manifests
      <4>2. now["main"].chain # << >> =>
              now["main"].chain[Len(now["main"].chain)] \in Entry
        BY <4>1
      <4>. QED  BY <4>2 DEF CurrentGeneration, Snapshots, Entry
    <3>. QED  BY <2>3, <3>1, <1>1 DEF Candidate, files, local, TypeOK, FileTypes, LocalTypes
  <2>4. ASSUME NEW p \in Procs, Crash(p) PROVE Rest
    BY <1>1, <2>4, LocalEffect DEF Crash, TypeOK, FileTypes
  <2>5. ASSUME ManualUnlock PROVE Rest
    BY <1>1, <2>5 DEF ManualUnlock, local, TypeOK, FileTypes, LocalTypes
  <2>6. ASSUME Damage PROVE Rest
    <3>1. FileTypes'
      <4>1. \A m \in {Damaged, Absent} : Replaced("main", m) => FileTypes'
        BY <1>1, FileEffect, ManifestsClosed DEF Files
      <4>. QED  BY <2>6, <4>1 DEF Damage
    <3>. QED  BY <1>1, <2>6, <3>1 DEF Damage, local, TypeOK, LocalTypes
  <2>7. ASSUME PowerLoss PROVE Rest
    <3>1. FileTypes' /\ LocalTypes'
      BY <1>1, <2>7, ManifestsClosed DEF PowerLoss, FileTypes, LocalTypes, Steps
    <3>. QED  BY <2>7, <3>1 DEF PowerLoss, TypeOK
  <2>8. Rest
    BY <1>3, <2>1, <2>2, <2>3, <2>4, <2>5, <2>6, <2>7 DEF Next, World
  <2>9. cuts' = cuts /\ Observe
    BY <1>3 DEF Next
  <2>10. committed' \in [upgraded : BOOLEAN, chain : Seq(Entry)]
    BY <2>8, <2>9, ObserveTypes
  <2>. QED  BY <2>8, <2>9, <2>10 DEF TypeOK, FileTypes, LocalTypes
<1>. QED  BY <1>2, <1>3

-----------------------------------------------------------------------------
(* The lock, and what is visible.                                          *)

(* A step moves its own command only, and leaves idle to those that begin. *)
LEMMA StepFrame ==
  ASSUME TypeOK, NEW p \in Procs, Step(p)
  PROVE  /\ pc[p] # "idle"
         /\ \A q \in Procs \ {p} : pc'[q] = pc[q]
         /\ lock' = lock \/ pc'[p] = "idle"
<1>1. \A step : Goto(p, step) => \A q \in Procs \ {p} : pc'[q] = pc[q]
  BY DEF TypeOK, Goto, Quit, Drop, Carry
<1>2. Quit(p) \/ Drop(p, "idle") => \A q \in Procs \ {p} : pc'[q] = pc[q]
  BY DEF TypeOK, Quit, Drop, Carry
<1>3. \A step, m, g : Carry(p, step, m, g) => \A q \in Procs \ {p} : pc'[q] = pc[q]
  BY DEF TypeOK, Carry
<1>4. \A f, m, next : Write(p, f, m, next) => \A q \in Procs \ {p} : pc'[q] = pc[q]
  BY <1>1, <1>2 DEF Write
<1>5. CASE TxnRead(p) \/ TxnSnapshot(p) \/ TxnSync(p) \/ TxnBak(p) \/ TxnMain(p)
  BY <1>1, <1>2, <1>3, <1>4, <1>5 DEF TxnRead, TxnSnapshot, TxnSync, TxnBak, TxnMain, At, files
<1>6. CASE UpRead(p) \/ UpBackup(p) \/ UpMain(p)
  BY <1>1, <1>2, <1>3, <1>4, <1>6 DEF UpRead, UpBackup, UpMain, At, files
<1>7. CASE AccRead(p) \/ AccStage(p) \/ AccPublish(p) \/ AccSync(p)
  BY <1>1, <1>2, <1>3, <1>4, <1>7 DEF AccRead, AccStage, AccPublish, AccSync, At, files
<1>8. CASE AccBak(p) \/ AccMain(p) \/ AccReceipt(p) \/ RecRead(p)
  BY <1>1, <1>2, <1>3, <1>4, <1>8 DEF AccBak, AccMain, AccReceipt, RecRead, At, files
<1>9. CASE ResRead(p) \/ ResKeep(p) \/ ResMain(p)
  BY <1>1, <1>2, <1>3, <1>4, <1>9 DEF ResRead, ResKeep, ResMain, At, files
<1>10. CASE Release(p)
  BY <1>2, <1>10 DEF Release, At, Drop, Carry, TypeOK
<1>. QED  BY <1>5, <1>6, <1>7, <1>8, <1>9, <1>10 DEF Step

LEMMA NextWriterAlone ==
  ASSUME TypeOK, WriterAlone, [Next]_vars
  PROVE  WriterAlone'
<1>1. CASE UNCHANGED vars
  BY <1>1 DEF vars, local, WriterAlone
<1>2. ASSUME NEW p \in Procs, Begin(p)
      PROVE  WriterAlone'
  <2>. PICK step \in Steps, what \in Edits \cup Sessions \cup {None} : Start(p, step, what)
    BY <1>2 DEF Begin, Transact, BeginUpgrade, BeginAccept, BeginRecoverAcceptance, BeginRestore, Steps
  <2>. QED  BY StoreConstants DEF Start, TypeOK, WriterAlone
<1>3. ASSUME NEW p \in Procs, Step(p)
      PROVE  WriterAlone'
  <2>1. \A q \in Procs \ {p} : pc'[q] = pc[q] /\ pc[q] = "idle"
    BY <1>3, StepFrame DEF WriterAlone
  <2>. QED  BY <1>3, <2>1, StepFrame DEF WriterAlone
<1>4. ASSUME NEW p \in Procs, Crash(p)
      PROVE  WriterAlone'
  BY <1>4 DEF Crash, At, Drop, Carry, TypeOK, WriterAlone
<1>5. CASE \/ \E s \in Sessions : Candidate(s)
           \/ ManualUnlock \/ Damage \/ PowerLoss
  BY <1>5, StoreConstants DEF Candidate, ManualUnlock, Damage, PowerLoss, files, local, TypeOK, WriterAlone
<1>. QED  BY <1>1, <1>2, <1>3, <1>4, <1>5 DEF Next, World

(* What a step does to the manifest files.                                 *)
Puts(f, m) == Replaced(f, m) \/ Unsynced(f, m)

LEMMA StepPuts ==
  ASSUME NEW p \in Procs, Step(p)
  PROVE  \/ UNCHANGED <<now, after>>
         \/ pc[p] = "acc.sync" /\ now' = now /\ after' = {now}
         \/ pc[p] = "txn.bak" /\ Present(now["main"]) /\ Puts("bak", now["main"])
         \/ pc[p] = "acc.bak" /\ Puts("bak", now["main"])
         \/ pc[p] = "up.backup" /\ Puts("up", new[p])
         \/ pc[p] = "up.main" /\ Puts("main", [new[p] EXCEPT !.schema = 2])
         \/ pc[p] = "acc.main" /\ Puts("main", new[p])
         \/ pc[p] = "txn.main" /\ Puts("main", new[p])
         \/ pc[p] = "res.main" /\ Puts("main", now["bak"])
<1>1. CASE TxnRead(p) \/ TxnSnapshot(p) \/ TxnSync(p) \/ TxnBak(p) \/ TxnMain(p)
  BY <1>1 DEF TxnRead, TxnSnapshot, TxnSync, TxnBak, TxnMain, At, files, Write, Puts
<1>2. CASE UpRead(p) \/ UpBackup(p) \/ UpMain(p)
  BY <1>2 DEF UpRead, UpBackup, UpMain, At, files, Write, Puts
<1>3. CASE AccRead(p) \/ AccStage(p) \/ AccPublish(p) \/ AccSync(p)
  BY <1>3 DEF AccRead, AccStage, AccPublish, AccSync, At, files
<1>4. CASE AccBak(p) \/ AccMain(p) \/ AccReceipt(p) \/ RecRead(p)
  BY <1>4 DEF AccBak, AccMain, AccReceipt, RecRead, At, files, Write, Puts
<1>5. CASE ResRead(p) \/ ResKeep(p) \/ ResMain(p) \/ Release(p)
  BY <1>5 DEF ResRead, ResKeep, ResMain, Release, At, files, Write, Puts
<1>. QED  BY <1>1, <1>2, <1>3, <1>4, <1>5 DEF Step

LEMMA PutsEffect ==
  ASSUME TypeOK, Visible, NEW f \in Files, NEW m \in Manifests, Puts(f, m)
  PROVE  /\ now' = [now EXCEPT ![f] = m]
         /\ now' \in after' /\ after' \subseteq after \cup {now'}
         /\ ~cuts => after' = {now'}
BY DEF Puts, Replaced, Unsynced, Visible

LEMMA NextVisible ==
  ASSUME TypeOK, Visible, Commands, [Next]_vars
  PROVE  Visible'
<1>1. CASE UNCHANGED vars
  BY <1>1 DEF vars, Visible
<1>2. ASSUME Next, UNCHANGED <<now, after>>
      PROVE  Visible'
  BY <1>2 DEF Next, Visible
<1>3. ASSUME Next, NEW f \in Files, NEW m \in Manifests, Puts(f, m)
      PROVE  Visible'
  BY <1>3, PutsEffect DEF Next, Visible
<1>4. ASSUME NEW p \in Procs, Step(p), Next
      PROVE  Visible'
  <2>1. /\ now["main"] \in Manifests /\ now["bak"] \in Manifests /\ new[p] \in Manifests
        /\ [new[p] EXCEPT !.schema = 2] \in Manifests
        /\ "main" \in Files /\ "bak" \in Files /\ "up" \in Files
    BY CurrentManifest, ManifestsClosed DEF TypeOK, Files
  <2>2. CASE now' = now /\ after' = {now}
    BY <1>4, <2>2 DEF Next, Visible
  <2>. QED  BY <1>2, <1>3, <1>4, <2>1, <2>2, StepPuts
<1>5. CASE Damage /\ Next
  <2>1. Absent \in Manifests /\ Damaged \in Manifests /\ "main" \in Files
    BY ManifestsClosed DEF Files
  <2>. QED  BY <1>3, <1>5, <2>1 DEF Damage, Puts
<1>6. CASE PowerLoss /\ Next
  BY <1>6 DEF PowerLoss, Next, Visible
<1>7. ASSUME NEW p \in Procs, Begin(p), Next
      PROVE  Visible'
  BY <1>2, <1>7 DEF Begin, Transact, BeginUpgrade, BeginAccept, BeginRecoverAcceptance, BeginRestore, Start
<1>8. CASE Next /\ (ManualUnlock \/ (\E s \in Sessions : Candidate(s)) \/ \E p \in Procs : Crash(p))
  BY <1>2, <1>8 DEF ManualUnlock, Candidate, Crash, files
<1>. QED  BY <1>1, <1>4, <1>5, <1>6, <1>7, <1>8 DEF Next, World

-----------------------------------------------------------------------------
(* The files: what is written has all that was told, committed and made    *)
(* durable.                                                                *)

(* What a command reads is fit to be current, and so is the empty manifest *)
(* of a store without files.                                               *)
LEMMA CurrentFits ==
  ASSUME TypeOK, Visible, Disk, Ledger, Usable
  PROVE  /\ Readable(Current)
         /\ Sound(Current) /\ Backed(Current, dir)
         /\ Follows(Current, pinned, told, committed)
         /\ Current.schema = 2 => Present(now["up"])
<1>1. Fit(now, dir, pinned, told, committed) /\ "main" \in Files
  BY DEF Visible, Disk, Files
<1>2. CASE Readable(now["main"])
  BY <1>1, <1>2 DEF Fit, Current, Readable, Present
<1>3. CASE Untold
  <2>1. Current = Empty
    BY <1>3 DEF Untold, Current
  <2>2. committed.chain = << >>
    BY <1>3 DEF Ledger, Untold
  <2>3. << >> \in Seq(Entry) /\ Len(<< >>) = 0
    OBVIOUS
  <2>4. History!Extends(committed.chain, << >>) /\ History!Linear(<< >>, pinned)
    BY <2>2, <2>3, ExtendsItself, LinearEmpty
  <2>5. Named(Empty) = {}
    BY <2>3 DEF Empty, Named, Receipts
  <2>. QED  BY <1>3, <2>1, <2>4, <2>5 DEF Empty, Untold, Follows, Sound, Backed, Readable
<1>. QED  BY <1>2, <1>3 DEF Usable

LEMMA CanReadUsable ==
  ASSUME TypeOK, Visible, Disk, Ledger, CanRead
  PROVE  Usable
<1>1. Fit(now, dir, pinned, told, committed)
  BY DEF Visible, Disk
<1>2. CASE ~Present(now["main"]) /\ ~Present(now["bak"]) /\ ~Present(now["up"])
  BY <1>1, <1>2 DEF Fit, Usable, Untold, Files
<1>. QED  BY <1>2 DEF CanRead, Usable

(* A file written over a fit set of files, by something that fits.         *)
LEMMA WriteFits ==
  ASSUME NEW d \in [Files -> Manifests], NEW f \in Files, NEW m \in Manifests,
         NEW dr, NEW pins, NEW t, NEW u, NEW c,
         Fit(d, dr, pins, t, c),
         Sound(m), Backed(m, dr),
         f = "main" => Readable(m) /\ Follows(m, pins, u, c) /\ (m.schema = 2 => Present(d["up"])),
         f # "main" => Present(m) /\ u \cap Edits \subseteq t \cap Edits
  PROVE  Fit([d EXCEPT ![f] = m], dr, pins, u, c)
<1>. DEFINE n == [d EXCEPT ![f] = m]
<1>1. n[f] = m /\ \A g \in Files \ {f} : n[g] = d[g]
  OBVIOUS
<1>2. "main" \in Files /\ "up" \in Files
  BY DEF Files
<1>. HIDE DEF n
<1>3. \A g \in Files : Sound(n[g]) /\ Backed(n[g], dr)
  BY <1>1 DEF Fit
<1>4. Readable(n["main"]) => Follows(n["main"], pins, u, c)
  BY <1>1, <1>2 DEF Fit, Follows
<1>5. c.upgraded \/ n["main"].schema = 2 => Present(n["up"])
  BY <1>1, <1>2 DEF Fit, Follows
<1>6. (\A g \in Files : ~Present(n[g])) => u \cap Edits = {}
  BY <1>1, <1>2 DEF Readable, Present
<1>7. Fit(n, dr, pins, u, c)
  BY <1>3, <1>4, <1>5, <1>6 DEF Fit
<1>. QED  BY <1>7 DEF n

(* Less told, and snapshots that are named kept durable, stay fit.         *)
LEMMA KeptFits ==
  ASSUME NEW d, NEW dr, NEW dr2, NEW pins, NEW t, NEW u, NEW c,
         Fit(d, dr, pins, t, c),
         u \cap Edits \subseteq t \cap Edits,
         \A f \in Files : \A g \in Named(d[f]) : dr[g] = "durable" => dr2[g] = "durable"
  PROVE  Fit(d, dr2, pins, u, c)
BY DEF Fit, Follows, Backed

LEMMA NamedGens ==
  ASSUME NEW m \in Manifests
  PROVE  /\ \A g \in Named(m) \ {Import} : g \in Gens
         /\ Import \in Named(m) => Managed \in m.edits
<1>1. \A r \in Receipts(m) : r.gen \in Gens
  BY ReceiptsAreEntries DEF Entry
<1>. QED  BY <1>1, StoreConstants DEF Named

(* The snapshot that a step changes is not named yet.                      *)
LEMMA StepKeepsSnapshots ==
  ASSUME TypeOK, Visible, Disk, NEW p \in Procs, Knows(p), Step(p)
  PROVE  \A d \in after : \A f \in Files : \A g \in Named(d[f]) : dir'[g] = "durable"
<1>. SUFFICES ASSUME NEW d \in after, NEW f \in Files, NEW g \in Named(d[f])
              PROVE  dir'[g] = "durable"
  OBVIOUS
<1>1. dir[g] = "durable" /\ d[f] \in Manifests
  BY DEF Disk, Fit, Backed, TypeOK
<1>2. g \in Snapshots
  BY <1>1, NamedGens DEF Snapshots
<1>3. CASE UNCHANGED dir
  BY <1>1, <1>3
<1>4. CASE TxnSnapshot(p) \/ TxnSync(p)
  <2>1. g # Import
    BY <1>1, <1>4, NamedGens DEF TxnSnapshot, TxnSync, At, Knows, ImportNamed
  <2>. QED  BY <1>1, <1>2, <1>4, <2>1 DEF TxnSnapshot, TxnSync, TypeOK
<1>5. CASE AccStage(p) \/ AccPublish(p) \/ AccSync(p)
  <2>1. g # gid[p]
    BY <1>1, <1>5 DEF AccStage, AccPublish, AccSync, At, Knows
  <2>. QED  BY <1>1, <1>2, <1>5, <2>1 DEF AccStage, AccPublish, AccSync, TypeOK
<1>6. Step(p) => \/ UNCHANGED dir
                 \/ TxnSnapshot(p) \/ TxnSync(p) \/ AccStage(p) \/ AccPublish(p) \/ AccSync(p)
  BY DEF Step, TxnRead, TxnBak, TxnMain, UpRead, UpBackup, UpMain, AccRead, AccBak, AccMain,
         AccReceipt, RecRead, ResRead, ResKeep, ResMain, Release
<1>. QED  BY <1>3, <1>4, <1>5, <1>6

(* What a command is about to make current.                                *)
Writes(m, u) ==
  /\ Readable(m) /\ Sound(m) /\ Backed(m, dir)
  /\ Follows(m, pinned, u, committed)
  /\ m.schema = 2 => Present(now["up"])

LEMMA TransactionFits ==
  ASSUME TypeOK, Visible, Disk, Ledger, NEW p \in Procs, Knows(p), pc[p] = "txn.main"
  PROVE  Writes(new[p], told \cup {arg[p]})
<1>1. /\ Usable /\ arg[p] \in Edits
      /\ new[p] = [Current EXCEPT !.edits = @ \cup {arg[p]}]
      /\ Managed \in new[p].edits => dir[Import] = "durable"
  BY DEF Knows
<1>2. /\ Readable(Current) /\ Sound(Current) /\ Backed(Current, dir)
      /\ Follows(Current, pinned, told, committed)
      /\ Current.schema = 2 => Present(now["up"])
      /\ Current \in Manifests
  BY <1>1, CurrentFits, CurrentManifest
<1>3. /\ new[p].schema = Current.schema /\ new[p].chain = Current.chain
      /\ new[p].edits = Current.edits \cup {arg[p]}
  BY <1>1, <1>2 DEF Manifests
<1>4. \A g \in Named(new[p]) : g \in Named(Current) \/ (g = Import /\ Managed \in new[p].edits)
  BY <1>3 DEF Named, Receipts
<1>5. Backed(new[p], dir)
  BY <1>1, <1>2, <1>4 DEF Backed
<1>. QED  BY <1>2, <1>3, <1>5 DEF Writes, Readable, Sound, Follows

LEMMA UpgradeFits ==
  ASSUME TypeOK, Visible, Disk, Ledger, NEW p \in Procs, Knows(p), pc[p] \in {"up.backup", "up.main"}
  PROVE  /\ Sound(new[p]) /\ Backed(new[p], dir) /\ Present(new[p])
         /\ pc[p] = "up.main" => Writes([new[p] EXCEPT !.schema = 2], told)
<1>1. Usable /\ new[p] = Current /\ Current.schema = 1 /\ (pc[p] = "up.main" => now["up"] = Current)
  BY DEF Knows
<1>2. /\ Sound(Current) /\ Backed(Current, dir)
      /\ Follows(Current, pinned, told, committed) /\ Current \in Manifests
  BY <1>1, CurrentFits, CurrentManifest
<1>3. PICK m \in Manifests : m = [new[p] EXCEPT !.schema = 2]
  BY <1>1, <1>2, ManifestsClosed
<1>4. m.schema = 2 /\ m.chain = Current.chain /\ m.edits = Current.edits
  BY <1>1, <1>2, <1>3 DEF Manifests
<1>5. Named(m) = Named(Current)
  BY <1>4 DEF Named, Receipts
<1>6. Backed(m, dir) /\ Sound(m) /\ Follows(m, pinned, told, committed)
  BY <1>2, <1>4, <1>5 DEF Backed, Sound, Follows
<1>7. pc[p] = "up.main" => Writes(m, told)
  BY <1>1, <1>4, <1>6 DEF Writes, Readable, Present
<1>. QED  BY <1>1, <1>2, <1>3, <1>7 DEF Present

LEMMA AcceptanceFits ==
  ASSUME TypeOK, Visible, Disk, Ledger, NEW p \in Procs, Knows(p), pc[p] = "acc.main"
  PROVE  Writes(new[p], told)
<1>. DEFINE m == now["main"]
            e == [gen |-> gid[p], session |-> arg[p]]
<1>1. /\ m.schema = 2 /\ arg[p] \in Sessions \ Accepted(m) /\ gid[p] \in Gens
      /\ pinned[arg[p]] = CurrentGeneration(m)
      /\ new[p] = [m EXCEPT !.chain = Append(@, e)]
      /\ \A r \in Receipts(m) : r.gen # gid[p]
      /\ dir[gid[p]] = "durable"
  BY DEF Knows
<1>2. m \in Manifests /\ m.chain \in Seq(Entry) /\ e \in Entry
      /\ e.gen = gid[p] /\ e.session = arg[p]
  BY <1>1, CurrentManifest DEF Manifests, Entry
<1>3. /\ Readable(m) /\ Backed(m, dir) /\ Follows(m, pinned, told, committed)
      /\ Present(now["up"])
  BY <1>1 DEF Visible, Disk, Fit, Files, Readable
<1>. HIDE DEF m, e
<1>4. new[p].schema = 2 /\ new[p].edits = m.edits /\ new[p].chain = Append(m.chain, e)
  BY <1>1, <1>2 DEF Manifests
<1>5. History!Extends(committed.chain, Append(m.chain, e))
  BY <1>2, <1>3, ExtendsAppend DEF Follows, TypeOK
<1>6. History!Linear(Append(m.chain, e), pinned)
  <2>1. \A i \in 1 .. Len(m.chain) : m.chain[i].gen # e.gen /\ m.chain[i].session # e.session
    BY <1>1, <1>2 DEF Receipts, Accepted
  <2>. QED  BY <1>1, <1>2, <1>3, <2>1, LinearAppend DEF Follows, CurrentGeneration
<1>7. Follows(new[p], pinned, told, committed)
  BY <1>3, <1>4, <1>5, <1>6 DEF Follows
<1>8. \A g \in Named(new[p]) : g \in Named(m) \/ g = gid[p]
  <2>1. \A i \in 1 .. Len(Append(m.chain, e)) :
          Append(m.chain, e)[i] = e \/ \E j \in 1 .. Len(m.chain) : Append(m.chain, e)[i] = m.chain[j]
    BY <1>2
  <2>2. \A r \in Receipts(new[p]) : r \in Receipts(m) \/ r = e
    BY <1>4, <2>1 DEF Receipts
  <2>. QED  BY <1>2, <1>4, <2>2 DEF Named
<1>9. Backed(new[p], dir)
  BY <1>1, <1>3, <1>8 DEF Backed
<1>. QED  BY <1>3, <1>4, <1>7, <1>9 DEF Writes, Readable, Sound

LEMMA RestoreFits ==
  ASSUME TypeOK, Visible, Disk, Ledger, NEW p \in Procs, Knows(p), pc[p] = "res.main",
         NEW u, u \cap Edits \subseteq now["bak"].edits
  PROVE  Writes(now["bak"], u)
<1>1. now["bak"].schema = 1 /\ ~Present(now["up"])
  BY DEF Knows
<1>2. Fit(now, dir, pinned, told, committed) /\ "bak" \in Files
  BY DEF Visible, Disk, Files
<1>3. ~committed.upgraded /\ now["bak"].chain = << >>
  BY <1>1, <1>2 DEF Fit, Sound
<1>4. committed.chain = << >>
  BY <1>3 DEF Ledger
<1>5. << >> \in Seq(Entry)
  OBVIOUS
<1>6. Follows(now["bak"], pinned, u, committed)
  BY <1>3, <1>4, <1>5, ExtendsItself, LinearEmpty DEF Follows
<1>. QED  BY <1>1, <1>2, <1>6 DEF Writes, Fit, Readable

(* What a step tells: only a transaction that was synced adds an edit.     *)
LEMMA StepTells ==
  ASSUME TypeOK, NEW p \in Procs, Knows(p), Step(p)
  PROVE  /\ \/ told' \cap Edits \subseteq told \cap Edits
            \/ pc[p] = "txn.main" /\ Replaced("main", new[p]) /\ told' = told \cup {arg[p]}
         /\ pc[p] = "res.main" => told' \cap Edits \subseteq told \cap now'["main"].edits
         /\ UNCHANGED pinned
         /\ dir' = dir \/ UNCHANGED now
<1>1. CASE TxnRead(p) \/ TxnSnapshot(p) \/ TxnSync(p) \/ TxnBak(p)
  BY <1>1 DEF TxnRead, TxnSnapshot, TxnSync, TxnBak, At, files
<1>2. CASE TxnMain(p)
  BY <1>2 DEF TxnMain, At
<1>3. CASE UpRead(p) \/ UpBackup(p) \/ UpMain(p)
  BY <1>3 DEF UpRead, UpBackup, UpMain, At
<1>4. CASE AccRead(p) \/ AccStage(p) \/ AccPublish(p) \/ AccSync(p) \/ AccBak(p) \/ AccMain(p) \/ RecRead(p)
  BY <1>4 DEF AccRead, AccStage, AccPublish, AccSync, AccBak, AccMain, RecRead, At, files
<1>5. CASE AccReceipt(p)
  <2>1. told' = told \/ told' = told \cup {arg[p]}
    BY <1>5 DEF AccReceipt
  <2>2. arg[p] \in Sessions /\ UNCHANGED <<pinned, dir>> /\ pc[p] = "acc.receipt"
    BY <1>5 DEF AccReceipt, At, Knows
  <2>. QED  BY <2>1, <2>2, StoreConstants
<1>6. CASE ResRead(p) \/ ResKeep(p) \/ Release(p)
  BY <1>6 DEF ResRead, ResKeep, Release, At
<1>7. CASE ResMain(p)
  <2>1. told' = told \cap (now'["main"].edits \cup Sessions) /\ UNCHANGED <<dir, pinned>> /\ pc[p] = "res.main"
    BY <1>7 DEF ResMain, At
  <2>. QED  BY <2>1, StoreConstants
<1>. QED  BY <1>1, <1>2, <1>3, <1>4, <1>5, <1>6, <1>7 DEF Step

LEMMA StepFits ==
  ASSUME TypeOK, Visible, Disk, Ledger, NEW p \in Procs, Knows(p), Step(p)
  PROVE  \A d \in after' : Fit(d, dir', pinned', told', committed)
<1>1. /\ now \in [Files -> Manifests] /\ now["main"] \in Manifests /\ now["bak"] \in Manifests
      /\ new[p] \in Manifests /\ [new[p] EXCEPT !.schema = 2] \in Manifests
      /\ "main" \in Files /\ "bak" \in Files /\ "up" \in Files
      /\ now \in after /\ pinned' = pinned
  BY CurrentManifest, ManifestsClosed, StepTells DEF TypeOK, Files, Visible
<1>2. ASSUME told' \cap Edits \subseteq told \cap Edits
      PROVE  \A d \in after : Fit(d, dir', pinned', told', committed)
  <2>. SUFFICES ASSUME NEW d \in after PROVE Fit(d, dir', pinned', told', committed)
    OBVIOUS
  <2>1. Fit(d, dir, pinned, told, committed)
    BY DEF Disk
  <2>2. \A f \in Files : \A g \in Named(d[f]) : dir'[g] = "durable"
    BY StepKeepsSnapshots
  <2>. QED  BY <1>1, <1>2, <2>1, <2>2, KeptFits
<1>3. ASSUME NEW f \in Files, NEW m \in Manifests, Puts(f, m), dir' = dir,
             told' \cap Edits \subseteq told \cap Edits,
             Sound(m), Backed(m, dir), f # "main" => Present(m),
             f = "main" => Writes(m, told')
      PROVE  \A d \in after' : Fit(d, dir', pinned', told', committed)
  <2>1. now' = [now EXCEPT ![f] = m] /\ after' \subseteq after \cup {now'}
    BY <1>3, PutsEffect
  <2>2. Fit(now, dir', pinned', told', committed)
    BY <1>1, <1>2, <1>3
  <2>3. Fit([now EXCEPT ![f] = m], dir', pinned', told', committed)
    BY <1>1, <1>3, <2>2, WriteFits DEF Writes
  <2>. QED  BY <1>2, <1>3, <2>1, <2>3
<1>4. CASE UNCHANGED <<now, after>> \/ (now' = now /\ after' = {now})
  <2>1. CASE told' \cap Edits \subseteq told \cap Edits
    BY <1>1, <1>2, <1>4, <2>1
  <2>2. CASE pc[p] = "txn.main" /\ Replaced("main", new[p]) /\ told' = told \cup {arg[p]}
    <3>1. Writes(new[p], told') /\ dir' = dir
      <4>1. Writes(new[p], told')
        BY <2>2, TransactionFits
      <4>2. dir' = dir
        BY <2>2 DEF Step, At, TxnRead, TxnSnapshot, TxnSync, TxnBak, TxnMain, UpRead, UpBackup,
           UpMain, AccRead, AccStage, AccPublish, AccSync, AccBak, AccMain, AccReceipt, RecRead,
           ResRead, ResKeep, ResMain, Release
      <4>. QED  BY <4>1, <4>2
    <3>2. now' = [now EXCEPT !["main"] = new[p]] /\ after' = {now'}
      BY <2>2 DEF Replaced
    <3>3. Fit(now, dir, pinned, told, committed)
      BY <1>1 DEF Disk
    <3>4. Fit([now EXCEPT !["main"] = new[p]], dir, pinned, told', committed)
      BY <1>1, <3>1, <3>3, WriteFits DEF Writes
    <3>. QED  BY <1>1, <3>1, <3>2, <3>4
  <2>. QED  BY <2>1, <2>2, StepTells
<1>5. CASE now' # now
  <2>1. dir' = dir
    BY <1>5, StepTells
  <2>2. Fit(now, dir, pinned, told, committed)
    BY <1>1 DEF Disk
  <2>3. CASE ((pc[p] = "txn.bak" /\ Present(now["main"])) \/ pc[p] = "acc.bak") /\ Puts("bak", now["main"])
    <3>1. Present(now["main"])
      BY <2>3 DEF Knows, Present
    <3>. QED  BY <1>1, <1>3, <2>1, <2>2, <2>3, <3>1, StepTells DEF Fit
  <2>4. CASE pc[p] = "up.backup" /\ Puts("up", new[p])
    BY <1>1, <1>3, <2>1, <2>4, StepTells, UpgradeFits
  <2>5. CASE pc[p] = "up.main" /\ Puts("main", [new[p] EXCEPT !.schema = 2])
    <3>1. told' \cap Edits \subseteq told \cap Edits
      BY <2>5, StepTells
    <3>2. Writes([new[p] EXCEPT !.schema = 2], told)
      BY <2>5, UpgradeFits
    <3>3. Writes([new[p] EXCEPT !.schema = 2], told')
      BY <3>1, <3>2 DEF Writes, Follows
    <3>. QED  BY <1>1, <1>3, <2>1, <2>5, <3>1, <3>3 DEF Writes
  <2>6. CASE pc[p] = "acc.main" /\ Puts("main", new[p])
    <3>1. told' \cap Edits \subseteq told \cap Edits
      BY <2>6, StepTells
    <3>2. Writes(new[p], told')
      BY <2>6, <3>1, AcceptanceFits DEF Writes, Follows
    <3>. QED  BY <1>1, <1>3, <2>1, <2>6, <3>1, <3>2 DEF Writes
  <2>7. CASE pc[p] = "txn.main" /\ Puts("main", new[p])
    <3>1. Writes(new[p], told \cup {arg[p]})
      BY <2>7, TransactionFits
    <3>2. CASE told' \cap Edits \subseteq told \cap Edits
      <4>1. Writes(new[p], told')
        BY <3>1, <3>2 DEF Writes, Follows
      <4>. QED  BY <1>1, <1>3, <2>1, <2>7, <3>2, <4>1 DEF Writes
    <3>3. CASE Replaced("main", new[p]) /\ told' = told \cup {arg[p]}
      <4>1. now' = [now EXCEPT !["main"] = new[p]] /\ after' = {now'}
        BY <3>3 DEF Replaced
      <4>2. Fit([now EXCEPT !["main"] = new[p]], dir, pinned, told', committed)
        BY <1>1, <2>2, <3>1, <3>3, WriteFits DEF Writes
      <4>. QED  BY <1>1, <2>1, <4>1, <4>2
    <3>. QED  BY <3>2, <3>3, StepTells
  <2>8. CASE pc[p] = "res.main" /\ Puts("main", now["bak"])
    <3>1. now'["main"] = now["bak"]
      BY <1>1, <2>8, PutsEffect
    <3>2. told' \cap Edits \subseteq told \cap Edits /\ told' \cap Edits \subseteq now["bak"].edits
      BY <2>8, <3>1, StepTells
    <3>3. Writes(now["bak"], told')
      BY <2>8, <3>2, RestoreFits
    <3>. QED  BY <1>1, <1>3, <2>1, <2>8, <3>2, <3>3 DEF Writes
  <2>. QED  BY <1>5, <2>3, <2>4, <2>5, <2>6, <2>7, <2>8, StepPuts
<1>6. CASE now' = now /\ after' # after /\ after' # {now}
  <2>1. ASSUME NEW f \in Files, NEW m \in Manifests, Puts(f, m)
        PROVE  FALSE
    BY <1>1, <1>6, <2>1 DEF Puts, Replaced, Unsynced
  <2>. QED  BY <1>1, <1>6, <2>1, StepPuts
<1>. QED  BY <1>4, <1>5, <1>6

-----------------------------------------------------------------------------
(* The files under the other steps, and what the histories make of them.   *)

(* A session that is pinned now was not in a linear history.               *)
LEMMA LinearPins ==
  ASSUME NEW h \in Seq(Entry), NEW pins, NEW pins2, History!Linear(h, pins),
         \A s \in Sessions : pins[s] # None => pins2[s] = pins[s]
  PROVE  History!Linear(h, pins2)
<1>1. ASSUME NEW i \in 1 .. Len(h)
      PROVE  pins2[h[i].session] = History!PredecessorOf(h, i)
  <2>1. /\ h[i].session \in Sessions
        /\ i # 1 => i - 1 \in 1 .. Len(h) /\ h[i - 1].gen \in Gens
    <3>1. \A j \in 1 .. Len(h) : h[j] \in Entry
      BY ElementOfSeq
    <3>2. i # 1 => i - 1 \in 1 .. Len(h)
      OBVIOUS
    <3>. QED  BY <3>1, <3>2 DEF Entry
  <2>2. pins[h[i].session] = History!PredecessorOf(h, i)
    BY DEF History!Linear
  <2>3. History!PredecessorOf(h, i) # None
    BY <2>1, StoreConstants DEF History!PredecessorOf
  <2>. QED  BY <2>1, <2>2, <2>3
<1>. QED  BY <1>1 DEF History!Linear

LEMMA DamageFits ==
  ASSUME TypeOK, Visible, Disk, Damage
  PROVE  \A d \in after' : Fit(d, dir', pinned', told', committed)
<1>1. Fit(now, dir, pinned, told, committed) /\ now \in [Files -> Manifests]
  BY DEF Visible, Disk, TypeOK
<1>2. PICK m \in {Damaged, Absent} :
        /\ now' = [now EXCEPT !["main"] = m] /\ after' = {now'}
        /\ m.schema = 0 => Present(now["bak"]) \/ Present(now["up"])
        /\ UNCHANGED <<dir, pinned, told>>
  <2>1. CASE Replaced("main", Damaged)
    BY <2>1 DEF Damage, Replaced, Damaged
  <2>2. CASE (Present(now["bak"]) \/ Present(now["up"])) /\ Replaced("main", Absent)
    BY <2>2 DEF Damage, Replaced
  <2>. QED  BY <2>1, <2>2 DEF Damage
<1>3. << >> \in Seq(Entry) /\ Len(<< >>) = 0
  OBVIOUS
<1>4. Named(m) = {} /\ m.chain = << >> /\ m.schema \in {0, 3}
  <2>1. m.edits = {} /\ m.chain = << >> /\ m.schema \in {0, 3}
    BY DEF Damaged, Absent
  <2>2. Receipts(m) = {}
    BY <1>3, <2>1 DEF Receipts
  <2>3. { r.gen : r \in Receipts(m) } = {}
    BY <2>2
  <2>4. Managed \notin m.edits
    BY <2>1
  <2>5. Named(m) = {}
    BY <2>3, <2>4 DEF Named
  <2>. QED  BY <2>1, <2>5
<1>5. now'["main"] = m /\ \A f \in Files \ {"main"} : now'[f] = now[f]
  BY <1>1, <1>2 DEF Files
<1>6. Sound(m) /\ Backed(m, dir) /\ ~Readable(m)
  BY <1>4 DEF Sound, Backed, Readable
<1>7. \A f \in Files : Sound(now'[f]) /\ Backed(now'[f], dir)
  BY <1>1, <1>5, <1>6 DEF Fit
<1>8. committed.upgraded \/ now'["main"].schema = 2 => Present(now'["up"])
  BY <1>1, <1>4, <1>5 DEF Fit, Files
<1>9. ~(\A f \in Files : ~Present(now'[f]))
  BY <1>2, <1>4, <1>5 DEF Present, Files
<1>10. Fit(now', dir, pinned, told, committed)
  BY <1>5, <1>6, <1>7, <1>8, <1>9 DEF Fit
<1>. QED  BY <1>2, <1>10

LEMMA NextFits ==
  ASSUME TypeOK, Visible, Disk, Ledger, Commands, [Next]_vars
  PROVE  \A d \in after' : Fit(d, dir', pinned', told', committed)
<1>1. CASE UNCHANGED <<after, dir, pinned, told>>
  BY <1>1 DEF Disk
<1>2. ASSUME NEW p \in Procs, Step(p)
      PROVE  \A d \in after' : Fit(d, dir', pinned', told', committed)
  BY <1>2, StepFits DEF Commands
<1>3. CASE Damage
  BY <1>3, DamageFits
<1>4. ASSUME NEW s \in Sessions, Candidate(s)
      PROVE  \A d \in after' : Fit(d, dir', pinned', told', committed)
  <2>1. UNCHANGED <<after, dir, told>> /\ \A r \in Sessions : pinned[r] # None => pinned'[r] = pinned[r]
    BY <1>4 DEF Candidate, files, TypeOK
  <2>2. ASSUME NEW d \in after
        PROVE  Fit(d, dir, pinned', told, committed)
    <3>1. Fit(d, dir, pinned, told, committed) /\ d["main"].chain \in Seq(Entry)
      BY DEF Disk, TypeOK, Files, Manifests
    <3>2. Follows(d["main"], pinned, told, committed) => Follows(d["main"], pinned', told, committed)
      BY <2>1, <3>1, LinearPins DEF Follows
    <3>. QED  BY <3>1, <3>2 DEF Fit
  <2>. QED  BY <2>1, <2>2
<1>5. CASE PowerLoss
  <2>1. after' \subseteq after /\ UNCHANGED <<pinned, told>>
    BY <1>5 DEF PowerLoss, Visible
  <2>2. \A g \in Snapshots : dir[g] = "durable" => dir'[g] = "durable"
    BY <1>5 DEF PowerLoss
  <2>3. ASSUME NEW d \in after
        PROVE  Fit(d, dir', pinned, told, committed)
    <3>1. Fit(d, dir, pinned, told, committed)
      BY DEF Disk
    <3>2. ASSUME NEW f \in Files, NEW g \in Named(d[f]), dir[g] = "durable"
          PROVE  dir'[g] = "durable"
      <4>1. d[f] \in Manifests
        BY DEF TypeOK
      <4>2. g \in Snapshots
        BY <4>1, NamedGens DEF Snapshots
      <4>. QED  BY <2>2, <3>2, <4>2
    <3>. QED  BY <3>1, <3>2, KeptFits
  <2>. QED  BY <2>1, <2>3
<1>6. ASSUME NEW p \in Procs, Begin(p) \/ Crash(p)
      PROVE  UNCHANGED <<after, dir, pinned, told>>
  BY <1>6 DEF Begin, Transact, BeginUpgrade, BeginAccept, BeginRecoverAcceptance, BeginRestore, Start, Crash
<1>7. CASE ManualUnlock \/ UNCHANGED vars
  BY <1>1, <1>7 DEF ManualUnlock, vars
<1>. QED  BY <1>1, <1>2, <1>3, <1>4, <1>5, <1>6, <1>7 DEF Next, World

(* committed moves only forward, to the history of a manifest that is      *)
(* synced and readable.                                                    *)
LEMMA NextCommits ==
  ASSUME TypeOK, TypeOK', Visible', Disk, Ledger, [Next]_vars,
         \A d \in after' : Fit(d, dir', pinned', told', committed)
  PROVE  /\ Disk'
         /\ committed'.chain # << >> => committed'.upgraded
         /\ after' = {now'} /\ Readable(now'["main"]) =>
              committed' = [upgraded |-> now'["main"].schema = 2, chain |-> now'["main"].chain]
         /\ History!Extends(committed.chain, committed'.chain)
         /\ committed.upgraded => committed'.upgraded
         /\ committed' # committed => History!Linear(committed'.chain, pinned')
<1>. DEFINE m == now'["main"]
            c == [upgraded |-> m.schema = 2, chain |-> m.chain]
<1>1. m \in Manifests /\ m.chain \in Seq(Entry) /\ committed.chain \in Seq(Entry)
  BY DEF TypeOK, Files, Manifests
<1>2. CASE committed' = committed /\ (Observe => ~(after' = {now'} /\ Readable(m)))
  <2>1. Disk'
    BY <1>2 DEF Disk
  <2>2. CASE Observe
    BY <1>1, <1>2, <2>1, <2>2, ExtendsItself DEF Ledger
  <2>3. CASE UNCHANGED vars
    BY <1>1, <1>2, <2>1, <2>3, ExtendsItself DEF Ledger, vars
  <2>. QED  BY <2>2, <2>3 DEF Next
<1>3. CASE after' = {now'} /\ Readable(m) /\ committed' = c
  <2>1. Fit(now', dir', pinned', told', committed) /\ Follows(m, pinned', told', committed)
    BY <1>3 DEF Fit
  <2>2. c.chain = m.chain /\ (c.upgraded <=> m.schema = 2)
    OBVIOUS
  <2>3. Follows(m, pinned', told', c)
    BY <1>1, <2>1, <2>2, ExtendsItself DEF Follows
  <2>. HIDE DEF c
  <2>4. Fit(now', dir', pinned', told', c)
    BY <2>1, <2>2, <2>3 DEF Fit
  <2>5. Disk'
    BY <1>3, <2>4 DEF Disk
  <2>6. c.chain # << >> => c.upgraded
    BY <2>1, <2>2 DEF Fit, Files, Sound
  <2>. QED  BY <1>3, <2>1, <2>2, <2>5, <2>6 DEF Follows, c
<1>4. CASE UNCHANGED vars
  BY <1>1, <1>2, <1>4, ExtendsItself DEF vars, Ledger, Disk
<1>. QED  BY <1>2, <1>3, <1>4 DEF Next, Observe

-----------------------------------------------------------------------------
(* The histories.                                                          *)

(* What was committed of a session stays committed.                        *)
LEMMA CommittedStays ==
  ASSUME TypeOK, TypeOK', History!Extends(committed.chain, committed'.chain), NEW s, NEW g
  PROVE  /\ Committed(s) => Committed(s)'
         /\ CommittedAs(g, s) => CommittedAs(g, s)'
<1>1. /\ committed.chain \in Seq(Entry) /\ committed'.chain \in Seq(Entry)
      /\ Len(committed.chain) \in Nat /\ Len(committed'.chain) \in Nat
  BY DEF TypeOK
<1>2. /\ Len(committed.chain) <= Len(committed'.chain)
      /\ \A i \in 1 .. Len(committed.chain) : committed'.chain[i] = committed.chain[i]
  BY <1>1, ExtendsByPosition
<1>3. \A i \in 1 .. Len(committed.chain) : i \in 1 .. Len(committed'.chain)
  BY <1>1, <1>2
<1>. QED  BY <1>2, <1>3 DEF Committed, CommittedAs

(* A receipt is completed from the manifest; once that is synced it says   *)
(* what was committed.                                                     *)
LEMMA ReceiptCommitted ==
  ASSUME TypeOK, Ledger, NEW p \in Procs, Knows(p), pc[p] = "acc.receipt", after = {now}
  PROVE  /\ Committed(arg[p])
         /\ CommittedAs(ReceiptOf(new[p], arg[p]).gen, arg[p])
<1>. DEFINE m == now["main"]
            r == ReceiptOf(m, arg[p])
<1>1. m.schema = 2 /\ arg[p] \in Accepted(m) /\ new[p] = m /\ m \in Manifests
  BY CurrentManifest DEF Knows
<1>2. committed.chain = m.chain
  BY <1>1 DEF Ledger, Readable
<1>3. r \in Receipts(m) /\ r.session = arg[p] /\ r = [gen |-> r.gen, session |-> arg[p]]
  BY <1>1, ReceiptFound
<1>. HIDE DEF r, m
<1>4. PICK i \in 1 .. Len(m.chain) : m.chain[i] = r
  BY <1>3 DEF Receipts
<1>. QED  BY <1>1, <1>2, <1>3, <1>4 DEF Committed, CommittedAs, r

(* What a step tells and copies of a session comes from such a receipt.    *)
LEMMA StepCopies ==
  ASSUME TypeOK, NEW p \in Procs, Knows(p), Step(p)
  PROVE  /\ \/ told' \cap Sessions \subseteq told
            \/ pc[p] = "acc.receipt" /\ told' = told \cup {arg[p]} /\ gid[p] # None
         /\ \A s \in Sessions :
              \/ copied'[s] = copied[s]
              \/ pc[p] = "acc.receipt" /\ s = arg[p] /\ copied'[s] = ReceiptOf(new[p], s).gen
<1>1. CASE TxnRead(p) \/ TxnSnapshot(p) \/ TxnSync(p) \/ TxnBak(p)
  BY <1>1 DEF TxnRead, TxnSnapshot, TxnSync, TxnBak, files
<1>2. CASE TxnMain(p)
  <2>1. arg[p] \in Edits
    BY <1>2 DEF TxnMain, At, Knows
  <2>. QED  BY <1>2, <2>1, StoreConstants DEF TxnMain
<1>3. CASE UpRead(p) \/ UpBackup(p) \/ UpMain(p)
  BY <1>3 DEF UpRead, UpBackup, UpMain
<1>4. CASE AccRead(p) \/ AccStage(p) \/ AccPublish(p) \/ AccSync(p) \/ AccBak(p) \/ AccMain(p) \/ RecRead(p)
  BY <1>4 DEF AccRead, AccStage, AccPublish, AccSync, AccBak, AccMain, RecRead
<1>5. CASE AccReceipt(p)
  <2>. DEFINE s == arg[p]
              r == ReceiptOf(new[p], s)
  <2>1. s \in Sessions /\ s \in Accepted(new[p]) /\ new[p] \in Manifests /\ pc[p] = "acc.receipt"
    BY <1>5 DEF AccReceipt, At, Knows, TypeOK
  <2>2. r.gen \in Gens /\ r.gen # None
    BY <2>1, ReceiptFound, StoreConstants
  <2>. HIDE DEF r
  <2>3. \/ /\ copied' = [copied EXCEPT ![s] = r.gen]
           /\ told' = IF gid[p] = r.gen THEN told \cup {s} ELSE told
        \/ UNCHANGED <<copied, told>>
        \/ UNCHANGED told /\ copied' = [copied EXCEPT ![s] = IF @ = None THEN r.gen ELSE @]
    BY <1>5 DEF AccReceipt, ReceiptOf, r
  <2>4. \/ told' = told
        \/ told' = told \cup {s} /\ gid[p] # None
    BY <2>2, <2>3
  <2>5. \A t \in Sessions : copied'[t] = copied[t] \/ (t = s /\ copied'[t] = r.gen)
    BY <2>1, <2>3 DEF TypeOK
  <2>. QED  BY <2>1, <2>4, <2>5 DEF r
<1>6. CASE ResRead(p) \/ ResKeep(p) \/ ResMain(p) \/ Release(p)
  BY <1>6 DEF ResRead, ResKeep, ResMain, Release
<1>. QED  BY <1>1, <1>2, <1>3, <1>4, <1>5, <1>6 DEF Step

LEMMA NextLedger ==
  ASSUME TypeOK, TypeOK', Visible, Visible', Disk, Ledger, Commands, [Next]_vars
  PROVE  Ledger'
<1>1. /\ committed'.chain # << >> => committed'.upgraded
      /\ after' = {now'} /\ Readable(now'["main"]) =>
           committed' = [upgraded |-> now'["main"].schema = 2, chain |-> now'["main"].chain]
      /\ History!Extends(committed.chain, committed'.chain)
  BY NextFits, NextCommits
<1>2. \A s, g : /\ Committed(s) => Committed(s)'
                /\ CommittedAs(g, s) => CommittedAs(g, s)'
  BY <1>1, CommittedStays
<1>3. cuts' = cuts
  BY DEF Next, vars
<1>. DEFINE Tells  == \A s \in told' \cap Sessions : Committed(s)'
            Copies == ~cuts => \A s \in Sessions, g \in Gens : copied'[s] = g => CommittedAs(g, s)'
<1>4. Tells /\ Copies => Ledger'
  BY <1>1, <1>3 DEF Ledger
<1>5. told' \cap Sessions \subseteq told => Tells
  BY <1>2 DEF Ledger
<1>6. (\A s \in Sessions : copied'[s] = copied[s]) => Copies
  BY <1>2 DEF Ledger
<1>7. ASSUME NEW p \in Procs, Step(p)
      PROVE  Tells /\ Copies
  <2>1. Knows(p) /\ (pc[p] = "acc.receipt" => (gid[p] # None \/ ~cuts => after = {now}))
    BY DEF Commands, Knows, Visible
  <2>2. Tells
    <3>1. CASE told' \cap Sessions \subseteq told
      BY <1>5, <3>1
    <3>2. CASE pc[p] = "acc.receipt" /\ told' = told \cup {arg[p]} /\ gid[p] # None
      <4>1. Committed(arg[p])
        BY <2>1, <3>2, ReceiptCommitted
      <4>. QED  BY <1>2, <3>2, <4>1 DEF Ledger
    <3>. QED  BY <1>7, <2>1, <3>1, <3>2, StepCopies
  <2>3. ASSUME ~cuts, NEW s \in Sessions, NEW g \in Gens, copied'[s] = g
        PROVE  CommittedAs(g, s)
    <3>1. CASE copied'[s] = copied[s]
      BY <2>3, <3>1 DEF Ledger
    <3>2. CASE pc[p] = "acc.receipt" /\ s = arg[p] /\ copied'[s] = ReceiptOf(new[p], s).gen
      BY <2>1, <2>3, <3>2, ReceiptCommitted
    <3>. QED  BY <1>7, <2>1, <3>1, <3>2, StepCopies
  <2>. QED  BY <1>2, <2>2, <2>3
<1>8. CASE PowerLoss
  BY <1>4, <1>5, <1>8 DEF PowerLoss
<1>9. UNCHANGED <<told, copied>> => Ledger'
  BY <1>4, <1>5, <1>6
<1>10. ASSUME NEW p \in Procs, Begin(p) \/ Crash(p)
       PROVE  UNCHANGED <<told, copied>>
  BY <1>10 DEF Begin, Transact, BeginUpgrade, BeginAccept, BeginRecoverAcceptance, BeginRestore, Start, Crash
<1>11. ManualUnlock \/ Damage \/ UNCHANGED vars \/ (\E s \in Sessions : Candidate(s))
       => UNCHANGED <<told, copied>>
  BY DEF ManualUnlock, Damage, Candidate, vars
<1>. QED  BY <1>4, <1>7, <1>8, <1>9, <1>10, <1>11 DEF Next, World

-----------------------------------------------------------------------------
(* What the commands have in memory.                                       *)

LEMMA IdleKnows ==
  ASSUME NEW p \in Procs, pc'[p] \in {"idle", "release"}
  PROVE  Knows(p)'
BY DEF Knows

LEMMA CommandMoves ==
  ASSUME LocalTypes, NEW p \in Procs
  PROVE  /\ Quit(p) => pc'[p] = "release"
         /\ \A step : Goto(p, step) =>
              \/ pc'[p] = "release"
              \/ pc'[p] = step /\ arg'[p] = arg[p] /\ new'[p] = new[p] /\ gid'[p] = gid[p]
         /\ \A step, m, g : Carry(p, step, m, g) =>
              pc'[p] = step /\ new'[p] = m /\ gid'[p] = g
         /\ \A f, m, next : Write(p, f, m, next) =>
              pc'[p] = "release" \/ (Replaced(f, m) /\ Goto(p, next))
BY DEF LocalTypes, Quit, Drop, Carry, Goto, Write

(* While lodge.json stays as it is, so does what a command read of it.     *)
LEMMA ReadingStays ==
  ASSUME now'["main"] = now["main"], told' \cap Edits \subseteq told \cap Edits, Observe
  PROVE  /\ Usable => Usable'
         /\ Current' = Current
<1>1. Untold => ~Readable(now'["main"])
  BY DEF Untold, Present, Readable
<1>2. Untold => committed' = committed
  BY <1>1 DEF Observe
<1>3. Untold => Untold'
  BY <1>2 DEF Untold, Present
<1>. QED  BY <1>3 DEF Usable, Readable, Current, Present

(* A manifest with the edit Managed has its snapshot.                      *)
LEMMA ImportBacked ==
  ASSUME NEW m, Backed(m, dir), Managed \in m.edits
  PROVE  dir[Import] = "durable"
BY DEF Backed, Named

LEMMA TransactionKnows ==
  ASSUME TypeOK, Visible, Disk, Ledger, Observe, NEW p \in Procs, Knows(p),
         TxnRead(p) \/ TxnSnapshot(p) \/ TxnSync(p) \/ TxnBak(p) \/ TxnMain(p)
  PROVE  Knows(p)'
<1>1. LocalTypes /\ FileTypes /\ Current \in Manifests
  BY CurrentManifest DEF TypeOK, LocalTypes, FileTypes
<1>2. CASE TxnRead(p)
  <2>. DEFINE m == [Current EXCEPT !.edits = @ \cup {arg[p]}]
  <2>1. CASE Quit(p)
    BY <1>1, <2>1, CommandMoves, IdleKnows
  <2>2. CASE ~Quit(p)
    <3>1. /\ CanRead /\ arg[p] \in Edits /\ UNCHANGED <<now, after, dir, told, arg>>
          /\ IF arg[p] = Managed /\ Managed \notin Current.edits
               THEN ~ImportNamed /\ Carry(p, "txn.snapshot", m, None)
               ELSE Carry(p, "txn.bak", m, None)
      BY <1>2, <2>2 DEF TxnRead, At, Knows, files
    <3>2. Usable /\ Usable' /\ Current' = Current /\ ImportNamed' = ImportNamed
      BY <3>1, CanReadUsable, ReadingStays DEF ImportNamed
    <3>3. Managed \in Current.edits => dir[Import] = "durable"
      BY <3>2, CurrentFits, ImportBacked
    <3>4. m.edits = Current.edits \cup {arg[p]}
      BY <1>1 DEF Manifests
    <3>5. CASE arg[p] = Managed /\ Managed \notin Current.edits
      <4>1. pc'[p] = "txn.snapshot" /\ new'[p] = m /\ gid'[p] = None
        BY <1>1, <3>1, <3>5, CommandMoves
      <4>. QED  BY <3>1, <3>2, <3>5, <4>1 DEF Knows
    <3>6. CASE ~(arg[p] = Managed /\ Managed \notin Current.edits)
      <4>1. pc'[p] = "txn.bak" /\ new'[p] = m /\ gid'[p] = None
        BY <1>1, <3>1, <3>6, CommandMoves
      <4>2. Managed \in new'[p].edits => dir'[Import] = "durable"
        BY <3>1, <3>3, <3>4, <3>6, <4>1
      <4>. QED  BY <3>1, <3>2, <4>1, <4>2 DEF Knows
    <3>. QED  BY <3>5, <3>6
  <2>. QED  BY <2>1, <2>2
<1>3. CASE TxnSnapshot(p)
  <2>1. /\ pc[p] = "txn.snapshot" /\ UNCHANGED <<now, after, told>>
        /\ \/ pc'[p] = "release"
           \/ pc'[p] = "txn.sync" /\ arg'[p] = arg[p] /\ new'[p] = new[p] /\ gid'[p] = gid[p]
    BY <1>1, <1>3, CommandMoves DEF TxnSnapshot, At, files
  <2>2. Usable' /\ Current' = Current /\ ImportNamed' = ImportNamed
    BY <2>1, ReadingStays DEF Knows, ImportNamed
  <2>. QED  BY <2>1, <2>2 DEF Knows
<1>4. CASE TxnSync(p)
  <2>1. /\ pc[p] = "txn.sync" /\ UNCHANGED <<now, after, told>>
        /\ \/ pc'[p] = "release"
           \/ /\ dir' = [dir EXCEPT ![Import] = "durable"]
              /\ pc'[p] = "txn.bak" /\ arg'[p] = arg[p] /\ new'[p] = new[p] /\ gid'[p] = gid[p]
    BY <1>1, <1>4, CommandMoves DEF TxnSync, At, files
  <2>2. Usable' /\ Current' = Current
    BY <2>1, ReadingStays DEF Knows
  <2>3. Import \in DOMAIN dir
    BY DEF TypeOK, Snapshots
  <2>. QED  BY <2>1, <2>2, <2>3 DEF Knows
<1>5. CASE TxnBak(p)
  <2>1. /\ pc[p] = "txn.bak" /\ UNCHANGED <<dir, told>>
        /\ \/ pc'[p] = "release"
           \/ /\ IF Present(now["main"]) THEN now' = [now EXCEPT !["bak"] = now["main"]] ELSE now' = now
              /\ pc'[p] = "txn.main" /\ arg'[p] = arg[p] /\ new'[p] = new[p] /\ gid'[p] = gid[p]
    BY <1>1, <1>5, CommandMoves DEF TxnBak, At, Replaced
  <2>2. CASE pc'[p] = "release"
    BY <2>2, IdleKnows
  <2>3. CASE pc'[p] = "txn.main"
    <3>1. now'["main"] = now["main"] /\ (Present(now["main"]) => now'["bak"] = now["main"])
      BY <1>1, <2>1, <2>3 DEF FileTypes, Files
    <3>2. Usable' /\ Current' = Current
      BY <2>1, <3>1, ReadingStays DEF Knows
    <3>3. Saved'
      BY <3>1 DEF Saved, Present
    <3>. QED  BY <2>1, <2>3, <3>2, <3>3 DEF Knows
  <2>. QED  BY <2>1, <2>2, <2>3
<1>6. CASE TxnMain(p)
  BY <1>1, <1>6, CommandMoves, IdleKnows DEF TxnMain
<1>. QED  BY <1>2, <1>3, <1>4, <1>5, <1>6

LEMMA UpgradeKnows ==
  ASSUME TypeOK, Visible, Disk, Ledger, Observe, NEW p \in Procs, Knows(p),
         UpRead(p) \/ UpBackup(p) \/ UpMain(p)
  PROVE  Knows(p)'
<1>1. LocalTypes /\ FileTypes
  BY DEF TypeOK, LocalTypes, FileTypes
<1>2. CASE UpRead(p)
  <2>1. CASE Quit(p)
    BY <1>1, <2>1, CommandMoves, IdleKnows
  <2>2. CASE ~Quit(p)
    <3>1. /\ CanRead /\ Current.schema = 1 /\ UNCHANGED <<now, told>>
          /\ Present(now["up"]) => now["up"] = Current
          /\ Carry(p, IF Present(now["up"]) THEN "up.main" ELSE "up.backup", Current, None)
      BY <1>2, <2>2 DEF UpRead, files
    <3>2. Usable' /\ Current' = Current
      BY <3>1, CanReadUsable, ReadingStays
    <3>3. /\ pc'[p] = IF Present(now["up"]) THEN "up.main" ELSE "up.backup"
          /\ new'[p] = Current
      BY <1>1, <3>1, CommandMoves
    <3>. QED  BY <3>1, <3>2, <3>3 DEF Knows
  <2>. QED  BY <2>1, <2>2
<1>3. CASE UpBackup(p)
  <2>1. /\ pc[p] = "up.backup" /\ UNCHANGED told
        /\ \/ pc'[p] = "release"
           \/ /\ now' = [now EXCEPT !["up"] = new[p]]
              /\ pc'[p] = "up.main" /\ new'[p] = new[p]
    BY <1>1, <1>3, CommandMoves DEF UpBackup, At, Replaced
  <2>2. CASE pc'[p] = "release"
    BY <2>2, IdleKnows
  <2>3. CASE pc'[p] = "up.main"
    <3>1. now'["main"] = now["main"] /\ now'["up"] = new[p]
      BY <1>1, <2>1, <2>3 DEF FileTypes, Files
    <3>2. Usable' /\ Current' = Current
      BY <2>1, <3>1, ReadingStays DEF Knows
    <3>. QED  BY <2>1, <2>3, <3>1, <3>2 DEF Knows
  <2>. QED  BY <2>1, <2>2, <2>3
<1>4. CASE UpMain(p)
  BY <1>1, <1>4, CommandMoves, IdleKnows DEF UpMain
<1>. QED  BY <1>2, <1>3, <1>4

(* An unused generation is not named by the manifest.                      *)
LEMMA FreshGeneration ==
  ASSUME TypeOK, Visible, Disk, NEW g \in Gens, dir[g] = "none"
  PROVE  \A r \in Receipts(now["main"]) : r.gen # g
<1>1. Backed(now["main"], dir)
  BY DEF Visible, Disk, Fit, Files
<1>2. \A r \in Receipts(now["main"]) : dir[r.gen] = "durable"
  BY <1>1 DEF Backed, Named
<1>. QED  BY <1>2

LEMMA AcceptanceKnows ==
  ASSUME TypeOK, Visible, Disk, NEW p \in Procs, Knows(p),
         AccRead(p) \/ AccStage(p) \/ AccPublish(p) \/ AccSync(p)
  PROVE  Knows(p)'
<1>. DEFINE m == now["main"]
<1>1. LocalTypes /\ FileTypes
  BY DEF TypeOK, LocalTypes, FileTypes
<1>2. CASE AccRead(p)
  <2>1. CASE Quit(p)
    BY <1>1, <2>1, CommandMoves, IdleKnows
  <2>2. CASE ~Quit(p) /\ arg[p] \in Accepted(m)
    <3>1. m.schema = 2 /\ Carry(p, "acc.receipt", m, None) /\ UNCHANGED <<now, arg>> /\ arg[p] \in Sessions
      BY <1>2, <2>2 DEF AccRead, At, Knows, files
    <3>2. pc'[p] = "acc.receipt" /\ new'[p] = m /\ gid'[p] = None
      BY <1>1, <3>1, CommandMoves
    <3>. QED  BY <2>2, <3>1, <3>2 DEF Knows
  <2>3. CASE ~Quit(p) /\ arg[p] \notin Accepted(m)
    <3>1. /\ m.schema = 2 /\ pinned[arg[p]] = CurrentGeneration(m) /\ arg[p] \in Sessions
          /\ UNCHANGED <<now, dir, pinned, arg>>
      BY <1>2, <2>3 DEF AccRead, At, Knows, files
    <3>2. PICK g \in Gens :
            /\ dir[g] = "none"
            /\ Carry(p, "acc.stage", [m EXCEPT !.chain = Append(@, [gen |-> g, session |-> arg[p]])], g)
      BY <1>2, <2>3 DEF AccRead
    <3>3. pc'[p] = "acc.stage" /\ gid'[p] = g
          /\ new'[p] = [m EXCEPT !.chain = Append(@, [gen |-> g, session |-> arg[p]])]
      BY <1>1, <3>2, CommandMoves
    <3>4. \A r \in Receipts(m) : r.gen # g
      BY <3>2, FreshGeneration
    <3>. QED  BY <2>3, <3>1, <3>2, <3>3, <3>4 DEF Knows
  <2>. QED  BY <2>1, <2>2, <2>3
<1>3. CASE AccStage(p) \/ AccPublish(p) \/ AccSync(p)
  <2>1. /\ UNCHANGED <<now, pinned>>
        /\ pc[p] \in {"acc.stage", "acc.publish", "acc.sync"}
        /\ \/ pc'[p] = "release"
           \/ /\ arg'[p] = arg[p] /\ new'[p] = new[p] /\ gid'[p] = gid[p]
              /\ \/ pc'[p] = "acc.publish" /\ dir' = [dir EXCEPT ![gid[p]] = "staged"]
                 \/ pc'[p] = "acc.sync" /\ dir' = [dir EXCEPT ![gid[p]] = "visible"]
                 \/ pc'[p] = "acc.bak" /\ dir' = [dir EXCEPT ![gid[p]] = "durable"]
    BY <1>1, <1>3, CommandMoves DEF AccStage, AccPublish, AccSync, At, files
  <2>2. CASE pc'[p] = "release"
    BY <2>2, IdleKnows
  <2>3. CASE pc'[p] # "release"
    <3>1. gid[p] \in DOMAIN dir
      BY <2>1 DEF Knows, TypeOK, Snapshots
    <3>2. dir'[gid'[p]] = CASE pc'[p] = "acc.publish" -> "staged"
                            [] pc'[p] = "acc.sync"    -> "visible"
                            [] pc'[p] = "acc.bak"     -> "durable"
      BY <2>1, <2>3, <3>1
    <3>. QED  BY <2>1, <2>3, <3>2 DEF Knows
  <2>. QED  BY <2>2, <2>3
<1>. QED  BY <1>2, <1>3

LEMMA CommitKnows ==
  ASSUME TypeOK, TypeOK', NEW p \in Procs, Knows(p),
         AccBak(p) \/ AccMain(p) \/ AccReceipt(p) \/ RecRead(p)
  PROVE  Knows(p)'
<1>1. LocalTypes /\ FileTypes /\ now["main"] \in Manifests /\ "main" \in Files /\ "bak" \in Files
  BY DEF TypeOK, LocalTypes, FileTypes, Files
<1>2. CASE AccBak(p)
  <2>1. /\ pc[p] = "acc.bak" /\ UNCHANGED <<dir, pinned>>
        /\ \/ pc'[p] = "release"
           \/ /\ now' = [now EXCEPT !["bak"] = now["main"]]
              /\ pc'[p] = "acc.main" /\ arg'[p] = arg[p] /\ new'[p] = new[p] /\ gid'[p] = gid[p]
    BY <1>1, <1>2, CommandMoves DEF AccBak, At, Replaced
  <2>2. CASE pc'[p] = "release"
    BY <2>2, IdleKnows
  <2>3. CASE pc'[p] = "acc.main"
    <3>1. now'["main"] = now["main"] /\ now'["bak"] = now["main"]
      BY <1>1, <2>1, <2>3 DEF FileTypes
    <3>. QED  BY <2>1, <2>3, <3>1 DEF Knows, Saved, Present
  <2>. QED  BY <2>1, <2>2, <2>3
<1>3. CASE AccMain(p)
  <2>. DEFINE m == now["main"]
              e == [gen |-> gid[p], session |-> arg[p]]
  <2>1. /\ pc[p] = "acc.main"
        /\ \/ pc'[p] = "release"
           \/ /\ now' = [now EXCEPT !["main"] = new[p]] /\ after' = {now'}
              /\ pc'[p] = "acc.receipt" /\ arg'[p] = arg[p] /\ new'[p] = new[p]
    BY <1>1, <1>3, CommandMoves DEF AccMain, At, Replaced
  <2>2. CASE pc'[p] = "release"
    BY <2>2, IdleKnows
  <2>3. CASE pc'[p] = "acc.receipt"
    <3>1. /\ m.schema = 2 /\ arg[p] \in Sessions /\ gid[p] \in Gens
          /\ new[p] = [m EXCEPT !.chain = Append(@, e)]
      BY <2>1 DEF Knows
    <3>2. m.chain \in Seq(Entry) /\ e \in Entry /\ e.session = arg[p]
      BY <1>1, <3>1 DEF Manifests, Entry
    <3>. HIDE DEF e
    <3>3. new[p].schema = 2 /\ new[p].chain = Append(m.chain, e)
      BY <1>1, <3>1 DEF Manifests
    <3>4. Len(m.chain) + 1 \in 1 .. Len(new[p].chain) /\ new[p].chain[Len(m.chain) + 1] = e
      BY <3>2, <3>3
    <3>5. arg[p] \in Accepted(new[p])
      BY <3>2, <3>4 DEF Accepted, Receipts
    <3>6. now'["main"] = new[p]
      BY <1>1, <2>1, <2>3 DEF FileTypes
    <3>. QED  BY <2>1, <2>3, <3>1, <3>3, <3>5, <3>6 DEF Knows
  <2>. QED  BY <2>1, <2>2, <2>3
<1>4. CASE AccReceipt(p)
  BY <1>1, <1>4, CommandMoves, IdleKnows DEF AccReceipt
<1>5. CASE RecRead(p)
  <2>1. CASE Quit(p)
    BY <1>1, <2>1, CommandMoves, IdleKnows
  <2>2. CASE ~Quit(p)
    <3>1. /\ now["main"].schema = 2 /\ arg[p] \in Sessions \cap Accepted(now["main"])
          /\ UNCHANGED <<now, arg>>
          /\ Carry(p, "acc.receipt", now["main"], None)
      BY <1>5, <2>2 DEF RecRead, At, Knows, files
    <3>2. pc'[p] = "acc.receipt" /\ new'[p] = now["main"] /\ gid'[p] = None
      BY <1>1, <3>1, CommandMoves
    <3>. QED  BY <3>1, <3>2 DEF Knows
  <2>. QED  BY <2>1, <2>2
<1>. QED  BY <1>2, <1>3, <1>4, <1>5

LEMMA RestoreKnows ==
  ASSUME TypeOK, NEW p \in Procs, Knows(p), ResRead(p) \/ ResKeep(p) \/ ResMain(p)
  PROVE  Knows(p)'
<1>1. LocalTypes
  BY DEF TypeOK, LocalTypes
<1>2. CASE ResRead(p)
  <2>1. /\ UNCHANGED <<now, kept>>
        /\ \/ pc'[p] = "release"
           \/ /\ now["main"].schema # 2 /\ now["bak"].schema = 1 /\ ~Present(now["up"])
              /\ pc'[p] = IF Present(now["main"]) THEN "res.keep" ELSE "res.main"
    BY <1>1, <1>2, CommandMoves DEF ResRead, files
  <2>. QED  BY <2>1 DEF Knows, Present
<1>3. CASE ResKeep(p)
  <2>1. /\ pc[p] = "res.keep" /\ UNCHANGED now
        /\ \/ pc'[p] = "release"
           \/ kept' = kept \cup {now["main"]} /\ pc'[p] = "res.main"
    BY <1>1, <1>3, CommandMoves DEF ResKeep, At
  <2>. QED  BY <2>1 DEF Knows, Present
<1>4. CASE ResMain(p)
  BY <1>1, <1>4, CommandMoves, IdleKnows DEF ResMain
<1>. QED  BY <1>2, <1>3, <1>4

LEMMA BeginKnows ==
  ASSUME TypeOK, NEW p \in Procs, Begin(p)
  PROVE  Knows(p)' /\ \A q \in Procs \ {p} : pc'[q] = pc[q]
<1>1. \A step, what : Start(p, step, what) =>
        pc'[p] = step /\ arg'[p] = what /\ \A q \in Procs \ {p} : pc'[q] = pc[q]
  BY DEF Start, TypeOK
<1>2. CASE Transact(p)
  BY <1>1, <1>2 DEF Transact, Knows
<1>3. CASE BeginAccept(p) \/ BeginRecoverAcceptance(p)
  BY <1>1, <1>3 DEF BeginAccept, BeginRecoverAcceptance, Knows
<1>4. CASE BeginUpgrade(p) \/ BeginRestore(p)
  BY <1>1, <1>4 DEF BeginUpgrade, BeginRestore, Knows
<1>. QED  BY <1>2, <1>3, <1>4 DEF Begin

(* Only the command that holds lodge.lock has anything in memory.          *)
LEMMA NextCommands ==
  ASSUME TypeOK, TypeOK', WriterAlone, Visible, Disk, Ledger, Commands, [Next]_vars
  PROVE  Commands'
<1>1. CASE UNCHANGED vars
  <2>. SUFFICES ASSUME NEW p \in Procs PROVE Knows(p)'
    BY DEF Commands
  <2>1. Knows(p)
    BY DEF Commands
  <2>. QED  BY <1>1, <2>1 DEF vars, local, Knows, Usable, Untold, Saved, Current, ImportNamed,
              Present, Readable, Accepted, Receipts, CurrentGeneration
<1>2. ASSUME NEW p \in Procs, Begin(p)
      PROVE  Commands'
  <2>1. \A q \in Procs : pc[q] = "idle"
    BY <1>2, StoreConstants DEF Begin, Transact, BeginUpgrade, BeginAccept, BeginRecoverAcceptance,
       BeginRestore, Start, WriterAlone
  <2>. QED  BY <1>2, <2>1, BeginKnows, IdleKnows DEF Commands
<1>3. ASSUME NEW p \in Procs, Step(p), Observe
      PROVE  Commands'
  <2>1. \A q \in Procs \ {p} : pc'[q] = "idle"
    BY <1>3, StepFrame DEF WriterAlone
  <2>2. Knows(p)
    BY DEF Commands
  <2>3. Release(p) => pc'[p] = "idle"
    BY DEF Release, Drop, Carry, TypeOK
  <2>4. Knows(p)'
    BY <1>3, <2>2, <2>3, TransactionKnows, UpgradeKnows, AcceptanceKnows, CommitKnows,
       RestoreKnows, IdleKnows DEF Step
  <2>. QED  BY <2>1, <2>4, IdleKnows DEF Commands
<1>4. ASSUME NEW p \in Procs, Crash(p)
      PROVE  Commands'
  <2>1. \A q \in Procs : pc'[q] = "idle"
    BY <1>4 DEF Crash, At, Drop, Carry, TypeOK, WriterAlone
  <2>. QED  BY <2>1, IdleKnows DEF Commands
<1>5. CASE ManualUnlock \/ Damage \/ \E s \in Sessions : Candidate(s)
  <2>1. \A q \in Procs : pc'[q] = "idle"
    BY <1>5, StoreConstants DEF ManualUnlock, Damage, Candidate, local, WriterAlone
  <2>. QED  BY <2>1, IdleKnows DEF Commands
<1>6. CASE PowerLoss
  <2>1. \A q \in Procs : pc'[q] = "idle"
    BY <1>6 DEF PowerLoss
  <2>. QED  BY <2>1, IdleKnows DEF Commands
<1>. QED  BY <1>1, <1>2, <1>3, <1>4, <1>5, <1>6 DEF Next, World

-----------------------------------------------------------------------------
(* The invariant, and what follows from it.                                *)

LEMMA InitIInv ==
  ASSUME Init
  PROVE  IInv
<1>1. Absent \in Manifests /\ << >> \in Seq(Entry) /\ Len(<< >>) = 0
  BY ManifestsClosed
<1>2. TypeOK
  BY <1>1 DEF Init, TypeOK, Steps, Snapshots
<1>3. WriterAlone /\ Visible /\ Commands
  BY DEF Init, WriterAlone, Visible, Commands, Knows
<1>4. Named(Absent) = {}
  <2>1. Receipts(Absent) = {}
    BY <1>1 DEF Receipts, Absent
  <2>2. { r.gen : r \in Receipts(Absent) } = {}
    BY <2>1
  <2>3. Managed \notin Absent.edits
    BY DEF Absent
  <2>. QED  BY <2>2, <2>3 DEF Named
<1>5. \A f \in Files : now[f] = Absent
  BY DEF Init
<1>6. Absent.schema = 0 /\ Absent.chain = << >> /\ "main" \in Files
  BY DEF Absent, Files
<1>7. committed.chain = << >> /\ ~committed.upgraded
  BY DEF Init
<1>8. Fit(now, dir, pinned, told, committed)
  BY <1>4, <1>5, <1>6, <1>7 DEF Init, Fit, Sound, Backed, Readable
<1>9. Disk
  BY <1>8 DEF Init, Disk
<1>10. Ledger
  <2>1. ~Readable(now["main"]) /\ told = {} /\ \A s \in Sessions : copied[s] \notin Gens
    BY <1>5, <1>6, StoreConstants DEF Init, Readable
  <2>. QED  BY <1>7, <2>1 DEF Ledger
<1>. QED  BY <1>2, <1>3, <1>9, <1>10 DEF IInv

LEMMA NextIInv ==
  ASSUME IInv, [Next]_vars
  PROVE  IInv'
<1>1. TypeOK /\ WriterAlone /\ Visible /\ Disk /\ Ledger /\ Commands
  BY DEF IInv
<1>2. TypeOK'
  BY <1>1, NextTypeOK DEF Commands
<1>3. WriterAlone' /\ Visible'
  BY <1>1, NextWriterAlone, NextVisible
<1>4. Disk'
  BY <1>1, <1>2, <1>3, NextFits, NextCommits
<1>5. Ledger'
  BY <1>1, <1>2, <1>3, NextLedger
<1>6. Commands'
  BY <1>1, <1>2, NextCommands
<1>. QED  BY <1>2, <1>3, <1>4, <1>5, <1>6 DEF IInv

(* The store directory and its writers always satisfy the invariant.       *)
THEOREM SpecIInv == Spec => []IInv
<1>1. Init => IInv
  BY InitIInv
<1>2. IInv /\ [Next]_vars => IInv'
  BY NextIInv
<1>. QED  BY <1>1, <1>2, PTL DEF Spec

(* Every variable keeps its type: what a command writes is a manifest.     *)
THEOREM SpecTypeOK == Spec => []TypeOK
<1>1. IInv => TypeOK
  BY DEF IInv
<1>. QED  BY <1>1, SpecIInv, PTL

(* Every snapshot named by a manifest that a power cut may leave is        *)
(* verified and synced: associate and accept_candidate publish before they *)
(* commit, for any number of writers and generations.                      *)
THEOREM SpecSnapshotsBacked == Spec => []SnapshotsBacked
<1>1. IInv => SnapshotsBacked
  BY DEF IInv, Disk, Fit, Backed, SnapshotsBacked
<1>. QED  BY <1>1, SpecIInv, PTL

(* What a writer reported as done is in every manifest that may become     *)
(* current, until an explicit restore gives it up.                         *)
THEOREM SpecToldDurable == Spec => []ToldDurable
<1>1. ASSUME IInv
      PROVE  ToldDurable
  <2>. SUFFICES ASSUME NEW d \in after, Readable(d["main"]), NEW t \in told
                PROVE  t \in d["main"].edits \cup Accepted(d["main"])
    BY DEF ToldDurable
  <2>. DEFINE m == d["main"]
  <2>1. Follows(m, pinned, told, committed) /\ m \in Manifests /\ TypeOK
    BY <1>1 DEF IInv, Disk, Fit, TypeOK, Files
  <2>. HIDE DEF m
  <2>2. CASE t \in Edits
    BY <2>1, <2>2 DEF Follows, m
  <2>3. CASE t \in Sessions
    <3>1. PICK i \in 1 .. Len(committed.chain) : committed.chain[i].session = t
      BY <1>1, <2>3 DEF IInv, Ledger, Committed
    <3>2. /\ committed.chain \in Seq(Entry) /\ m.chain \in Seq(Entry)
          /\ History!Extends(committed.chain, m.chain)
      BY <2>1 DEF TypeOK, Manifests, Follows
    <3>3. i \in 1 .. Len(m.chain) /\ m.chain[i] = committed.chain[i]
      BY <3>2, ExtendsByPosition
    <3>4. t \in Accepted(m)
      BY <3>1, <3>3 DEF Accepted, Receipts
    <3>. QED  BY <3>4 DEF m
  <2>. QED  BY <2>1, <2>2, <2>3 DEF TypeOK
<1>2. IInv => ToldDurable
  BY <1>1
<1>. QED  BY <1>2, SpecIInv, PTL

(* On a machine that keeps its power, acceptance.json of a session names   *)
(* the generation that the manifest records for it, and never one that was *)
(* not committed.                                                          *)
THEOREM SpecReceiptNotAhead == Spec => []ReceiptNotAhead
<1>1. ASSUME IInv
      PROVE  ReceiptNotAhead
  <2>. SUFFICES ASSUME ~cuts, Readable(now["main"]), NEW s \in Sessions, copied[s] # None
                PROVE  [gen |-> copied[s], session |-> s] \in Receipts(now["main"])
    BY DEF ReceiptNotAhead
  <2>1. copied[s] \in Gens
    BY <1>1 DEF IInv, TypeOK
  <2>2. CommittedAs(copied[s], s)
    BY <1>1, <2>1 DEF IInv, Ledger
  <2>3. committed.chain = now["main"].chain
    BY <1>1 DEF IInv, Ledger, Visible
  <2>. QED  BY <2>2, <2>3 DEF CommittedAs, Receipts
<1>2. IInv => ReceiptNotAhead
  BY <1>1
<1>. QED  BY <1>2, SpecIInv, PTL

(* What a command puts in the place of lodge.json is still in lodge.json.bak, *)
(* in the schema-1 backup or in a recovery copy.                           *)
THEOREM SpecPreviousRetained == Spec => PreviousRetained
<1>. DEFINE Replaces(p) ==
              /\ pc[p] \in {"txn.main", "up.main", "acc.main", "res.main"}
              /\ pc'[p] \in {"release", "acc.receipt"}
              /\ Present(now["main"]) /\ now'["main"] # now["main"]
            Retained == now["main"] \in {now'["bak"], now'["up"]} \cup kept'
<1>1. ASSUME IInv, Next, NEW p \in Procs, Replaces(p)
      PROVE  Retained
  <2>1. TypeOK /\ WriterAlone /\ Knows(p) /\ "main" \in Files /\ "bak" \in Files /\ "up" \in Files
    BY <1>1 DEF IInv, Commands, Files
  <2>2. lock = p /\ lock # "free" /\ lock # "stale"
    BY <1>1, <2>1, StoreConstants DEF WriterAlone
  <2>3. ASSUME NEW q \in Procs, Begin(q)
        PROVE  FALSE
    BY <2>2, <2>3 DEF Begin, Transact, BeginUpgrade, BeginAccept, BeginRecoverAcceptance,
       BeginRestore, Start
  <2>4. ~World
    BY <1>1, <2>2 DEF World, Candidate, Crash, ManualUnlock, Damage, PowerLoss
  <2>5. PICK q \in Procs : Step(q)
    BY <1>1, <2>3, <2>4 DEF Next
  <2>6. q = p
    BY <2>1, <2>2, <2>5, StepFrame DEF WriterAlone
  <2>7. \A m : Puts("main", m) => now'["bak"] = now["bak"] /\ now'["up"] = now["up"]
    BY <2>1 DEF Puts, Replaced, Unsynced, TypeOK
  <2>8. \A m : Puts("bak", m) => now'["main"] = now["main"]
    BY <2>1 DEF Puts, Replaced, Unsynced, TypeOK
  <2>9. \A m : Puts("up", m) => now'["main"] = now["main"]
    BY <2>1 DEF Puts, Replaced, Unsynced, TypeOK
  <2>10. CASE pc[p] \in {"txn.main", "acc.main"} /\ Puts("main", new[p])
    BY <1>1, <2>1, <2>7, <2>10 DEF Knows, Saved
  <2>11. CASE pc[p] = "up.main" /\ Puts("main", [new[p] EXCEPT !.schema = 2])
    BY <1>1, <2>1, <2>7, <2>11 DEF Knows, Current
  <2>12. CASE pc[p] = "res.main" /\ Puts("main", now["bak"])
    <3>1. now["main"] \in kept
      BY <1>1, <2>1, <2>12 DEF Knows
    <3>2. kept' = kept
      BY <2>5, <2>6, <2>12 DEF Step, At, TxnRead, TxnSnapshot, TxnSync, TxnBak, TxnMain, UpRead,
         UpBackup, UpMain, AccRead, AccStage, AccPublish, AccSync, AccBak, AccMain, AccReceipt,
         RecRead, ResRead, ResKeep, ResMain, Release
    <3>. QED  BY <3>1, <3>2
  <2>. QED  BY <1>1, <2>5, <2>6, <2>8, <2>9, <2>10, <2>11, <2>12, StepPuts
<1>2. IInv /\ [Next]_vars => [\A p \in Procs : Replaces(p) => Retained]_vars
  BY <1>1
<1>. HIDE DEF Replaces, Retained
<1>3. Spec => [][\A p \in Procs : Replaces(p) => Retained]_vars
  BY <1>2, SpecIInv, PTL DEF Spec
<1>. QED  BY <1>3 DEF PreviousRetained, Replaces, Retained

(* The durable manifest goes through an accepted history: one upgrade, and *)
(* each session accepted at most once and from the generation it started   *)
(* from, whatever is killed, retried, damaged or restored.                 *)
THEOREM SpecImplementsHistory == Spec => ImplementsHistory
<1>1. Init => History!HInit
  BY StoreConstants DEF Init, History!HInit
<1>2. ASSUME IInv, [Next]_vars
      PROVE  [History!HNext]_(<<committed.upgraded, committed.chain, pinned>>)
  <2>1. TypeOK /\ Visible /\ Disk /\ Ledger /\ Commands /\ TypeOK' /\ Visible'
    BY <1>2, NextIInv DEF IInv
  <2>2. /\ committed'.chain # << >> => committed'.upgraded
        /\ History!Extends(committed.chain, committed'.chain)
        /\ committed.upgraded => committed'.upgraded
        /\ committed' # committed => History!Linear(committed'.chain, pinned')
    BY <1>2, <2>1, NextFits, NextCommits
  <2>3. /\ committed.upgraded \in BOOLEAN /\ committed'.upgraded \in BOOLEAN
        /\ committed.chain \in Seq(Entry) /\ committed'.chain \in Seq(Entry)
    BY <2>1 DEF TypeOK
  <2>4. CASE pinned' = pinned
    <3>1. CASE committed'.chain = committed.chain /\ committed'.upgraded = committed.upgraded
      BY <2>4, <3>1
    <3>2. CASE committed'.chain # committed.chain
      <4>1. committed'.chain # << >>
        <5>1. Len(committed.chain) <= Len(committed'.chain) /\ Len(committed.chain) \in Nat
          BY <2>2, <2>3, ExtendsByPosition
        <5>2. ASSUME committed'.chain = << >>
              PROVE  committed.chain = << >>
          <6>1. Len(committed'.chain) = 0
            BY <5>2
          <6>2. Len(committed.chain) = 0
            BY <5>1, <6>1
          <6>. QED  BY <2>3, <6>2, EmptySeq
        <5>. QED  BY <3>2, <5>2
      <4>2. committed'.upgraded = TRUE /\ committed' # committed
        BY <2>2, <2>3, <3>2, <4>1
      <4>. QED  BY <2>2, <2>4, <3>2, <4>2 DEF History!HNext, History!Accept
    <3>3. CASE committed'.chain = committed.chain /\ committed'.upgraded # committed.upgraded
      <4>1. ~committed.upgraded /\ committed'.upgraded = TRUE
        BY <2>2, <2>3, <3>3
      <4>. QED  BY <2>4, <3>3, <4>1 DEF History!HNext, History!Upgrade
    <3>. QED  BY <2>3, <3>1, <3>2, <3>3
  <2>5. ASSUME NEW s \in Sessions, Candidate(s), Next
        PROVE  History!HNext
    <3>1. UNCHANGED <<now, after>> /\ Readable(now["main"])
      BY <2>5 DEF Candidate, files, Readable
    <3>2. committed' = committed
      BY <2>1, <2>5, <3>1 DEF Next, Observe, Ledger
    <3>3. CurrentGeneration(now["main"]) \in Gens \cup {Import}
      <4>1. pinned'[s] = CurrentGeneration(now["main"]) /\ pinned'[s] \in Snapshots \cup {None}
        BY <2>1, <2>5 DEF Candidate, TypeOK
      <4>2. now["main"].chain \in Seq(Entry)
        BY <2>1, CurrentManifest DEF Manifests
      <4>3. now["main"].chain # << >> => now["main"].chain[Len(now["main"].chain)] \in Entry
        BY <4>2
      <4>. QED  BY <4>3 DEF CurrentGeneration, Entry
    <3>4. pinned' = [pinned EXCEPT ![s] = CurrentGeneration(now["main"])] /\ pinned[s] = None
      BY <2>5 DEF Candidate
    <3>5. History!Pin(s)
      BY <2>1, <3>2, <3>3, <3>4, StoreConstants DEF History!Pin, TypeOK
    <3>. QED  BY <3>5 DEF History!HNext
  <2>6. pinned' = pinned \/ (Next /\ \E s \in Sessions : Candidate(s))
    <3>1. ASSUME NEW p \in Procs, Begin(p) \/ Step(p) \/ Crash(p)
          PROVE  pinned' = pinned
      BY <2>1, <3>1, StepTells DEF Commands, Begin, Transact, BeginUpgrade, BeginAccept,
         BeginRecoverAcceptance, BeginRestore, Start, Crash
    <3>2. UNCHANGED vars \/ ManualUnlock \/ Damage \/ PowerLoss => pinned' = pinned
      BY DEF vars, ManualUnlock, Damage, PowerLoss
    <3>. QED  BY <1>2, <3>1, <3>2 DEF Next, World
  <2>. QED  BY <2>4, <2>5, <2>6
<1>3. IInv /\ [Next]_vars => [History!HNext]_(<<committed.upgraded, committed.chain, pinned>>)
  BY <1>2
<1>4. Spec => History!HInit /\ [][History!HNext]_(<<committed.upgraded, committed.chain, pinned>>)
  BY <1>1, <1>3, SpecIInv, PTL DEF Spec
<1>. QED  BY <1>4 DEF ImplementsHistory, History!HSpec, History!hvars
=============================================================================
