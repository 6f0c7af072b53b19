--------------------------- MODULE SnapshotProofs ----------------------------
(***************************************************************************)
(* Snapshot, for every set of files, texts and processes.                  *)
(***************************************************************************)
EXTENDS Snapshot, IngestProofs

USE IngestAssumption, SnapshotAssumption

-----------------------------------------------------------------------------
(***************************************************************************)
(* What the steps have in common.                                          *)
(***************************************************************************)
\* Steps of the store that are no step of a walk and end none.
StoreStep(p) ==
    \/ Connect(p) \/ ReadVersion(p) \/ DropTable(p) \/ CreateTable(p)
    \/ SetVersion(p) \/ BeginWrite(p) \/ (\E f \in Files : Upsert(p, f)) \/ Close(p)

\* The ends of a process.
End(p) == Exit(p) \/ Interrupt(p) \/ Kill(p)

LEMMA NextIsOneOf ==
    ASSUME [Next]_vars
    PROVE  \/ Editing
           \/ UNCHANGED vars
           \/ \E p \in Walkers : \/ StoreStep(p) \/ Load(p) \/ BeginWalk(p) \/ Walk(p)
                                 \/ BeginSave(p) \/ End(p)
BY DEF Next, StoreStep, End

LEMMA StoreStepIsQuiet ==
    ASSUME NEW p \in Walkers, StoreStep(p)
    PROVE  UNCHANGED ingestVars
BY DEF StoreStep, Connect, ReadVersion, DropTable, CreateTable, SetVersion, BeginWrite,
   Upsert, Close

LEMMA EndIsReset ==
    ASSUME NEW p \in Walkers, End(p)
    PROVE  /\ Reset(p)
           /\ \/ UNCHANGED <<table, lock, txn, calm>>
              \/ Release(p, table)
              \/ phase[p] = "save" /\ lock = p /\ Release(p, txn)
BY DEF End, Exit, Interrupt, Kill

-----------------------------------------------------------------------------
(***************************************************************************)
(* A build upserts only products that its walk, now over, has made; only a *)
(* build that saves has a transaction.                                     *)
(***************************************************************************)
SavingInv ==
    \A p \in Walkers : \A f \in unsaved[p] : pc[p] = "walked" /\ fresh[p][f] /= None

LockInv == lock /= None => phase[lock] = "save"

SnapshotInv == SnapshotTypeOK /\ SavingInv /\ LockInv

LEMMA EmptyTable == Empty \in Table /\ Empty \in Cache
BY DEF Empty, Table, Cache

LEMMA LoadedType ==
    ASSUME NEW rows \in Table
    PROVE  Loaded(rows) \in Cache
BY DEF Loaded, Table, Row, Cache, CachedFile

LEMMA FoundTable ==
    ASSUME Init, FirstVersion /= 0
    PROVE  table \in Table
<1>1. PICK kept \in SUBSET {f \in Files : Product(disk[f]) /= None} :
          table = [f \in Files |->
                     IF f \in kept
                     THEN [stamp |-> StampOf(disk[f]),
                           file |-> disk[f].text, schema |-> FirstVersion]
                     ELSE None]
  BY DEF Init
<1>2. ASSUME NEW f \in kept
      PROVE  [stamp |-> StampOf(disk[f]), file |-> disk[f].text,
              schema |-> FirstVersion] \in Row
  <2>1. disk[f] \in Node
    BY DEF Init, Product, Node
  <2> QED
    BY <2>1, StampType DEF Row, Node
<1> QED
  BY <1>1, <1>2 DEF Table

LEMMA SnapshotInvInit == Init => SnapshotInv
<1> SUFFICES ASSUME Init PROVE SnapshotInv
  OBVIOUS
<1>1. disk \in [Files -> Node \cup {None}]
  BY DEF Init, Node
<1>2. table \in Table \cup {None}
  BY FoundTable DEF Init
<1>3. <<0, 0>> \in FileStamp
  BY DEF FileStamp
<1> QED
  BY <1>1, <1>2, <1>3, EmptyTable, EmptyType
  DEF Init, WalkInit, SnapshotInv, SavingInv, LockInv, SnapshotTypeOK, IngestTypeOK, Phases

LEMMA StoreStepKeepsInv ==
    ASSUME SnapshotInv, NEW p \in Walkers, StoreStep(p)
    PROVE  SnapshotInv'
<1>1. UNCHANGED ingestVars
  BY StoreStepIsQuiet
<1>2. IngestTypeOK'
  BY <1>1 DEF SnapshotInv, SnapshotTypeOK, IngestTypeOK, ingestVars, walkVars
<1> USE DEF SnapshotInv, SnapshotTypeOK, SavingInv, LockInv, Phases, Goto
<1>3. fresh' = fresh /\ pc' = pc
  BY <1>1 DEF ingestVars, walkVars
<1>4. CASE Connect(p) \/ ReadVersion(p) \/ DropTable(p) \/ CreateTable(p) \/ SetVersion(p)
  <2>0. calm' = calm \/ calm' = [q \in Walkers |-> FALSE]
    BY <1>4 DEF Connect, ReadVersion, DropTable, CreateTable, SetVersion
  <2>1. UNCHANGED <<lock, txn, unsaved>>
    BY <1>4 DEF Connect, ReadVersion, DropTable, CreateTable, SetVersion
  <2>2. version' \in Nat /\ table' \in Table \cup {None}
    BY <1>4, EmptyTable DEF Connect, ReadVersion, DropTable, CreateTable, SetVersion
  <2>3. /\ phase' \in [Walkers -> Phases] /\ phase[p] /= "save"
        /\ \A q \in Walkers : q /= p => phase'[q] = phase[q]
    BY <1>4 DEF Connect, ReadVersion, DropTable, CreateTable, SetVersion
  <2>4. calm' \in [Walkers -> BOOLEAN]
    BY <2>0
  <2> QED
    BY <1>2, <1>3, <2>1, <2>2, <2>3, <2>4
<1>5. CASE BeginWrite(p)
  BY <1>2, <1>3, <1>5 DEF BeginWrite
<1>6. ASSUME NEW f \in Files, Upsert(p, f) PROVE SnapshotInv'
  <2>1. fresh[p][f] \in CachedFile
    BY <1>6 DEF Upsert, IngestTypeOK, Cache
  <2>2. ToRow(p, f) \in Row
    BY <2>1 DEF ToRow, Row, CachedFile
  <2>3. txn' \in Table
    BY <1>6, <2>2 DEF Upsert, Table
  <2>4. /\ unsaved' \in [Walkers -> SUBSET Files]
        /\ \A q \in Walkers : unsaved'[q] \subseteq unsaved[q]
    BY <1>6 DEF Upsert
  <2> QED
    BY <1>2, <1>3, <1>6, <2>3, <2>4 DEF Upsert
<1>7. CASE Close(p)
  <2> DEFINE rows == [f \in Files |-> IF f \in Pruned(p) THEN None ELSE txn[f]]
  <2>1. rows \in Table
    BY DEF Table
  <2>2. Release(p, rows) /\ UNCHANGED <<version, unsaved>>
    BY <1>7 DEF Close
  <2>3. /\ phase' \in [Walkers -> Phases]
        /\ \A q \in Walkers : q /= p => phase'[q] = phase[q]
    BY <1>7 DEF Close
  <2> HIDE DEF rows
  <2>4. table' \in Table \cup {None} /\ lock' \in Walkers \cup {None} /\ txn' \in Table
        /\ calm' \in [Walkers -> BOOLEAN]
    BY <2>1, <2>2, EmptyTable DEF Release
  <2>5. LockInv'
    BY <2>2, <2>3 DEF Release
  <2> QED
    BY <1>2, <1>3, <2>2, <2>3, <2>4, <2>5
<1> QED
  BY <1>4, <1>5, <1>6, <1>7 DEF StoreStep

LEMMA EndKeepsInv ==
    ASSUME SnapshotInv, NEW p \in Walkers, End(p)
    PROVE  SnapshotInv'
<1> USE DEF SnapshotInv, SnapshotTypeOK, SavingInv, LockInv
<1>1. Reset(p)
  BY EndIsReset
<1>2. cache' \in [Walkers -> Cache]
  BY <1>1, EmptyType DEF Reset, IngestTypeOK
<1>3. IngestTypeOK'
  BY <1>1, <1>2, DiscardKeepsType DEF Reset
<1>4. /\ phase' \in [Walkers -> Phases] /\ version' \in Nat
      /\ unsaved' \in [Walkers -> SUBSET Files]
  BY <1>1 DEF Reset, Phases
<1>5. /\ table' \in Table \cup {None} /\ lock' \in Walkers \cup {None} /\ txn' \in Table
      /\ calm' \in [Walkers -> BOOLEAN]
  <2>1. \/ UNCHANGED <<table, lock, txn, calm>>
        \/ \E rows \in Table \cup {None} : Release(p, rows)
    BY EndIsReset
  <2> QED
    BY <2>1, EmptyTable DEF Release
<1>6. SavingInv'
  <2>1. unsaved'[p] = {}
    BY <1>1 DEF Reset
  <2>2. \A q \in Walkers : q /= p =>
            unsaved'[q] = unsaved[q] /\ fresh'[q] = fresh[q] /\ pc'[q] = pc[q]
    BY <1>1 DEF Reset, Discard, IngestTypeOK
  <2> QED
    BY <2>1, <2>2
<1>7. LockInv'
  <2>1. \A q \in Walkers : q /= p => phase'[q] = phase[q]
    BY <1>1 DEF Reset
  <2>2. lock' = None \/ (lock' = lock /\ lock /= p)
    BY DEF End, Exit, Interrupt, Kill, Release
  <2> QED
    BY <2>1, <2>2
<1> QED
  BY <1>3, <1>4, <1>5, <1>6, <1>7

LEMMA SnapshotInvStep ==
    ASSUME SnapshotInv, [Next]_vars
    PROVE  SnapshotInv'
<1>0. IngestTypeOK
  BY DEF SnapshotInv, SnapshotTypeOK
<1> USE DEF SnapshotInv, SnapshotTypeOK, SavingInv, LockInv
<1>1. CASE Editing
  BY <1>0, <1>1, EditKeepsType DEF Editing, Remove, Write, Change, walkVars
<1>2. CASE UNCHANGED vars
  BY <1>2 DEF vars, ingestVars, walkVars, storeVars, IngestTypeOK
<1>3. ASSUME NEW p \in Walkers, Load(p) PROVE SnapshotInv'
  <2>1. cache' \in [Walkers -> Cache]
    BY <1>0, <1>3, LoadedType DEF Load, IngestTypeOK
  <2>2. IngestTypeOK' /\ UNCHANGED <<pc, fresh>>
    BY <1>0, <1>3, <2>1 DEF Load, walkVars, IngestTypeOK
  <2> QED
    BY <1>3, <2>2 DEF Load, Goto, Phases
<1>4. ASSUME NEW p \in Walkers, BeginWalk(p) PROVE SnapshotInv'
  <2>1. IngestTypeOK' /\ fresh' = fresh
    BY <1>0, <1>4, BeginKeepsType DEF BeginWalk, BeginIngest
  <2>2. pc[p] = "idle" /\ \A q \in Walkers : q /= p => pc'[q] = pc[q]
    BY <1>0, <1>4 DEF BeginWalk, BeginIngest, IngestTypeOK
  <2> QED
    BY <1>4, <2>1, <2>2 DEF BeginWalk, storeVars
<1>5. ASSUME NEW p \in Walkers, Walk(p) PROVE SnapshotInv'
  <2>1. IngestTypeOK'
    BY <1>0, <1>5, StepKeepsType DEF Walk
  <2>2. /\ pc[p] /= "walked"
        /\ \A q \in Walkers : q /= p => pc'[q] = pc[q] /\ fresh'[q] = fresh[q]
    BY <1>0, <1>5 DEF Walk, IngestStep, StatVanished, StatReuse, StatChanged, ReadParsed,
       ReadSkipped, IngestTypeOK
  <2> QED
    BY <1>5, <2>1, <2>2 DEF Walk, storeVars
<1>6. ASSUME NEW p \in Walkers, BeginSave(p) PROVE SnapshotInv'
  BY <1>6 DEF BeginSave, Goto, Phases, walkVars, IngestTypeOK
<1> QED
  BY <1>1, <1>2, <1>3, <1>4, <1>5, <1>6, StoreStepKeepsInv, EndKeepsInv, NextIsOneOf

(***************************************************************************)
(* The state stays in the sets that the code's annotations and the schema  *)
(* name: a row is complete, with the schema version of its writer.         *)
(***************************************************************************)
THEOREM SnapshotTypes == Spec => []SnapshotTypeOK
<1>1. SnapshotInv => SnapshotTypeOK
  BY DEF SnapshotInv
<1> QED
  BY <1>1, SnapshotInvInit, SnapshotInvStep, PTL DEF Spec

LEMMA SnapshotInvAlways == Spec => []SnapshotInv
BY SnapshotInvInit, SnapshotInvStep, PTL DEF Spec

-----------------------------------------------------------------------------
(***************************************************************************)
(* The rows are sound, the committed ones and those of the transaction.    *)
(***************************************************************************)
RowsInv ==
    /\ WalkersSound
    /\ table /= None => \A f \in Files : Sound(table[f], f)
    /\ \A f \in Files : Sound(txn[f], f)

LEMMA RowsInit == Init => RowsInv
<1> SUFFICES ASSUME Init PROVE RowsInv
  OBVIOUS
<1>1. DiskPast
  BY DEF Init, DiskPast
<1>2. \A w \in Walkers : WalkerSound(w)
  BY DEF Init, WalkInit, WalkerSound, Sound, Empty
<1>3. ASSUME table /= None, NEW f \in Files PROVE Sound(table[f], f)
  <2>1. PICK kept \in SUBSET {g \in Files : Product(disk[g]) /= None} :
            table = [g \in Files |->
                       IF g \in kept
                       THEN [stamp |-> StampOf(disk[g]),
                             file |-> disk[g].text, schema |-> FirstVersion]
                       ELSE None]
    BY <1>3 DEF Init
  <2>2. CASE f \in kept
    <3>1. disk[f] \in Node /\ disk[f].mtime = 0 /\ clock = 0
      BY <2>2 DEF Init, Product, Node
    <3>2. table[f].stamp[1] = 0
      BY <2>1, <2>2, <3>1 DEF StampOf
    <3>3. table[f].file = Product(disk[f])
      BY <2>1, <2>2 DEF Product
    <3> QED
      BY <3>1, <3>2, <3>3 DEF Sound, Honest
  <2>3. CASE f \notin kept
    BY <2>1, <2>3 DEF Sound
  <2> QED
    BY <2>2, <2>3
<1>4. \A f \in Files : Sound(txn[f], f)
  BY DEF Init, Empty, Sound
<1> QED
  BY <1>1, <1>2, <1>3, <1>4 DEF RowsInv, WalkersSound

LEMMA RowsStep ==
    ASSUME FineClock, SnapshotInv, RowsInv, [Next]_vars
    PROVE  RowsInv'
<1>0. IngestTypeOK /\ WalkersSound
  BY DEF SnapshotInv, SnapshotTypeOK, RowsInv
<1>1. ASSUME UNCHANGED <<disk, clock>>, WalkersSound',
             table' /= None => \A f \in Files : Sound(table'[f], f),
             \A f \in Files : Sound(txn'[f], f)
      PROVE  RowsInv'
  BY <1>1 DEF RowsInv, Sound
<1>2. ASSUME UNCHANGED <<disk, clock, table, txn>>, WalkersSound'
      PROVE  RowsInv'
  BY <1>1, <1>2 DEF RowsInv
<1>3. CASE Editing
  <2>1. PICK f \in Files : Remove(f) \/ \E t \in Texts : Write(f, t)
    BY <1>3 DEF Editing
  <2>2. Edited /\ UNCHANGED <<cache, fresh, stamp, table, txn>>
    BY <1>0, <1>3, <2>1, EditIsEdited DEF Editing
  <2>3. \A g \in Files : \A entry :
            Stamped(entry) /\ Sound(entry, g) => Sound(entry, g)'
    BY <1>0, <2>2, EntryAfterEdit
  <2>4. \A g \in Files : Stamped(txn[g]) /\ (table /= None => Stamped(table[g]))
    BY DEF SnapshotInv, SnapshotTypeOK, Table, Row, Stamped
  <2>5. WalkersSound'
    BY <1>0, <2>2, WalkersAfterEdit
  <2>6. \A g \in Files : Sound(txn[g], g)' /\ (table /= None => Sound(table[g], g)')
    BY <2>2, <2>3, <2>4 DEF RowsInv, Sound
  <2> QED
    BY <2>2, <2>5, <2>6 DEF RowsInv
<1>4. ASSUME NEW p \in Walkers, StoreStep(p) PROVE RowsInv'
  <2>1. UNCHANGED ingestVars
    BY <1>4, StoreStepIsQuiet
  <2>2. WalkersSound'
    BY <1>0, <2>1, WalkersUndisturbed DEF ingestVars, walkVars
  <2>3. CASE Connect(p) \/ ReadVersion(p) \/ SetVersion(p)
    BY <1>2, <2>1, <2>2, <2>3 DEF Connect, ReadVersion, SetVersion, ingestVars
  <2>4. CASE DropTable(p) \/ CreateTable(p)
    <3>1. table' = None \/ table' = Empty \/ table' = table
      BY <2>4 DEF DropTable, CreateTable
    <3>2. table' = Empty => \A f \in Files : Sound(table'[f], f)
      BY DEF Empty, Sound
    <3>3. txn' = txn
      BY <2>4 DEF DropTable, CreateTable
    <3> QED
      BY <1>1, <2>1, <2>2, <3>1, <3>2, <3>3 DEF RowsInv, ingestVars
  <2>5. CASE BeginWrite(p)
    <3>1. table' = table /\ (txn' = txn \/ (table /= None /\ txn' = table))
      BY <2>5 DEF BeginWrite
    <3> QED
      BY <1>1, <2>1, <2>2, <3>1 DEF RowsInv, ingestVars
  <2>6. ASSUME NEW f \in Files, Upsert(p, f) PROVE RowsInv'
    <3>1. Sound(fresh[p][f], f) /\ fresh[p][f] /= None
      BY <2>6 DEF Upsert, RowsInv, WalkersSound, WalkerSound, SnapshotInv, SavingInv
    <3>2. Sound(ToRow(p, f), f)
      BY <3>1 DEF ToRow, Sound, Honest
    <3>3. \A g \in Files : txn'[g] = txn[g] \/ (g = f /\ txn'[g] = ToRow(p, f))
      BY <2>6 DEF Upsert, SnapshotInv, SnapshotTypeOK, Table
    <3>4. \A g \in Files : Sound(txn'[g], g)
      BY <3>2, <3>3 DEF RowsInv
    <3>5. table' = table
      BY <2>6 DEF Upsert
    <3> QED
      BY <1>1, <2>1, <2>2, <3>4, <3>5 DEF RowsInv, ingestVars
  <2>7. CASE Close(p)
    <3> DEFINE rows == [f \in Files |-> IF f \in Pruned(p) THEN None ELSE txn[f]]
    <3>1. \A f \in Files : Sound(rows[f], f)
      BY DEF RowsInv, Sound
    <3>2. Release(p, rows)
      BY <2>7 DEF Close
    <3> HIDE DEF rows
    <3>3. \A f \in Files : Sound(Empty[f], f)
      BY DEF Empty, Sound
    <3> QED
      BY <1>1, <2>1, <2>2, <3>1, <3>2, <3>3 DEF Release, RowsInv, ingestVars
  <2> QED
    BY <1>4, <2>3, <2>4, <2>5, <2>6, <2>7 DEF StoreStep
<1>5. ASSUME NEW p \in Walkers, Load(p) PROVE RowsInv'
  <2>1. /\ UNCHANGED <<disk, clock, fresh, stamp, table, txn>>
        /\ \/ cache' = cache
           \/ table /= None /\ cache' = [cache EXCEPT ![p] = Loaded(table)]
    BY <1>5 DEF Load, walkVars
  <2>2. table /= None => \A f \in Files : Sound(Loaded(table)[f], f)
    BY DEF Loaded, RowsInv, Sound, Honest
  <2>3. \A w \in Walkers : \/ cache'[w] = cache[w]
                           \/ table /= None /\ cache'[w] = Loaded(table)
    BY <1>0, <2>1 DEF IngestTypeOK
  <2>4. WalkersSound'
    BY <1>0, <2>1, <2>2, <2>3 DEF WalkersSound, DiskPast, WalkerSound, Sound
  <2> QED
    BY <1>2, <2>1, <2>4
<1>6. ASSUME NEW p \in Walkers, BeginWalk(p) \/ BeginSave(p) \/ UNCHANGED vars PROVE RowsInv'
  <2>1. UNCHANGED <<disk, clock, cache, fresh, stamp, table, txn>>
    BY <1>6 DEF BeginWalk, BeginIngest, BeginSave, storeVars, vars, ingestVars, walkVars
  <2> QED
    BY <1>0, <1>2, <2>1, WalkersUndisturbed
<1>7. ASSUME NEW p \in Walkers, Walk(p) PROVE RowsInv'
  <2>1. UNCHANGED <<disk, clock, table, txn>>
    BY <1>7 DEF Walk, IngestStep, storeVars, StatVanished, StatReuse, StatChanged,
       ReadParsed, ReadSkipped
  <2> QED
    BY <1>0, <1>2, <1>7, <2>1, WalkersAfterStep DEF Walk
<1>8. ASSUME NEW p \in Walkers, End(p) PROVE RowsInv'
  <2>1. Reset(p)
    BY <1>8, EndIsReset
  <2>2. WalkersSound'
    BY <1>0, <2>1, WalkersAfterDiscard DEF Reset
  <2>3. \/ UNCHANGED <<table, txn>>
        \/ (table' = table \/ table' = txn) /\ (txn' = Empty \/ txn' = txn)
    BY <1>8, EndIsReset DEF Release
  <2>4. \A f \in Files : Sound(Empty[f], f)
    BY DEF Empty, Sound
  <2> QED
    BY <1>1, <2>1, <2>2, <2>3, <2>4 DEF Reset, RowsInv
<1>9. CASE UNCHANGED vars
  BY <1>0, <1>2, <1>9, WalkersUndisturbed DEF vars, ingestVars, walkVars, storeVars
<1> QED
  BY <1>3, <1>4, <1>5, <1>6, <1>7, <1>8, <1>9, NextIsOneOf

(***************************************************************************)
(* Whatever builds overlap, are interrupted or killed, whatever versions   *)
(* they run, no row that is committed would be reused for a text it was    *)
(* not parsed from.                                                        *)
(***************************************************************************)
THEOREM RowsAreHonest ==
    ASSUME FineClock
    PROVE  Spec => []RowsHonest
<1>1. SnapshotInv /\ RowsInv /\ [Next]_vars => RowsInv'
  BY RowsStep
<1>2. RowsInv => RowsHonest
  BY DEF RowsInv, RowsHonest, Sound, Honest
<1> QED
  BY <1>1, <1>2, RowsInit, SnapshotInvAlways, PTL DEF Spec

-----------------------------------------------------------------------------
(***************************************************************************)
(* A build that saves has walked everything it listed.                     *)
(***************************************************************************)
SavesWalked ==
    \A p \in Walkers :
        phase[p] = "save" \/ (phase[p] = "built" /\ p \notin Sessions) =>
            pc[p] = "walked" /\ todo[p] = {}

LEMMA SavesWalkedStep ==
    ASSUME SnapshotInv, SavesWalked, [Next]_vars
    PROVE  SavesWalked'
<1> USE DEF SavesWalked
<1>0. IngestTypeOK /\ phase \in [Walkers -> Phases]
  BY DEF SnapshotInv, SnapshotTypeOK
<1>1. CASE Editing \/ UNCHANGED vars
  BY <1>1 DEF Editing, Write, Remove, Change, vars, ingestVars, walkVars, storeVars
<1>2. ASSUME NEW p \in Walkers, StoreStep(p) PROVE SavesWalked'
  <2>1. UNCHANGED <<pc, todo>>
    BY <1>2, StoreStepIsQuiet DEF ingestVars, walkVars
  <2>2. \A q \in Walkers : \/ phase'[q] = phase[q]
                           \/ phase'[q] \notin {"save", "built"}
                           \/ phase[q] = "save"
    BY <1>0, <1>2 DEF StoreStep, Connect, ReadVersion, DropTable, CreateTable, SetVersion,
       BeginWrite, Upsert, Close, Goto
  <2> QED
    BY <2>1, <2>2
<1>3. ASSUME NEW p \in Walkers, Load(p) PROVE SavesWalked'
  <2>1. UNCHANGED <<pc, todo>>
    BY <1>3 DEF Load, walkVars
  <2>2. \A q \in Walkers : \/ phase'[q] = phase[q]
                           \/ phase'[q] \in {"failed", "walk"}
                           \/ phase'[q] = "built" /\ q \in Sessions
    BY <1>0, <1>3 DEF Load, Goto
  <2> QED
    BY <2>1, <2>2
<1>4. ASSUME NEW p \in Walkers, BeginWalk(p) PROVE SavesWalked'
  <2>1. phase' = phase /\ phase[p] = "walk"
    BY <1>4 DEF BeginWalk, storeVars
  <2>2. \A q \in Walkers : q /= p => pc'[q] = pc[q] /\ todo'[q] = todo[q]
    BY <1>0, <1>4 DEF BeginWalk, BeginIngest, IngestTypeOK
  <2> QED
    BY <2>1, <2>2
<1>5. ASSUME NEW p \in Walkers, Walk(p) PROVE SavesWalked'
  <2>1. phase' = phase
    BY <1>5 DEF Walk, storeVars
  <2>2. /\ pc[p] /= "walked"
        /\ \A q \in Walkers : q /= p => pc'[q] = pc[q] /\ todo'[q] = todo[q]
    BY <1>0, <1>5 DEF Walk, IngestStep, StatVanished, StatReuse, StatChanged, ReadParsed,
       ReadSkipped, IngestTypeOK
  <2> QED
    BY <2>1, <2>2
<1>6. ASSUME NEW p \in Walkers, BeginSave(p) PROVE SavesWalked'
  BY <1>0, <1>6 DEF BeginSave, Returned, Goto, walkVars, IngestTypeOK
<1>7. ASSUME NEW p \in Walkers, End(p) PROVE SavesWalked'
  <2>1. /\ phase'[p] = "closed"
        /\ \A q \in Walkers : q /= p =>
              pc'[q] = pc[q] /\ todo'[q] = todo[q] /\ phase'[q] = phase[q]
    BY <1>0, <1>7, EndIsReset DEF Reset, Discard, IngestTypeOK
  <2> QED
    BY <2>1
<1> QED
  BY <1>1, <1>2, <1>3, <1>4, <1>5, <1>6, <1>7, NextIsOneOf

LEMMA WalkersSeenStep ==
    ASSUME SnapshotInv, RowsInv, WalkersSeen, [Next]_vars
    PROVE  WalkersSeen'
<1>0. IngestTypeOK /\ WalkersSound
  BY DEF SnapshotInv, SnapshotTypeOK, RowsInv
<1>1. ASSUME UNCHANGED <<disk, pc, todo, files, seen>> PROVE WalkersSeen'
  BY <1>1 DEF WalkersSeen, WalkerSeen
<1>2. CASE Editing
  BY <1>0, <1>2, SeenAfterEdit DEF Editing
<1>3. CASE UNCHANGED vars
  BY <1>1, <1>3 DEF vars, ingestVars, walkVars
<1>4. ASSUME NEW p \in Walkers, StoreStep(p) \/ Load(p) PROVE WalkersSeen'
  BY <1>1, <1>4, StoreStepIsQuiet DEF Load, ingestVars, walkVars
<1>5. ASSUME NEW p \in Walkers, BeginWalk(p) PROVE WalkersSeen'
  BY <1>0, <1>5, SeenAfterBegin DEF BeginWalk
<1>6. ASSUME NEW p \in Walkers, Walk(p) PROVE WalkersSeen'
  BY <1>0, <1>6, SeenAfterStep DEF Walk
<1>7. ASSUME NEW p \in Walkers, BeginSave(p) PROVE WalkersSeen'
  BY <1>0, <1>7, SeenAfterReturn DEF BeginSave, walkVars
<1>8. ASSUME NEW p \in Walkers, End(p) PROVE WalkersSeen'
  BY <1>0, <1>8, SeenAfterDiscard, EndIsReset DEF Reset
<1> QED
  BY <1>2, <1>3, <1>4, <1>5, <1>6, <1>7, <1>8, NextIsOneOf

(***************************************************************************)
(* "Warm equals cold", whatever other processes do to the database between *)
(* a build's load and its close, and whatever is edited under its walk.    *)
(***************************************************************************)
THEOREM WarmEqualsCold ==
    ASSUME FineClock
    PROVE  Spec => []WarmIsCold
<1>1. Init => WalkersSeen /\ SavesWalked
  BY DEF Init, WalkInit, WalkersSeen, WalkerSeen, SavesWalked
<1>2. SnapshotInv /\ RowsInv /\ WalkersSeen /\ SavesWalked /\ [Next]_vars
          => RowsInv' /\ WalkersSeen' /\ SavesWalked'
  BY RowsStep, WalkersSeenStep, SavesWalkedStep
<1>3. WalkersSeen /\ SavesWalked => WarmIsCold
  BY DEF WalkersSeen, WalkerSeen, SavesWalked, WarmIsCold
<1> QED
  BY <1>1, <1>2, <1>3, RowsInit, SnapshotInvAlways, PTL DEF Spec

-----------------------------------------------------------------------------
(***************************************************************************)
(* Where every process has the version V: nothing is written before the    *)
(* database has it, and the rows of another version are gone by then.      *)
(***************************************************************************)
OfVersion(rows, v) == \A f \in Files : rows[f] /= None => rows[f].schema = v

VersionInv(V) ==
    /\ \A p \in Walkers : phase[p] \in {"load", "walk", "save"} => version = V
    /\ table /= None => OfVersion(table, version)
    /\ (\E p \in Walkers : phase[p] \in {"create", "stamp"}) /\ table /= None =>
          OfVersion(table, V)
    /\ OfVersion(txn, V)

LEMMA VersionStep ==
    ASSUME NEW V \in Nat, Code = [p \in Walkers |-> V],
           SnapshotInv, VersionInv(V), [Next]_vars
    PROVE  VersionInv(V)'
<1>0. /\ phase \in [Walkers -> Phases] /\ txn \in Table
      /\ \A p \in Walkers : Code[p] = V
      /\ OfVersion(Empty, V) /\ OfVersion(Empty, version)
  BY DEF SnapshotInv, SnapshotTypeOK, OfVersion, Empty
<1>1. ASSUME UNCHANGED <<version, table, lock, txn, phase>> PROVE VersionInv(V)'
  BY <1>1 DEF VersionInv, OfVersion
<1>2. CASE Editing \/ UNCHANGED vars
  BY <1>1, <1>2 DEF Editing, vars, storeVars
<1>3. ASSUME NEW p \in Walkers, BeginWalk(p) \/ Walk(p) PROVE VersionInv(V)'
  BY <1>1, <1>3 DEF BeginWalk, Walk, storeVars
<1>4. ASSUME NEW p \in Walkers, Connect(p) \/ ReadVersion(p) \/ Load(p) \/ BeginSave(p)
      PROVE  VersionInv(V)'
  <2>1. UNCHANGED <<version, table, lock, txn>>
    BY <1>4 DEF Connect, ReadVersion, Load, BeginSave
  <2>2. /\ phase[p] /= "save" /\ phase'[p] \notin {"create", "stamp"}
        /\ phase'[p] \in {"load", "walk", "save"} => version = V
        /\ \A q \in Walkers : q /= p => phase'[q] = phase[q]
    BY <1>0, <1>4 DEF Connect, ReadVersion, Load, BeginSave, Goto, VersionInv
  <2> QED
    BY <2>1, <2>2 DEF VersionInv, OfVersion, SnapshotInv, SnapshotTypeOK, LockInv
<1>5. ASSUME NEW p \in Walkers, DropTable(p) PROVE VersionInv(V)'
  BY <1>0, <1>5 DEF DropTable, Goto, VersionInv, OfVersion
<1>6. ASSUME NEW p \in Walkers, CreateTable(p) PROVE VersionInv(V)'
  <2>1. /\ UNCHANGED <<version, lock, txn>> /\ lock = None /\ phase[p] = "create"
        /\ \A q \in Walkers : phase'[q] = phase[q] \/ phase'[q] \in {"stamp", "failed"}
        /\ table' = Empty \/ (table /= None /\ table' = table)
    BY <1>0, <1>6 DEF CreateTable, Goto
  <2> QED
    BY <1>0, <2>1 DEF VersionInv, OfVersion
<1>7. ASSUME NEW p \in Walkers, SetVersion(p) PROVE VersionInv(V)'
  <2>1. /\ UNCHANGED <<table, lock, txn>> /\ lock = None /\ phase[p] = "stamp"
        /\ version' = V
    BY <1>0, <1>7 DEF SetVersion, Goto
  <2>2. table /= None => OfVersion(table, V)
    BY <2>1 DEF VersionInv
  <2> QED
    BY <2>1, <2>2 DEF VersionInv, OfVersion
<1>8. ASSUME NEW p \in Walkers, BeginWrite(p) PROVE VersionInv(V)'
  <2>1. version = V
    BY <1>8 DEF BeginWrite, VersionInv
  <2>2. CASE table = None
    BY <1>0, <1>8, <2>2 DEF BeginWrite, Goto, VersionInv, OfVersion
  <2>3. CASE table /= None
    BY <1>8, <2>1, <2>3 DEF BeginWrite, VersionInv, OfVersion
  <2> QED
    BY <2>2, <2>3
<1>9. ASSUME NEW p \in Walkers, NEW f \in Files, Upsert(p, f) PROVE VersionInv(V)'
  <2>1. UNCHANGED <<version, table, lock, phase>>
    BY <1>9 DEF Upsert
  <2>2. \A g \in Files : txn'[g] = txn[g] \/ txn'[g] = ToRow(p, f)
    BY <1>0, <1>9 DEF Upsert, Table
  <2>3. ToRow(p, f).schema = V
    BY <1>0 DEF ToRow
  <2> QED
    BY <2>1, <2>2, <2>3 DEF VersionInv, OfVersion
<1>10. ASSUME NEW p \in Walkers, NEW rows, phase[p] = "save", Release(p, rows),
              OfVersion(rows, V), version' = version,
              phase'[p] \in {"closed", "built"},
              \A q \in Walkers : q /= p => phase'[q] = phase[q]
       PROVE  VersionInv(V)'
  <2>1. version = V
    BY <1>10 DEF VersionInv
  <2>2. CASE lock = p
    BY <1>0, <1>10, <2>1, <2>2 DEF Release, VersionInv, OfVersion
  <2>3. CASE lock /= p
    BY <1>10, <2>3 DEF Release, VersionInv, OfVersion, SnapshotInv, SnapshotTypeOK, LockInv
  <2> QED
    BY <2>2, <2>3
<1>11. ASSUME NEW p \in Walkers, Close(p) PROVE VersionInv(V)'
  <2> DEFINE rows == [f \in Files |-> IF f \in Pruned(p) THEN None ELSE txn[f]]
  <2>1. OfVersion(rows, V)
    BY DEF VersionInv, OfVersion
  <2>2. /\ phase[p] = "save" /\ phase'[p] = "built" /\ Release(p, rows) /\ version' = version
        /\ \A q \in Walkers : q /= p => phase'[q] = phase[q]
    BY <1>0, <1>11 DEF Close, Goto
  <2> HIDE DEF rows
  <2> QED
    BY <1>10, <2>1, <2>2
<1>12. ASSUME NEW p \in Walkers, End(p) PROVE VersionInv(V)'
  <2>1. /\ version' = version /\ phase'[p] = "closed"
        /\ \A q \in Walkers : q /= p => phase'[q] = phase[q]
    BY <1>0, <1>12, EndIsReset DEF Reset
  <2>2. CASE phase[p] /= "save" /\ (lock = p => lock = None)
    <3>1. UNCHANGED table /\ (txn' = txn \/ txn' = Empty) /\ (lock' = lock \/ lock' = None)
      BY <1>12, <2>2, EndIsReset DEF Release
    <3> QED
      BY <1>0, <2>1, <2>2, <3>1 DEF VersionInv, OfVersion, SnapshotInv, SnapshotTypeOK, LockInv
  <2>3. CASE phase[p] = "save"
    <3>1. version = V
      BY <2>3 DEF VersionInv
    <3>2. \E rows : Release(p, rows) /\ (rows /= None => OfVersion(rows, V))
      BY <1>12, <2>3, <3>1 DEF End, Exit, Interrupt, Kill, VersionInv
    <3> QED
      BY <1>0, <2>1, <2>3, <3>1, <3>2 DEF Release, VersionInv, OfVersion, SnapshotInv, SnapshotTypeOK, LockInv
  <2> QED
    BY <2>2, <2>3 DEF SnapshotInv, LockInv
<1> QED
  BY <1>2, <1>3, <1>4, <1>5, <1>6, <1>7, <1>8, <1>9, <1>11, <1>12, NextIsOneOf DEF StoreStep

(***************************************************************************)
(* Where every process is of one version, the rows are of the version that *)
(* the database says: a bump discards the others, whoever races through    *)
(* _ensure_schema.  (The run snapshot_upgrade shows two versions.)         *)
(***************************************************************************)
THEOREM RowsAreOfVersion ==
    ASSUME NEW V \in Nat, Code = [p \in Walkers |-> V]
    PROVE  Spec => []RowsOfVersion
<1>1. Init => VersionInv(V)
  <2> SUFFICES ASSUME Init PROVE VersionInv(V)
    OBVIOUS
  <2>1. table /= None => OfVersion(table, version)
    BY DEF Init, OfVersion
  <2> QED
    BY <2>1 DEF Init, VersionInv, OfVersion, Empty
<1>2. SnapshotInv /\ VersionInv(V) /\ [Next]_vars => VersionInv(V)'
  BY VersionStep
<1>3. VersionInv(V) => RowsOfVersion
  BY DEF VersionInv, OfVersion, RowsOfVersion
<1> QED
  BY <1>1, <1>2, <1>3, SnapshotInvAlways, PTL DEF Spec

-----------------------------------------------------------------------------
(***************************************************************************)
(* A database that is up to date is never recreated.                       *)
(***************************************************************************)
CurrentInv(V) ==
    /\ version = V /\ table /= None
    /\ \A p \in Walkers : phase[p] \in {"closed", "open", "load", "walk", "save", "built"}

(***************************************************************************)
(* Processes of the database's own version do not make each other fail,    *)
(* however they overlap: only a start that finds another version does.     *)
(* (The run snapshot_cold_start shows one that finds a new database.)      *)
(***************************************************************************)
THEOREM CurrentNeverFails ==
    ASSUME NEW V \in Nat \ {0}, Code = [p \in Walkers |-> V], FirstVersion = V,
           None \notin Table
    PROVE  Spec => []NoStoreError
<1>1. Init => CurrentInv(V)
  BY FoundTable DEF Init, CurrentInv
<1>2. SnapshotInv /\ CurrentInv(V) /\ [Next]_vars => CurrentInv(V)'
  <2> SUFFICES ASSUME SnapshotInv, CurrentInv(V), [Next]_vars
               PROVE  CurrentInv(V)'
    OBVIOUS
  <2>0. phase \in [Walkers -> Phases] /\ txn \in Table /\ \A p \in Walkers : Code[p] = V
    BY DEF SnapshotInv, SnapshotTypeOK
  <2>1. ASSUME UNCHANGED <<version, table, phase>> PROVE CurrentInv(V)'
    BY <2>1 DEF CurrentInv
  <2>2. CASE Editing \/ UNCHANGED vars
    BY <2>1, <2>2 DEF Editing, vars, storeVars
  <2>3. ASSUME NEW p \in Walkers, BeginWalk(p) \/ Walk(p) PROVE CurrentInv(V)'
    BY <2>1, <2>3 DEF BeginWalk, Walk, storeVars
  <2>4. ASSUME NEW p \in Walkers,
               Connect(p) \/ ReadVersion(p) \/ Load(p) \/ BeginSave(p) \/ BeginWrite(p)
        PROVE  CurrentInv(V)'
    BY <2>0, <2>4
    DEF Connect, ReadVersion, Load, BeginSave, BeginWrite, Goto, CurrentInv
  <2>5. ASSUME NEW p \in Walkers, DropTable(p) \/ CreateTable(p) \/ SetVersion(p)
        PROVE  FALSE
    BY <2>5 DEF DropTable, CreateTable, SetVersion, Goto, CurrentInv
  <2>6. ASSUME NEW p \in Walkers, NEW f \in Files, Upsert(p, f) PROVE CurrentInv(V)'
    BY <2>1, <2>6 DEF Upsert
  <2>7. ASSUME NEW p \in Walkers, Close(p) PROVE CurrentInv(V)'
    <3> DEFINE rows == [f \in Files |-> IF f \in Pruned(p) THEN None ELSE txn[f]]
    <3>1. rows \in Table
      BY <2>0 DEF Table
    <3>2. Release(p, rows) /\ Goto(p, "save", "built") /\ version' = version
      BY <2>7 DEF Close
    <3> HIDE DEF rows
    <3> QED
      BY <2>0, <3>1, <3>2 DEF Release, Goto, CurrentInv
  <2>8. ASSUME NEW p \in Walkers, End(p) PROVE CurrentInv(V)'
    <3>1. Reset(p) /\ (table' = table \/ table' = txn)
      BY <2>8, EndIsReset DEF Release
    <3> QED
      BY <2>0, <3>1 DEF Reset, CurrentInv
  <2> QED
    BY <2>2, <2>3, <2>4, <2>5, <2>6, <2>7, <2>8, NextIsOneOf DEF StoreStep
<1>3. CurrentInv(V) => NoStoreError
  BY DEF CurrentInv, NoStoreError
<1> QED
  BY <1>1, <1>2, <1>3, SnapshotInvAlways, PTL DEF Spec

-----------------------------------------------------------------------------
(***************************************************************************)
(* A process that nothing has disturbed since its load: its cache is the   *)
(* table, its walk has been over the files there are, and its transaction  *)
(* has the rows it has upserted.                                           *)
(***************************************************************************)
Matches(entry, f) ==
    entry /= None /\ entry.stamp = StampOf(disk[f]) /\ entry.file = Product(disk[f])

IdleInv ==
    \A p \in Walkers :
        /\ phase[p] \notin {"walk", "save", "built", "failed"} => pc[p] = "idle"
        /\ pc[p] = "idle" => todo[p] = {} /\ fresh[p] = Empty /\ present[p] = {}

WalkedFile(p, f) ==
    /\ fresh[p][f] /= None => Matches(fresh[p][f], f)
    /\ f \in todo[p] => fresh[p][f] = None
    /\ f \in present[p] => disk[f] /= None
    /\ pc[p] /= "idle" /\ f \notin todo[p] =>
          /\ disk[f] /= None => f \in present[p]
          /\ Product(disk[f]) /= None => Matches(fresh[p][f], f) \/ Matches(cache[p][f], f)
    /\ pc[p] = "read" /\ AtFile(p, f) => stamp[p] = StampOf(disk[f]) /\ f \in present[p]

SavedFile(p, f) ==
    /\ f \in unsaved[p] => fresh[p][f] /= None
    /\ lock = p /\ f \notin unsaved[p] =>
          txn[f] = IF fresh[p][f] /= None THEN ToRow(p, f) ELSE table[f]
    /\ phase[p] = "save" /\ lock /= p /\ fresh[p][f] /= None => f \in unsaved[p]

Calm(p) ==
    calm[p] /\ phase[p] \in {"walk", "save"} =>
        /\ table /= None /\ cache[p] = Loaded(table)
        /\ \A f \in Files : WalkedFile(p, f) /\ SavedFile(p, f)

CalmInv == IdleInv /\ \A p \in Walkers : Calm(p)

\* None is no process and no entry.
NoneIsApart == None \notin Walkers \cup CachedFile \cup Row

LEMMA IdleStep ==
    ASSUME SnapshotInv, IdleInv, [Next]_vars
    PROVE  IdleInv'
<1> USE DEF IdleInv
<1>0. IngestTypeOK /\ phase \in [Walkers -> Phases]
  BY DEF SnapshotInv, SnapshotTypeOK
<1>1. CASE Editing \/ UNCHANGED vars
  BY <1>1 DEF Editing, Write, Remove, Change, vars, ingestVars, walkVars, storeVars
<1>2. ASSUME NEW p \in Walkers, StoreStep(p) PROVE IdleInv'
  <2>1. UNCHANGED <<pc, todo, fresh, present>>
    BY <1>2, StoreStepIsQuiet DEF ingestVars, walkVars
  <2>2. \A q \in Walkers : \/ phase'[q] = phase[q]
                           \/ phase'[q] \in {"built", "failed"}
                           \/ phase[q] \notin {"walk", "save", "built", "failed"}
    BY <1>0, <1>2 DEF StoreStep, Connect, ReadVersion, DropTable, CreateTable, SetVersion,
       BeginWrite, Upsert, Close, Goto
  <2> QED
    BY <2>1, <2>2
<1>3. ASSUME NEW p \in Walkers, Load(p) PROVE IdleInv'
  <2>1. UNCHANGED <<pc, todo, fresh, present>>
    BY <1>3 DEF Load, walkVars
  <2>2. \A q \in Walkers : phase'[q] = phase[q] \/ phase[q] = "load"
    BY <1>0, <1>3 DEF Load, Goto
  <2> QED
    BY <2>1, <2>2
<1>4. ASSUME NEW p \in Walkers, BeginWalk(p) PROVE IdleInv'
  <2>1. UNCHANGED <<fresh, present, phase>> /\ phase[p] = "walk" /\ pc'[p] = "stat"
    BY <1>0, <1>4 DEF BeginWalk, BeginIngest, storeVars, IngestTypeOK
  <2>2. \A q \in Walkers : q /= p => pc'[q] = pc[q] /\ todo'[q] = todo[q]
    BY <1>0, <1>4 DEF BeginWalk, BeginIngest, IngestTypeOK
  <2> QED
    BY <2>1, <2>2
<1>5. ASSUME NEW p \in Walkers, Walk(p) PROVE IdleInv'
  <2>1. phase' = phase /\ pc[p] /= "idle" /\ pc'[p] /= "idle"
    BY <1>0, <1>5 DEF Walk, storeVars, IngestStep, StatVanished, StatReuse, StatChanged,
       ReadParsed, ReadSkipped, IngestTypeOK
  <2>2. \A q \in Walkers : q /= p =>
            pc'[q] = pc[q] /\ todo'[q] = todo[q] /\ fresh'[q] = fresh[q] /\ present'[q] = present[q]
    BY <1>0, <1>5 DEF Walk, IngestStep, StatVanished, StatReuse, StatChanged, ReadParsed,
       ReadSkipped, IngestTypeOK
  <2> QED
    BY <2>1, <2>2
<1>6. ASSUME NEW p \in Walkers, BeginSave(p) PROVE IdleInv'
  BY <1>0, <1>6 DEF BeginSave, Goto, walkVars, IngestTypeOK
<1>7. ASSUME NEW p \in Walkers, End(p) PROVE IdleInv'
  <2>1. /\ pc'[p] = "idle" /\ todo'[p] = {} /\ fresh'[p] = Empty /\ present'[p] = {}
        /\ \A q \in Walkers : q /= p =>
              /\ pc'[q] = pc[q] /\ todo'[q] = todo[q] /\ fresh'[q] = fresh[q]
              /\ present'[q] = present[q] /\ phase'[q] = phase[q]
    BY <1>0, <1>7, EndIsReset DEF Reset, Discard, IngestTypeOK
  <2> QED
    BY <2>1
<1> QED
  BY <1>1, <1>2, <1>3, <1>4, <1>5, <1>6, <1>7, NextIsOneOf

\* What the end of q's transaction leaves p that goes by its load.
LEMMA ReleaseDisturbs ==
    ASSUME NoneIsApart, NEW p \in Walkers, NEW q \in Walkers, p /= q, NEW rows, Release(q, rows)
    PROVE  /\ lock' = p <=> lock = p
           /\ calm'[p] => calm[p] /\ table' = table /\ txn' = txn
<1>1. CASE lock = q
  <2>1. lock' = None /\ calm'[p] = (p = q /\ calm[q])
    BY <1>1 DEF Release
  <2> QED
    BY <1>1, <2>1 DEF NoneIsApart
<1>2. CASE lock /= q
  BY <1>2 DEF Release
<1> QED
  BY <1>1, <1>2

LEMMA CalmBegins ==
    ASSUME SnapshotInv, CalmInv, NEW p \in Walkers, BeginWalk(p)
    PROVE  Calm(p)'
<1>1. /\ pc[p] = "idle" /\ pc'[p] = "stat"
      /\ todo'[p] = {g \in Files : disk[g] /= None}
      /\ UNCHANGED <<disk, cache, stamp, fresh, present>>
      /\ UNCHANGED <<table, lock, txn, unsaved, phase, calm>>
  BY DEF BeginWalk, BeginIngest, storeVars, SnapshotInv, SnapshotTypeOK, IngestTypeOK
<1>2. Calm(p) /\ phase[p] = "walk" /\ fresh[p] = Empty /\ present[p] = {}
  BY <1>1 DEF BeginWalk, CalmInv, IdleInv
<1>3. ASSUME calm[p], NEW f \in Files
      PROVE  WalkedFile(p, f)' /\ SavedFile(p, f)'
  <2>1. SavedFile(p, f)'
    BY <1>1, <1>2, <1>3 DEF Calm, SavedFile, ToRow
  <2>2. WalkedFile(p, f)'
    BY <1>1, <1>2 DEF WalkedFile, Empty, Product
  <2> QED
    BY <2>1, <2>2
<1>4. Loaded(table)' = Loaded(table)
  BY <1>1 DEF Loaded
<1> QED
  BY <1>1, <1>2, <1>3, <1>4 DEF Calm

LEMMA CalmWalks ==
    ASSUME NoneIsApart, SnapshotInv, RowsInv, SavesWalked, CalmInv, NEW p \in Walkers, Walk(p)
    PROVE  Calm(p)'
<1>0. PICK f \in Files :
          \/ StatVanished(p, f) \/ StatReuse(p, f) \/ StatChanged(p, f)
          \/ ReadParsed(p, f) \/ ReadSkipped(p, f)
  BY DEF Walk, IngestStep
<1>1. /\ UNCHANGED <<disk, cache, storeVars>>
      /\ pc[p] \in {"stat", "read"} /\ pc'[p] \in {"stat", "read"} /\ AtFile(p, f)
  BY <1>0 DEF Walk, StatVanished, StatReuse, StatChanged, ReadParsed, ReadSkipped,
     SnapshotInv, SnapshotTypeOK, IngestTypeOK
<1>2. phase[p] /= "save" /\ lock /= p /\ unsaved[p] = {}
  BY <1>1 DEF NoneIsApart, SavesWalked, SnapshotInv, SavingInv, LockInv, SnapshotTypeOK
<1> SUFFICES ASSUME calm[p], phase[p] = "walk", NEW g \in Files
             PROVE  WalkedFile(p, g)'
  BY <1>1, <1>2 DEF CalmInv, Calm, SavedFile, Loaded, storeVars
<1>3. WalkedFile(p, f) /\ WalkedFile(p, g)
  BY DEF CalmInv, Calm
<1>4. f \in todo[p] /\ \A h \in todo[p] : f =< h
  BY <1>1 DEF AtFile
<1>5. /\ disk \in [Files -> Node \cup {None}] /\ todo \in [Walkers -> SUBSET Files]
      /\ stamp \in [Walkers -> FileStamp] /\ pc \in [Walkers -> {"idle", "stat", "read", "walked"}]
      /\ fresh \in [Walkers -> Cache] /\ present \in [Walkers -> SUBSET Files]
  BY DEF SnapshotInv, SnapshotTypeOK, IngestTypeOK
\* A step that passes over f: the other files are left as they are.
<1>6. ASSUME todo' = [todo EXCEPT ![p] = @ \ {f}], pc'[p] = "stat",
             g /= f => fresh'[p][g] = fresh[p][g] /\ (g \in present'[p] <=> g \in present[p]),
             f \in present'[p] <=> disk[f] /= None,
             fresh'[p][f] /= None => Matches(fresh'[p][f], f),
             Product(disk[f]) /= None => Matches(fresh'[p][f], f) \/ Matches(cache[p][f], f)
      PROVE  WalkedFile(p, g)'
  <2>1. todo'[p] = todo[p] \ {f}
    BY <1>5, <1>6
  <2>2. CASE g = f
    BY <1>1, <1>6, <2>1, <2>2 DEF WalkedFile, Matches
  <2>3. CASE g /= f
    BY <1>1, <1>3, <1>6, <2>1, <2>3 DEF WalkedFile, Matches
  <2> QED
    BY <2>2, <2>3
<1>7. CASE StatVanished(p, f)
  BY <1>1, <1>3, <1>4, <1>6, <1>7 DEF StatVanished, WalkedFile, Product
<1>8. CASE StatReuse(p, f)
  <2>1. Matches(cache[p][f], f)
    BY <1>8 DEF StatReuse, Unchanged, Matches, RowsInv, WalkersSound, WalkerSound, Sound, Honest
  <2>2. \A h \in Files : h \in present'[p] <=> (h \in present[p] \/ h = f)
    BY <1>5, <1>8 DEF StatReuse
  <2> QED
    BY <1>3, <1>4, <1>6, <1>8, <2>1, <2>2 DEF StatReuse, WalkedFile
<1>9. CASE StatChanged(p, f)
  <2>1. /\ UNCHANGED <<todo, fresh>> /\ stamp'[p] = StampOf(disk[f])
        /\ \A h \in Files : h \in present'[p] <=> (h \in present[p] \/ h = f)
        /\ disk[f] /= None
    BY <1>5, <1>9 DEF StatChanged
  <2>2. AtFile(p, g) => g = f
    <3>1. f \in Nat /\ g \in Nat
      OBVIOUS
    <3>2. AtFile(p, g) => f =< g /\ g =< f
      BY <1>4 DEF AtFile
    <3> QED
      BY <3>1, <3>2
  <2> QED
    BY <1>1, <1>3, <1>4, <2>1, <2>2 DEF WalkedFile, AtFile, Matches
<1>10. CASE ReadParsed(p, f)
  <2> DEFINE entry == [stamp |-> stamp[p], file |-> Product(disk[f])]
  <2>1. entry \in CachedFile
    BY <1>5, <1>10, ProductType DEF ReadParsed, CachedFile
  <2>2. stamp[p] = StampOf(disk[f]) /\ f \in present[p]
    BY <1>1, <1>3, <1>10 DEF ReadParsed, WalkedFile
  <2>3. Matches(entry, f)
    BY <2>1, <2>2 DEF Matches, NoneIsApart
  <2>4. fresh' = [fresh EXCEPT ![p][f] = entry] /\ present' = present
    BY <1>10 DEF ReadParsed
  <2> HIDE DEF entry
  <2>5. fresh'[p][f] = entry /\ (g /= f => fresh'[p][g] = fresh[p][g])
    BY <1>5, <2>4 DEF Cache
  <2>6. disk[f] /= None
    BY <1>10 DEF ReadParsed, Product
  <2>7. todo' = [todo EXCEPT ![p] = @ \ {f}] /\ pc'[p] = "stat"
    BY <1>5, <1>10 DEF ReadParsed
  <2> QED
    BY <1>6, <2>2, <2>3, <2>4, <2>5, <2>6, <2>7
<1>11. CASE ReadSkipped(p, f)
  <2>1. Product(disk[f]) = None /\ fresh[p][f] = None /\ f \in present[p] /\ disk[f] /= None
    BY <1>1, <1>3, <1>4, <1>11 DEF ReadSkipped, WalkedFile, Product
  <2> QED
    BY <1>5, <1>6, <1>11, <2>1 DEF ReadSkipped
<1> QED
  BY <1>0, <1>7, <1>8, <1>9, <1>10, <1>11

LEMMA CalmStep ==
    ASSUME NoneIsApart, SnapshotInv, RowsInv, SavesWalked, CalmInv, [Next]_vars
    PROVE  CalmInv'
<1> SUFFICES ASSUME NEW p \in Walkers PROVE Calm(p)'
  BY IdleStep DEF CalmInv
<1>0. /\ Calm(p) /\ phase \in [Walkers -> Phases] /\ calm \in [Walkers -> BOOLEAN]
      /\ unsaved \in [Walkers -> SUBSET Files] /\ txn \in Table /\ lock \in Walkers \cup {None}
      /\ IngestTypeOK
  BY DEF CalmInv, SnapshotInv, SnapshotTypeOK
\* A step of another process that leaves what p goes by as it is.
<1>1. ASSUME disk' = disk, pc'[p] = pc[p], todo'[p] = todo[p], fresh'[p] = fresh[p],
             present'[p] = present[p], cache'[p] = cache[p], stamp'[p] = stamp[p],
             phase'[p] = phase[p], unsaved'[p] = unsaved[p], lock' = p <=> lock = p,
             calm'[p] => calm[p] /\ (table /= None => table' = table)
                         /\ (lock = p => txn' = txn)
      PROVE  Calm(p)'
  <2> SUFFICES ASSUME calm'[p], phase'[p] \in {"walk", "save"}
               PROVE  /\ table' /= None /\ cache'[p] = Loaded(table)'
                      /\ \A f \in Files : WalkedFile(p, f)' /\ SavedFile(p, f)'
    BY DEF Calm
  <2>1. /\ table /= None /\ cache[p] = Loaded(table) /\ table' = table
        /\ lock = p => txn' = txn
        /\ \A f \in Files : WalkedFile(p, f) /\ SavedFile(p, f)
    BY <1>0, <1>1 DEF Calm
  <2>2. Loaded(table)' = Loaded(table)
    BY <2>1 DEF Loaded
  <2>3. ASSUME NEW f \in Files PROVE WalkedFile(p, f)' /\ SavedFile(p, f)'
    <3>1. WalkedFile(p, f)'
      BY <1>1, <2>1 DEF WalkedFile, Matches, AtFile
    <3>2. SavedFile(p, f)'
      BY <1>1, <2>1 DEF SavedFile, ToRow
    <3> QED
      BY <3>1, <3>2
  <2> QED
    BY <1>1, <2>1, <2>2, <2>3
<1>2. CASE Editing
  BY <1>2 DEF Editing, Calm
<1>3. CASE UNCHANGED vars
  BY <1>1, <1>3 DEF vars, ingestVars, walkVars, storeVars
<1>4. ASSUME NEW q \in Walkers, StoreStep(q) PROVE Calm(p)'
  <2>1. UNCHANGED ingestVars
    BY <1>4, StoreStepIsQuiet
  <2>2. CASE Connect(q) \/ ReadVersion(q) \/ SetVersion(q)
    <3>1. /\ UNCHANGED <<table, lock, txn, unsaved, calm>>
          /\ phase'[q] \notin {"walk", "save"}
          /\ p /= q => phase'[p] = phase[p]
      BY <1>0, <2>2 DEF Connect, ReadVersion, SetVersion, Goto
    <3>2. CASE p = q
      BY <3>1, <3>2 DEF Calm
    <3>3. CASE p /= q
      BY <1>1, <2>1, <3>1, <3>3 DEF ingestVars, walkVars
    <3> QED
      BY <3>2, <3>3
  <2>3. CASE DropTable(q)
    BY <2>3 DEF DropTable, Calm
  <2>4. CASE CreateTable(q)
    <3>1. /\ UNCHANGED <<lock, txn, unsaved, calm>>
          /\ phase'[q] \notin {"walk", "save"}
          /\ p /= q => phase'[p] = phase[p]
          /\ table /= None => table' = table
      BY <1>0, <2>4 DEF CreateTable, Goto
    <3>2. CASE p = q
      BY <3>1, <3>2 DEF Calm
    <3>3. CASE p /= q
      BY <1>1, <2>1, <3>1, <3>3 DEF ingestVars, walkVars
    <3> QED
      BY <3>2, <3>3
  <2>5. CASE BeginWrite(q)
    <3>1. UNCHANGED <<table, unsaved, calm>> /\ lock = None
      BY <2>5 DEF BeginWrite
    <3>2. CASE p = q /\ table /= None
      <4>1. lock' = p /\ txn' = table /\ phase' = phase /\ phase[p] = "save"
        BY <2>5, <3>2 DEF BeginWrite
      <4>2. ASSUME calm[p], NEW f \in Files
            PROVE  WalkedFile(p, f)' /\ SavedFile(p, f)'
        <5>1. WalkedFile(p, f) /\ SavedFile(p, f) /\ lock /= p
          BY <1>0, <3>1, <4>1, <4>2 DEF Calm, NoneIsApart
        <5>2. WalkedFile(p, f)'
          BY <2>1, <5>1 DEF WalkedFile, Matches, AtFile, ingestVars, walkVars
        <5>3. SavedFile(p, f)'
          BY <2>1, <3>1, <4>1, <5>1 DEF SavedFile, ToRow, ingestVars, walkVars
        <5> QED
          BY <5>2, <5>3
      <4>3. Loaded(table)' = Loaded(table)
        BY <3>1 DEF Loaded
      <4> QED
        BY <1>0, <2>1, <3>1, <4>1, <4>2, <4>3 DEF Calm, ingestVars
    <3>3. CASE p = q /\ table = None
      BY <1>0, <2>5, <3>3 DEF BeginWrite, Goto, Calm
    <3>4. CASE p /= q
      <4>1. (lock' = p <=> lock = p) /\ lock /= p /\ phase'[p] = phase[p]
        BY <1>0, <2>5, <3>4 DEF BeginWrite, Goto, NoneIsApart
      <4> QED
        BY <1>1, <2>1, <3>1, <4>1 DEF ingestVars, walkVars
    <3> QED
      BY <3>2, <3>3, <3>4
  <2>6. ASSUME NEW f \in Files, Upsert(q, f) PROVE Calm(p)'
    <3>1. UNCHANGED <<table, lock, phase, calm>> /\ lock = q
      BY <2>6 DEF Upsert
    <3>2. CASE p /= q
      <4>1. unsaved'[p] = unsaved[p]
        BY <1>0, <2>6, <3>2 DEF Upsert
      <4> QED
        BY <1>1, <2>1, <3>1, <3>2, <4>1 DEF ingestVars, walkVars
    <3>3. CASE p = q
      <4>1. ASSUME calm[p], phase[p] \in {"walk", "save"}, NEW g \in Files
            PROVE  WalkedFile(p, g)' /\ SavedFile(p, g)'
        <5>1. WalkedFile(p, g) /\ SavedFile(p, g) /\ SavedFile(p, f)
          BY <1>0, <4>1 DEF Calm
        <5>2. WalkedFile(p, g)'
          BY <2>1, <5>1 DEF WalkedFile, Matches, AtFile, ingestVars, walkVars
        <5>3. /\ f \in unsaved[p] /\ unsaved'[p] = unsaved[p] \ {f}
              /\ txn'[g] = IF g = f THEN ToRow(p, f) ELSE txn[g]
          BY <1>0, <2>6, <3>3 DEF Upsert, Table
        <5>4. SavedFile(p, g)'
          BY <2>1, <3>1, <3>3, <5>1, <5>3 DEF SavedFile, ToRow, ingestVars, walkVars
        <5> QED
          BY <5>2, <5>4
      <4>2. Loaded(table)' = Loaded(table)
        BY <3>1 DEF Loaded
      <4> QED
        BY <1>0, <2>1, <3>1, <4>1, <4>2 DEF Calm, ingestVars
    <3> QED
      BY <3>2, <3>3
  <2>7. CASE Close(q)
    <3>1. CASE p = q
      BY <1>0, <2>7, <3>1 DEF Close, Goto, Calm
    <3>2. CASE p /= q
      <4>1. /\ unsaved' = unsaved /\ phase'[p] = phase[p] /\ (lock' = p <=> lock = p)
            /\ calm'[p] => calm[p] /\ table' = table /\ txn' = txn
        BY <1>0, <2>7, <3>2, ReleaseDisturbs DEF Close, Goto
      <4> QED
        BY <1>1, <2>1, <4>1 DEF ingestVars, walkVars
    <3> QED
      BY <3>1, <3>2
  <2> QED
    BY <1>4, <2>2, <2>3, <2>4, <2>5, <2>6, <2>7 DEF StoreStep
<1>5. ASSUME NEW q \in Walkers, Load(q) PROVE Calm(p)'
  <2>1. UNCHANGED <<disk, pc, todo, stamp, fresh, present, table, lock, txn, unsaved>>
    BY <1>5 DEF Load, walkVars
  <2>2. CASE p /= q
    <3>1. cache'[p] = cache[p] /\ calm'[p] = calm[p] /\ phase'[p] = phase[p]
      BY <1>0, <1>5, <2>2 DEF Load, Goto, IngestTypeOK
    <3> QED
      BY <1>1, <2>1, <3>1
  <2>3. CASE p = q
    <3>1. /\ phase[p] = "load" /\ phase'[p] \in {"failed", "walk", "built"}
          /\ phase'[p] = "walk" => table /= None /\ cache'[p] = Loaded(table)
      BY <1>0, <1>5, <2>3 DEF Load, Goto, IngestTypeOK
    <3>2. pc[p] = "idle" /\ todo[p] = {} /\ fresh[p] = Empty /\ present[p] = {}
      BY <3>1 DEF CalmInv, IdleInv
    <3>3. lock /= p /\ unsaved[p] = {}
      BY <1>0, <3>1, <3>2 DEF SnapshotInv, LockInv, SavingInv, NoneIsApart
    <3>4. \A f \in Files : WalkedFile(p, f)' /\ SavedFile(p, f)'
      BY <2>1, <3>1, <3>2, <3>3 DEF WalkedFile, SavedFile, Empty
    <3> QED
      BY <2>1, <3>1, <3>4 DEF Calm, Loaded
  <2> QED
    BY <2>2, <2>3
<1>6. ASSUME NEW q \in Walkers, BeginWalk(q) \/ Walk(q) PROVE Calm(p)'
  <2>1. CASE p = q
    BY <1>6, <2>1, CalmBegins, CalmWalks
  <2>2. CASE p /= q
    <3>1. /\ UNCHANGED <<disk, cache, storeVars>>
          /\ pc'[p] = pc[p] /\ todo'[p] = todo[p] /\ fresh'[p] = fresh[p]
          /\ present'[p] = present[p] /\ stamp'[p] = stamp[p]
      BY <1>0, <1>6, <2>2 DEF BeginWalk, BeginIngest, Walk, IngestStep, StatVanished, StatReuse,
         StatChanged, ReadParsed, ReadSkipped, IngestTypeOK
    <3> QED
      BY <1>1, <3>1 DEF storeVars
  <2> QED
    BY <2>1, <2>2
<1>7. ASSUME NEW q \in Walkers, BeginSave(q) PROVE Calm(p)'
  <2>1. /\ UNCHANGED <<disk, cache, stamp, todo, fresh, present, table, lock, txn, calm>>
        /\ phase[q] = "walk" /\ phase'[q] = "save" /\ pc[q] = "stat" /\ pc'[q] = "walked"
        /\ unsaved'[q] = {f \in Files : fresh[q][f] /= None}
        /\ p /= q => pc'[p] = pc[p] /\ phase'[p] = phase[p] /\ unsaved'[p] = unsaved[p]
    BY <1>0, <1>7 DEF BeginSave, Returned, Goto, walkVars, IngestTypeOK
  <2>2. CASE p /= q
    BY <1>1, <2>1, <2>2
  <2>3. CASE p = q
    <3>1. lock /= p
      BY <1>0, <2>1, <2>3 DEF SnapshotInv, LockInv, NoneIsApart
    <3>2. ASSUME calm[p], NEW f \in Files PROVE WalkedFile(p, f)' /\ SavedFile(p, f)'
      <4>1. WalkedFile(p, f)
        BY <1>0, <2>1, <2>3, <3>2 DEF Calm
      <4> QED
        BY <2>1, <2>3, <3>1, <4>1 DEF WalkedFile, SavedFile, Matches
    <3>3. Loaded(table)' = Loaded(table)
      BY <2>1 DEF Loaded
    <3> QED
      BY <1>0, <2>1, <2>3, <3>2, <3>3 DEF Calm
  <2> QED
    BY <2>2, <2>3
<1>8. ASSUME NEW q \in Walkers, End(q) PROVE Calm(p)'
  <2>1. Reset(q)
    BY <1>8, EndIsReset
  <2>2. CASE p = q
    BY <1>0, <2>1, <2>2 DEF Reset, Calm
  <2>3. CASE p /= q
    <3>1. /\ disk' = disk /\ pc'[p] = pc[p] /\ todo'[p] = todo[p] /\ fresh'[p] = fresh[p]
          /\ present'[p] = present[p] /\ cache'[p] = cache[p] /\ stamp'[p] = stamp[p]
          /\ phase'[p] = phase[p] /\ unsaved'[p] = unsaved[p]
      BY <1>0, <2>1, <2>3 DEF Reset, Discard, IngestTypeOK
    <3>2. /\ lock' = p <=> lock = p
          /\ calm'[p] => calm[p] /\ table' = table /\ txn' = txn
      BY <1>8, <2>3, EndIsReset, ReleaseDisturbs
    <3> QED
      BY <1>1, <3>1, <3>2
  <2> QED
    BY <2>2, <2>3
<1> QED
  BY <1>2, <1>3, <1>4, <1>5, <1>6, <1>7, <1>8, NextIsOneOf

(***************************************************************************)
(* A build that no edit and no other commit disturbs leaves exactly the    *)
(* rows of the files there are, whatever it reused and whatever it wrote.  *)
(***************************************************************************)
THEOREM UndisturbedIsExact ==
    ASSUME FineClock, NoneIsApart
    PROVE  Spec => UndisturbedExact
<1> DEFINE Exact == \A p \in Walkers : Close(p) /\ calm[p] => CloseExact(p)
<1>1. Init => RowsInv /\ SavesWalked /\ CalmInv
  BY RowsInit DEF Init, WalkInit, SavesWalked, CalmInv, IdleInv, Calm
<1>2. SnapshotInv /\ RowsInv /\ SavesWalked /\ CalmInv /\ [Next]_vars
          => RowsInv' /\ SavesWalked' /\ CalmInv'
  BY RowsStep, SavesWalkedStep, CalmStep
<1>3. SnapshotInv /\ SavesWalked /\ CalmInv => [Exact]_vars
  <2> SUFFICES ASSUME SnapshotInv, SavesWalked, CalmInv,
                      NEW p \in Walkers, Close(p), calm[p], NEW f \in Files
               PROVE  /\ disk[f] = None => table'[f] = None
                      /\ Product(disk[f]) /= None =>
                            /\ table'[f] /= None
                            /\ table'[f].stamp = StampOf(disk[f])
                            /\ table'[f].file = Product(disk[f])
    BY DEF CloseExact
  <2>1. /\ phase[p] = "save" /\ pc[p] = "walked" /\ todo[p] = {} /\ unsaved[p] = {}
        /\ lock = p \/ Pruned(p) = {}
    BY DEF Close, Goto, SavesWalked
  <2>2. /\ table /= None /\ cache[p] = Loaded(table)
        /\ WalkedFile(p, f) /\ SavedFile(p, f)
    BY <2>1 DEF CalmInv, Calm
  <2> DEFINE row == IF fresh[p][f] /= None THEN ToRow(p, f) ELSE table[f]
  <2>3. table'[f] = IF f \in Pruned(p) THEN None ELSE row
    <3>1. CASE lock = p
      BY <2>1, <2>2, <3>1 DEF Close, Release, SavedFile
    <3>2. CASE lock /= p
      BY <2>1, <2>2, <3>2 DEF Close, Release, SavedFile
    <3> QED
      BY <3>1, <3>2
  <2>4. table[f] \in Row \cup {None}
    BY <2>2 DEF SnapshotInv, SnapshotTypeOK, Table
  <2>5. cache[p][f] = IF table[f] = None THEN None
                      ELSE [stamp |-> table[f].stamp, file |-> table[f].file]
    BY <2>2 DEF Loaded
  <2>6. f \in Pruned(p) <=> table[f] /= None /\ disk[f] = None
    <3>1. cache[p][f] = None <=> table[f] = None
      BY <2>4, <2>5 DEF Row, CachedFile, NoneIsApart
    <3>2. f \in present[p] <=> disk[f] /= None
      BY <2>1, <2>2 DEF WalkedFile
    <3> QED
      BY <3>1, <3>2 DEF Pruned
  <2>7. CASE fresh[p][f] /= None
    <3>1. Matches(fresh[p][f], f)
      BY <2>2, <2>7 DEF WalkedFile
    <3>2. fresh[p][f] \in CachedFile
      BY <2>7 DEF SnapshotInv, SnapshotTypeOK, IngestTypeOK, Cache
    <3>3. ToRow(p, f) \in Row
      BY <3>2 DEF ToRow, Row, CachedFile
    <3> QED
      BY <2>3, <2>6, <2>7, <3>1, <3>2, <3>3 DEF ToRow, Matches, NoneIsApart, Product, CachedFile
  <2>8. CASE fresh[p][f] = None
    <3>1. Product(disk[f]) /= None => Matches(cache[p][f], f)
      BY <2>1, <2>2, <2>8 DEF WalkedFile, Matches
    <3>2. table'[f] = IF disk[f] = None THEN None ELSE table[f]
      BY <2>3, <2>6, <2>8
    <3> QED
      BY <2>5, <3>1, <3>2 DEF Matches, Product
  <2> QED
    BY <2>7, <2>8
<1> QED
  BY <1>1, <1>2, <1>3, SnapshotInvAlways, PTL DEF Spec, UndisturbedExact

=============================================================================
