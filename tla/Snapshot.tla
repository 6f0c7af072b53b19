------------------------------ MODULE Snapshot ------------------------------
(***************************************************************************)
(* The SQLite snapshot (store/sqlite.py) shared by the processes that work *)
(* on one repository: one-shot builds (Index.build, index.py) that load    *)
(* it, walk the tree and write back, and sessions that only load it.       *)
(*                                                                         *)
(* Every statement of _ensure_schema commits by itself (executescript runs *)
(* outside a transaction).  The first INSERT of a build opens its one      *)
(* transaction and takes SQLite's write lock, for which the statements of  *)
(* other processes wait.                                                   *)
(***************************************************************************)
EXTENDS Ingest

CONSTANTS
    Sessions,       \* the processes that are sessions; the others are builds
    Code,           \* the _SCHEMA_VERSION a process was built with
    FirstVersion    \* user_version of the database as it is found

ASSUME SnapshotAssumption ==
    /\ Sessions \subseteq Walkers
    /\ Code \in [Walkers -> Nat]
    /\ FirstVersion \in Nat

VARIABLES
    version,    \* PRAGMA user_version
    table,      \* the committed rows of `files`; None when there is no table
    lock,       \* the process that holds the write lock, or None
    txn,        \* the rows as the lock holder's transaction sees them
    unsaved,    \* the fresh products a build has still to upsert
    phase,      \* where in Index.build or IndexSession.__init__ a process is
    calm        \* history: nothing was edited or committed since p's load

storeVars == <<version, table, lock, txn, unsaved, phase, calm>>
vars == <<ingestVars, storeVars>>

Row == [stamp : FileStamp, file : Texts, schema : Nat]
Table == [Files -> Row \cup {None}]
Phases == {"closed", "open", "drop", "create", "stamp", "load", "walk",
           "save", "built", "failed"}

SnapshotTypeOK ==
    /\ IngestTypeOK
    /\ version \in Nat
    /\ table \in Table \cup {None}
    /\ lock \in Walkers \cup {None}
    /\ txn \in Table
    /\ unsaved \in [Walkers -> SUBSET Files]
    /\ phase \in [Walkers -> Phases]
    /\ calm \in [Walkers -> BOOLEAN]

\* A database that was never opened has version 0 and no table; another holds
\* rows of its version for some of the files that parse.
Init ==
    /\ WalkInit
    /\ clock = 0
    /\ disk \in [Files -> {[text |-> t, mtime |-> 0] : t \in Texts} \cup {None}]
    /\ version = FirstVersion
    /\ IF FirstVersion = 0 THEN table = None
       ELSE \E kept \in SUBSET {f \in Files : Product(disk[f]) /= None} :
               table = [f \in Files |->
                          IF f \in kept
                          THEN [stamp |-> StampOf(disk[f]),
                                file |-> disk[f].text, schema |-> FirstVersion]
                          ELSE None]
    /\ lock = None
    /\ txn = Empty
    /\ unsaved = [p \in Walkers |-> {}]
    /\ phase = [p \in Walkers |-> "closed"]
    /\ calm = [p \in Walkers |-> FALSE]

Goto(p, from, to) ==
    /\ phase[p] = from
    /\ phase' = [phase EXCEPT ![p] = to]

-----------------------------------------------------------------------------
\* SqliteStore.__init__.  A statement that writes waits for the lock.

Connect(p) ==
    /\ Goto(p, "closed", "open")
    /\ UNCHANGED <<ingestVars, version, table, lock, txn, unsaved, calm>>

\* Mutants of ReadVersion: the table is recreated on every start; a bump keeps
\* the rows of the old version.
ReadVersionRecreating(p) ==
    /\ Goto(p, "open", "drop")
    /\ UNCHANGED <<ingestVars, version, table, lock, txn, unsaved, calm>>
ReadVersionKeeping(p) ==
    /\ Goto(p, "open", IF version = Code[p] THEN "load" ELSE "stamp")
    /\ UNCHANGED <<ingestVars, version, table, lock, txn, unsaved, calm>>

ReadVersion(p) ==
    /\ Goto(p, "open", IF version = Code[p] THEN "load" ELSE "drop")
    /\ UNCHANGED <<ingestVars, version, table, lock, txn, unsaved, calm>>

DropTable(p) ==
    /\ lock = None
    /\ Goto(p, "drop", "create")
    /\ table' = None
    /\ calm' = [q \in Walkers |-> FALSE]
    /\ UNCHANGED <<ingestVars, version, lock, txn, unsaved>>

\* CREATE TABLE raises when there is a table.
CreateTable(p) ==
    /\ lock = None
    /\ Goto(p, "create", IF table = None THEN "stamp" ELSE "failed")
    /\ table' = IF table = None THEN Empty ELSE table
    /\ UNCHANGED <<ingestVars, version, lock, txn, unsaved, calm>>

SetVersion(p) ==
    /\ lock = None
    /\ Goto(p, "stamp", "load")
    /\ version' = Code[p]
    /\ UNCHANGED <<ingestVars, table, lock, txn, unsaved, calm>>

-----------------------------------------------------------------------------
Loaded(rows) ==
    [f \in Files |-> IF rows[f] = None THEN None
                     ELSE [stamp |-> rows[f].stamp, file |-> rows[f].file]]

\* load() raises when there is no table.
Load(p) ==
    /\ Goto(p, "load", IF table = None THEN "failed"
                       ELSE IF p \in Sessions THEN "built" ELSE "walk")
    /\ cache' = IF table = None THEN cache
                ELSE [cache EXCEPT ![p] = Loaded(table)]
    /\ calm' = [calm EXCEPT ![p] = TRUE]
    /\ UNCHANGED <<disk, clock, pc, seen, walkVars>>
    /\ UNCHANGED <<version, table, lock, txn, unsaved>>

BeginWalk(p) ==
    /\ phase[p] = "walk"
    /\ BeginIngest(p)
    /\ UNCHANGED storeVars

Walk(p) == IngestStep(p) /\ UNCHANGED storeVars

\* Index.build after ingest_project: upsert what is fresh, prune what is gone,
\* commit and close.

ToRow(p, f) == [stamp |-> fresh[p][f].stamp, file |-> fresh[p][f].file,
                schema |-> Code[p]]
PrunedNone(p) == {}     \* a mutant of Pruned
Pruned(p) == {f \in Files : cache[p][f] /= None /\ f \notin present[p]}

BeginSave(p) ==
    /\ Goto(p, "walk", "save")
    /\ Returned(p)
    /\ pc' = [pc EXCEPT ![p] = "walked"]
    /\ unsaved' = [unsaved EXCEPT ![p] = {f \in Files : fresh[p][f] /= None}]
    /\ UNCHANGED <<disk, clock, cache, seen, walkVars>>
    /\ UNCHANGED <<version, table, lock, txn, calm>>

\* The first statement that writes takes the lock, and raises when another
\* process has dropped the table.
BeginWrite(p) ==
    /\ phase[p] = "save" /\ lock = None
    /\ unsaved[p] /= {} \/ Pruned(p) /= {}
    /\ IF table = None
       THEN Goto(p, "save", "failed") /\ UNCHANGED <<lock, txn>>
       ELSE lock' = p /\ txn' = table /\ UNCHANGED phase
    /\ UNCHANGED <<ingestVars, version, table, unsaved, calm>>

Upsert(p, f) ==
    /\ lock = p
    /\ f \in unsaved[p] /\ \A g \in unsaved[p] : f =< g
    /\ txn' = [txn EXCEPT ![f] = ToRow(p, f)]
    /\ unsaved' = [unsaved EXCEPT ![p] = @ \ {f}]
    /\ UNCHANGED <<ingestVars, version, table, lock, phase, calm>>

\* p's transaction, if it has one, ends with these rows committed.
Release(p, rows) ==
    IF lock = p
    THEN /\ table' = rows
         /\ lock' = None
         /\ txn' = Empty
         /\ calm' = [q \in Walkers |-> q = p /\ calm[p]]
    ELSE UNCHANGED <<table, lock, txn, calm>>

Close(p) ==
    /\ Goto(p, "save", "built")
    /\ unsaved[p] = {}
    /\ lock = p \/ Pruned(p) = {}
    /\ Release(p, [f \in Files |-> IF f \in Pruned(p) THEN None ELSE txn[f]])
    /\ UNCHANGED <<ingestVars, version, unsaved>>

-----------------------------------------------------------------------------
\* The process is over: the answer is printed, or the traceback.
Reset(p) ==
    /\ phase' = [phase EXCEPT ![p] = "closed"]
    /\ unsaved' = [unsaved EXCEPT ![p] = {}]
    /\ cache' = [cache EXCEPT ![p] = Empty]
    /\ Discard(p)
    /\ UNCHANGED <<disk, clock, version>>

Exit(p) ==
    /\ phase[p] \in {"built", "failed"}
    /\ Reset(p)
    /\ UNCHANGED <<table, lock, txn, calm>>

\* KeyboardInterrupt, or an exception of a statement: the finally clause closes
\* the store, and so commits the upserts made so far.  (Before the first of
\* them the effect is Kill's.)
Interrupt(p) ==
    /\ phase[p] = "save" /\ lock = p
    /\ Reset(p)
    /\ Release(p, txn)

\* The process is killed: SQLite rolls its transaction back.
Kill(p) ==
    /\ phase[p] \notin {"closed", "built", "failed"}
    /\ Reset(p)
    /\ Release(p, table)

Editing ==
    /\ \E f \in Files : Remove(f) \/ \E t \in Texts : Write(f, t)
    /\ calm' = [p \in Walkers |-> FALSE]
    /\ UNCHANGED <<version, table, lock, txn, unsaved, phase>>

Next ==
    \/ Editing
    \/ \E p \in Walkers :
        \/ Connect(p) \/ ReadVersion(p) \/ DropTable(p) \/ CreateTable(p)
        \/ SetVersion(p) \/ Load(p) \/ BeginWalk(p) \/ Walk(p)
        \/ BeginSave(p) \/ BeginWrite(p) \/ (\E f \in Files : Upsert(p, f))
        \/ Close(p) \/ Exit(p) \/ Interrupt(p) \/ Kill(p)

Spec == Init /\ [][Next]_vars

-----------------------------------------------------------------------------
(* Properties *)

\* Whatever builds overlap, are interrupted half way through their upserts or
\* are killed, a committed row whose stamp is the file's holds its product.
RowsHonest ==
    table /= None => \A f \in Files : Honest(table[f], disk[f])

\* "Warm equals cold": a build's products are ones the files had while it ran,
\* whatever the snapshot it was given.
WarmIsCold ==
    \A p \in Walkers \ Sessions :
        phase[p] = "built" =>
            \A f \in Files : files[p][f] \in seen[p][f]

\* Processes on one repository do not make each other's statements fail
\* (sqlite.py:5: "WAL + a busy timeout keep the rare two-sessions-on-one-repo
\* case from erroring").
NoStoreError == \A p \in Walkers : phase[p] /= "failed"

\* The rows of a database are of the schema its version says (sqlite.py:17-18:
\* "a bump discards stale caches").
RowsOfVersion ==
    table /= None =>
        \A f \in Files : table[f] /= None => table[f].schema = version

\* A build that no edit and no other commit disturbs between its load and its
\* close leaves the rows of the files there are, up to date, and none of a file
\* that is gone.
CloseExact(p) ==
    \A f \in Files :
        /\ disk[f] = None => table'[f] = None
        /\ Product(disk[f]) /= None =>
              /\ table'[f] /= None
              /\ table'[f].stamp = StampOf(disk[f])
              /\ table'[f].file = Product(disk[f])

UndisturbedExact ==
    [][\A p \in Walkers : Close(p) /\ calm[p] => CloseExact(p)]_vars

=============================================================================
