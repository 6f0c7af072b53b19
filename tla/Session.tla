------------------------------ MODULE Session -------------------------------
(***************************************************************************)
(* The MCP server process: IndexSession (index.py), run_watcher            *)
(* (watch/watcher.py) and main (server/__main__.py).                       *)
(*                                                                         *)
(* The process loads the snapshot, builds a first index, registers the     *)
(* file watcher in a second thread and serves queries from `current`.  The *)
(* watcher thread patches the session once per batch of changes; changes   *)
(* that arrive during a patch are kept for the next batch.                 *)
(***************************************************************************)
EXTENDS Ingest

CONSTANTS
    Self,         \* the session, the one walker of this module
    EarlyEdits    \* TRUE: files may change between the first walk and watch()

ASSUME SessionAssumption ==
    /\ Walkers = {Self}
    /\ EarlyEdits \in BOOLEAN

VARIABLES
    server,     \* "off", "loaded", "building" or "serving"
    watcher,    \* the watcher thread: "none", "live" or "dead"
    changed,    \* watchfiles holds changes it has not yielded yet
    current,    \* session.current: the view of the published index
    snap        \* the rows of the snapshot the process loads

sessionVars == <<server, watcher, changed, current, snap>>
vars == <<ingestVars, sessionVars>>

SessionTypeOK ==
    /\ IngestTypeOK
    /\ server \in {"off", "loaded", "building", "serving"}
    /\ watcher \in {"none", "live", "dead"}
    /\ changed \in BOOLEAN
    /\ current \in View
    /\ snap \in Cache

-----------------------------------------------------------------------------
\* Nothing on disk, and no row of the snapshot, is from the future.
NodesOf(now) == [text : Texts, mtime : 0..now]
RowsOf(now) == [stamp : {<<m, Size[t]>> : m \in 0..now, t \in Texts},
                file : Texts \ (Broken \cup Raising)]

Init ==
    /\ WalkInit
    /\ clock = 0
    /\ disk \in [Files -> NodesOf(clock) \cup {None}]
    /\ snap \in [Files -> RowsOf(clock) \cup {None}]
    /\ \A f \in Files : Honest(snap[f], disk[f])
    /\ server = "off" /\ watcher = "none"
    /\ changed = FALSE
    /\ current = Empty

-----------------------------------------------------------------------------
\* An edit under the root.  A registered watcher learns of it.
StartingUp == \/ server = "building"
              \/ server = "serving" /\ watcher = "none"

Notify ==
    /\ EarlyEdits \/ ~StartingUp
    /\ changed' = (changed \/ watcher = "live")
    /\ UNCHANGED <<server, watcher, current, snap>>

Edit(f) == (\E t \in Texts : Write(f, t)) /\ Notify

Delete(f) == Remove(f) /\ Notify

-----------------------------------------------------------------------------
\* IndexSession.__init__

LoadSnapshot ==
    /\ server = "off"
    /\ server' = "loaded"
    /\ cache' = [cache EXCEPT ![Self] = snap]
    /\ UNCHANGED <<disk, clock, pc, seen, walkVars>>
    /\ UNCHANGED <<watcher, changed, current, snap>>

FirstBuild ==
    /\ server = "loaded"
    /\ server' = "building"
    /\ BeginIngest(Self)
    /\ UNCHANGED <<watcher, changed, current, snap>>

\* _rebuild.  Walk is the loop of ingest_project; Refold drops the entries of
\* deleted files from the cache and folds in the fresh ones.

Walk == IngestStep(Self) /\ UNCHANGED sessionVars

Folded(w) ==
    [f \in Files |-> IF fresh[w][f] /= None THEN fresh[w][f]
                     ELSE IF f \in present[w] THEN cache[w][f] ELSE None]

Refold ==
    /\ Returned(Self)
    /\ pc' = [pc EXCEPT ![Self] = "walked"]
    /\ cache' = [cache EXCEPT ![Self] = Folded(Self)]
    /\ UNCHANGED <<disk, clock, seen, walkVars, sessionVars>>

\* A mutant of Publish: the changes that came in during the patch are dropped.
PublishDropping ==
    /\ pc[Self] = "walked"
    /\ current' = files[Self]
    /\ server' = "serving"
    /\ changed' = FALSE
    /\ Discard(Self)
    /\ UNCHANGED <<disk, clock, cache, watcher, snap>>

\* A mutant of Publish: a file that is no longer there keeps its old product.
PublishMerging ==
    /\ pc[Self] = "walked"
    /\ current' = [f \in Files |-> IF files[Self][f] = None THEN current[f] ELSE files[Self][f]]
    /\ server' = "serving"
    /\ Discard(Self)
    /\ UNCHANGED <<disk, clock, cache, watcher, changed, snap>>

\* _assemble has built the graph of files[Self]; the assignment to `current`
\* publishes it.
Publish ==
    /\ pc[Self] = "walked"
    /\ current' = files[Self]
    /\ server' = "serving"
    /\ Discard(Self)
    /\ UNCHANGED <<disk, clock, cache, watcher, changed, snap>>

\* A file makes the ingest raise.  The first build takes the process with it;
\* a patch takes only the watcher thread, and the server goes on serving.
PatchRaises ==
    /\ \E f \in Files : ReadRaises(Self, f)
    /\ server' = IF server = "building" THEN "off" ELSE server
    /\ watcher' = IF server = "building" THEN "none" ELSE "dead"
    /\ UNCHANGED <<changed, current, snap>>

-----------------------------------------------------------------------------
\* run_watcher

RegisterWatch ==
    /\ server = "serving" /\ watcher = "none"
    /\ watcher' = "live"
    /\ changed' = FALSE
    /\ UNCHANGED <<ingestVars, server, current, snap>>

\* watch() yields what it holds and session.patch() begins.
WatchBatch ==
    /\ watcher = "live" /\ changed
    /\ BeginIngest(Self)
    /\ changed' = FALSE
    /\ UNCHANGED <<server, watcher, current, snap>>

\* The process ends, whatever it was doing, and may be started again.  Only
\* the disk and the snapshot, which a session never writes, survive it.
Stop ==
    /\ server /= "off"
    /\ server' = "off" /\ watcher' = "none"
    /\ changed' = FALSE
    /\ current' = Empty
    /\ cache' = [cache EXCEPT ![Self] = Empty]
    /\ Discard(Self)
    /\ UNCHANGED <<disk, clock, snap>>

System == \/ FirstBuild \/ Walk \/ Refold \/ Publish \/ PatchRaises
          \/ RegisterWatch \/ WatchBatch

Next ==
    \/ \E f \in Files : Edit(f) \/ Delete(f)
    \/ LoadSnapshot
    \/ System
    \/ Stop

Spec == Init /\ [][Next]_vars

\* Both threads run to the end of what they have begun; nothing obliges the
\* editor to edit, or anybody to start or stop the process.
FairSpec == Spec /\ WF_vars(System)

-----------------------------------------------------------------------------
(* Properties *)

\* A cache entry whose stamp matches the file on disk holds that file's
\* product, however the edits fell between the stat and the read that made the
\* entry: reusing it is as good as reparsing.
CacheHonest ==
    \A w \in Walkers, f \in Files :
        Honest(cache[w][f], disk[f]) /\ Honest(fresh[w][f], disk[f])

\* While the watcher is live, holds no change and no patch is running, the
\* served index is that of the files as they are: no edit, deletion or syntax
\* error was lost, whatever it raced with.
QuiescentFresh ==
    watcher = "live" /\ ~changed /\ pc[Self] = "idle" => current = DiskView

\* An index is only ever replaced by one whose every file had the indexed
\* content at some time since the patch began: no file goes back in time.
PublishesRecent ==
    [][Publish => \A f \in Files : current'[f] \in seen[Self][f]]_vars

\* Queries are answered as IndexService has it: from whole views, each of files
\* as they were while it was made, and of the files as they are when nothing is
\* pending.  A change is pending until the watcher hands it to a patch, and for
\* as long as there is no watcher.
Service == INSTANCE IndexService WITH
    Products <- Texts,
    content <- DiskView,
    served <- current,
    refreshing <- pc[Self] /= "idle",
    window <- seen[Self],
    behind <- ~(watcher = "live" /\ ~changed)

ImplementsService == Service!Spec

\* If the server is left running and its watcher does not die, the served index
\* ends up being that of the files on disk.
EventuallyFresh ==
    <>[](watcher = "live") => <>[](current = DiskView)

\* The same, whatever becomes of the watcher: watch/__init__.py:4-5 has the
\* watcher keep the index such that "a query is never stale, even in the edit ->
\* query tightloop".
NeverStaleForGood ==
    <>[](server = "serving") => <>[](current = DiskView)

=============================================================================
