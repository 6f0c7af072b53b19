------------------------------- MODULE Ingest -------------------------------
(***************************************************************************)
(* ingest_project (ingest/project.py), run by a set of walkers over a      *)
(* source tree that is edited while they run.  A walk lists the tree once, *)
(* then takes the listed paths in sorted order: it stats a path, reuses    *)
(* the cached product when the stamp is unchanged, and otherwise reads and *)
(* parses the file in a later step.  An edit may fall between any two of   *)
(* those steps.                                                            *)
(*                                                                         *)
(* A parse product (FileIndex) is identified with the text it was parsed   *)
(* from; None stands for an absent file, an absent dictionary entry and    *)
(* the product of a file that does not parse.                              *)
(*                                                                         *)
(* The module defines steps, not a specification: Session and Snapshot     *)
(* extend it with the callers of ingest_project.                           *)
(***************************************************************************)
EXTENDS Naturals

CONSTANTS
    Files,      \* source paths, each named by its rank in the sorted walk
    Texts,      \* what a source file may contain
    Size,       \* the st_size of a text
    Broken,     \* texts that are skipped: ast.parse raises SyntaxError
    Raising,    \* texts whose extraction raises anything else
    Walkers,    \* the threads or processes that call ingest_project
    MaxClock,   \* bound on the clock, and so on the number of edits
    FineClock,  \* TRUE: no two edits share an mtime
    None

ASSUME IngestAssumption ==
    /\ Files \subseteq Nat
    /\ Size \in [Texts -> Nat]
    /\ Broken \subseteq Texts /\ Raising \subseteq Texts
    /\ Broken \cap Raising = {}
    /\ MaxClock \in Nat
    /\ FineClock \in BOOLEAN
    /\ None \notin Texts

VARIABLES
    disk,       \* the source tree: a node per path, None where there is no file
    clock,      \* the clock that st_mtime_ns is read from
    pc,         \* where each walker is: "idle", "stat", "read" or "walked"
    todo,       \* the listed paths a walker has not dealt with yet
    stamp,      \* the stamp a walker took of the path it is about to read
    cache,      \* the cache a walker was given
    files,      \* ProjectIngest.files, by path
    fresh,      \* ProjectIngest.fresh
    present,    \* ProjectIngest.present
    seen        \* history: the products each path has had since the walk began

walkVars == <<todo, stamp, files, fresh, present>>
ingestVars == <<disk, clock, pc, cache, seen, walkVars>>

-----------------------------------------------------------------------------
Node == [text : Texts, mtime : Nat]
FileStamp == Nat \X Nat
CachedFile == [stamp : FileStamp, file : Texts]
Cache == [Files -> CachedFile \cup {None}]
View == [Files -> Texts \cup {None}]    \* the products an index is built from

Empty == [f \in Files |-> None]

StampOfSize(n) == <<0, Size[n.text]>>     \* mutants of StampOf
StampOfTime(n) == <<n.mtime>>

StampOf(n) == <<n.mtime, Size[n.text]>>

\* ingest_file: the product of a file, None when there is none.
Product(n) == IF n = None THEN None
              ELSE IF n.text \in Broken \cup Raising THEN None ELSE n.text

\* An entry is honest when its stamp, if it is the file's stamp now, vouches
\* for the file's product now.
Honest(entry, node) ==
    entry /= None /\ node /= None =>
        (entry.stamp = StampOf(node) => entry.file = Product(node))

DiskView == [f \in Files |-> Product(disk[f])]

IngestTypeOK ==
    /\ disk \in [Files -> Node \cup {None}]
    /\ clock \in Nat
    /\ pc \in [Walkers -> {"idle", "stat", "read", "walked"}]
    /\ todo \in [Walkers -> SUBSET Files]
    /\ stamp \in [Walkers -> FileStamp]
    /\ cache \in [Walkers -> Cache]
    /\ files \in [Walkers -> View]
    /\ fresh \in [Walkers -> Cache]
    /\ present \in [Walkers -> SUBSET Files]
    /\ seen \in [Walkers -> [Files -> SUBSET (Texts \cup {None})]]

WalkInit ==
    /\ pc = [w \in Walkers |-> "idle"]
    /\ todo = [w \in Walkers |-> {}]
    /\ stamp = [w \in Walkers |-> <<0, 0>>]
    /\ cache = [w \in Walkers |-> Empty]
    /\ files = [w \in Walkers |-> Empty]
    /\ fresh = [w \in Walkers |-> Empty]
    /\ present = [w \in Walkers |-> {}]
    /\ seen = [w \in Walkers |-> [f \in Files |-> {}]]

-----------------------------------------------------------------------------
\* The editor.  A write takes the clock's value as its mtime; under FineClock
\* the clock has moved since the last write, otherwise it need not have.

Change(f, node) ==
    /\ disk' = [disk EXCEPT ![f] = node]
    /\ seen' = [w \in Walkers |->
                   IF pc[w] = "idle" THEN seen[w]
                   ELSE [seen[w] EXCEPT ![f] = @ \cup {Product(node)}]]
    /\ UNCHANGED <<pc, cache, walkVars>>

Write(f, t) ==
    \E now \in {clock, clock + 1} :
        /\ now =< MaxClock
        /\ FineClock => now > clock
        /\ clock' = now
        /\ Change(f, [text |-> t, mtime |-> now])

Remove(f) ==
    /\ disk[f] /= None
    /\ Change(f, None)
    /\ UNCHANGED clock

-----------------------------------------------------------------------------
\* ingest_project, called by w with the cache that cache[w] holds.

BeginIngest(w) ==
    /\ pc[w] = "idle"
    /\ pc' = [pc EXCEPT ![w] = "stat"]
    /\ todo' = [todo EXCEPT ![w] = {f \in Files : disk[f] /= None}]
    /\ seen' = [seen EXCEPT ![w] = [f \in Files |-> {Product(disk[f])}]]
    /\ UNCHANGED <<disk, clock, cache, stamp, files, fresh, present>>

\* f is the path the loop has come to: iter_source_files yields them sorted.
AtFile(w, f) ==
    /\ f \in todo[w]
    /\ \A g \in todo[w] : f =< g

Unchanged(w, f) ==
    /\ cache[w][f] /= None
    /\ cache[w][f].stamp = StampOf(disk[f])

\* path.stat() raises OSError: vanished between walk and stat.
StatVanished(w, f) ==
    /\ pc[w] = "stat" /\ AtFile(w, f)
    /\ disk[f] = None
    /\ todo' = [todo EXCEPT ![w] = @ \ {f}]
    /\ UNCHANGED <<disk, clock, pc, cache, seen, stamp, files, fresh, present>>

\* The stamp is the cached one: the product is reused without a reparse.
StatReuse(w, f) ==
    /\ pc[w] = "stat" /\ AtFile(w, f)
    /\ disk[f] /= None
    /\ Unchanged(w, f)
    /\ present' = [present EXCEPT ![w] = @ \cup {f}]
    /\ files' = [files EXCEPT ![w][f] = cache[w][f].file]
    /\ todo' = [todo EXCEPT ![w] = @ \ {f}]
    /\ UNCHANGED <<disk, clock, pc, cache, seen, stamp, fresh>>

StatChanged(w, f) ==
    /\ pc[w] = "stat" /\ AtFile(w, f)
    /\ disk[f] /= None
    /\ ~Unchanged(w, f)
    /\ present' = [present EXCEPT ![w] = @ \cup {f}]
    /\ stamp' = [stamp EXCEPT ![w] = StampOf(disk[f])]
    /\ pc' = [pc EXCEPT ![w] = "read"]
    /\ UNCHANGED <<disk, clock, cache, seen, todo, files, fresh>>

\* The entry pairs the stamp of the earlier stat with the text read now.
ReadParsed(w, f) ==
    /\ pc[w] = "read" /\ AtFile(w, f)
    /\ Product(disk[f]) /= None
    /\ files' = [files EXCEPT ![w][f] = Product(disk[f])]
    /\ fresh' = [fresh EXCEPT ![w][f] =
                    [stamp |-> stamp[w], file |-> Product(disk[f])]]
    /\ todo' = [todo EXCEPT ![w] = @ \ {f}]
    /\ pc' = [pc EXCEPT ![w] = "stat"]
    /\ stamp' = [stamp EXCEPT ![w] = <<0, 0>>]
    /\ UNCHANGED <<disk, clock, cache, seen, present>>

\* read_bytes raises OSError or the parse SyntaxError: ingest_file returns None.
ReadSkipped(w, f) ==
    /\ pc[w] = "read" /\ AtFile(w, f)
    /\ disk[f] /= None => disk[f].text \in Broken
    /\ todo' = [todo EXCEPT ![w] = @ \ {f}]
    /\ pc' = [pc EXCEPT ![w] = "stat"]
    /\ stamp' = [stamp EXCEPT ![w] = <<0, 0>>]
    /\ UNCHANGED <<disk, clock, cache, seen, files, fresh, present>>

\* The walk's locals die with the frame, whatever it is that ends.
Discard(w) ==
    /\ pc' = [pc EXCEPT ![w] = "idle"]
    /\ todo' = [todo EXCEPT ![w] = {}]
    /\ stamp' = [stamp EXCEPT ![w] = <<0, 0>>]
    /\ files' = [files EXCEPT ![w] = Empty]
    /\ fresh' = [fresh EXCEPT ![w] = Empty]
    /\ present' = [present EXCEPT ![w] = {}]
    /\ seen' = [seen EXCEPT ![w] = [f \in Files |-> {}]]

\* Any other exception leaves ingest_project with no result.
ReadRaises(w, f) ==
    /\ pc[w] = "read" /\ AtFile(w, f)
    /\ disk[f] /= None
    /\ disk[f].text \in Raising
    /\ Discard(w)
    /\ UNCHANGED <<disk, clock, cache>>

\* One step of the loop, other than one that raises.
IngestStep(w) ==
    \E f \in Files :
        \/ StatVanished(w, f)
        \/ StatReuse(w, f)
        \/ StatChanged(w, f)
        \/ ReadParsed(w, f)
        \/ ReadSkipped(w, f)

\* The loop is over and ingest_project returns.
Returned(w) == pc[w] = "stat" /\ todo[w] = {}

=============================================================================
